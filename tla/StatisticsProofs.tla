---------------------------- MODULE StatisticsProofs ----------------------------
(***************************************************************************)
(* What the handlers answer and what extract_sentiment stores, for all rows,    *)
(* times, scores, parameters and failures.                                 *)
(*                                                                         *)
(* The income: the loop of getTotalFBIncomeForDataPeriod never looks behind the  *)
(* end of its table, as the test after the index is used is what the next turn   *)
(* relies on; and over a table in order it charges each day once.               *)
(*                                                                         *)
(* The lists and the counts, while other jobs store and remove items and rows: a  *)
(* page ends where the next one begins, so the pages read so far have everything *)
(* above the key of the last item that was there throughout; and the rows counted *)
(* over all accounts cover those of one, but for those that came after that count. *)
(*                                                                         *)
(* The sentiment: the weeks that were asked follow one another, so that the       *)
(* counters have the scores of the current period and the mean of the one before  *)
(* it; and every period that is over is in the table, in the batch or on its way   *)
(* to it.                                                                  *)
(***************************************************************************)
EXTENDS FacebookIncome, ReadHandlers, SentimentJob, CalendarProofs, FiniteSetTheorems, FunctionTheorems


-----------------------------------------------------------------------------
(* The income. *)

\* The area of a country has a table.
LEMMA AreaHasTable ==
  ASSUME NEW country
  PROVE  /\ AreaOf(country) \in Areas
         /\ Quarters[AreaOf(country)] \in Seq([started : Int, ended : Int])
<1>1. AreaOf(country) \in Areas
  BY DEF AreaOf, Areas
<1> QED
  BY <1>1, QuarterAssumption

\* The times of a request and of the metadata are numbers.
LEMMA BoundsAreNumbers ==
  ASSUME NEW start \in Moment, NEW end \in Moment, NEW activity \in Activities
  PROVE  /\ (IF activity = <<>> THEN start ELSE Later(start, activity[1])) \in Int
         /\ (IF activity = <<>> THEN end ELSE Sooner(end, activity[2])) \in Int
<1>1. activity = <<>> \/ (activity[1] \in Int /\ activity[2] \in Int)
  BY MomentAssumption DEF Activities
<1> QED
  BY <1>1, MomentAssumption DEF Later, Sooner

\* While the loop runs it has a table, with a quarter to look at.
IncomeInv == IncomeTypeOK /\ QuarterInTable

LEMMA InitIncome == IncomeInit => IncomeInv
  BY DEF IncomeInit, IncomeInv, IncomeTypeOK, QuarterInTable, Areas

LEMMA AskIncome ==
  ASSUME IncomeInv,
         NEW start \in Moment, NEW end \in Moment, NEW activity \in Activities, NEW country \in Country,
         Ask(start, end, activity, country)
  PROVE  IncomeInv'
<1> DEFINE begin == IF activity = <<>> THEN start ELSE Later(start, activity[1])
<1> DEFINE finish == IF activity = <<>> THEN end ELSE Sooner(end, activity[2])
<1> DEFINE table == Quarters[AreaOf(country)]
<1>1. begin \in Int /\ finish \in Int
  BY BoundsAreNumbers
<1>2. AreaOf(country) \in Areas /\ table \in Seq([started : Int, ended : Int])
  BY AreaHasTable
<1>3. area' = AreaOf(country) /\ quarter' = 1 /\ Table' = table
  BY DEF Ask, Table
<1> HIDE DEF begin, finish, table
<1>4. CASE begin > finish \/ table = <<>>
  <2>1. stage' \in {"refused", "answered"} /\ from' = 0 /\ to' = 0 /\ first' = 0 /\ days' = <<>>
    BY <1>4 DEF Ask, begin, finish, table
  <2> QED
    BY <2>1, <1>2, <1>3 DEF IncomeInv, IncomeTypeOK, QuarterInTable
<1>5. CASE ~(begin > finish) /\ table # <<>>
  <2>1. /\ stage' = "loop" /\ to' = finish /\ first' = Later(begin, table[1].started) /\ from' = first'
        /\ days' = [q \in DOMAIN table |-> 0]
    BY <1>5 DEF Ask, begin, finish, table
  <2> DEFINE Quarter == [started : Int, ended : Int]
  <2>2. 1 \in DOMAIN table /\ table[1].started \in Int
    <3>1. table \in Seq(Quarter) /\ table # <<>>
      BY <1>2, <1>5
    <3> HIDE DEF Quarter
    <3>2. 1 \in DOMAIN table /\ table[1] \in Quarter
      BY <3>1
    <3> QED
      BY <3>2 DEF Quarter
  <2>3. first' \in Int /\ from' \in Int /\ to' \in Int
    BY <1>1, <2>1, <2>2 DEF Later
  <2>4. days' \in [DOMAIN table -> Nat] /\ DOMAIN days' = DOMAIN table
    BY <2>1
  <2> QED
    BY <1>2, <1>3, <2>1, <2>2, <2>3, <2>4 DEF IncomeInv, IncomeTypeOK, QuarterInTable
<1> QED
  BY <1>4, <1>5

LEMMA TurnIncome ==
  ASSUME IncomeInv, Turn
  PROVE  IncomeInv'
<1>1. /\ Table \in Seq([started : Int, ended : Int]) /\ Table' = Table
      /\ quarter \in DOMAIN Table /\ DOMAIN days = DOMAIN Table
  BY QuarterAssumption DEF IncomeInv, IncomeTypeOK, QuarterInTable, Turn, Table
<1>2. days \in [DOMAIN Table -> Nat]
  BY <1>1 DEF IncomeInv, IncomeTypeOK
<1>3. /\ area' \in Areas /\ to' \in Int /\ first' \in Int
      /\ stage' \in {"loop", "answered"}
      /\ stage' = "loop" => quarter' <= Len(Table)
  BY <1>1 DEF IncomeInv, IncomeTypeOK, Turn
<1>4. CASE from > Table[quarter].ended
  <2>1. quarter' = quarter + 1 /\ from' = from /\ days' = days
    BY <1>4 DEF Turn
  <2>2. quarter' \in Nat \ {0} /\ (stage' = "loop" => quarter' \in DOMAIN Table)
    BY <2>1, <1>1, <1>3
  <2> QED
    BY <1>1, <1>2, <1>3, <2>1, <2>2 DEF IncomeInv, IncomeTypeOK, QuarterInTable
<1>5. CASE ~(from > Table[quarter].ended)
  <2>1. quarter' = quarter /\ from' = from + DayLength /\ days' = [days EXCEPT ![quarter] = @ + 1]
    BY <1>5 DEF Turn
  <2>2. days' \in [DOMAIN Table -> Nat] /\ DOMAIN days' = DOMAIN Table
    BY <1>1, <1>2, <2>1
  <2>3. from' \in Int
    BY <2>1, DayAssumption DEF IncomeInv, IncomeTypeOK
  <2> QED
    BY <1>1, <1>3, <2>1, <2>2, <2>3 DEF IncomeInv, IncomeTypeOK, QuarterInTable
<1> QED
  BY <1>4, <1>5

LEMMA StepIncome == IncomeInv /\ [IncomeNext]_incomeVars => IncomeInv'
<1> SUFFICES ASSUME IncomeInv, [IncomeNext]_incomeVars PROVE IncomeInv'
  OBVIOUS
<1>1. CASE UNCHANGED incomeVars
  BY <1>1 DEF IncomeInv, IncomeTypeOK, QuarterInTable, Table, incomeVars
<1>2. CASE Turn
  BY <1>2, TurnIncome
<1>3. ASSUME NEW start \in Moment, NEW end \in Moment, NEW activity \in Activities, NEW country \in Country,
             Ask(start, end, activity, country)
      PROVE  IncomeInv'
  BY <1>3, AskIncome
<1> QED
  BY <1>1, <1>2, <1>3 DEF IncomeNext

(***************************************************************************)
(* The types hold (getInsight and getTotalFBIncomeForDataPeriod).              *)
(***************************************************************************)
THEOREM IncomeTyped == IncomeSpec => []IncomeTypeOK
<1>1. IncomeInv => IncomeTypeOK
  BY DEF IncomeInv
<1> QED
  BY InitIncome, StepIncome, <1>1, PTL DEF IncomeSpec

(***************************************************************************)
(* While the loop runs its index is one of the table, whatever quarters the    *)
(* table has, in whatever order and with whatever gaps.                       *)
(***************************************************************************)
THEOREM IndexInTable == IncomeSpec => []QuarterInTable
<1>1. IncomeInv => QuarterInTable
  BY DEF IncomeInv
<1> QED
  BY InitIncome, StepIncome, <1>1, PTL DEF IncomeSpec

-----------------------------------------------------------------------------
(***************************************************************************)
(* The days.  While the loop runs each quarter has been charged with those    *)
(* of its days that the loop has passed.  Quarters that end in their order    *)
(* share no day, so that the day of a turn is one of the current quarter and   *)
(* of no other.                                                            *)
(***************************************************************************)
\* Quarters come in the order of their ends, as they do in area-fbincome-map.json.
Ordered ==
  \A a \in Areas :
    /\ Quarters[a] # <<>> => Quarters[a][1].started <= Quarters[a][1].ended
    /\ \A p, q \in DOMAIN Quarters[a] : p <= q => Quarters[a][p].ended <= Quarters[a][q].ended

\* The days of a quarter, and those the loop has passed.
Charged(q) ==
  {t \in DayStarts : t <= Table[q].ended /\ (q > 1 => t > Table[q - 1].ended)}
PassedDays(q) == {t \in Charged(q) : t < from}

\* The loop is about to count a day of the period, or the one day it counts before its test.
Walk ==
  stage = "loop" =>
    /\ first <= from /\ (from - first) % DayLength = 0
    /\ \/ /\ first > to /\ to < Table[1].started /\ first = Table[1].started
          /\ from = first /\ quarter = 1 /\ days = [q \in DOMAIN Table |-> 0]
       \/ /\ from <= to
          /\ quarter > 1 => from > Table[quarter - 1].ended
          /\ \A q \in DOMAIN Table : days[q] = Cardinality(PassedDays(q))
WalkInv == IncomeInv /\ Walk /\ DaysExact

LEMMA NextDay ==
  ASSUME NEW d \in Nat \ {0}, NEW a \in Nat, a % d = 0
  PROVE  /\ (a + d) % d = 0
         /\ \A b \in Nat : b % d = 0 /\ a <= b /\ b < a + d => b = a
<1>1. PICK k \in Int : a = k * d
  BY SMT
<1>2. (a + d) % d = 0
  BY <1>1, SMT
<1>3. ASSUME NEW b \in Nat, b % d = 0, a <= b, b < a + d PROVE b = a
  <2>1. PICK m \in Int : b = m * d
    BY <1>3, SMT
  <2>2. ~(m < k)
    BY <1>1, <1>3, <2>1, SMT
  <2>3. ~(m > k)
    BY <1>1, <1>3, <2>1, SMT
  <2> QED
    BY <1>1, <2>1, <2>2, <2>3, SMT
<1> QED
  BY <1>2, <1>3

LEMMA FiniteDays ==
  ASSUME IncomeTypeOK, NEW q
  PROVE  IsFiniteSet(Charged(q)) /\ IsFiniteSet(PassedDays(q))
<1>1. IsFiniteSet(first..to)
  BY FS_Interval DEF IncomeTypeOK
<1>2. Charged(q) \in SUBSET (first..to) /\ PassedDays(q) \in SUBSET (first..to)
  BY DEF Charged, PassedDays, DayStarts
<1> QED
  BY <1>1, <1>2, FS_Subset

\* Every table has a number for each bound of a quarter.
LEMMA EndsAreNumbers ==
  ASSUME IncomeTypeOK
  PROVE  /\ Table \in Seq([started : Int, ended : Int])
         /\ \A q \in DOMAIN Table : Table[q].started \in Int /\ Table[q].ended \in Int
<1> DEFINE Quarter == [started : Int, ended : Int]
<1>1. Table \in Seq(Quarter)
  BY QuarterAssumption DEF IncomeTypeOK, Table
<1> HIDE DEF Quarter
<1>2. \A q \in DOMAIN Table : Table[q] \in Quarter
  BY <1>1
<1> QED
  BY <1>1, <1>2 DEF Quarter

LEMMA InitWalk == IncomeInit => WalkInv
  BY InitIncome DEF IncomeInit, WalkInv, Walk, DaysExact

LEMMA AskWalk ==
  ASSUME Ordered, WalkInv,
         NEW start \in Moment, NEW end \in Moment, NEW activity \in Activities, NEW country \in Country,
         Ask(start, end, activity, country)
  PROVE  WalkInv'
<1>1. IncomeInv'
  BY AskIncome DEF WalkInv
<1> DEFINE begin == IF activity = <<>> THEN start ELSE Later(start, activity[1])
<1> DEFINE finish == IF activity = <<>> THEN end ELSE Sooner(end, activity[2])
<1> DEFINE table == Quarters[AreaOf(country)]
<1>2. begin \in Int /\ finish \in Int
  BY BoundsAreNumbers
<1>3. area' = AreaOf(country) /\ quarter' = 1 /\ Table' = table
  BY DEF Ask, Table
<1> HIDE DEF begin, finish, table
<1>4. CASE begin > finish \/ table = <<>>
  <2>1. stage' \in {"refused", "answered"} /\ days' = <<>>
    BY <1>4 DEF Ask, begin, finish, table
  <2> QED
    BY <1>1, <2>1 DEF WalkInv, Walk, DaysExact
<1>5. CASE ~(begin > finish) /\ table # <<>>
  <2>1. /\ stage' = "loop" /\ to' = finish /\ first' = Later(begin, table[1].started) /\ from' = first'
        /\ days' = [q \in DOMAIN table |-> 0]
    BY <1>5 DEF Ask, begin, finish, table
  <2>2. 1 \in DOMAIN table /\ table[1].started \in Int /\ IncomeTypeOK'
    <3>1. IncomeTypeOK' /\ 1 \in DOMAIN Table'
      BY <1>1, <1>3, <2>1 DEF IncomeInv, QuarterInTable
    <3> DEFINE Quarter == [started : Int, ended : Int]
    <3>2. table \in Seq(Quarter)
      BY AreaHasTable DEF table
    <3> HIDE DEF Quarter
    <3>3. table[1] \in Quarter
      BY <1>3, <3>1, <3>2
    <3> QED
      BY <1>3, <3>1, <3>3 DEF Quarter
  <2>3. first' \in Int /\ to' \in Int /\ (from - first)' % DayLength = 0
    BY <2>1, <2>2, DayAssumption DEF IncomeTypeOK
  <2>4. CASE first' > to'
    <3>1. to' < table[1].started /\ first' = table[1].started
      BY <1>2, <1>5, <2>1, <2>2, <2>4 DEF Later
    <3> QED
      BY <1>1, <1>3, <2>1, <2>3, <2>4, <3>1 DEF WalkInv, Walk, DaysExact
  <2>5. CASE ~(first' > to')
    <3>1. \A q \in DOMAIN table : PassedDays(q)' = {}
      BY <2>1, <2>3 DEF PassedDays, Charged, DayStarts
    <3>2. \A q \in DOMAIN table : days'[q] = Cardinality(PassedDays(q)')
      BY <2>1, <3>1, FS_EmptySet
    <3>3. from' <= to'
      BY <2>1, <2>3, <2>5
    <3> QED
      BY <1>1, <1>3, <2>1, <2>3, <3>2, <3>3 DEF WalkInv, Walk, DaysExact
  <2> QED
    BY <2>4, <2>5
<1> QED
  BY <1>4, <1>5

LEMMA TurnWalk ==
  ASSUME Ordered, WalkInv, Turn
  PROVE  WalkInv'
<1>1. IncomeInv' /\ IncomeTypeOK /\ IncomeTypeOK' /\ QuarterInTable
  BY TurnIncome DEF WalkInv, IncomeInv
<1>2. /\ Table' = Table /\ first' = first /\ to' = to /\ stage = "loop"
      /\ quarter \in DOMAIN Table /\ DOMAIN days = DOMAIN Table
  BY <1>1 DEF Turn, Table, QuarterInTable
<1>3. /\ Table \in Seq([started : Int, ended : Int])
      /\ \A q \in DOMAIN Table : Table[q].started \in Int /\ Table[q].ended \in Int
  BY <1>1, EndsAreNumbers
<1>4. /\ Table[1].started <= Table[1].ended
      /\ \A p, q \in DOMAIN Table : p <= q => Table[p].ended <= Table[q].ended
  BY <1>1, <1>2 DEF Ordered, Table, IncomeTypeOK
<1>5. /\ from \in Int /\ to \in Int /\ first \in Int /\ quarter \in Nat \ {0}
      /\ first <= from /\ (from - first) % DayLength = 0
  BY <1>1, <1>2 DEF WalkInv, Walk, IncomeTypeOK
<1>6. \A q : Charged(q)' = Charged(q)
  BY <1>2 DEF Charged, DayStarts
<1>7. CASE first > to
  <2>1. /\ to < Table[1].started /\ first = Table[1].started /\ from = first /\ quarter = 1
        /\ days = [q \in DOMAIN Table |-> 0]
    BY <1>2, <1>5, <1>7 DEF WalkInv, Walk
  <2>2. ~(from > Table[quarter].ended)
    <3>1. quarter = 1 /\ from = Table[1].started /\ Table[1].started <= Table[1].ended
      BY <1>4, <2>1
    <3>2. Table[1].started \in Int /\ Table[1].ended \in Int
      BY <1>2, <1>3, <3>1
    <3> QED
      BY <3>1, <3>2
  <2>3. from' = from + DayLength /\ days' = [days EXCEPT ![1] = @ + 1]
    BY <2>1, <2>2 DEF Turn
  <2>4. stage' = "answered"
    <3>1. from' > to
      BY <1>5, <1>7, <2>1, <2>3, DayAssumption
    <3> QED
      BY <3>1 DEF Turn
  <2>5. days' = [q \in DOMAIN Table |-> IF q = 1 THEN 1 ELSE 0]
    BY <2>1, <2>3
  <2> QED
    BY <1>1, <1>2, <1>7, <2>1, <2>4, <2>5 DEF WalkInv, Walk, DaysExact
<1>8. CASE ~(first > to)
  <2>1. /\ from <= to /\ (quarter > 1 => from > Table[quarter - 1].ended)
        /\ \A q \in DOMAIN Table : days[q] = Cardinality(PassedDays(q))
    BY <1>2, <1>5, <1>8 DEF WalkInv, Walk
  <2>2. \* What a turn leaves charged, and where it stands.
        /\ first <= from' /\ (from' - first) % DayLength = 0
        /\ quarter' > 1 => from' > Table[quarter' - 1].ended
        /\ \A q \in DOMAIN Table : days'[q] = Cardinality(PassedDays(q)')
    <3>1. CASE from > Table[quarter].ended
      <4>1. quarter' = quarter + 1 /\ from' = from /\ days' = days
        BY <3>1 DEF Turn
      <4>2. \A q : PassedDays(q)' = PassedDays(q)
        BY <1>6, <4>1 DEF PassedDays
      <4> QED
        BY <1>5, <2>1, <3>1, <4>1, <4>2
    <3>2. CASE ~(from > Table[quarter].ended)
      <4>1. /\ quarter' = quarter /\ from' = from + DayLength
            /\ days' = [days EXCEPT ![quarter] = @ + 1]
        BY <3>2 DEF Turn
      <4>2. /\ (from - first + DayLength) % DayLength = 0
            /\ \A b \in Nat : b % DayLength = 0 /\ from - first <= b /\ b < from - first + DayLength
                                 => b = from - first
        <5>1. from - first \in Nat
          BY <1>5
        <5> QED
          BY <5>1, <1>5, DayAssumption, NextDay
      <4>3. first <= from' /\ (from' - first) % DayLength = 0
        <5>1. from' - first = from - first + DayLength
          BY <1>5, <4>1, DayAssumption
        <5> QED
          BY <1>5, <4>1, <4>2, <5>1, DayAssumption
      <4>4. from \in DayStarts /\ \A t \in DayStarts : from <= t /\ t < from' => t = from
        <5>1. ASSUME NEW t \in DayStarts, from <= t, t < from' PROVE t = from
          <6>1. t \in Int /\ first <= t /\ (t - first) % DayLength = 0
            BY <1>5, <5>1 DEF DayStarts
          <6>2. t - first \in Nat /\ from - first <= t - first /\ t - first < from - first + DayLength
            BY <1>5, <4>1, <5>1, <6>1, DayAssumption
          <6>3. t - first = from - first
            BY <4>2, <6>1, <6>2
          <6> QED
            BY <1>5, <6>1, <6>3
        <5> QED
          BY <1>5, <2>1, <5>1 DEF DayStarts
      <4>5. \A q \in DOMAIN Table : from \in Charged(q) <=> q = quarter
        <5>1. ASSUME NEW q \in DOMAIN Table, q < quarter PROVE from \notin Charged(q)
          <6>1. q \in Nat /\ quarter > 1 /\ quarter - 1 \in DOMAIN Table /\ q <= quarter - 1
            BY <1>2, <1>3, <5>1
          <6>2. Table[q].ended <= Table[quarter - 1].ended
            BY <1>4, <6>1
          <6>3. Table[q].ended \in Int /\ Table[quarter - 1].ended \in Int
            BY <1>3, <6>1
          <6>4. from > Table[quarter - 1].ended
            BY <2>1, <6>1
          <6>5. ~(from <= Table[q].ended)
            BY <1>5, <6>2, <6>3, <6>4
          <6> QED
            BY <6>5 DEF Charged
        <5>2. ASSUME NEW q \in DOMAIN Table, q > quarter PROVE from \notin Charged(q)
          <6>1. q \in Nat /\ q > 1 /\ q - 1 \in DOMAIN Table /\ quarter <= q - 1
            BY <1>2, <1>3, <5>2
          <6>2. Table[quarter].ended <= Table[q - 1].ended
            BY <1>2, <1>4, <6>1
          <6>3. Table[quarter].ended \in Int /\ Table[q - 1].ended \in Int
            BY <1>2, <1>3, <6>1
          <6>4. ~(from > Table[q - 1].ended)
            BY <1>5, <3>2, <6>2, <6>3
          <6> QED
            BY <6>1, <6>4 DEF Charged
        <5>3. from \in Charged(quarter)
          <6>1. Table[quarter].ended \in Int /\ from <= Table[quarter].ended
            BY <1>2, <1>3, <1>5, <3>2
          <6> QED
            BY <2>1, <4>4, <6>1 DEF Charged
        <5> QED
          BY <1>2, <1>3, <5>1, <5>2, <5>3
      <4>6. \A q \in DOMAIN Table : days'[q] = Cardinality(PassedDays(q)')
        <5> SUFFICES ASSUME NEW q \in DOMAIN Table PROVE days'[q] = Cardinality(PassedDays(q)')
          OBVIOUS
        <5>0. Charged(q) \subseteq Int /\ Charged(q) \subseteq DayStarts
          BY <1>5 DEF Charged, DayStarts
        <5>1. IsFiniteSet(PassedDays(q)) /\ from \notin PassedDays(q)
          BY <1>1, <1>5, FiniteDays DEF PassedDays
        <5>2. CASE q = quarter
          <6>1. PassedDays(q)' = PassedDays(q) \cup {from}
            BY <1>5, <1>6, <4>1, <4>4, <4>5, <5>0, <5>2, DayAssumption DEF PassedDays
          <6>2. days'[q] = days[q] + 1
            BY <1>2, <4>1, <5>2
          <6> QED
            BY <2>1, <5>1, <6>1, <6>2, FS_AddElement
        <5>3. CASE q # quarter
          <6>1. PassedDays(q)' = PassedDays(q)
            BY <1>5, <1>6, <4>1, <4>4, <4>5, <5>0, <5>3, DayAssumption DEF PassedDays
          <6>2. days'[q] = days[q]
            BY <1>2, <4>1, <5>3
          <6> QED
            BY <2>1, <6>1, <6>2
        <5> QED
          BY <5>2, <5>3
      <4>7. quarter' > 1 => from' > Table[quarter' - 1].ended
        <5>1. quarter > 1 => quarter - 1 \in DOMAIN Table /\ Table[quarter - 1].ended \in Int
          BY <1>2, <1>3
        <5>2. from' > from /\ from' \in Int
          BY <1>5, <4>1, DayAssumption
        <5> QED
          BY <1>5, <2>1, <4>1, <5>1, <5>2
      <4> QED
        BY <4>3, <4>6, <4>7
    <3> QED
      BY <3>1, <3>2
  <2>3. CASE stage' = "loop"
    <3>1. from' <= to
      BY <1>1, <1>2, <1>5, <2>3 DEF Turn, IncomeTypeOK
    <3> QED
      BY <1>1, <1>2, <2>2, <2>3, <3>1 DEF WalkInv, Walk, DaysExact
  <2>4. CASE stage' # "loop"
    <3>1. stage' = "answered" /\ from' \in Int /\ (from' > to \/ quarter' > Len(Table))
      BY <1>1, <1>2, <2>4 DEF Turn, IncomeTypeOK
    <3>2. ASSUME NEW q \in DOMAIN Table PROVE PassedDays(q)' = Charged(q)
      <4>1. Charged(q) \subseteq first..to
        BY DEF Charged, DayStarts
      <4>2. CASE from' > to
        BY <1>5, <1>6, <3>1, <4>1, <4>2 DEF PassedDays
      <4>3. CASE quarter' > Len(Table)
        <5>1. quarter' = Len(Table) + 1 /\ Len(Table) \in DOMAIN Table /\ q <= Len(Table)
          BY <1>2, <1>3, <1>5, <4>3 DEF Turn
        <5>2. Table[q].ended <= Table[Len(Table)].ended
          BY <1>4, <5>1
        <5>3. from' > Table[Len(Table)].ended
          BY <1>3, <2>2, <5>1
        <5>4. \A t \in Charged(q) : t \in Int /\ t < from'
          BY <1>3, <1>5, <3>1, <5>1, <5>2, <5>3 DEF Charged, DayStarts
        <5> QED
          BY <1>6, <5>4 DEF PassedDays
      <4> QED
        BY <3>1, <4>2, <4>3
    <3>3. \A q \in DOMAIN Table : days'[q] = Cardinality(Charged(q)')
      BY <1>6, <2>2, <3>2
    <3> QED
      BY <1>1, <1>2, <1>8, <3>1, <3>3 DEF WalkInv, Walk, DaysExact, Charged
  <2> QED
    BY <2>3, <2>4
<1> QED
  BY <1>7, <1>8

LEMMA StepWalk ==
  ASSUME Ordered, WalkInv, [IncomeNext]_incomeVars
  PROVE  WalkInv'
<1>1. CASE UNCHANGED incomeVars
  <2>1. IncomeInv' /\ Walk'
    BY <1>1, StepIncome DEF WalkInv, Walk, PassedDays, Charged, DayStarts, Table, incomeVars
  <2>2. DaysExact'
    BY <1>1 DEF WalkInv, DaysExact, DayStarts, Table, incomeVars
  <2> QED
    BY <2>1, <2>2 DEF WalkInv
<1>2. CASE Turn
  BY <1>2, TurnWalk
<1>3. ASSUME NEW start \in Moment, NEW end \in Moment, NEW activity \in Activities, NEW country \in Country,
             Ask(start, end, activity, country)
      PROVE  WalkInv'
  BY <1>3, AskWalk
<1> QED
  BY <1>1, <1>2, <1>3 DEF IncomeNext

(***************************************************************************)
(* Every day of the period is charged to its quarter, once, but for the one   *)
(* day of a period that ends before the table begins                          *)
(* (getTotalFBIncomeForDataPeriod).                                         *)
(***************************************************************************)
THEOREM DaysCharged == Ordered => (IncomeSpec => []DaysExact)
<1> SUFFICES ASSUME Ordered PROVE IncomeSpec => []DaysExact
  OBVIOUS
<1>1. WalkInv /\ [IncomeNext]_incomeVars => WalkInv'
  BY StepWalk
<1>2. WalkInv => DaysExact
  BY DEF WalkInv
<1> QED
  BY InitWalk, <1>1, <1>2, PTL DEF IncomeSpec

-----------------------------------------------------------------------------
(* Sorting. *)

\* A finite set of times can be put in order, newest first: the place of a time is the number
\* of those that are not before it.
LEMMA Sortable ==
  ASSUME NEW S, IsFiniteSet(S), S \subseteq Nat
  PROVE  \E s \in [1..Cardinality(S) -> S] : \A i, j \in DOMAIN s : i < j => s[i] > s[j]
<1> DEFINE n == Cardinality(S)
           after(x) == {y \in S : x <= y}
           place == [x \in S |-> Cardinality(after(x))]
<1>1. n \in Nat /\ IsFiniteSet(1..n) /\ Cardinality(1..n) = n
  BY FS_CardinalityType, FS_Interval
<1>2. ASSUME NEW x \in S
      PROVE  /\ IsFiniteSet(after(x)) /\ Cardinality(after(x)) \in 1..n
             /\ \A y \in S : x < y => Cardinality(after(y)) < Cardinality(after(x))
  <2>1. IsFiniteSet(after(x)) /\ Cardinality(after(x)) <= n
    BY FS_Subset
  <2>2. Cardinality(after(x)) \in Nat /\ Cardinality(after(x)) # 0
    <3>1. x \in after(x)
      OBVIOUS
    <3> QED
      BY <2>1, <3>1, FS_CardinalityType, FS_EmptySet
  <2>3. ASSUME NEW y \in S, x < y PROVE Cardinality(after(y)) < Cardinality(after(x))
    <3>1. after(y) \in SUBSET after(x) /\ after(y) # after(x)
      <4>1. x \in after(x) /\ x \notin after(y)
        BY <2>3
      <4>2. \A z \in S : y <= z => x <= z
        BY <2>3
      <4> QED
        BY <4>1, <4>2
    <3>2. IsFiniteSet(after(y)) /\ Cardinality(after(y)) \in Nat
      <4>1. IsFiniteSet(after(y))
        BY FS_Subset
      <4> QED
        BY <4>1, FS_CardinalityType
    <3>3. Cardinality(after(y)) <= Cardinality(after(x)) /\ Cardinality(after(y)) # Cardinality(after(x))
      <4> HIDE DEF after
      <4> QED
        BY <2>1, <3>1, FS_Subset
    <3> QED
      BY <2>2, <3>2, <3>3
  <2> QED
    BY <1>1, <2>1, <2>2, <2>3
<1> HIDE DEF after
<1>3. place \in [S -> 1..n] /\ \A x, y \in S : x < y => place[y] < place[x]
  BY <1>2
<1>4. place \in Injection(S, 1..n)
  <2>1. ASSUME NEW x \in S, NEW y \in S, x # y PROVE place[x] # place[y]
    <3>1. x < y \/ y < x
      BY <2>1
    <3>2. place[x] \in Nat /\ place[y] \in Nat
      BY <1>1, <1>3
    <3> QED
      BY <1>3, <3>1, <3>2
  <2> QED
    BY <1>3, <2>1, Fun_IsInj
<1>5. \A i \in 1..n : \E x \in S : place[x] = i
  <2>1. place \in Surjection(S, 1..n)
    BY <1>1, <1>4, FS_Injection
  <2> QED
    BY <2>1 DEF Surjection
<1> HIDE DEF place
<1> DEFINE s == [i \in 1..n |-> CHOOSE x \in S : place[x] = i]
<1>6. \A i \in 1..n : s[i] \in S /\ place[s[i]] = i
  BY <1>5
<1>7. s \in [1..n -> S] /\ DOMAIN s = 1..n
  BY <1>6
<1> HIDE DEF s, n
<1>8. ASSUME NEW i \in 1..n, NEW j \in 1..n, i < j PROVE s[i] > s[j]
  <2>0. i \in Nat /\ j \in Nat
    BY <1>1
  <2>1. s[i] \in Nat /\ s[j] \in Nat
    <3>1. s[i] \in S /\ s[j] \in S
      BY <1>6
    <3> QED
      BY <3>1
  <2>2. ~(s[i] < s[j]) /\ s[i] # s[j]
    BY <1>3, <1>6, <1>8, <2>0, <2>1
  <2> QED
    BY <2>1, <2>2
<1> QED
  BY <1>7, <1>8 DEF n

\* NewestFirst has the whole set, in that order.
LEMMA Sorted ==
  ASSUME NEW S, IsFiniteSet(S), S \subseteq Nat
  PROVE  LET s == NewestFirst(S)
         IN /\ Cardinality(S) \in Nat /\ s \in [1..Cardinality(S) -> S]
            /\ \A i, j \in 1..Cardinality(S) : i < j => s[i] > s[j]
            /\ \A t \in S : \E i \in 1..Cardinality(S) : s[i] = t
<1> DEFINE n == Cardinality(S)
           s == NewestFirst(S)
<1>1. s \in [1..n -> S] /\ \A i, j \in 1..n : i < j => s[i] > s[j]
  BY Sortable DEF NewestFirst
<1>2. n \in Nat /\ IsFiniteSet(1..n) /\ Cardinality(1..n) = n
  BY FS_CardinalityType, FS_Interval
<1> HIDE DEF s
<1>3. s \in Injection(1..n, S)
  <2>1. ASSUME NEW i \in 1..n, NEW j \in 1..n, i # j PROVE s[i] # s[j]
    <3>1. i < j \/ j < i
      BY <1>2, <2>1
    <3>2. s[i] \in Nat /\ s[j] \in Nat
      BY <1>1
    <3> QED
      BY <1>1, <3>1, <3>2
  <2> QED
    BY <1>1, <2>1, Fun_IsInj
<1>4. s \in Surjection(1..n, S)
  BY <1>2, <1>3, FS_Injection
<1> QED
  BY <1>1, <1>2, <1>4 DEF Surjection, s

LEMMA WiderSeq ==
  ASSUME NEW S, NEW T, S \subseteq T, NEW s \in Seq(S)
  PROVE  s \in Seq(T)
<1>1. Len(s) \in Nat /\ s \in [1..Len(s) -> S]
  OBVIOUS
<1>2. s \in [1..Len(s) -> T]
  BY <1>1
<1> QED
  BY <1>1, <1>2

\* A page: the newest of what there is, and all of it unless the page is full.
LEMMA Pages ==
  ASSUME NEW S, IsFiniteSet(S), S \subseteq Nat, NEW n \in Nat
  PROVE  LET page == Newest(S, n)
         IN /\ page \in Seq(S) /\ Len(page) <= n
            /\ \A i, j \in 1..Len(page) : i < j => page[i] > page[j]
            /\ \A t \in S : \/ \E i \in 1..Len(page) : page[i] = t
                            \/ Len(page) = n /\ \A i \in 1..Len(page) : page[i] > t
<1> DEFINE c == Cardinality(S)
           s == NewestFirst(S)
           m == IF n < c THEN n ELSE c
           page == SubSeq(s, 1, m)
<1>1. /\ c \in Nat /\ s \in [1..c -> S]
      /\ \A i, j \in 1..c : i < j => s[i] > s[j]
      /\ \A t \in S : \E i \in 1..c : s[i] = t
  BY Sorted
<1>2. Newest(S, n) = page
  BY DEF Newest
<1> HIDE DEF c, s
<1>3. m \in Nat /\ m <= n /\ m <= c
  BY <1>1
<1>4. page \in Seq(S) /\ Len(page) = m /\ \A i \in 1..m : page[i] = s[i]
  <2>1. s \in Seq(S) /\ Len(s) = c
    BY <1>1
  <2> QED
    BY <1>3, <2>1
<1>5. ASSUME NEW t \in S
      PROVE  \/ \E i \in 1..m : page[i] = t
             \/ m = n /\ \A i \in 1..m : page[i] > t
  <2>1. PICK k \in 1..c : s[k] = t
    BY <1>1
  <2>2. CASE k <= m
    BY <1>3, <1>4, <2>1, <2>2
  <2>3. CASE ~(k <= m)
    <3>1. m = n
      BY <1>1, <2>3
    <3>2. \A i \in 1..m : i \in 1..c /\ i < k
      BY <1>1, <1>3, <2>3
    <3> QED
      BY <1>1, <1>4, <2>1, <3>1, <3>2
  <2> QED
    BY <2>2, <2>3
<1>6. \A i, j \in 1..m : i < j => page[i] > page[j]
  <2>1. \A i \in 1..m : i \in 1..c
    BY <1>1, <1>3
  <2> QED
    BY <1>1, <1>4, <2>1
<1> HIDE DEF page, m
<1> QED
  BY <1>2, <1>3, <1>4, <1>5, <1>6

-----------------------------------------------------------------------------
(* Pages put together. *)

Down(s) == \A i, j \in 1..Len(s) : i < j => s[i] > s[j]
Has(s, t) == \E i \in 1..Len(s) : s[i] = t
Above(s, t) == \A i \in 1..Len(s) : s[i] > t

LEMMA Joined ==
  ASSUME NEW p \in Seq(Nat), NEW q \in Seq(Nat), Down(p), Down(q),
         \A i \in 1..Len(q) : Above(p, q[i])
  PROVE  /\ p \o q \in Seq(Nat) /\ Len(p \o q) = Len(p) + Len(q)
         /\ Down(p \o q)
         /\ \A t : Has(p \o q, t) <=> Has(p, t) \/ Has(q, t)
         /\ \A t : Above(p \o q, t) <=> Above(p, t) /\ Above(q, t)
         /\ q # <<>> => (p \o q)[Len(p \o q)] = q[Len(q)]
<1> DEFINE d == p \o q
<1>1. Len(p) \in Nat /\ Len(q) \in Nat
  OBVIOUS
<1>2. /\ d \in Seq(Nat) /\ Len(d) = Len(p) + Len(q)
      /\ \A i \in 1..Len(p) : d[i] = p[i]
      /\ \A i \in 1..Len(q) : d[i + Len(p)] = q[i]
  BY <1>1
<1>3. \A i \in 1..Len(d) : i \in 1..Len(p) \/ (i - Len(p) \in 1..Len(q) /\ i = (i - Len(p)) + Len(p))
  BY <1>1, <1>2
<1>4. /\ \A i \in 1..Len(p) : i \in 1..Len(d)
      /\ \A i \in 1..Len(q) : i + Len(p) \in 1..Len(d)
  BY <1>1, <1>2
<1>5. \A i \in 1..Len(p) : p[i] \in Nat
  OBVIOUS
<1>6. \A i \in 1..Len(q) : q[i] \in Nat
  OBVIOUS
<1> HIDE DEF d
<1>7. Down(d)
  <2> SUFFICES ASSUME NEW i \in 1..Len(d), NEW j \in 1..Len(d), i < j PROVE d[i] > d[j]
    BY DEF Down
  <2>1. CASE j \in 1..Len(p)
    <3>1. i \in 1..Len(p)
      BY <1>1, <1>2, <2>1
    <3> QED
      BY <1>2, <2>1, <3>1 DEF Down
  <2>2. CASE j \notin 1..Len(p) /\ i \in 1..Len(p)
    <3>1. j - Len(p) \in 1..Len(q) /\ d[j] = q[j - Len(p)]
      BY <1>2, <1>3, <2>2
    <3> QED
      BY <1>2, <2>2, <3>1 DEF Above
  <2>3. CASE j \notin 1..Len(p) /\ i \notin 1..Len(p)
    <3>1. j - Len(p) \in 1..Len(q) /\ d[j] = q[j - Len(p)]
      BY <1>2, <1>3, <2>3
    <3>2. i - Len(p) \in 1..Len(q) /\ d[i] = q[i - Len(p)]
      BY <1>2, <1>3, <2>3
    <3>3. i - Len(p) < j - Len(p)
      BY <1>1, <1>2
    <3> QED
      BY <3>1, <3>2, <3>3 DEF Down
  <2> QED
    BY <2>1, <2>2, <2>3
<1>8. ASSUME NEW t PROVE Has(d, t) <=> Has(p, t) \/ Has(q, t)
  <2>1. Has(d, t) => Has(p, t) \/ Has(q, t)
    BY <1>2, <1>3 DEF Has
  <2>2. Has(p, t) => Has(d, t)
    BY <1>2, <1>4 DEF Has
  <2>3. Has(q, t) => Has(d, t)
    BY <1>2, <1>4 DEF Has
  <2> QED
    BY <2>1, <2>2, <2>3
<1>9. ASSUME NEW t PROVE Above(d, t) <=> Above(p, t) /\ Above(q, t)
  <2>1. Above(p, t) /\ Above(q, t) => Above(d, t)
    <3> SUFFICES ASSUME Above(p, t), Above(q, t), NEW i \in 1..Len(d) PROVE d[i] > t
      BY DEF Above
    <3>1. CASE i \in 1..Len(p)
      BY <1>2, <3>1 DEF Above
    <3>2. CASE i \notin 1..Len(p)
      <4>1. i - Len(p) \in 1..Len(q) /\ d[i] = q[i - Len(p)]
        BY <1>2, <1>3, <3>2
      <4> QED
        BY <4>1 DEF Above
    <3> QED
      BY <3>1, <3>2
  <2>2. Above(d, t) => Above(p, t)
    <3> SUFFICES ASSUME Above(d, t), NEW i \in 1..Len(p) PROVE p[i] > t
      BY DEF Above
    <3>1. d[i] > t /\ d[i] = p[i]
      BY <1>2, <1>4 DEF Above
    <3> QED
      BY <3>1
  <2>3. Above(d, t) => Above(q, t)
    <3> SUFFICES ASSUME Above(d, t), NEW i \in 1..Len(q) PROVE q[i] > t
      BY DEF Above
    <3>1. d[i + Len(p)] > t /\ d[i + Len(p)] = q[i]
      BY <1>2, <1>4 DEF Above
    <3> QED
      BY <3>1
  <2> QED
    BY <2>1, <2>2, <2>3
<1>10. q # <<>> => d[Len(d)] = q[Len(q)]
  <2> SUFFICES ASSUME q # <<>> PROVE d[Len(d)] = q[Len(q)]
    OBVIOUS
  <2>1. Len(q) \in 1..Len(q) /\ Len(d) = Len(q) + Len(p)
    BY <1>1, <1>2
  <2> QED
    BY <1>2, <2>1
<1> QED
  BY <1>2, <1>7, <1>8, <1>9, <1>10 DEF d

LEMMA Cut ==
  ASSUME NEW s \in Seq(Nat), Down(s), NEW n \in Nat, n < Len(s)
  PROVE  LET c == SubSeq(s, 1, n)
         IN /\ c \in Seq(Nat) /\ Len(c) = n /\ Down(c)
            /\ \A t : Has(c, t) => Has(s, t)
            /\ \A t : Has(s, t) => Has(c, t) \/ Above(c, t)
            /\ \A t : Above(s, t) => Above(c, t)
<1> DEFINE c == SubSeq(s, 1, n)
<1>1. c \in Seq(Nat) /\ Len(c) = n /\ \A i \in 1..n : c[i] = s[i] /\ i \in 1..Len(s)
  OBVIOUS
<1> HIDE DEF c
<1>2. Down(c)
  BY <1>1 DEF Down
<1>3. ASSUME NEW t, Has(s, t) PROVE Has(c, t) \/ Above(c, t)
  <2>1. PICK k \in 1..Len(s) : s[k] = t
    BY <1>3 DEF Has
  <2>2. CASE k <= n
    <3>1. k \in 1..n
      BY <2>1, <2>2
    <3> QED
      BY <1>1, <2>1, <3>1 DEF Has
  <2>3. CASE ~(k <= n)
    <3>1. \A i \in 1..n : i < k
      BY <2>1, <2>3
    <3> QED
      BY <1>1, <2>1, <3>1 DEF Above, Down
  <2> QED
    BY <2>2, <2>3
<1>4. \A t : Above(s, t) => Above(c, t)
  BY <1>1 DEF Above
<1>5. \A t : Has(c, t) => Has(s, t)
  BY <1>1 DEF Has
<1> QED
  BY <1>1, <1>2, <1>3, <1>4, <1>5 DEF c

-----------------------------------------------------------------------------
(* Types. *)

Asking == [kind : TableKinds \cup RowKinds \cup {"none", "counts"}, from : Nat, to : Nat,
           limit : Nat, step : {"none", "page", "own", "answered"}]
Typed == ReadTypeOK /\ IsFiniteSet(rows) /\ IsFiniteSet(ownWrites)

LEMMA LimitRange ==
  ASSUME NEW limit \in Limits
  PROVE  LimitOf(limit) \in Nat \ {0}
  BY ReadAssumption DEF LimitOf

LEMMA CountTypes ==
  ASSUME IsFiniteSet(rows), NEW owners, NEW low, NEW high
  PROVE  CountOf(owners, low, high) \in [CountedTypes -> Nat]
<1>1. ASSUME NEW t \in CountedTypes
      PROVE  Cardinality({r \in rows : r.owner \in owners /\ r.type = t /\ low < r.at /\ r.at < high}) \in Nat
  <2>1. IsFiniteSet({r \in rows : r.owner \in owners /\ r.type = t /\ low < r.at /\ r.at < high})
    BY FS_Subset
  <2> QED
    BY <2>1, FS_CardinalityType
<1> QED
  BY <1>1 DEF CountOf

\* The page that is next.
Unread == {t \in items : InRange(t) /\ (startKey = NoKey \/ t < startKey)}

LEMMA PageIsNumber ==
  ASSUME Typed, NEW size \in PageSizes
  PROVE  size \in Nat \ {0}
<1>1. pageLimit \in Nat /\ PageItems \in Nat
  BY ReadAssumption DEF Typed, ReadTypeOK
<1> QED
  BY <1>1 DEF PageSizes

LEMMA NextPages ==
  ASSUME Typed, NEW size \in PageSizes
  PROVE  LET page == NextPage(size)
         IN /\ page \in Seq(Unread) /\ page \in Seq(ReadMoment) /\ page \in Seq(Nat)
            /\ Down(page)
            /\ \A t \in Unread : Has(page, t) \/ (Len(page) = size /\ Above(page, t))
<1> DEFINE page == NextPage(size)
<1>1. IsFiniteSet(Unread) /\ Unread \subseteq ReadMoment /\ Unread \subseteq Nat /\ ReadMoment \subseteq Nat
  <2>1. Unread \subseteq ReadMoment /\ ReadMoment \subseteq Nat
    BY ReadAssumption DEF Unread, Typed, ReadTypeOK
  <2> QED
    BY <2>1, FS_Subset, ReadAssumption
<1>2. size \in Nat
  BY PageIsNumber
<1>3. page = Newest(Unread, size)
  BY DEF NextPage, Unread
<1> HIDE DEF Unread, page
<1>4. /\ page \in Seq(Unread) /\ Down(page)
      /\ \A t \in Unread : Has(page, t) \/ (Len(page) = size /\ Above(page, t))
  BY <1>1, <1>2, <1>3, Pages DEF Down, Has, Above
<1>5. page \in Seq(ReadMoment) /\ page \in Seq(Nat)
  BY <1>1, <1>4, WiderSeq
<1> QED
  BY <1>4, <1>5 DEF page

\* What a statement with ORDER BY and LIMIT gives.
LEMMA RowsGiven ==
  ASSUME NEW S, IsFiniteSet(S), \A r \in S : r.at \in Nat, NEW n \in Nat, NEW s \in FirstRows(S, n)
  PROVE  /\ s \in Seq(S) /\ Len(s) <= n
         /\ \A i, j \in 1..Len(s) : i < j => s[i] # s[j] /\ s[i].at >= s[j].at
         /\ \A r \in S : \/ \E i \in 1..Len(s) : s[i] = r
                         \/ Len(s) = n /\ \A i \in 1..Len(s) : s[i].at >= r.at
<1> DEFINE c == Cardinality(S)
           m == IF n < c THEN n ELSE c
<1>1. PICK all \in InTimeOrder(S) : s = SubSeq(all, 1, m)
  BY DEF FirstRows
<1>2. /\ all \in [1..c -> S]
      /\ \A i, j \in 1..c : i < j => all[i] # all[j] /\ all[i].at >= all[j].at
  BY DEF InTimeOrder
<1>3. c \in Nat /\ IsFiniteSet(1..c) /\ Cardinality(1..c) = c
  BY FS_CardinalityType, FS_Interval
<1> HIDE DEF c
<1>4. \A r \in S : \E i \in 1..c : all[i] = r
  <2>1. \A i, j \in 1..c : i # j => all[i] # all[j]
    <3> SUFFICES ASSUME NEW i \in 1..c, NEW j \in 1..c, i # j PROVE all[i] # all[j]
      OBVIOUS
    <3>1. i < j \/ j < i
      BY <1>3
    <3> QED
      BY <1>2, <3>1
  <2>2. all \in Injection(1..c, S)
    BY <1>2, <2>1, Fun_IsInj
  <2>3. all \in Surjection(1..c, S)
    BY <1>3, <2>2, FS_Injection DEF c
  <2> QED
    BY <2>3 DEF Surjection
<1>5. m \in Nat /\ m <= n /\ m <= c /\ (m = n \/ m = c)
  BY <1>3
<1>6. s \in Seq(S) /\ Len(s) = m /\ \A i \in 1..m : i \in 1..c /\ s[i] = all[i]
  <2>1. all \in Seq(S) /\ Len(all) = c
    BY <1>2, <1>3
  <2> QED
    BY <1>1, <1>3, <1>5, <2>1
<1> HIDE DEF m
<1>7. \A i, j \in 1..m : i < j => s[i] # s[j] /\ s[i].at >= s[j].at
  BY <1>2, <1>6
<1>8. ASSUME NEW r \in S
      PROVE  (\E i \in 1..m : s[i] = r) \/ (m = n /\ \A i \in 1..m : s[i].at >= r.at)
  <2>1. PICK k \in 1..c : all[k] = r
    BY <1>4
  <2>2. CASE k <= m
    BY <1>5, <1>6, <2>1, <2>2
  <2>3. CASE ~(k <= m)
    <3>1. m = n
      BY <1>3, <1>5, <2>3
    <3>2. \A i \in 1..m : i \in 1..c /\ i < k
      BY <1>3, <1>5, <2>3
    <3> QED
      BY <1>2, <1>6, <2>1, <3>1, <3>2
  <2> QED
    BY <2>2, <2>3
<1> QED
  BY <1>5, <1>6, <1>7, <1>8

LEMMA AskTypes ==
  ASSUME NEW kind \in TableKinds \cup RowKinds \cup {"counts"}, NEW low \in Nat, NEW high \in Nat,
         NEW limit \in Nat, NEW call \in {"page", "own", "answered"},
         BeginRequest([kind |-> kind, from |-> low, to |-> high, limit |-> limit, step |-> call]), ReadTypeOK
  PROVE  asking' \in Asking /\ throughout' \subseteq items /\ everThere' \subseteq ReadMoment
  BY DEF BeginRequest, Asking, ReadTypeOK

LEMMA StepTypes ==
  ASSUME Typed, [ReadNext]_readVars
  PROVE  Typed'
<1>1. ASSUME NEW low \in ReadMoment, NEW high \in ReadMoment, NEW limit \in Limits, AskList(low, high, limit)
      PROVE  Typed'
  <2>1. low \in Nat /\ high \in Nat /\ LimitOf(limit) \in Nat
    BY LimitRange, ReadAssumption
  <2>2. asking' \in Asking /\ throughout' \subseteq items /\ everThere' \subseteq ReadMoment
    BY <1>1, <2>1, AskTypes DEF AskList, Typed, TableKinds
  <2> QED
    BY <1>1, <2>1, <2>2 DEF AskList, Typed, ReadTypeOK, Asking
<1>2. ASSUME NEW kind \in RowKinds, NEW low \in ReadMoment, NEW high \in ReadMoment, NEW limit \in Limits,
             AskRows(kind, low, high, limit)
      PROVE  Typed'
  <2>1. low \in Nat /\ high \in Nat /\ LimitOf(limit) \in Nat
    BY LimitRange, ReadAssumption
  <2>2. asking' \in Asking /\ throughout' \subseteq items /\ everThere' \subseteq ReadMoment
    BY <1>2, <2>1, AskTypes DEF AskRows, Typed
  <2>3. found' \in Seq(AnyRow)
    <3> DEFINE S == {r \in rows : r.owner = "self" /\ Within(kind, r.at, low, high)}
    <3>1. S \subseteq AnyRow /\ IsFiniteSet(S) /\ \A r \in S : r.at \in Nat
      <4>1. S \subseteq rows /\ S \subseteq AnyRow /\ \A r \in AnyRow : r.at \in Nat
        BY ReadAssumption DEF Typed, ReadTypeOK, AnyRow
      <4> QED
        BY <4>1, FS_Subset DEF Typed
    <3>2. found' \in FirstRows(S, LimitOf(limit))
      BY <1>2 DEF AskRows
    <3> HIDE DEF S
    <3>3. found' \in Seq(S)
      BY <2>1, <3>1, <3>2, RowsGiven
    <3> QED
      BY <3>1, <3>3, WiderSeq
  <2> QED
    BY <1>2, <2>1, <2>2, <2>3 DEF AskRows, Typed, ReadTypeOK, Asking
<1>3. ASSUME NEW now \in ReadMoment, AskExport(now) PROVE Typed'
  <2>1. now \in Nat /\ 0 \in Nat /\ MaxLimit \in Nat
    BY ReadAssumption
  <2>2. asking' \in Asking /\ throughout' \subseteq items /\ everThere' \subseteq ReadMoment
    BY <1>3, <2>1, AskTypes DEF AskExport, Typed, TableKinds
  <2> QED
    BY <1>3, <2>1, <2>2 DEF AskExport, Typed, ReadTypeOK, Asking
<1>4. CASE ReadPage
  <2>0. PICK size \in PageSizes : \E more \in MayHaveMore(NextPage(size)) :
          LET page == NextPage(size)
              data == list \o page
              over == asking.limit > 0 /\ Len(data) > asking.limit
              last == over \/ page = <<>> \/ ~more
          IN /\ list' = IF over THEN SubSeq(data, 1, asking.limit) ELSE data
             /\ IF last
                THEN asking' = [asking EXCEPT !.step = "answered"] /\ UNCHANGED startKey
                ELSE startKey' = page[Len(page)] /\ UNCHANGED asking
    BY <1>4 DEF ReadPage
  <2>1. PICK more \in MayHaveMore(NextPage(size)) :
          LET page == NextPage(size)
              data == list \o page
              over == asking.limit > 0 /\ Len(data) > asking.limit
              last == over \/ page = <<>> \/ ~more
          IN /\ list' = IF over THEN SubSeq(data, 1, asking.limit) ELSE data
             /\ IF last
                THEN asking' = [asking EXCEPT !.step = "answered"] /\ UNCHANGED startKey
                ELSE startKey' = page[Len(page)] /\ UNCHANGED asking
    BY <2>0
  <2>2. NextPage(size) \in Seq(ReadMoment) /\ list \in Seq(ReadMoment) /\ asking \in Asking
    BY NextPages DEF Typed, ReadTypeOK, Asking
  <2>3. list \o NextPage(size) \in Seq(ReadMoment) /\ asking.limit \in Nat
    BY <2>2 DEF Asking
  <2>4. list' \in Seq(ReadMoment)
    BY <2>1, <2>3
  <2>5. startKey' \in ReadMoment \cup {NoKey}
    <3>1. NextPage(size) # <<>> => NextPage(size)[Len(NextPage(size))] \in ReadMoment
      BY <2>2
    <3> QED
      BY <2>1, <3>1 DEF Typed, ReadTypeOK
  <2>6. asking' \in Asking
    BY <2>1, <2>2 DEF Asking
  <2> QED
    BY <1>4, <2>4, <2>5, <2>6 DEF ReadPage, Typed, ReadTypeOK, Asking
<1>5. ASSUME NEW t \in ReadMoment, StoreItem(t) \/ RemoveItem(t) PROVE Typed'
  <2>0. writes' \in 0..MaxWrites
    <3>1. writes' = writes + 1 /\ writes < MaxWrites
      BY <1>5 DEF StoreItem, RemoveItem
    <3>2. writes \in 0..MaxWrites /\ MaxWrites \in Nat
      BY ReadAssumption DEF Typed, ReadTypeOK
    <3> QED
      BY <3>1, <3>2
  <2>1. items' \subseteq ReadMoment /\ everThere' \subseteq ReadMoment
    BY <1>5 DEF StoreItem, RemoveItem, Typed, ReadTypeOK
  <2>2. throughout' \subseteq items'
    BY <1>5 DEF StoreItem, RemoveItem, Typed, ReadTypeOK
  <2>3. UNCHANGED <<rows, asking, pageLimit, startKey, list, found, sysCount, ownCount, ownWrites>>
    BY <1>5 DEF StoreItem, RemoveItem
  <2> QED
    BY <2>0, <2>1, <2>2, <2>3 DEF Typed, ReadTypeOK
<1>6. ASSUME NEW low \in ReadMoment, NEW high \in ReadMoment, AskCounts(low, high) PROVE Typed'
  <2>1. low \in Nat /\ high \in Nat /\ 0 \in Nat
    BY ReadAssumption
  <2>2. asking' \in Asking /\ throughout' \subseteq items /\ everThere' \subseteq ReadMoment
    BY <1>6, <2>1, AskTypes DEF AskCounts, Typed
  <2>3. sysCount' \in [CountedTypes -> Nat] /\ IsFiniteSet(ownWrites')
    BY <1>6, CountTypes, FS_EmptySet DEF AskCounts, Typed
  <2> QED
    BY <1>6, <2>1, <2>2, <2>3 DEF AskCounts, Typed, ReadTypeOK, Asking
<1>7. CASE CountOwn
  <2>1. ownCount' \in [CountedTypes -> Nat]
    BY <1>7, CountTypes DEF CountOwn, Typed
  <2>2. asking' \in Asking
    BY <1>7 DEF CountOwn, Typed, ReadTypeOK, Asking
  <2> QED
    BY <1>7, <2>1, <2>2 DEF CountOwn, Typed, ReadTypeOK, Asking
<1>8. ASSUME NEW row \in AnyRow, InsertRow(row) PROVE Typed'
  <2>1. IsFiniteSet(rows') /\ IsFiniteSet(ownWrites')
    BY <1>8, FS_AddElement DEF InsertRow, Typed
  <2>2. rows' \subseteq AnyRow /\ ownWrites' \subseteq AnyRow
    BY <1>8 DEF InsertRow, Typed, ReadTypeOK, AnyRow
  <2> QED
    BY <1>8, <2>1, <2>2, ReadAssumption DEF InsertRow, Typed, ReadTypeOK, AnyRow
<1>9. ASSUME NEW owner \in Owner, DeleteRows(owner) PROVE Typed'
  <2>1. rows' \subseteq rows /\ IsFiniteSet(rows')
    <3>1. rows' \subseteq rows
      BY <1>9 DEF DeleteRows
    <3> QED
      BY <3>1, FS_Subset DEF Typed
  <2> QED
    BY <1>9, <2>1, ReadAssumption DEF DeleteRows, Typed, ReadTypeOK
<1>10. CASE UNCHANGED readVars
  BY <1>10 DEF readVars, Typed, ReadTypeOK
<1> QED
  BY <1>1, <1>2, <1>3, <1>4, <1>5, <1>6, <1>7, <1>8, <1>9, <1>10 DEF ReadNext, ListNext, CountNext, AnyRow

LEMMA InitTypes == ReadInit => Typed
<1> SUFFICES ASSUME ReadInit PROVE Typed
  OBVIOUS
<1>1. IsFiniteSet(rows) /\ IsFiniteSet(ownWrites)
  BY FS_EmptySet DEF ReadInit
<1>2. asking \in Asking
  BY DEF ReadInit, NoRequest, Asking
<1> QED
  BY <1>1, <1>2, ReadAssumption DEF ReadInit, Typed, ReadTypeOK, Asking, NoCounts, NoKey

-----------------------------------------------------------------------------
(***************************************************************************)
(* Lists.  Between two pages the list is in order, and of what has stayed       *)
(* throughout it has all that is not older than its last item, which is the     *)
(* key the next page begins after.                                          *)
(***************************************************************************)
SoFar(l, key) ==
  /\ Down(l)
  /\ \A i \in 1..Len(l) : InRange(l[i]) /\ l[i] \in everThere
  /\ asking.limit > 0 => Len(l) <= asking.limit
  /\ IF l = <<>> THEN key = NoKey ELSE key = l[Len(l)]
  /\ \A t \in throughout : InRange(t) /\ key # NoKey /\ key <= t => Has(l, t)

Complete(l) ==
  \A t \in throughout : InRange(t) =>
      Has(l, t) \/ (asking.limit > 0 /\ Len(l) = asking.limit /\ Above(l, t))

ListWalk ==
  /\ items \subseteq everThere
  /\ asking.kind = "none" => asking.step = "none"
  /\ asking.step = "own" => asking.kind = "counts"
  /\ asking.step \in {"none", "own"} \/ asking.kind \notin TableKinds => list = <<>> /\ startKey = NoKey
  /\ asking.step = "page" =>
        asking.kind \in TableKinds /\ pageLimit > 0 /\ SoFar(list, startKey)

LEMMA ReadMore ==
  ASSUME Typed, asking.step = "page", ListWalk, NEW size \in PageSizes,
         NEW more \in MayHaveMore(NextPage(size))
  PROVE  LET data == list \o NextPage(size)
             over == asking.limit > 0 /\ Len(data) > asking.limit
             cut == SubSeq(data, 1, asking.limit)
         IN /\ data \in Seq(Nat) /\ Down(data)
            /\ over => /\ Down(cut) /\ Len(cut) = asking.limit /\ Complete(cut)
                       /\ \A i \in 1..Len(cut) : InRange(cut[i]) /\ cut[i] \in everThere
            /\ \A i \in 1..Len(data) : InRange(data[i]) /\ data[i] \in everThere
            /\ ~over /\ (NextPage(size) = <<>> \/ ~more) => Complete(data)
            /\ NextPage(size) # <<>> => SoFar(data, NextPage(size)[Len(NextPage(size))]) \/ over
<1> DEFINE page == NextPage(size)
           data == list \o NextPage(size)
           over == asking.limit > 0 /\ Len(data) > asking.limit
           cut == SubSeq(data, 1, asking.limit)
<1>1. /\ page \in Seq(Unread) /\ page \in Seq(Nat) /\ Down(page)
      /\ \A t \in Unread : Has(page, t) \/ (Len(page) = size /\ Above(page, t))
  BY NextPages
<1>2. /\ list \in Seq(Nat) /\ asking.limit \in Nat /\ startKey \in Nat
      /\ SoFar(list, startKey) /\ pageLimit \in Nat \ {0}
      /\ items \subseteq everThere /\ items \subseteq Nat /\ throughout \subseteq items
  <2>1. ReadMoment \subseteq Nat /\ list \in Seq(ReadMoment)
    BY ReadAssumption DEF Typed, ReadTypeOK
  <2>2. list \in Seq(Nat)
    BY <2>1, WiderSeq
  <2>3. asking.limit \in Nat
    BY DEF Typed, ReadTypeOK
  <2>4. startKey \in Nat /\ pageLimit \in Nat
    BY <2>1 DEF Typed, ReadTypeOK, NoKey
  <2>5. items \subseteq Nat /\ throughout \subseteq items
    BY <2>1 DEF Typed, ReadTypeOK
  <2> QED
    BY <2>2, <2>3, <2>4, <2>5 DEF ListWalk
<1>3. \A i \in 1..Len(page) : page[i] \in Unread
  BY <1>1
<1>4. \A t \in Unread : Above(list, t)
  <2> SUFFICES ASSUME NEW t \in Unread, NEW i \in 1..Len(list) PROVE list[i] > t
    BY DEF Above
  <2>1. startKey = list[Len(list)] /\ list # <<>> /\ \A j \in 1..Len(list) : list[j] \in Nat
    BY <1>2 DEF SoFar
  <2>2. startKey # NoKey
    <3>1. Len(list) \in 1..Len(list)
      BY <1>2, <2>1
    <3>2. list[Len(list)] \in ReadMoment
      BY <3>1 DEF Typed, ReadTypeOK
    <3> QED
      BY <2>1, <3>2, ReadAssumption DEF NoKey
  <2>3. t < startKey /\ t \in Nat
    BY <1>2, <2>2 DEF Unread
  <2>4. list[i] >= startKey
    <3>1. Len(list) \in 1..Len(list) /\ (i < Len(list) \/ i = Len(list))
      BY <1>2, <2>1
    <3> QED
      BY <1>2, <2>1, <3>1 DEF SoFar, Down
  <2> QED
    BY <1>2, <2>1, <2>3, <2>4
<1>5. /\ data \in Seq(Nat) /\ Len(data) = Len(list) + Len(page) /\ Down(data)
      /\ \A t : Has(data, t) <=> Has(list, t) \/ Has(page, t)
      /\ \A t : Above(data, t) <=> Above(list, t) /\ Above(page, t)
      /\ page # <<>> => data[Len(data)] = page[Len(page)]
  BY <1>1, <1>2, <1>3, <1>4, Joined DEF SoFar
<1> HIDE DEF data, page
<1>6. \A t : Has(data, t) => InRange(t) /\ t \in everThere
  <2>1. \A t : Has(list, t) => InRange(t) /\ t \in everThere
    BY <1>2 DEF SoFar, Has
  <2>2. \A t : Has(page, t) => InRange(t) /\ t \in everThere
    BY <1>2, <1>3 DEF Has, Unread
  <2> QED
    BY <1>5, <2>1, <2>2
<1>7. \A i \in 1..Len(data) : InRange(data[i]) /\ data[i] \in everThere
  BY <1>6 DEF Has
<1>8. \A t \in throughout : InRange(t) =>
          Has(data, t) \/ (t \in Unread /\ Len(page) = size /\ Above(data, t))
  <2> SUFFICES ASSUME NEW t \in throughout, InRange(t), ~Has(data, t)
               PROVE  t \in Unread /\ Len(page) = size /\ Above(data, t)
    OBVIOUS
  <2>1. t \in Unread
    <3>1. startKey # NoKey => ~(startKey <= t)
      BY <1>2, <1>5 DEF SoFar
    <3> QED
      BY <1>2, <3>1 DEF Unread
  <2> QED
    BY <1>1, <1>4, <1>5, <2>1
<1>9. ASSUME over
      PROVE  /\ Down(cut) /\ Len(cut) = asking.limit /\ Complete(cut)
             /\ \A i \in 1..Len(cut) : InRange(cut[i]) /\ cut[i] \in everThere
  <2>1. /\ cut \in Seq(Nat) /\ Len(cut) = asking.limit /\ Down(cut)
        /\ \A t : Has(cut, t) => Has(data, t)
        /\ \A t : Has(data, t) => Has(cut, t) \/ Above(cut, t)
        /\ \A t : Above(data, t) => Above(cut, t)
    BY <1>2, <1>5, <1>9, Cut
  <2> HIDE DEF cut
  <2>2. Complete(cut)
    BY <1>8, <1>9, <2>1 DEF Complete
  <2>3. \A i \in 1..Len(cut) : InRange(cut[i]) /\ cut[i] \in everThere
    BY <1>6, <2>1 DEF Has
  <2> QED
    BY <2>1, <2>2, <2>3
<1>10. ASSUME ~over, page = <<>> \/ ~more PROVE Complete(data)
  <2> SUFFICES ASSUME NEW t \in throughout, InRange(t), ~Has(data, t) PROVE FALSE
    BY DEF Complete
  <2>1. t \in Unread /\ Len(page) = size /\ Above(page, t) /\ t \in items
    BY <1>2, <1>5, <1>8
  <2>2. page # <<>>
    BY <1>1, <2>1, PageIsNumber
  <2>3. t < page[Len(page)]
    <3>1. Len(page) \in 1..Len(page) /\ page[Len(page)] \in Nat /\ t \in Nat
      BY <1>1, <1>2, <2>1, <2>2
    <3> QED
      BY <2>1, <3>1 DEF Above
  <2>4. MayHaveMore(page) = {TRUE}
    BY <2>1, <2>3 DEF MayHaveMore, Unread
  <2> QED
    BY <1>10, <2>2, <2>4 DEF page
<1>11. ASSUME page # <<>>, ~over PROVE SoFar(data, page[Len(page)])
  <2>1. Len(page) \in 1..Len(page) /\ page[Len(page)] \in Nat
    BY <1>1, <1>11
  <2>2. ASSUME NEW t \in throughout, InRange(t), page[Len(page)] <= t PROVE Has(data, t)
    <3>1. t \in Nat
      BY <1>2
    <3>2. ~Above(page, t)
      BY <2>1, <2>2, <3>1 DEF Above
    <3> QED
      BY <1>5, <1>8, <2>2, <3>2
  <2>3. data # <<>> /\ Len(data) \in Nat
    BY <1>1, <1>2, <1>5, <2>1
  <2>4. asking.limit > 0 => Len(data) <= asking.limit
    BY <1>2, <1>11, <2>3
  <2> QED
    BY <1>5, <1>7, <1>11, <2>2, <2>3, <2>4 DEF SoFar
<1> QED
  BY <1>5, <1>7, <1>9, <1>10, <1>11 DEF data, page

ListDone ==
  asking.step = "answered" /\ asking.kind \in TableKinds =>
    /\ Down(list) /\ Complete(list)
    /\ \A i \in 1..Len(list) : InRange(list[i]) /\ list[i] \in everThere
    /\ asking.limit > 0 => Len(list) <= asking.limit
ListInv == ListWalk /\ ListDone /\ RowsListed

LEMMA DoneExact ==
  ASSUME Typed, ListInv
  PROVE  ListExact
<1>1. Len(list) \in Nat /\ DOMAIN list = 1..Len(list)
  BY DEF Typed, ReadTypeOK
<1>2. Answered /\ asking.kind \notin TableKinds => list = <<>> /\ Len(list) = 0
  BY DEF Answered, ListInv, ListWalk
<1>3. asking.limit \in Nat
  BY DEF Typed, ReadTypeOK
<1>4. ListOrdered
  BY <1>1, <1>2, <1>3 DEF ListOrdered, Listed, ListInv, ListDone, Answered, Down
<1>5. ListComplete
  BY <1>1 DEF ListComplete, Listed, ListInv, ListDone, Answered, Complete, Has, Above
<1> QED
  BY <1>4, <1>5 DEF ListExact, ListInv

LEMMA InitList == ReadInit => ListInv
  BY DEF ReadInit, ListInv, ListWalk, ListDone, RowsListed, Answered, NoRequest

\* A request that goes on to its first page or count.
LEMMA NewRequest ==
  ASSUME ListInv, NEW kind, NEW low, NEW high, NEW limit \in Nat, NEW call,
         BeginRequest([kind |-> kind, from |-> low, to |-> high, limit |-> limit, step |-> call]),
         \/ kind \in TableKinds /\ call = "page" /\ pageLimit' > 0
         \/ kind = "counts" /\ call = "own",
         UNCHANGED <<items, startKey, list>>
  PROVE  ListInv'
<1>1. list' = <<>> /\ startKey' = NoKey /\ everThere' = items'
  BY DEF BeginRequest, NoRequest, ListInv, ListWalk
<1>2. /\ asking'.kind = kind /\ asking'.step = call
      /\ kind \in TableKinds \/ kind = "counts"
      /\ kind # "none" /\ call \in {"page", "own"}
  BY DEF BeginRequest, TableKinds
<1>3. SoFar(list, startKey)'
  <2>1. Len(list') = 0 /\ asking'.limit \in Nat
    BY <1>1 DEF BeginRequest
  <2> QED
    BY <1>1, <2>1 DEF SoFar, Down
<1> QED
  BY <1>1, <1>2, <1>3 DEF ListInv, ListWalk, ListDone, RowsListed, Answered, TableKinds

LEMMA RowsRead ==
  ASSUME Typed, ListInv, NEW kind \in RowKinds, NEW low \in ReadMoment, NEW high \in ReadMoment,
         NEW limit \in Limits, AskRows(kind, low, high, limit)
  PROVE  ListInv'
<1> DEFINE S == {r \in rows : r.owner = "self" /\ Within(kind, r.at, low, high)}
<1>1. IsFiniteSet(S) /\ (\A r \in S : r.at \in Nat) /\ LimitOf(limit) \in Nat
  <2>1. S \subseteq rows /\ \A r \in S : r.at \in Nat
    BY ReadAssumption DEF Typed, ReadTypeOK, AnyRow
  <2> QED
    BY <2>1, FS_Subset, LimitRange DEF Typed
<1>2. /\ found' \in FirstRows(S, LimitOf(limit)) /\ everThere' = items
      /\ asking'.step = "answered" /\ asking'.limit = LimitOf(limit)
      /\ asking'.kind = kind /\ asking'.from = low /\ asking'.to = high
      /\ UNCHANGED <<items, rows, list, startKey>>
  BY DEF AskRows, BeginRequest
<1>3. \A r \in rows : r.owner = "self" /\ InRange(r.at)' <=> r \in S
  BY <1>2 DEF InRange
<1>4. kind \notin TableKinds \cup {"none", "counts"}
  BY DEF TableKinds, RowKinds
<1>5. list' = <<>> /\ startKey' = NoKey
  BY <1>2 DEF AskRows, BeginRequest, NoRequest, ListInv, ListWalk
<1>6. ListWalk' /\ ListDone'
  BY <1>2, <1>4, <1>5 DEF ListWalk, ListDone
<1>7. /\ found' \in Seq(S) /\ Len(found') <= LimitOf(limit)
      /\ \A i, j \in 1..Len(found') : i < j => found'[i] # found'[j] /\ found'[i].at >= found'[j].at
      /\ \A r \in S : \/ \E i \in 1..Len(found') : found'[i] = r
                      \/ /\ Len(found') = LimitOf(limit)
                         /\ \A i \in 1..Len(found') : found'[i].at >= r.at
  BY <1>1, <1>2, RowsGiven
<1>8. DOMAIN found' = 1..Len(found') /\ \A i \in 1..Len(found') : found'[i] \in S /\ found'[i] \in rows
  <2>1. S \subseteq rows
    OBVIOUS
  <2> HIDE DEF S
  <2> QED
    BY <1>7, <2>1
<1>9. \A i \in DOMAIN found' : found'[i] \in rows /\ found'[i].owner = "self" /\ InRange(found[i].at)'
  <2> SUFFICES ASSUME NEW i \in DOMAIN found'
               PROVE  found'[i] \in rows /\ found'[i].owner = "self" /\ InRange(found[i].at)'
    OBVIOUS
  <2>1. found'[i] \in S /\ found'[i] \in rows
    BY <1>8
  <2> QED
    BY <1>2, <2>1 DEF InRange
<1> HIDE DEF S
<1>10. RowsListed'
  BY <1>2, <1>3, <1>7, <1>8, <1>9 DEF RowsListed
<1> QED
  BY <1>6, <1>10 DEF ListInv

LEMMA PageRead ==
  ASSUME Typed, ListInv, ReadPage
  PROVE  ListInv'
<1>0. PICK size \in PageSizes : \E more \in MayHaveMore(NextPage(size)) :
        LET page == NextPage(size)
            all == list \o page
            full == asking.limit > 0 /\ Len(all) > asking.limit
            last == full \/ page = <<>> \/ ~more
        IN /\ list' = IF full THEN SubSeq(all, 1, asking.limit) ELSE all
           /\ IF last
              THEN asking' = [asking EXCEPT !.step = "answered"] /\ UNCHANGED startKey
              ELSE startKey' = page[Len(page)] /\ UNCHANGED asking
  BY DEF ReadPage
<1> DEFINE data == list \o NextPage(size)
           over == asking.limit > 0 /\ Len(data) > asking.limit
           cut == SubSeq(data, 1, asking.limit)
<1>1. PICK more \in MayHaveMore(NextPage(size)) :
        LET last == over \/ NextPage(size) = <<>> \/ ~more
        IN /\ list' = IF over THEN cut ELSE data
           /\ IF last
              THEN asking' = [asking EXCEPT !.step = "answered"] /\ UNCHANGED startKey
              ELSE startKey' = NextPage(size)[Len(NextPage(size))] /\ UNCHANGED asking
  BY <1>0
<1>2. asking.step = "page" /\ UNCHANGED <<items, pageLimit, throughout, everThere>>
  BY DEF ReadPage
<1>3. /\ data \in Seq(Nat) /\ Down(data)
      /\ over => /\ Down(cut) /\ Len(cut) = asking.limit /\ Complete(cut)
                 /\ \A i \in 1..Len(cut) : InRange(cut[i]) /\ cut[i] \in everThere
      /\ \A i \in 1..Len(data) : InRange(data[i]) /\ data[i] \in everThere
      /\ ~over /\ (NextPage(size) = <<>> \/ ~more) => Complete(data)
      /\ NextPage(size) # <<>> => SoFar(data, NextPage(size)[Len(NextPage(size))]) \/ over
  BY <1>2, ReadMore DEF ListInv
<1>4. asking.limit \in Nat /\ Len(data) \in Nat
  BY <1>3 DEF Typed, ReadTypeOK
<1> HIDE DEF data, cut
<1>5. asking.kind \in TableKinds /\ asking.kind \notin {"none", "counts"} \cup RowKinds /\ items \subseteq everThere
  BY <1>2 DEF ListInv, ListWalk, TableKinds, RowKinds
<1>6. CASE asking' = [asking EXCEPT !.step = "answered"] /\ (over \/ NextPage(size) = <<>> \/ ~more)
  <2>1. /\ asking'.step = "answered" /\ asking'.kind = asking.kind /\ asking'.limit = asking.limit
        /\ asking'.from = asking.from /\ asking'.to = asking.to
    BY <1>6 DEF Typed, ReadTypeOK
  <2>2. \A t : InRange(t)' <=> InRange(t)
    BY <2>1 DEF InRange
  <2>3. /\ Down(list') /\ Complete(list')
        /\ \A i \in 1..Len(list') : InRange(list'[i]) /\ list'[i] \in everThere
        /\ asking.limit > 0 => Len(list') <= asking.limit
    <3>1. CASE over
      <4>1. list' = cut
        BY <1>1, <3>1
      <4> QED
        BY <1>3, <1>4, <3>1, <4>1
    <3>2. CASE ~over
      <4>1. list' = data /\ (asking.limit > 0 => Len(data) <= asking.limit)
        BY <1>1, <1>4, <3>2
      <4> QED
        BY <1>3, <1>6, <3>2, <4>1
    <3> QED
      BY <3>1, <3>2
  <2>4. ListDone'
    BY <1>2, <2>1, <2>2, <2>3 DEF ListDone, Complete
  <2>5. ListWalk'
    BY <1>2, <1>5, <2>1 DEF ListWalk
  <2> QED
    BY <1>5, <2>1, <2>4, <2>5 DEF ListInv, RowsListed
<1>7. CASE ~(over \/ NextPage(size) = <<>> \/ ~more)
  <2>1. list' = data /\ startKey' = NextPage(size)[Len(NextPage(size))] /\ asking' = asking
    BY <1>1, <1>7
  <2>2. SoFar(list', startKey')
    BY <1>3, <1>7, <2>1
  <2>3. SoFar(list, startKey)'
    BY <1>2, <2>1, <2>2 DEF SoFar, InRange
  <2> QED
    BY <1>2, <1>5, <2>1, <2>3 DEF ListInv, ListWalk, ListDone, RowsListed
<1> QED
  BY <1>1, <1>6, <1>7

LEMMA WrittenBeside ==
  ASSUME Typed, ListInv, asking.step = "page", NEW t, StoreItem(t) \/ RemoveItem(t)
  PROVE  ListInv'
<1>1. /\ everThere \subseteq everThere' /\ throughout' \subseteq throughout /\ items' \subseteq everThere'
      /\ UNCHANGED <<asking, pageLimit, startKey, list>>
  BY DEF StoreItem, RemoveItem, ListInv, ListWalk
<1>2. SoFar(list, startKey)'
  BY <1>1 DEF ListInv, ListWalk, SoFar, InRange
<1> QED
  BY <1>1, <1>2 DEF ListInv, ListWalk, ListDone, RowsListed, Answered

LEMMA StepList ==
  ASSUME Typed, ListInv, [ReadNext]_readVars
  PROVE  ListInv'
<1>1. ASSUME NEW low \in ReadMoment, NEW high \in ReadMoment, NEW limit \in Limits, AskList(low, high, limit)
      PROVE  ListInv'
  <2>1. LimitOf(limit) \in Nat /\ pageLimit' > 0
    BY <1>1, LimitRange DEF AskList
  <2> QED
    BY <1>1, <2>1, NewRequest DEF AskList, TableKinds
<1>2. ASSUME NEW now \in ReadMoment, AskExport(now) PROVE ListInv'
  <2>1. pageLimit' > 0
    BY <1>2, ReadAssumption DEF AskExport
  <2> QED
    BY <1>2, <2>1, NewRequest DEF AskExport, TableKinds
<1>3. ASSUME NEW low \in ReadMoment, NEW high \in ReadMoment, AskCounts(low, high) PROVE ListInv'
  BY <1>3, NewRequest DEF AskCounts
<1>4. CASE CountOwn
  <2>1. /\ asking'.step = "answered" /\ asking'.kind = "counts" /\ list' = <<>> /\ startKey' = NoKey
        /\ items' \subseteq everThere'
    BY <1>4 DEF CountOwn, ListInv, ListWalk, Typed, ReadTypeOK
  <2> QED
    BY <2>1 DEF ListInv, ListWalk, ListDone, RowsListed, TableKinds, RowKinds
<1>5. ASSUME NEW row, InsertRow(row), asking.step \in {"none", "own"} PROVE ListInv'
  BY <1>5 DEF InsertRow, ListInv, ListWalk, ListDone, RowsListed, Answered
<1>6. ASSUME NEW owner, DeleteRows(owner), asking.step \in {"none", "own"} PROVE ListInv'
  BY <1>6 DEF DeleteRows, ListInv, ListWalk, ListDone, RowsListed, Answered
<1>7. CASE UNCHANGED readVars
  BY <1>7 DEF readVars, ListInv, ListWalk, ListDone, RowsListed, Answered, SoFar, Complete, InRange
<1> QED
  BY <1>1, <1>2, <1>3, <1>4, <1>5, <1>6, <1>7, RowsRead, PageRead, WrittenBeside
     DEF ReadNext, ListNext, CountNext

(***************************************************************************)
(* A list is in order, within its bounds, without repetition, shows nothing      *)
(* that never was there, and has all that was there throughout up to the limit  *)
(* (queryFBStatResult), whatever is stored and removed between its pages; and a   *)
(* list of rows is the newest of them, with any of those of one time at its end. *)
(***************************************************************************)
THEOREM ListsExact == ReadSpec => []ListExact
<1>1. ReadInit => Typed /\ ListInv
  BY InitTypes, InitList
<1>2. Typed /\ ListInv /\ [ReadNext]_readVars => (Typed /\ ListInv)'
  BY StepTypes, StepList
<1>3. Typed /\ ListInv => ListExact
  BY DoneExact
<1> QED
  BY <1>1, <1>2, <1>3, PTL DEF ReadSpec

-----------------------------------------------------------------------------
(***************************************************************************)
(* Counts.  What the account has now and has not got since the first count was   *)
(* counted there: rows are only removed, or remembered in ownWrites.            *)
(***************************************************************************)
Own(t) ==
  {r \in rows : r.owner \in {"self"} /\ r.type = t /\ asking.from < r.at /\ r.at < asking.to}

CountWalk ==
  asking.step = "own" =>
      \A t \in CountedTypes : Cardinality(Own(t) \ ownWrites) <= sysCount[t]
CountInv == CountWalk /\ CountsCover

LEMMA StepCount ==
  ASSUME Typed, ListInv, CountInv, [ReadNext]_readVars
  PROVE  CountInv'
<1>1. ASSUME NEW low \in ReadMoment, NEW high \in ReadMoment, AskCounts(low, high) PROVE CountInv'
  <2>1. /\ asking'.step = "own" /\ asking'.from = low /\ asking'.to = high /\ ownWrites' = {}
        /\ rows' = rows /\ sysCount' = CountOf(Owner, low, high)
    BY <1>1 DEF AskCounts, BeginRequest
  <2>2. ASSUME NEW t \in CountedTypes PROVE Cardinality(Own(t)' \ ownWrites') <= sysCount'[t]
    <3> DEFINE All == {r \in rows : r.owner \in Owner /\ r.type = t /\ low < r.at /\ r.at < high}
    <3>1. (Own(t)' \ ownWrites') \subseteq All
      BY <2>1 DEF Own, Owner
    <3>2. IsFiniteSet(All)
      BY FS_Subset DEF Typed
    <3>3. sysCount'[t] = Cardinality(All)
      BY <2>1 DEF CountOf
    <3> HIDE DEF All
    <3> QED
      BY <3>1, <3>2, <3>3, FS_Subset
  <2> QED
    BY <2>1, <2>2 DEF CountInv, CountWalk, CountsCover, Answered
<1>2. CASE CountOwn
  <2>1. /\ asking.step = "own" /\ asking'.step = "answered" /\ sysCount' = sysCount
        /\ ownWrites' = ownWrites /\ ownCount' = CountOf({"self"}, asking.from, asking.to)
    BY <1>2 DEF CountOwn, Typed, ReadTypeOK
  <2>2. ASSUME NEW t \in CountedTypes
        PROVE  ownCount'[t] <= sysCount[t] + Cardinality({r \in ownWrites : r.type = t})
    <3> DEFINE old == Own(t) \ ownWrites
               new == {r \in ownWrites : r.type = t}
    <3>1. ownCount'[t] = Cardinality(Own(t))
      BY <2>1 DEF CountOf, Own
    <3>2. Own(t) \subseteq old \cup new
      BY DEF Own
    <3>3. IsFiniteSet(old) /\ IsFiniteSet(new) /\ IsFiniteSet(Own(t))
      <4>1. Own(t) \subseteq rows /\ old \subseteq rows /\ new \subseteq ownWrites
        BY DEF Own
      <4> QED
        BY <4>1, FS_Subset DEF Typed
    <3>4. Cardinality(old) <= sysCount[t] /\ sysCount[t] \in Nat
      BY <2>1 DEF CountInv, CountWalk, Typed, ReadTypeOK
    <3> HIDE DEF old, new
    <3>5. IsFiniteSet(old \cup new) /\ Cardinality(old \cup new) = Cardinality(old) + Cardinality(new) - Cardinality(old \cap new)
      BY <3>3, FS_Union
    <3>6. IsFiniteSet(old \cap new) /\ Cardinality(old \cap new) \in Nat
      <4>1. IsFiniteSet(old \cap new)
        BY <3>3, FS_Subset
      <4> QED
        BY <4>1, FS_CardinalityType
    <3>7. Cardinality(Own(t)) <= Cardinality(old \cup new)
      BY <3>2, <3>5, FS_Subset
    <3>8. Cardinality(old) \in Nat /\ Cardinality(new) \in Nat /\ Cardinality(Own(t)) \in Nat
      BY <3>3, FS_CardinalityType
    <3>9. Cardinality(Own(t)) <= sysCount[t] + Cardinality(new)
      BY <3>4, <3>5, <3>6, <3>7, <3>8
    <3> QED
      BY <3>1, <3>9 DEF new
  <2> QED
    BY <2>1, <2>2 DEF CountInv, CountWalk, CountsCover, Answered
<1>3. ASSUME NEW row \in AnyRow, InsertRow(row), asking.step \in {"none", "own"} PROVE CountInv'
  <2>1. UNCHANGED <<asking, sysCount>>
    BY <1>3 DEF InsertRow
  <2>2. ASSUME NEW t \in CountedTypes PROVE (Own(t)' \ ownWrites') \subseteq (Own(t) \ ownWrites)
    BY <1>3, <2>1 DEF InsertRow, Own
  <2>3. ASSUME asking.step = "own", NEW t \in CountedTypes
        PROVE  Cardinality(Own(t)' \ ownWrites') <= sysCount[t]
    <3>1. IsFiniteSet(Own(t) \ ownWrites)
      <4>1. Own(t) \ ownWrites \subseteq rows
        BY DEF Own
      <4> QED
        BY <4>1, FS_Subset DEF Typed
    <3>2. Cardinality(Own(t)' \ ownWrites') <= Cardinality(Own(t) \ ownWrites)
      BY <2>2, <3>1, FS_Subset
    <3>3. IsFiniteSet(Own(t)' \ ownWrites')
      BY <2>2, <3>1, FS_Subset
    <3>4. Cardinality(Own(t)' \ ownWrites') \in Nat /\ Cardinality(Own(t) \ ownWrites) \in Nat
      BY <3>1, <3>3, FS_CardinalityType
    <3>5. sysCount[t] \in Nat
      BY DEF Typed, ReadTypeOK
    <3>6. Cardinality(Own(t) \ ownWrites) <= sysCount[t]
      BY <2>3 DEF CountInv, CountWalk
    <3> QED
      BY <3>2, <3>4, <3>5, <3>6
  <2> QED
    BY <1>3, <2>1, <2>3 DEF CountInv, CountWalk, CountsCover, Answered
<1>4. ASSUME NEW owner \in Owner, DeleteRows(owner), asking.step \in {"none", "own"} PROVE CountInv'
  <2>1. UNCHANGED <<asking, sysCount, ownWrites>> /\ rows' \subseteq rows
    BY <1>4 DEF DeleteRows
  <2>2. ASSUME NEW t \in CountedTypes PROVE (Own(t)' \ ownWrites') \subseteq (Own(t) \ ownWrites)
    BY <2>1 DEF Own
  <2>3. ASSUME asking.step = "own", NEW t \in CountedTypes
        PROVE  Cardinality(Own(t)' \ ownWrites') <= sysCount[t]
    <3>1. IsFiniteSet(Own(t) \ ownWrites)
      <4>1. Own(t) \ ownWrites \subseteq rows
        BY DEF Own
      <4> QED
        BY <4>1, FS_Subset DEF Typed
    <3>2. Cardinality(Own(t)' \ ownWrites') <= Cardinality(Own(t) \ ownWrites)
      BY <2>2, <3>1, FS_Subset
    <3>3. IsFiniteSet(Own(t)' \ ownWrites')
      BY <2>2, <3>1, FS_Subset
    <3>4. Cardinality(Own(t)' \ ownWrites') \in Nat /\ Cardinality(Own(t) \ ownWrites) \in Nat
      BY <3>1, <3>3, FS_CardinalityType
    <3>5. sysCount[t] \in Nat
      BY DEF Typed, ReadTypeOK
    <3>6. Cardinality(Own(t) \ ownWrites) <= sysCount[t]
      BY <2>3 DEF CountInv, CountWalk
    <3> QED
      BY <3>2, <3>4, <3>5, <3>6
  <2> QED
    BY <1>4, <2>1, <2>3 DEF CountInv, CountWalk, CountsCover, Answered
<1>5. ASSUME asking'.kind \in TableKinds \cup RowKinds PROVE CountInv'
  <2>1. asking'.kind # "counts"
    BY <1>5 DEF TableKinds, RowKinds
  <2>2. asking'.step # "own"
    BY <2>1, StepList DEF ListInv, ListWalk
  <2> QED
    BY <2>1, <2>2 DEF CountInv, CountWalk, CountsCover, Answered
<1>6. ASSUME NEW low \in ReadMoment, NEW high \in ReadMoment, NEW limit \in Limits,
             \/ AskList(low, high, limit)
             \/ \E kind \in RowKinds : AskRows(kind, low, high, limit)
      PROVE  CountInv'
  <2>1. ASSUME AskList(low, high, limit) PROVE CountInv'
    BY <1>5, <2>1 DEF AskList, BeginRequest, TableKinds
  <2>2. ASSUME NEW kind \in RowKinds, AskRows(kind, low, high, limit) PROVE CountInv'
    <3>1. asking'.kind = kind
      BY <2>2 DEF AskRows, BeginRequest
    <3> QED
      BY <1>5, <3>1
  <2> QED
    BY <1>6, <2>1, <2>2
<1>7. ASSUME NEW now \in ReadMoment, AskExport(now) PROVE CountInv'
  BY <1>5, <1>7 DEF AskExport, BeginRequest, TableKinds
<1>8. CASE ReadPage
  <2>1. asking'.kind = asking.kind /\ asking.kind \in TableKinds
    BY <1>8 DEF ReadPage, ListInv, ListWalk, Typed, ReadTypeOK
  <2> QED
    BY <1>5, <2>1
<1>9. ASSUME NEW t \in ReadMoment, asking.step = "page", StoreItem(t) \/ RemoveItem(t) PROVE CountInv'
  <2>1. asking'.kind = asking.kind /\ asking.kind \in TableKinds
    BY <1>9 DEF StoreItem, RemoveItem, ListInv, ListWalk
  <2> QED
    BY <1>5, <2>1
<1>10. CASE UNCHANGED readVars
  BY <1>10 DEF readVars, CountInv, CountWalk, CountsCover, Own, Answered
<1> QED
  BY <1>1, <1>2, <1>3, <1>4, <1>6, <1>7, <1>8, <1>9, <1>10 DEF ReadNext, ListNext, CountNext, AnyRow

\* The types of the lists and counts hold: a list has only times, and a page begins behind one.
THEOREM ReadTyped == ReadSpec => []ReadTypeOK
<1>1. ReadInit => Typed
  BY InitTypes
<1>2. Typed /\ [ReadNext]_readVars => Typed'
  BY StepTypes
<1>3. Typed => ReadTypeOK
  BY DEF Typed
<1> QED
  BY <1>1, <1>2, <1>3, PTL DEF ReadSpec

(***************************************************************************)
(* Nobody has more posts or reactions of a type than all accounts together, but  *)
(* what came between the two queries (postsCountStats, reactionsCountStats).     *)
(***************************************************************************)
THEOREM CountsCovered == ReadSpec => []CountsCover
<1> DEFINE Inv == Typed /\ ListInv /\ CountInv
<1>1. ReadInit => Inv
  <2>1. ReadInit => CountInv
    BY DEF ReadInit, NoRequest, CountInv, CountWalk, CountsCover, Answered
  <2> QED
    BY <2>1, InitTypes, InitList
<1>2. Inv /\ [ReadNext]_readVars => Inv'
  BY StepTypes, StepList, StepCount
<1>3. Inv => CountsCover
  BY DEF CountInv
<1> QED
  BY <1>1, <1>2, <1>3, PTL DEF ReadSpec

-----------------------------------------------------------------------------
(* The weeks of a finite set, in their order. *)

Rank(S, x) == Cardinality({u \in S : u <= x})

LEMMA RankGrows ==
    ASSUME NEW S, IsFiniteSet(S), S \subseteq Int, NEW x \in S, NEW y \in S, x < y
    PROVE  Rank(S, x) < Rank(S, y)
  <1> DEFINE A == {u \in S : u <= x}
             B == {u \in S : u <= y}
  <1>1. IsFiniteSet(A) /\ IsFiniteSet(B)
    BY FS_Subset
  <1>2. x \in Int /\ y \in Int
    OBVIOUS
  <1>3. A \subseteq B
    <2>1. \A u \in S : u <= x => u <= y
      BY <1>2
    <2> QED
      BY <2>1
  <1>4. y \in B /\ y \notin A
    BY <1>2
  <1>5. Cardinality(A) <= Cardinality(B) /\ Cardinality(A) # Cardinality(B)
    BY <1>1, <1>3, <1>4, FS_Subset
  <1>6. Cardinality(A) \in Nat /\ Cardinality(B) \in Nat
    BY <1>1, FS_CardinalityType
  <1> QED
    BY <1>5, <1>6 DEF Rank

\* A rank belongs to one element only.
LEMMA RankOfOne ==
    ASSUME NEW S, IsFiniteSet(S), S \subseteq Int, NEW x \in S, NEW y \in S, Rank(S, x) = Rank(S, y)
    PROVE  x = y
  <1>1. ~(x < y) /\ ~(y < x)
    <2>1. IsFiniteSet({u \in S : u <= x}) /\ IsFiniteSet({u \in S : u <= y})
      BY FS_Subset
    <2>2. Rank(S, x) \in Nat /\ Rank(S, y) \in Nat
      BY <2>1, FS_CardinalityType DEF Rank
    <2>3. x < y => Rank(S, x) < Rank(S, y)
      BY RankGrows
    <2>4. y < x => Rank(S, y) < Rank(S, x)
      BY RankGrows
    <2> QED
      BY <2>2, <2>3, <2>4
  <1> QED
    BY <1>1

\* One more, behind the others.
LEMMA RankOfMore ==
    ASSUME NEW S, IsFiniteSet(S), S \subseteq Int, NEW w \in Int, \A x \in S : x < w
    PROVE  /\ IsFiniteSet(S \cup {w}) /\ Cardinality(S \cup {w}) = Cardinality(S) + 1
           /\ Rank(S \cup {w}, w) = Cardinality(S) + 1
           /\ \A x \in S : Rank(S \cup {w}, x) = Rank(S, x)
  <1>1. w \notin S
    OBVIOUS
  <1>2. IsFiniteSet(S \cup {w}) /\ Cardinality(S \cup {w}) = Cardinality(S) + 1
    BY <1>1, FS_AddElement
  <1>3. {u \in S \cup {w} : u <= w} = S \cup {w}
    <2>1. \A u \in S \cup {w} : u <= w
      OBVIOUS
    <2> QED
      BY <2>1
  <1>4. ASSUME NEW x \in S PROVE {u \in S \cup {w} : u <= x} = {u \in S : u <= x}
    <2>1. x \in Int /\ ~(w <= x)
      OBVIOUS
    <2> QED
      BY <2>1
  <1> QED
    BY <1>2, <1>3, <1>4 DEF Rank

\* There is an element of every rank.
LEMMA RankTaken ==
    ASSUME NEW S, IsFiniteSet(S), S \subseteq Int, NEW n \in 1..Cardinality(S)
    PROVE  \E w \in S : Rank(S, w) = n
  <1> DEFINE Gap(V) == \E v \in 1..Cardinality(V) : \A w \in V : Rank(V, w) # v
             Sizes == {m \in Nat : \E V \in SUBSET Int : IsFiniteSet(V) /\ Cardinality(V) = m /\ Gap(V)}
  <1> SUFFICES ASSUME Sizes # {} PROVE FALSE
    <2>1. Cardinality(S) \in Nat
      BY FS_CardinalityType
    <2> QED
      BY <2>1
  <1>1. PICK m \in Sizes : \A k \in Sizes : m <= k
    <2>1. Sizes \subseteq Nat
      OBVIOUS
    <2> HIDE DEF Sizes
    <2> QED
      BY <2>1, LeastNatural, Zenon
  <1>2. PICK V \in SUBSET Int : IsFiniteSet(V) /\ Cardinality(V) = m /\ Gap(V)
    OBVIOUS
  <1>3. PICK v \in 1..m : \A w \in V : Rank(V, w) # v
    BY <1>2
  <1>4. m \in Nat /\ V # {}
    BY <1>2, <1>3, FS_EmptySet
  <1>5. PICK w \in V : \A x \in V : x <= w
    BY <1>2, <1>4, LastOf
  <1> DEFINE U == V \ {w}
  <1>6. IsFiniteSet(U) /\ Cardinality(U) = m - 1 /\ U \subseteq Int
    BY <1>2, FS_RemoveElement
  <1>7. w \in Int /\ (\A x \in U : x < w) /\ V = U \cup {w}
    BY <1>5
  <1>8. Rank(V, w) = m /\ \A x \in U : Rank(V, x) = Rank(U, x)
    <2> HIDE DEF U
    <2>1. /\ Rank(U \cup {w}, w) = Cardinality(U) + 1
          /\ \A x \in U : Rank(U \cup {w}, x) = Rank(U, x)
      BY <1>6, <1>7, RankOfMore
    <2>2. Cardinality(U) + 1 = m
      BY <1>4, <1>6
    <2> QED
      BY <1>7, <2>1, <2>2
  <1>9. v \in 1..(m - 1)
    BY <1>3, <1>4, <1>8
  <1>10. \A x \in U : Rank(U, x) # v
    BY <1>3, <1>8
  <1>11. m - 1 \in Sizes
    <2>1. m - 1 \in Nat
      BY <1>4, <1>9
    <2>2. Gap(U)
      BY <1>6, <1>9, <1>10
    <2> HIDE DEF Gap, U
    <2> QED
      BY <1>6, <2>1, <2>2
  <1> QED
    BY <1>1, <1>4, <1>11

LEMMA NthRanked ==
    ASSUME NEW S, IsFiniteSet(S), S \subseteq Int, NEW n \in 1..Cardinality(S)
    PROVE  NthWeek(S, n) \in S /\ Rank(S, NthWeek(S, n)) = n
  <1>1. \E w \in S : Cardinality({u \in S : u <= w}) = n
    BY RankTaken DEF Rank
  <1> QED
    BY <1>1 DEF NthWeek, Rank

LEMMA NthOfMore ==
    ASSUME NEW S, IsFiniteSet(S), S \subseteq Int, NEW w \in Int, \A x \in S : x < w
    PROVE  /\ \A n \in 1..Cardinality(S) : NthWeek(S \cup {w}, n) = NthWeek(S, n)
           /\ NthWeek(S \cup {w}, Cardinality(S) + 1) = w
  <1> DEFINE T == S \cup {w}
             c == Cardinality(S)
  <1>1. /\ IsFiniteSet(T) /\ T \subseteq Int /\ Cardinality(T) = c + 1 /\ c \in Nat
        /\ Rank(T, w) = c + 1 /\ \A x \in S : Rank(T, x) = Rank(S, x)
    BY RankOfMore, FS_CardinalityType
  <1>2. ASSUME NEW n \in 1..c PROVE NthWeek(T, n) = NthWeek(S, n)
    <2>1. NthWeek(S, n) \in S /\ Rank(S, NthWeek(S, n)) = n
      BY NthRanked
    <2>2. NthWeek(S, n) \in T /\ Rank(T, NthWeek(S, n)) = n
      BY <1>1, <2>1
    <2>3. n \in 1..Cardinality(T)
      BY <1>1
    <2>4. NthWeek(T, n) \in T /\ Rank(T, NthWeek(T, n)) = n
      BY <1>1, <2>3, NthRanked
    <2> HIDE DEF T
    <2> QED
      BY <1>1, <2>2, <2>4, RankOfOne
  <1>3. NthWeek(T, c + 1) = w
    <2>1. c + 1 \in 1..Cardinality(T) /\ w \in T
      BY <1>1
    <2>2. NthWeek(T, c + 1) \in T /\ Rank(T, NthWeek(T, c + 1)) = c + 1
      BY <1>1, <2>1, NthRanked
    <2> HIDE DEF T
    <2> QED
      BY <1>1, <2>1, <2>2, RankOfOne
  <1> QED
    BY <1>2, <1>3

-----------------------------------------------------------------------------
(* The scores of a set of weeks, in their order. *)

ScoresOf(f, S) == [n \in 1..Cardinality(S) |-> f[NthWeek(S, n)]]

LEMMA ScoresSequence ==
    ASSUME NEW S, IsFiniteSet(S), NEW f
    PROVE  /\ ScoresOf(f, S) \in Seq({f[NthWeek(S, n)] : n \in 1..Cardinality(S)})
           /\ Len(ScoresOf(f, S)) = Cardinality(S)
  <1>1. Cardinality(S) \in Nat
    BY FS_CardinalityType
  <1> QED
    BY <1>1 DEF ScoresOf

LEMMA ScoresSame ==
    ASSUME NEW S, IsFiniteSet(S), S \subseteq Int, NEW f, NEW g, \A x \in S : f[x] = g[x]
    PROVE  ScoresOf(f, S) = ScoresOf(g, S)
  <1>1. \A n \in 1..Cardinality(S) : f[NthWeek(S, n)] = g[NthWeek(S, n)]
    BY NthRanked
  <1> QED
    BY <1>1 DEF ScoresOf

\* A finite set below w, and functions that agree on it.
Below(S, w) == IsFiniteSet(S) /\ S \subseteq Int /\ w \in Int /\ \A x \in S : x < w
Agree(f, g, S) == \A x \in S : f[x] = g[x]

LEMMA ScoresOfMore ==
    ASSUME NEW S, NEW w, Below(S, w), NEW f, NEW g, Agree(f, g, S)
    PROVE  ScoresOf(g, S \cup {w}) = Append(ScoresOf(f, S), g[w])
  <1> USE DEF Below, Agree
  <1> DEFINE c == Cardinality(S)
             s == ScoresOf(f, S)
             t == ScoresOf(g, S \cup {w})
  <1>1. c \in Nat /\ Cardinality(S \cup {w}) = c + 1
    BY RankOfMore, FS_CardinalityType
  <1>2. /\ DOMAIN t = 1..(c + 1)
        /\ \A n \in 1..c : t[n] = s[n]
        /\ t[c + 1] = g[w]
    <2>1. DOMAIN t = 1..(c + 1) /\ \A n \in 1..(c + 1) : t[n] = g[NthWeek(S \cup {w}, n)]
      BY <1>1 DEF ScoresOf
    <2>2. \A n \in 1..c : s[n] = f[NthWeek(S, n)] /\ f[NthWeek(S, n)] = g[NthWeek(S, n)]
      BY NthRanked DEF ScoresOf
    <2>3. /\ \A n \in 1..c : NthWeek(S \cup {w}, n) = NthWeek(S, n)
          /\ NthWeek(S \cup {w}, c + 1) = w
      BY NthOfMore
    <2> HIDE DEF s, t, c
    <2>4. ASSUME NEW n \in 1..c PROVE t[n] = s[n]
      <3>1. n \in 1..(c + 1)
        BY <1>1
      <3> QED
        BY <2>1, <2>2, <2>3, <3>1
    <2>5. t[c + 1] = g[w]
      <3>1. c + 1 \in 1..(c + 1)
        BY <1>1
      <3> QED
        BY <2>1, <2>3, <3>1
    <2> QED
      BY <2>1, <2>4, <2>5
  <1>3. \E A : s \in Seq(A) /\ Len(s) = c /\ g[w] \in A
    <2>1. s \in Seq({f[NthWeek(S, n)] : n \in 1..c}) /\ Len(s) = c
      BY ScoresSequence
    <2>2. s \in Seq({f[NthWeek(S, n)] : n \in 1..c} \cup {g[w]})
      BY <2>1
    <2> QED
      BY <2>1, <2>2
  <1>4. PICK A : s \in Seq(A) /\ Len(s) = c /\ g[w] \in A
    BY <1>3
  <1>5. t = [n \in 1..(c + 1) |-> t[n]]
    BY <1>1 DEF ScoresOf
  <1> DEFINE r == Append(s, g[w])
  <1>6. DOMAIN r = 1..(c + 1) /\ (\A n \in 1..c : r[n] = s[n]) /\ r[c + 1] = g[w]
    <2> HIDE DEF s, t, c
    <2> QED
      BY <1>1, <1>4
  <1>7. r = [n \in 1..(c + 1) |-> r[n]]
    <2> HIDE DEF s, t, c
    <2> QED
      BY <1>1, <1>4
  <1>8. \A n \in 1..(c + 1) : n \in 1..c \/ n = c + 1
    BY <1>1
  <1> HIDE DEF s, t, c, r
  <1>9. t = r
    BY <1>2, <1>5, <1>6, <1>7, <1>8
  <1> QED
    BY <1>9 DEF s, t, r

-----------------------------------------------------------------------------
(* Statistics of scores f. *)

In(f, kind, start) == {w \in DOMAIN f : AbsPeriod(kind, w) = start}
Periods(f, kind) == {AbsPeriod(kind, w) : w \in DOMAIN f}
MeanOf(f, kind, start) == Average(ScoresOf(f, In(f, kind, start)))
LastStart(kind, start) == AbsPeriod(kind, start - 1)

LastOne(f, kind, start) ==
    IF LastStart(kind, start) \in Periods(f, kind) THEN MeanOf(f, kind, LastStart(kind, start)) ELSE 0
ItemOf(f, kind, start) ==
    [key |-> kind, at |-> start, value |-> MeanOf(f, kind, start),
     diff |-> GetDiff(MeanOf(f, kind, start), LastOne(f, kind, start))]

\* The weeks that were asked are before the next one, and the last of them is a week before.
WeeksTo(f, next) ==
    /\ IsFiniteSet(DOMAIN f) /\ DOMAIN f \subseteq Int /\ next \in Int
    /\ \A w \in DOMAIN f : w <= next - WeekSeconds
    /\ DOMAIN f # {} => next - WeekSeconds \in DOMAIN f

\* The items are those of the reference.
LEMMA ItemIsStat ==
    ASSUME IsFiniteSet(DOMAIN scores), NEW kind, NEW start
    PROVE  StatOf(kind, start) = ItemOf(scores, kind, start)
  <1>1. ASSUME NEW s PROVE Mean(kind, s) = MeanOf(scores, kind, s)
    <2> DEFINE weeks == WeeksIn(kind, s)
    <2>1. weeks = In(scores, kind, s)
      BY DEF WeeksIn, In
    <2>2. IsFiniteSet(weeks)
      BY FS_Subset DEF WeeksIn
    <2>3. Len(ScoresOf(scores, weeks)) = Cardinality(weeks)
      BY <2>2, ScoresSequence
    <2>4. Average(ScoresOf(scores, weeks)) =
              (2 * SumOf(ScoresOf(scores, weeks)) + Cardinality(weeks)) \div (2 * Cardinality(weeks))
      BY <2>3, Zenon DEF Average
    <2>5. Mean(kind, s) =
              (2 * SumOf(ScoresOf(scores, weeks)) + Cardinality(weeks)) \div (2 * Cardinality(weeks))
      BY Zenon DEF Mean, ScoresOf
    <2> QED
      BY <2>1, <2>4, <2>5, Zenon DEF MeanOf
  <1>2. PeriodsOf(kind) = Periods(scores, kind)
    BY DEF PeriodsOf, Periods
  <1>3. Mean(kind, start) = MeanOf(scores, kind, start)
    BY <1>1
  <1>4. Mean(kind, AbsPeriod(kind, start - 1)) = MeanOf(scores, kind, AbsPeriod(kind, start - 1))
    BY <1>1
  <1> QED
    BY <1>2, <1>3, <1>4, Zenon DEF StatOf, ItemOf, LastOne, LastStart

\* The period before one is another.
LEMMA BeforeIsEarlier ==
    ASSUME NEW kind \in Kinds, NEW t \in Int
    PROVE  /\ LastStart(kind, AbsPeriod(kind, t)) \in Int
           /\ LastStart(kind, AbsPeriod(kind, t)) < AbsPeriod(kind, t)
  <1>1. AbsPeriod(kind, t) \in Int
    BY PeriodNames
  <1>2. LastStart(kind, AbsPeriod(kind, t)) \in Int
    <2>1. AbsPeriod(kind, t) - 1 \in Int
      BY <1>1
    <2> QED
      BY <2>1, PeriodNames DEF LastStart
  <1>3. LastStart(kind, AbsPeriod(kind, t)) + WeekSeconds <= AbsPeriod(kind, t)
    BY PeriodBefore DEF LastStart
  <1> QED
    BY <1>1, <1>2, <1>3 DEF WeekSeconds, DaySeconds

\* With the score of the next week f becomes g.
NextScores(f, next, g) == DOMAIN g = DOMAIN f \cup {next} /\ Agree(f, g, DOMAIN f)

\* The next week's score belongs to one period of a kind.
LEMMA NextWeekCounts ==
    ASSUME NEW f, NEW next, WeeksTo(f, next), NEW g, NextScores(f, next, g), NEW kind \in Kinds
    PROVE  LET now == AbsPeriod(kind, next)
           IN /\ Periods(g, kind) = Periods(f, kind) \cup {now}
              /\ ScoresOf(g, In(g, kind, now)) = Append(ScoresOf(f, In(f, kind, now)), g[next])
              /\ \A start : start # now => MeanOf(g, kind, start) = MeanOf(f, kind, start)
  <1> DEFINE now == AbsPeriod(kind, next)
  <1>1. /\ IsFiniteSet(DOMAIN f) /\ DOMAIN f \subseteq Int /\ next \in Int
        /\ \A w \in DOMAIN f : w < next
    BY DEF WeeksTo, WeekSeconds, DaySeconds
  <1>2. \A start : IsFiniteSet(In(f, kind, start)) /\ In(f, kind, start) \subseteq DOMAIN f
    BY <1>1, FS_Subset DEF In
  <1>3. Periods(g, kind) = Periods(f, kind) \cup {now}
    BY DEF Periods, NextScores
  <1>4. In(g, kind, now) = In(f, kind, now) \cup {next}
    BY DEF In, NextScores
  <1>5. ScoresOf(g, In(g, kind, now)) = Append(ScoresOf(f, In(f, kind, now)), g[next])
    <2> DEFINE S == In(f, kind, now)
    <2>1. Below(S, next) /\ Agree(f, g, S)
      BY <1>1, <1>2 DEF Below, Agree, NextScores
    <2> HIDE DEF S
    <2>2. ScoresOf(g, S \cup {next}) = Append(ScoresOf(f, S), g[next])
      BY <2>1, ScoresOfMore
    <2> QED
      BY <1>4, <2>2 DEF S
  <1>6. ASSUME NEW start, start # now PROVE MeanOf(g, kind, start) = MeanOf(f, kind, start)
    <2> DEFINE S == In(f, kind, start)
    <2>1. In(g, kind, start) = S
      BY <1>6 DEF In, NextScores
    <2>2. IsFiniteSet(S) /\ S \subseteq Int /\ \A x \in S : f[x] = g[x]
      BY <1>1, <1>2 DEF NextScores, Agree
    <2> HIDE DEF S
    <2>3. ScoresOf(f, S) = ScoresOf(g, S)
      BY <2>2, ScoresSame
    <2> QED
      BY <2>1, <2>3 DEF MeanOf, S
  <1> QED
    BY <1>3, <1>5, <1>6

\* Weeks come in the order of their periods.
LEMMA PeriodsUpTo ==
    ASSUME NEW f, NEW next, WeeksTo(f, next), NEW kind \in Kinds, NEW start \in Periods(f, kind)
    PROVE  /\ start \in Int /\ AbsPeriod(kind, start) = start
           /\ start <= AbsPeriod(kind, next - WeekSeconds) /\ start <= AbsPeriod(kind, next)
           /\ LastStart(kind, start) < start
  <1>1. PICK w \in DOMAIN f : start = AbsPeriod(kind, w)
    BY DEF Periods
  <1>2. /\ w \in Int /\ next \in Int /\ next - WeekSeconds \in Int
        /\ w <= next - WeekSeconds /\ w <= next
    BY DEF WeeksTo, WeekSeconds, DaySeconds
  <1>3. AbsPeriod(kind, w) \in Int
    BY <1>2, PeriodNames
  <1>4. /\ AbsPeriod(kind, w) <= AbsPeriod(kind, next - WeekSeconds)
        /\ AbsPeriod(kind, AbsPeriod(kind, w)) = AbsPeriod(kind, w)
    BY <1>2, PeriodsOrdered
  <1>5. AbsPeriod(kind, w) <= AbsPeriod(kind, next)
    BY <1>2, PeriodsOrdered
  <1>6. LastStart(kind, AbsPeriod(kind, w)) < AbsPeriod(kind, w)
    BY <1>2, BeforeIsEarlier
  <1> QED
    BY <1>1, <1>3, <1>4, <1>5, <1>6

\* A period that the next week does not belong to keeps its item.
LEMMA ItemStays ==
    ASSUME NEW f, NEW next, WeeksTo(f, next), NEW g, NextScores(f, next, g), NEW kind \in Kinds,
           NEW start \in Periods(f, kind), start # AbsPeriod(kind, next)
    PROVE  ItemOf(g, kind, start) = ItemOf(f, kind, start)
  <1> DEFINE now == AbsPeriod(kind, next)
  <1>1. next \in Int /\ now \in Int
    BY PeriodNames DEF WeeksTo
  <1>2. start \in Int /\ start < now /\ LastStart(kind, start) < start
    BY <1>1, PeriodsUpTo
  <1>3. LastStart(kind, start) \in Int
    <2>1. start - 1 \in Int
      BY <1>2
    <2> QED
      BY <2>1, PeriodNames DEF LastStart
  <1>4. LastStart(kind, start) # now
    BY <1>1, <1>2, <1>3
  <1> HIDE DEF now
  <1>5. /\ Periods(g, kind) = Periods(f, kind) \cup {now}
        /\ \A s : s # now => MeanOf(g, kind, s) = MeanOf(f, kind, s)
    BY NextWeekCounts DEF now
  <1>6. LastOne(g, kind, start) = LastOne(f, kind, start)
    BY <1>4, <1>5 DEF LastOne
  <1> QED
    BY <1>2, <1>5, <1>6 DEF ItemOf, now

\* The period of a week that does not belong to that of the week before it follows it.
LEMMA PeriodFollows ==
    ASSUME NEW kind \in Kinds, NEW t \in Int,
           AbsPeriod(kind, t - WeekSeconds) # AbsPeriod(kind, t)
    PROVE  LastStart(kind, AbsPeriod(kind, t)) = AbsPeriod(kind, t - WeekSeconds)
  <1> DEFINE now == AbsPeriod(kind, t)
             u == t - WeekSeconds
  <1>1. now \in Int /\ now <= t /\ u \in Int /\ u < t /\ u = t - 604800
    BY PeriodNames DEF WeekSeconds, DaySeconds
  <1>2. ~(now <= u)
    <2>1. now <= u /\ u <= t => AbsPeriod(kind, u) = now
      BY <1>1, PeriodNames
    <2> QED
      BY <1>1, <2>1
  <1>3. u <= now - 1 /\ now - 1 \in Int
    BY <1>1, <1>2
  <1>4. LastStart(kind, now) \in Int /\ LastStart(kind, now) + 604800 <= now
    <2>1. LastStart(kind, now) + WeekSeconds <= now
      BY PeriodBefore DEF LastStart
    <2> QED
      BY <2>1, BeforeIsEarlier DEF WeekSeconds, DaySeconds
  <1>5. LastStart(kind, now) <= u
    BY <1>1, <1>4
  <1> HIDE DEF now, u
  <1>6. AbsPeriod(kind, u) = AbsPeriod(kind, now - 1)
    BY <1>1, <1>3, <1>5, PeriodNames DEF LastStart
  <1> QED
    BY <1>6 DEF LastStart, now, u

-----------------------------------------------------------------------------
(* Sequences of items. *)

Elems(seq) == {seq[i] : i \in DOMAIN seq}
Proper(seq) == seq \in Seq(Elems(seq))

LEMMA EmptyElems == Proper(<<>>) /\ Elems(<<>>) = {}
  BY DEF Proper, Elems

LEMMA OneElem == \A x : Proper(<<x>>) /\ Elems(<<x>>) = {x}
  BY DEF Proper, Elems

LEMMA AppendElems ==
    ASSUME NEW seq, Proper(seq), NEW x
    PROVE  Proper(Append(seq, x)) /\ Elems(Append(seq, x)) = Elems(seq) \cup {x}
  <1>1. seq \in Seq(Elems(seq) \cup {x}) /\ Len(seq) \in Nat /\ DOMAIN seq = 1..Len(seq)
    BY DEF Proper
  <1> DEFINE t == Append(seq, x)
  <1>2. /\ t \in Seq(Elems(seq) \cup {x}) /\ DOMAIN t = 1..(Len(seq) + 1)
        /\ \A i \in 1..Len(seq) : t[i] = seq[i]
        /\ t[Len(seq) + 1] = x
    BY <1>1
  <1>3. Elems(t) = Elems(seq) \cup {x}
    <2>1. \A i \in 1..(Len(seq) + 1) : i \in 1..Len(seq) \/ i = Len(seq) + 1
      BY <1>1
    <2>2. \A i \in 1..Len(seq) : i \in 1..(Len(seq) + 1)
      BY <1>1
    <2>3. Len(seq) + 1 \in 1..(Len(seq) + 1)
      BY <1>1
    <2> HIDE DEF t
    <2> QED
      BY <1>1, <1>2, <2>1, <2>2, <2>3 DEF Elems
  <1> HIDE DEF t
  <1>4. Proper(t)
    BY <1>2, <1>3 DEF Proper
  <1> QED
    BY <1>3, <1>4 DEF t

LEMMA ConcatElems ==
    ASSUME NEW seq, NEW more, Proper(seq), Proper(more)
    PROVE  Proper(seq \o more) /\ Elems(seq \o more) = Elems(seq) \cup Elems(more)
  <1> DEFINE A == Elems(seq) \cup Elems(more)
             t == seq \o more
  <1>1. /\ seq \in Seq(A) /\ Len(seq) \in Nat /\ DOMAIN seq = 1..Len(seq)
        /\ more \in Seq(A) /\ Len(more) \in Nat /\ DOMAIN more = 1..Len(more)
    BY DEF Proper
  <1>2. /\ t \in Seq(A) /\ DOMAIN t = 1..(Len(seq) + Len(more))
        /\ \A i \in 1..Len(seq) : t[i] = seq[i]
        /\ \A i \in 1..Len(more) : t[Len(seq) + i] = more[i]
    <2> HIDE DEF A
    <2> QED
      BY <1>1
  <1>3. Elems(t) = A
    <2>1. \A i \in 1..(Len(seq) + Len(more)) :
              i \in 1..Len(seq) \/ \E j \in 1..Len(more) : i = Len(seq) + j
      <3> SUFFICES ASSUME NEW i \in 1..(Len(seq) + Len(more)), ~(i \in 1..Len(seq))
                   PROVE  \E j \in 1..Len(more) : i = Len(seq) + j
        OBVIOUS
      <3>1. i - Len(seq) \in 1..Len(more) /\ i = Len(seq) + (i - Len(seq))
        BY <1>1
      <3> QED
        BY <3>1
    <2>2. \A i \in 1..Len(seq) : i \in 1..(Len(seq) + Len(more))
      BY <1>1
    <2>3. \A j \in 1..Len(more) : Len(seq) + j \in 1..(Len(seq) + Len(more))
      BY <1>1
    <2> HIDE DEF t
    <2>4. ASSUME NEW x \in Elems(t) PROVE x \in Elems(seq) \/ x \in Elems(more)
      <3>1. PICK i \in 1..(Len(seq) + Len(more)) : x = t[i]
        BY <1>2 DEF Elems
      <3>2. CASE i \in 1..Len(seq)
        BY <1>1, <1>2, <3>1, <3>2 DEF Elems
      <3>3. CASE \E j \in 1..Len(more) : i = Len(seq) + j
        <4>1. PICK j \in 1..Len(more) : i = Len(seq) + j
          BY <3>3
        <4>2. x = more[j] /\ j \in DOMAIN more
          BY <1>1, <1>2, <3>1, <4>1
        <4> QED
          BY <4>2 DEF Elems
      <3> QED
        BY <2>1, <3>2, <3>3
    <2>5. ASSUME NEW x \in Elems(seq) PROVE x \in Elems(t)
      <3>1. PICK i \in 1..Len(seq) : x = seq[i]
        BY <1>1 DEF Elems
      <3>2. x = t[i] /\ i \in DOMAIN t
        BY <1>2, <2>2, <3>1
      <3> QED
        BY <3>2 DEF Elems
    <2>6. ASSUME NEW x \in Elems(more) PROVE x \in Elems(t)
      <3>1. PICK j \in 1..Len(more) : x = more[j]
        BY <1>1 DEF Elems
      <3>2. x = t[Len(seq) + j] /\ Len(seq) + j \in DOMAIN t
        BY <1>2, <2>3, <3>1
      <3> QED
        BY <3>2 DEF Elems
    <2> QED
      BY <2>4, <2>5, <2>6
  <1> HIDE DEF t
  <1>4. Proper(t)
    BY <1>2, <1>3 DEF Proper
  <1> QED
    BY <1>3, <1>4 DEF t

LEMMA HeadTailElems ==
    ASSUME NEW seq, Proper(seq), seq # <<>>
    PROVE  Proper(Tail(seq)) /\ Elems(seq) = {Head(seq)} \cup Elems(Tail(seq))
  <1> DEFINE t == Tail(seq)
  <1>1. /\ Len(seq) \in Nat \ {0} /\ DOMAIN seq = 1..Len(seq) /\ Head(seq) = seq[1]
    BY DEF Proper
  <1>2. /\ t \in Seq(Elems(seq)) /\ Len(t) = Len(seq) - 1 /\ DOMAIN t = 1..(Len(seq) - 1)
        /\ \A i \in 1..(Len(seq) - 1) : t[i] = seq[i + 1]
    <2>1. Len(seq) # 0
      BY <1>1
    <2> QED
      BY <2>1 DEF Proper
  <1>3. Elems(seq) = {seq[1]} \cup Elems(t)
    <2>1. \A i \in 1..Len(seq) : i = 1 \/ \E j \in 1..(Len(seq) - 1) : i = j + 1
      <3> SUFFICES ASSUME NEW i \in 1..Len(seq), i # 1 PROVE \E j \in 1..(Len(seq) - 1) : i = j + 1
        OBVIOUS
      <3>1. i - 1 \in 1..(Len(seq) - 1) /\ i = (i - 1) + 1
        BY <1>1
      <3> QED
        BY <3>1
    <2>2. \A j \in 1..(Len(seq) - 1) : j + 1 \in 1..Len(seq)
      BY <1>1
    <2>3. 1 \in 1..Len(seq)
      BY <1>1
    <2> HIDE DEF t
    <2>4. ASSUME NEW x \in Elems(seq) PROVE x = seq[1] \/ x \in Elems(t)
      <3>1. PICK i \in 1..Len(seq) : x = seq[i]
        BY <1>1 DEF Elems
      <3>2. CASE i = 1
        BY <3>1, <3>2
      <3>3. CASE i # 1
        <4>1. PICK j \in 1..(Len(seq) - 1) : i = j + 1
          BY <2>1, <3>3
        <4>2. x = t[j] /\ j \in DOMAIN t
          BY <1>2, <3>1, <4>1
        <4> QED
          BY <4>2 DEF Elems
      <3> QED
        BY <3>2, <3>3
    <2>5. ASSUME NEW x \in Elems(t) PROVE x \in Elems(seq)
      <3>1. PICK j \in 1..(Len(seq) - 1) : x = t[j]
        BY <1>2 DEF Elems
      <3>2. x = seq[j + 1] /\ j + 1 \in DOMAIN seq
        BY <1>1, <1>2, <2>2, <3>1
      <3> QED
        BY <3>2 DEF Elems
    <2>6. seq[1] \in Elems(seq)
      BY <1>1, <2>3 DEF Elems
    <2> QED
      BY <2>4, <2>5, <2>6
  <1>4. Proper(t)
    <2>1. \A i \in 1..Len(t) : t[i] \in Elems(t)
      BY <1>1, <1>2 DEF Elems
    <2> HIDE DEF t
    <2> QED
      BY <1>1, <1>2, <2>1 DEF Proper
  <1> QED
    BY <1>1, <1>3, <1>4

\* The statistics that are given away.
LEMMA ItemsGiven ==
    ASSUME NEW S
    PROVE  /\ Proper(ItemsFor(S))
           /\ Elems(ItemsFor(S)) = {Finished(kind, stats[kind]) : kind \in S \cap Kinds}
  <1> DEFINE item(k) == IF k \in S THEN <<Finished(k, stats[k])>> ELSE <<>>
             of(k) == IF k \in S THEN {Finished(k, stats[k])} ELSE {}
  <1>1. \A k : Proper(item(k)) /\ Elems(item(k)) = of(k)
    BY EmptyElems, OneElem
  <1> HIDE DEF item
  <1>2. Proper(item("week") \o item("year")) /\ Elems(item("week") \o item("year")) = of("week") \cup of("year")
    BY <1>1, ConcatElems
  <1>3. /\ Proper((item("week") \o item("year")) \o item("decade"))
        /\ Elems((item("week") \o item("year")) \o item("decade")) = of("week") \cup of("year") \cup of("decade")
    BY <1>1, <1>2, ConcatElems
  <1>4. ItemsFor(S) = (item("week") \o item("year")) \o item("decade")
    BY DEF ItemsFor, item
  <1>5. of("week") \cup of("year") \cup of("decade") = {Finished(kind, stats[kind]) : kind \in S \cap Kinds}
    BY DEF Kinds
  <1> QED
    BY <1>3, <1>4, <1>5

-----------------------------------------------------------------------------
(* The counter. *)

StatFrom(start, values) == [start |-> start, values |-> values, value |-> 0]

LEMMA CountedFirst ==
    ASSUME NEW kind, NEW t, NEW score
    PROVE  Counted(kind, [current |-> NoStat, last |-> NoStat], t, score) =
               [current |-> StatFrom(AbsPeriod(kind, t), Append(<<>>, score)), last |-> NoStat]
  <1> DEFINE stat == [current |-> NoStat, last |-> NoStat]
             open == [NoStat EXCEPT !.start = AbsPeriod(kind, t)]
             turned == [stat EXCEPT !.current = open]
  <1>1. stat.current = NoStat /\ ~Turned(kind, stat, t)
    BY DEF Turned
  <1>2. Counted(kind, stat, t, score) = [turned EXCEPT !.current.values = Append(@, score)]
    <2> HIDE DEF stat
    <2> QED
      BY <1>1, Zenon DEF Counted, turned, open
  <1>3. open = StatFrom(AbsPeriod(kind, t), <<>>)
    BY DEF NoStat, StatFrom
  <1>4. turned = [current |-> StatFrom(AbsPeriod(kind, t), <<>>), last |-> NoStat]
    <2> HIDE DEF open
    <2> QED
      BY <1>3
  <1> HIDE DEF stat, turned, open
  <1>5. [turned EXCEPT !.current.values = Append(@, score)] =
            [current |-> StatFrom(AbsPeriod(kind, t), Append(<<>>, score)), last |-> NoStat]
    BY <1>4 DEF StatFrom
  <1> QED
    BY <1>2, <1>5 DEF stat

LEMMA CountedAgain ==
    ASSUME NEW kind, NEW t, NEW score, NEW values, values # <<>>, NEW last
    PROVE  LET now == AbsPeriod(kind, t)
           IN Counted(kind, [current |-> StatFrom(now, values), last |-> last], t, score) =
                  [current |-> StatFrom(now, Append(values, score)), last |-> last]
  <1> DEFINE now == AbsPeriod(kind, t)
             stat == [current |-> StatFrom(now, values), last |-> last]
  <1>1. StatFrom(now, values) # NoStat
    BY DEF StatFrom, NoStat
  <1>2. stat.current # NoStat /\ ~Turned(kind, stat, t)
    BY <1>1 DEF Turned, StatFrom
  <1>3. PICK n : n = now
    OBVIOUS
  <1>4. stat = [current |-> [start |-> n, values |-> values, value |-> 0], last |-> last]
    BY <1>3 DEF StatFrom
  <1> HIDE DEF stat, now
  <1>5. Counted(kind, stat, t, score) = [stat EXCEPT !.current.values = Append(@, score)]
    BY <1>2, Zenon DEF Counted
  <1>6. [stat EXCEPT !.current.values = Append(@, score)] =
            [current |-> [start |-> n, values |-> Append(values, score), value |-> 0], last |-> last]
    BY <1>4
  <1> QED
    BY <1>3, <1>5, <1>6 DEF stat, now, StatFrom

LEMMA CountedTurn ==
    ASSUME NEW kind, NEW t, NEW score, NEW start, NEW values, values # <<>>, NEW last,
           start # AbsPeriod(kind, t)
    PROVE  Counted(kind, [current |-> StatFrom(start, values), last |-> last], t, score) =
               [current |-> StatFrom(AbsPeriod(kind, t), Append(<<>>, score)),
                last |-> [start |-> start, values |-> values, value |-> Average(values)]]
  <1>1. StatFrom(start, values) # NoStat
    BY DEF StatFrom, NoStat
  <1> QED
    BY <1>1 DEF Counted, Turned, StatFrom, NoStat

\* What the counter of a kind has when the weeks before next have the scores f.
CounterFor(f, next, kind, stat) ==
    LET now == AbsPeriod(kind, next - WeekSeconds)
    IN IF DOMAIN f = {} THEN stat = [current |-> NoStat, last |-> NoStat]
       ELSE /\ stat = [current |-> StatFrom(now, ScoresOf(f, In(f, kind, now))), last |-> stat.last]
            /\ IF LastStart(kind, now) \in Periods(f, kind)
               THEN /\ stat.last # NoStat /\ stat.last.start \in Int
                    /\ stat.last.value = MeanOf(f, kind, LastStart(kind, now))
               ELSE stat.last = NoStat

\* The current period has a score.
LEMMA CurrentScores ==
    ASSUME NEW f, NEW next, WeeksTo(f, next), DOMAIN f # {}, NEW kind \in Kinds
    PROVE  LET now == AbsPeriod(kind, next - WeekSeconds)
           IN /\ now \in Periods(f, kind)
              /\ ScoresOf(f, In(f, kind, now)) # <<>>
  <1> DEFINE now == AbsPeriod(kind, next - WeekSeconds)
             S == In(f, kind, now)
  <1>1. next - WeekSeconds \in DOMAIN f
    BY DEF WeeksTo
  <1>2. now \in Periods(f, kind) /\ next - WeekSeconds \in S
    BY <1>1 DEF Periods, In
  <1>3. IsFiniteSet(S)
    BY FS_Subset DEF WeeksTo, In
  <1>4. Cardinality(S) # 0
    BY <1>2, <1>3, FS_EmptySet
  <1>5. Len(ScoresOf(f, S)) # 0
    BY <1>3, <1>4, ScoresSequence
  <1>6. Len(<<>>) = 0
    OBVIOUS
  <1> QED
    BY <1>2, <1>5, <1>6

\* The item of the current period is the one that flushStat gives away.
LEMMA FinishedIsItem ==
    ASSUME NEW f, NEW next, WeeksTo(f, next), DOMAIN f # {}, NEW kind \in Kinds, NEW stat,
           CounterFor(f, next, kind, stat)
    PROVE  /\ Finished(kind, stat) = ItemOf(f, kind, AbsPeriod(kind, next - WeekSeconds))
           /\ stat.current # NoStat /\ stat.current.start = AbsPeriod(kind, next - WeekSeconds)
  <1> DEFINE now == AbsPeriod(kind, next - WeekSeconds)
             values == ScoresOf(f, In(f, kind, now))
  <1>1. stat = [current |-> StatFrom(now, values), last |-> stat.last]
    BY DEF CounterFor
  <1>2. stat.current = StatFrom(now, values)
    <2> HIDE DEF now, values
    <2> QED
      BY <1>1
  <1>3. values # <<>>
    BY CurrentScores
  <1>4. LastOne(f, kind, now) = IF stat.last = NoStat THEN 0 ELSE stat.last.value
    BY DEF CounterFor, LastOne
  <1>5. MeanOf(f, kind, now) = Average(values)
    BY DEF MeanOf
  <1> HIDE DEF now, values
  <1>6. stat.current.start = now /\ stat.current.values = values
    BY <1>2 DEF StatFrom
  <1>7. stat.current # NoStat
    BY <1>3, <1>6 DEF NoStat
  <1>8. Finished(kind, stat) =
            [key |-> kind, at |-> now, value |-> Average(values),
             diff |-> GetDiff(Average(values), LastOne(f, kind, now))]
    BY <1>4, <1>6, Zenon DEF Finished
  <1>9. Finished(kind, stat) = ItemOf(f, kind, now)
    BY <1>5, <1>8, Zenon DEF ItemOf
  <1> QED
    BY <1>6, <1>7, <1>9 DEF now

\* A week is counted.
LEMMA CounterGoesOn ==
    ASSUME NEW f, NEW next, WeeksTo(f, next), NEW g, NextScores(f, next, g), NEW kind \in Kinds,
           NEW stat, CounterFor(f, next, kind, stat)
    PROVE  CounterFor(g, next + WeekSeconds, kind, Counted(kind, stat, next, g[next]))
  <1> DEFINE now == AbsPeriod(kind, next)
             old == AbsPeriod(kind, next - WeekSeconds)
             new == Counted(kind, stat, next, g[next])
  <1>1. next \in Int /\ next - WeekSeconds \in Int /\ (next + WeekSeconds) - WeekSeconds = next
    BY DEF WeeksTo, WeekSeconds, DaySeconds
  <1>2. DOMAIN g # {}
    BY DEF NextScores
  <1>3. /\ Periods(g, kind) = Periods(f, kind) \cup {now}
        /\ ScoresOf(g, In(g, kind, now)) = Append(ScoresOf(f, In(f, kind, now)), g[next])
        /\ \A start : start # now => MeanOf(g, kind, start) = MeanOf(f, kind, start)
    BY NextWeekCounts
  <1>4. now \in Int /\ old \in Int /\ LastStart(kind, now) < now /\ LastStart(kind, now) \in Int
    BY <1>1, PeriodNames, BeforeIsEarlier
  <1>5. SUFFICES /\ new = [current |-> StatFrom(now, ScoresOf(g, In(g, kind, now))), last |-> new.last]
                 /\ IF LastStart(kind, now) \in Periods(g, kind)
                    THEN /\ new.last # NoStat /\ new.last.start \in Int
                         /\ new.last.value = MeanOf(g, kind, LastStart(kind, now))
                    ELSE new.last = NoStat
    BY <1>1, <1>2 DEF CounterFor
  <1>6. LastStart(kind, now) # now
    BY <1>4
  <1>7. CASE DOMAIN f = {}
    <2>1. stat = [current |-> NoStat, last |-> NoStat]
      BY <1>7 DEF CounterFor
    <2>2. new = [current |-> StatFrom(now, Append(<<>>, g[next])), last |-> NoStat]
      BY <2>1, CountedFirst
    <2>3. ScoresOf(f, In(f, kind, now)) = <<>>
      <3>1. In(f, kind, now) = {}
        BY <1>7 DEF In
      <3>2. Cardinality({}) = 0 /\ 1..0 = {}
        BY FS_EmptySet
      <3> QED
        BY <3>1, <3>2 DEF ScoresOf
    <2>4. Periods(g, kind) = {now}
      BY <1>3, <1>7 DEF Periods
    <2> HIDE DEF new, now
    <2> QED
      BY <1>3, <1>6, <2>2, <2>3, <2>4
  <1>8. CASE DOMAIN f # {} /\ old = now
    <2> DEFINE values == ScoresOf(f, In(f, kind, now))
    <2>1. /\ stat = [current |-> StatFrom(now, values), last |-> stat.last] /\ values # <<>>
          /\ IF LastStart(kind, now) \in Periods(f, kind)
             THEN /\ stat.last # NoStat /\ stat.last.start \in Int
                  /\ stat.last.value = MeanOf(f, kind, LastStart(kind, now))
             ELSE stat.last = NoStat
      BY <1>8, CurrentScores DEF CounterFor
    <2>2. new = [current |-> StatFrom(now, Append(values, g[next])), last |-> stat.last]
      <3> HIDE DEF values
      <3>1. Counted(kind, [current |-> StatFrom(now, values), last |-> stat.last], next, g[next])
                = [current |-> StatFrom(now, Append(values, g[next])), last |-> stat.last]
        BY <2>1, CountedAgain
      <3> QED
        BY <2>1, <3>1
    <2>3. LastStart(kind, now) \in Periods(g, kind) <=> LastStart(kind, now) \in Periods(f, kind)
      BY <1>3, <1>6
    <2>4. MeanOf(g, kind, LastStart(kind, now)) = MeanOf(f, kind, LastStart(kind, now))
      BY <1>3, <1>6
    <2> HIDE DEF new, now, values
    <2>5. new.last = stat.last
      BY <2>2
    <2> QED
      BY <1>3, <2>1, <2>2, <2>3, <2>4, <2>5 DEF values
  <1>9. CASE DOMAIN f # {} /\ old # now
    <2> DEFINE values == ScoresOf(f, In(f, kind, old))
    <2>1. stat = [current |-> StatFrom(old, values), last |-> stat.last] /\ values # <<>>
      BY <1>9, CurrentScores DEF CounterFor
    <2>2. new = [current |-> StatFrom(now, Append(<<>>, g[next])),
                 last |-> [start |-> old, values |-> values, value |-> Average(values)]]
      <3> HIDE DEF values, old
      <3>1. Counted(kind, [current |-> StatFrom(old, values), last |-> stat.last], next, g[next])
                = [current |-> StatFrom(now, Append(<<>>, g[next])),
                   last |-> [start |-> old, values |-> values, value |-> Average(values)]]
        BY <1>9, <2>1, CountedTurn
      <3> QED
        BY <2>1, <3>1
    <2>3. LastStart(kind, now) = old
      BY <1>1, <1>9, PeriodFollows
    <2>4. old \in Periods(f, kind) /\ MeanOf(f, kind, old) = Average(values)
      BY <1>9, CurrentScores DEF MeanOf
    <2>5. ScoresOf(f, In(f, kind, now)) = <<>>
      <3>1. now \notin Periods(f, kind)
        <4> SUFFICES ASSUME now \in Periods(f, kind) PROVE FALSE
          OBVIOUS
        <4>1. now <= old
          BY PeriodsUpTo
        <4>2. old <= now
          <5>1. next - WeekSeconds <= next
            BY <1>1 DEF WeekSeconds, DaySeconds
          <5> QED
            BY <1>1, <5>1, PeriodsOrdered
        <4> QED
          BY <1>4, <1>9, <4>1, <4>2
      <3>2. In(f, kind, now) = {}
        BY <3>1 DEF In, Periods
      <3>3. Cardinality({}) = 0 /\ 1..0 = {}
        BY FS_EmptySet
      <3> QED
        BY <3>2, <3>3 DEF ScoresOf
    <2>6. LastStart(kind, now) \in Periods(g, kind) /\ MeanOf(g, kind, LastStart(kind, now)) = Average(values)
      BY <1>3, <1>6, <2>3, <2>4
    <2> HIDE DEF new, now, values, old
    <2>7. new.last = [start |-> old, values |-> values, value |-> Average(values)]
      BY <2>2
    <2>8. new.last # NoStat /\ new.last.start = old /\ new.last.value = Average(values)
      BY <2>1, <2>7 DEF NoStat
    <2> QED
      BY <1>3, <1>4, <2>2, <2>5, <2>6, <2>7, <2>8
  <1> QED
    BY <1>7, <1>8, <1>9

-----------------------------------------------------------------------------
(* The invariant. *)

\* The item is in the table, and no other of its key and time is.
SettledIn(table, i) == i \in table /\ \A j \in table : j.key = i.key /\ j.at = i.at => j = i

\* The periods that are over: all but the current one, and in the end that one too.
Due(kind) ==
    {start \in Periods(scores, kind) : step = "flush" \/ start # AbsPeriod(kind, week - WeekSeconds)}

\* The items that are not written: those that wait, and those DynamoDB left.
Waiting == Elems(batch) \cup Elems(toSave) \cup unprocessed

\* Those of periods that are over, and what they should be ...
WaitingExact ==
    \A i \in Waiting : i.key \in Kinds /\ i.at \in Due(i.key) /\ i = ItemOf(scores, i.key, i.at)

\* ... and there is one for each that is not in the table.
DueKept ==
    \A kind \in Kinds : \A start \in Due(kind) :
        \/ ItemOf(scores, kind, start) \in Waiting
        \/ SettledIn(stored, ItemOf(scores, kind, start))

AllSettled ==
    \A kind \in Kinds : \A start \in Periods(scores, kind) :
        \/ ItemOf(scores, kind, start) \in unprocessed
        \/ SettledIn(stored, ItemOf(scores, kind, start))

\* Those that DynamoDB left are what they should be.
LeftExact == \A i \in unprocessed : i.key \in Kinds /\ i = ItemOf(scores, i.key, i.at)

SentimentInv ==
    /\ SentimentTypeOK
    /\ Proper(batch) /\ Proper(toSave)
    /\ WeeksTo(scores, week)
    /\ \A kind \in Kinds : CounterFor(scores, week, kind, stats[kind])
    /\ step \in {"ask", "flush"} => WaitingExact /\ DueKept
    /\ sent => step = "done" /\ AllSettled /\ LeftExact

\* A statistic starts with a second.
LEMMA CounterTyped ==
    ASSUME NEW f, NEW next, WeeksTo(f, next), NEW kind \in Kinds, NEW stat,
           CounterFor(f, next, kind, stat)
    PROVE  stat.current.start \in Int /\ stat.last.start \in Int
  <1> DEFINE now == AbsPeriod(kind, next - WeekSeconds)
  <1>1. now \in Int
    BY PeriodNames DEF WeeksTo, WeekSeconds, DaySeconds
  <1>2. NoStat.start \in Int
    BY DEF NoStat
  <1>3. CASE DOMAIN f = {}
    BY <1>2, <1>3 DEF CounterFor
  <1>4. CASE DOMAIN f # {}
    <2>1. stat.current.start = now
      BY <1>4, FinishedIsItem
    <2>2. stat.last.start \in Int
      BY <1>2, <1>4 DEF CounterFor
    <2> QED
      BY <1>1, <2>1, <2>2
  <1> QED
    BY <1>3, <1>4

\* What is written is settled, and what was settled stays so.
LEMMA PutSettles ==
    ASSUME NEW new,
           \A n \in new : n.key \in Kinds /\ n = ItemOf(scores, n.key, n.at),
           NEW kind, NEW start,
           \/ ItemOf(scores, kind, start) \in new
           \/ SettledIn(stored, ItemOf(scores, kind, start))
    PROVE  SettledIn(Put(new), ItemOf(scores, kind, start))
  <1> DEFINE i == ItemOf(scores, kind, start)
  <1>1. Put(new) = {old \in stored : \A n \in new : <<old.key, old.at>> # <<n.key, n.at>>} \cup new
    BY DEF Put
  <1>2. i.key = kind /\ i.at = start
    BY DEF ItemOf
  <1>3. \A n \in new : n.key = kind /\ n.at = start => n = i
    OBVIOUS
  <1> HIDE DEF i
  <1>4. \A j \in Put(new) : j.key = i.key /\ j.at = i.at => j = i
    <2> SUFFICES ASSUME NEW j \in Put(new), j.key = i.key, j.at = i.at PROVE j = i
      OBVIOUS
    <2>1. CASE j \in new
      BY <1>2, <1>3, <2>1
    <2>2. CASE j \notin new
      <3>1. j \in stored /\ \A n \in new : <<j.key, j.at>> # <<n.key, n.at>>
        BY <1>1, <2>2
      <3>2. i \notin new
        BY <3>1
      <3>3. SettledIn(stored, i)
        BY <3>2 DEF i
      <3> QED
        BY <3>1, <3>3 DEF SettledIn
    <2> QED
      BY <2>1, <2>2
  <1>5. i \in Put(new)
    <2>1. CASE i \in new
      BY <1>1, <2>1
    <2>2. CASE i \notin new
      <3>1. SettledIn(stored, i)
        BY <2>2 DEF i
      <3>2. \A n \in new : <<i.key, i.at>> # <<n.key, n.at>>
        BY <1>2, <1>3, <2>2
      <3> QED
        BY <1>1, <3>1, <3>2 DEF SettledIn
    <2> QED
      BY <2>1, <2>2
  <1> QED
    BY <1>4, <1>5 DEF SettledIn, i

\* Items of the job have the types of those in the table.
LEMMA PutTyped ==
    ASSUME NEW new, \A n \in new : n.key \in Kinds /\ n.at \in Int,
           \A i \in stored : i.key \in Kinds /\ i.at \in Int
    PROVE  \A i \in Put(new) : i.key \in Kinds /\ i.at \in Int
  BY DEF Put

-----------------------------------------------------------------------------
(* The steps. *)

LEMMA SentimentStarts ==
    ASSUME SentimentAssumption, SentimentInit
    PROVE  SentimentInv
  <1> USE DEF SentimentInit
  <1>1. DOMAIN scores = {}
    OBVIOUS
  <1>2. WeeksTo(scores, week)
    BY <1>1, FS_EmptySet DEF WeeksTo
  <1>3. \A kind \in Kinds : CounterFor(scores, week, kind, stats[kind])
    BY <1>1 DEF CounterFor, NoStats
  <1>4. \A kind \in Kinds : stats[kind].current.start \in Int /\ stats[kind].last.start \in Int
    BY <1>2, <1>3, CounterTyped
  <1>5. runs \in 0..MaxRuns
    BY DEF SentimentAssumption
  <1>6. SentimentTypeOK
    <2>1. /\ step \in {"idle", "ask", "flush", "done", "failed"}
          /\ week \in Int /\ stop \in Int
          /\ \A i \in stored \cup unprocessed : i.key \in Kinds /\ i.at \in Int
      OBVIOUS
    <2>2. sent \in BOOLEAN
      BY Zenon
    <2> QED
      BY <1>4, <1>5, <2>1, <2>2, Zenon DEF SentimentTypeOK
  <1> QED
    BY <1>2, <1>3, <1>6, EmptyElems DEF SentimentInv

\* A new run.
LEMMA BeginKeeps ==
    ASSUME SentimentAssumption, SentimentInv, BeginSentiment
    PROVE  SentimentInv'
  <1>1. /\ runs' = runs + 1 /\ runs < MaxRuns /\ stats' = NoStats /\ toSave' = <<>> /\ batch' = <<>>
        /\ scores' = <<>> /\ stored' = stored /\ unprocessed' = {}
        /\ \/ step' = "failed" /\ sent' = FALSE /\ week' = week /\ stop' = stop
           \/ step' = "done" /\ sent' = TRUE /\ week' = week /\ stop' = stop
           \/ \E firstPost, lastPost \in PostTime :
                  /\ week' = AbsWeek(firstPost) /\ stop' = AbsWeek(lastPost) + WeekSeconds
                  /\ step' = "ask" /\ sent' = FALSE
    BY DEF BeginSentiment, Ended
  <1>2. DOMAIN scores' = {}
    BY <1>1
  <1>3. week' \in Int /\ stop' \in Int
    <2>1. \A t \in PostTime : AbsWeek(t) \in Int
      BY WeekNames DEF SentimentAssumption
    <2>2. week \in Int /\ stop \in Int
      BY DEF SentimentInv, SentimentTypeOK
    <2> QED
      BY <1>1, <2>1, <2>2 DEF WeekSeconds, DaySeconds
  <1>4. WeeksTo(scores', week')
    BY <1>2, <1>3, FS_EmptySet DEF WeeksTo
  <1>5. \A kind \in Kinds : CounterFor(scores', week', kind, stats'[kind])
    BY <1>1, <1>2 DEF CounterFor, NoStats
  <1>6. \A kind \in Kinds : stats'[kind].current.start \in Int /\ stats'[kind].last.start \in Int
    BY <1>4, <1>5, CounterTyped
  <1>7. runs' \in 0..MaxRuns
    BY <1>1 DEF SentimentInv, SentimentTypeOK, SentimentAssumption
  <1>8. SentimentTypeOK'
    BY <1>1, <1>3, <1>6, <1>7 DEF SentimentInv, SentimentTypeOK
  <1>9. \A kind : Periods(scores', kind) = {}
    BY <1>2 DEF Periods
  <1>10. WaitingExact' /\ DueKept' /\ AllSettled' /\ LeftExact'
    <2>1. Waiting' = {}
      BY <1>1, EmptyElems DEF Waiting
    <2>2. \A kind : Due(kind)' = {}
      BY <1>9 DEF Due
    <2> QED
      BY <1>1, <1>9, <2>1, <2>2 DEF WaitingExact, DueKept, AllSettled, LeftExact
  <1>11. Proper(batch') /\ Proper(toSave')
    BY <1>1, EmptyElems
  <1>12. sent' => step' = "done"
    BY <1>1
  <1> QED
    BY <1>4, <1>5, <1>8, <1>10, <1>11, <1>12 DEF SentimentInv

\* The job ends with an error.
LEMMA FailureKeeps ==
    ASSUME SentimentInv, Ended(FALSE),
           UNCHANGED <<week, stop, stats, toSave, batch, stored, unprocessed, scores, runs>>
    PROVE  SentimentInv'
  <1>1. step' = "failed" /\ sent' = FALSE
    BY DEF Ended
  <1>2. SentimentTypeOK'
    BY <1>1 DEF SentimentInv, SentimentTypeOK
  <1> QED
    BY <1>1, <1>2 DEF SentimentInv

\* A week is asked.
LEMMA AskKeeps ==
    ASSUME SentimentInv, AskWeek
    PROVE  SentimentInv'
  <1> DEFINE f == scores
             turned == {k \in Kinds : Turned(k, stats[k], week)}
             now(kind) == AbsPeriod(kind, week)
             old(kind) == AbsPeriod(kind, week - WeekSeconds)
  <1>1. /\ step = "ask" /\ toSave = <<>> /\ stop' = stop /\ batch' = batch /\ stored' = stored
        /\ unprocessed' = unprocessed /\ runs' = runs
    BY DEF AskWeek
  <1>2. CASE Ended(FALSE) /\ UNCHANGED <<week, stats, toSave, scores>>
    BY <1>1, <1>2, FailureKeeps
  <1>3. CASE /\ \E score \in Score :
                   /\ scores' = [w \in DOMAIN scores \cup {week} |->
                                    IF w = week THEN score ELSE scores[w]]
                   /\ stats' = [k \in Kinds |-> Counted(k, stats[k], week, score)]
             /\ toSave' = ItemsFor(turned) /\ week' = week + WeekSeconds
             /\ UNCHANGED <<step, sent>>
    <2>1. PICK g : /\ g = scores' /\ NextScores(f, week, g)
                   /\ stats' = [k \in Kinds |-> Counted(k, stats[k], week, g[week])]
      <3>1. PICK score \in Score :
                /\ scores' = [w \in DOMAIN scores \cup {week} |->
                                 IF w = week THEN score ELSE scores[w]]
                /\ stats' = [k \in Kinds |-> Counted(k, stats[k], week, score)]
        BY <1>3
      <3>2. scores'[week] = score
        BY <3>1
      <3>3. week \notin DOMAIN scores
        <4>1. week \in Int /\ ~(week <= week - WeekSeconds)
          BY DEF SentimentInv, WeeksTo, WeekSeconds, DaySeconds
        <4> QED
          BY <4>1 DEF SentimentInv, WeeksTo
      <3>4. NextScores(f, week, scores')
        BY <3>1, <3>3 DEF NextScores, Agree
      <3> QED
        BY <3>1, <3>2, <3>4
    <2>2. WeeksTo(f, week) /\ \A kind \in Kinds : CounterFor(f, week, kind, stats[kind])
      BY DEF SentimentInv
    <2>3. \A kind \in Kinds : CounterFor(g, week', kind, stats'[kind])
      <3> SUFFICES ASSUME NEW kind \in Kinds PROVE CounterFor(g, week', kind, stats'[kind])
        OBVIOUS
      <3>1. CounterFor(g, week + WeekSeconds, kind, Counted(kind, stats[kind], week, g[week]))
        BY <2>1, <2>2, CounterGoesOn
      <3> QED
        BY <1>3, <2>1, <3>1
    <2>4. week \in Int /\ week' \in Int /\ week' - WeekSeconds = week /\ week - WeekSeconds <= week
      BY <1>3, <2>2 DEF WeeksTo, WeekSeconds, DaySeconds
    <2>5. WeeksTo(g, week')
      <3>1. IsFiniteSet(DOMAIN f) /\ DOMAIN f \subseteq Int /\ DOMAIN g = DOMAIN f \cup {week}
        BY <2>1, <2>2 DEF WeeksTo, NextScores
      <3>2. IsFiniteSet(DOMAIN g)
        BY <3>1, FS_AddElement
      <3>3. \A w \in DOMAIN g : w <= week
        BY <2>2, <2>4, <3>1 DEF WeeksTo, WeekSeconds, DaySeconds
      <3> QED
        BY <2>4, <3>1, <3>2, <3>3 DEF WeeksTo
    <2>6. \A kind \in Kinds : stats'[kind].current.start \in Int /\ stats'[kind].last.start \in Int
      BY <2>3, <2>5, CounterTyped
    <2>7. SentimentTypeOK'
      BY <1>1, <1>3, <2>4, <2>6 DEF SentimentInv, SentimentTypeOK
    <2>8. Proper(toSave') /\ Elems(toSave') = {Finished(kind, stats[kind]) : kind \in turned}
      <3>1. turned \cap Kinds = turned
        OBVIOUS
      <3> QED
        BY <1>3, <3>1, ItemsGiven
    <2>9. Waiting' = Waiting \cup {Finished(kind, stats[kind]) : kind \in turned}
      BY <1>1, <2>8, EmptyElems DEF Waiting
    <2>10. \A kind \in Kinds : Due(kind)' = {start \in Periods(f, kind) : start # now(kind)}
      <3> SUFFICES ASSUME NEW kind \in Kinds
                   PROVE  Due(kind)' = {start \in Periods(f, kind) : start # now(kind)}
        OBVIOUS
      <3>1. Periods(g, kind) = Periods(f, kind) \cup {now(kind)}
        BY <2>1, <2>2, NextWeekCounts
      <3>2. Due(kind)' = {start \in Periods(g, kind) : start # now(kind)}
        BY <1>1, <1>3, <2>1, <2>4 DEF Due
      <3> QED
        BY <3>1, <3>2
    <2>11. \A kind \in Kinds : Due(kind) = {start \in Periods(f, kind) : start # old(kind)}
      BY <1>1 DEF Due
    <2>12. \A kind \in Kinds : \A start \in Due(kind) : start \in Due(kind)'
      <3> SUFFICES ASSUME NEW kind \in Kinds, NEW start \in Periods(f, kind), start # old(kind)
                   PROVE  start # now(kind)
        BY <2>10, <2>11
      <3>1. /\ start \in Int /\ start <= old(kind)
        BY <2>2, PeriodsUpTo
      <3>2. old(kind) <= now(kind) /\ old(kind) \in Int /\ now(kind) \in Int
        <4>1. week - WeekSeconds \in Int
          BY <2>4 DEF WeekSeconds, DaySeconds
        <4> QED
          BY <2>4, <4>1, PeriodsOrdered, PeriodNames
      <3> HIDE DEF old, now
      <3> QED
        BY <3>1, <3>2
    <2>13. \A kind \in Kinds : \A start \in Due(kind)' : ItemOf(g, kind, start) = ItemOf(f, kind, start)
      <3> SUFFICES ASSUME NEW kind \in Kinds, NEW start \in Periods(f, kind), start # now(kind)
                   PROVE  ItemOf(g, kind, start) = ItemOf(f, kind, start)
        BY <2>10
      <3> QED
        BY <2>1, <2>2, ItemStays
    <2>14. \A kind \in turned : /\ DOMAIN f # {} /\ old(kind) \in Periods(f, kind)
                                /\ old(kind) # now(kind) /\ old(kind) \in Due(kind)'
                                /\ Finished(kind, stats[kind]) = ItemOf(f, kind, old(kind))
      <3> SUFFICES ASSUME NEW kind \in Kinds, Turned(kind, stats[kind], week)
                   PROVE  /\ DOMAIN f # {} /\ old(kind) \in Periods(f, kind)
                          /\ old(kind) # now(kind) /\ old(kind) \in Due(kind)'
                          /\ Finished(kind, stats[kind]) = ItemOf(f, kind, old(kind))
        OBVIOUS
      <3>1. stats[kind].current # NoStat /\ stats[kind].current.start # now(kind)
        BY DEF Turned
      <3>2. DOMAIN f # {}
        <4> SUFFICES ASSUME DOMAIN f = {} PROVE FALSE
          OBVIOUS
        <4>1. stats[kind] = [current |-> NoStat, last |-> NoStat]
          BY <2>2, Zenon DEF CounterFor
        <4> QED
          BY <3>1, <4>1
      <3>3. /\ Finished(kind, stats[kind]) = ItemOf(f, kind, old(kind))
            /\ stats[kind].current.start = old(kind)
        BY <2>2, <3>2, FinishedIsItem
      <3>4. old(kind) \in Periods(f, kind)
        BY <2>2, <3>2, CurrentScores
      <3> QED
        BY <2>10, <3>1, <3>2, <3>3, <3>4
    <2>15. \A kind \in Kinds : \A start \in Due(kind)' :
               start \in Due(kind) \/ (kind \in turned /\ start = old(kind))
      <3> SUFFICES ASSUME NEW kind \in Kinds, old(kind) \in Periods(f, kind), old(kind) # now(kind)
                   PROVE  Turned(kind, stats[kind], week)
        BY <2>10, <2>11
      <3>1. DOMAIN f # {}
        BY DEF Periods
      <3>2. stats[kind].current # NoStat /\ stats[kind].current.start = old(kind)
        BY <2>2, <3>1, FinishedIsItem
      <3> QED
        BY <3>2 DEF Turned
    <2> HIDE DEF old, now, turned
    <2>16. WaitingExact'
      <3> SUFFICES ASSUME NEW i \in Waiting'
                   PROVE  /\ i.key \in Kinds /\ i.at \in Due(i.key)' /\ i = ItemOf(g, i.key, i.at)
        BY <2>1 DEF WaitingExact
      <3>1. CASE i \in Waiting
        <4>1. i.key \in Kinds /\ i.at \in Due(i.key) /\ i = ItemOf(f, i.key, i.at)
          BY <1>1, <3>1 DEF SentimentInv, WaitingExact
        <4> QED
          BY <2>12, <2>13, <4>1
      <3>2. CASE \E kind \in turned : i = Finished(kind, stats[kind])
        <4>1. PICK kind \in turned : i = Finished(kind, stats[kind])
          BY <3>2
        <4>2. kind \in Kinds
          BY <4>1 DEF turned
        <4>3. i = ItemOf(f, kind, old(kind)) /\ old(kind) \in Due(kind)'
          BY <2>14, <4>1
        <4>4. i.key = kind /\ i.at = old(kind)
          BY <4>3 DEF ItemOf
        <4>5. i = ItemOf(g, kind, old(kind))
          BY <2>13, <4>2, <4>3
        <4> QED
          BY <4>2, <4>3, <4>4, <4>5
      <3> QED
        BY <2>9, <3>1, <3>2
    <2>17. DueKept'
      <3> SUFFICES ASSUME NEW kind \in Kinds, NEW start \in Due(kind)'
                   PROVE  \/ ItemOf(g, kind, start) \in Waiting'
                          \/ SettledIn(stored, ItemOf(g, kind, start))
        BY <1>1, <2>1 DEF DueKept
      <3>1. CASE start \in Due(kind)
        <4>1. ItemOf(f, kind, start) \in Waiting \/ SettledIn(stored, ItemOf(f, kind, start))
          BY <1>1, <3>1 DEF SentimentInv, DueKept
        <4> QED
          BY <2>9, <2>13, <4>1
      <3>2. CASE kind \in turned /\ start = old(kind)
        BY <2>9, <2>13, <2>14, <3>2
      <3> QED
        BY <2>15, <3>1, <3>2
    <2>18. Proper(batch')
      BY <1>1 DEF SentimentInv
    <2>19. sent' = FALSE
      BY <1>1, <1>3 DEF SentimentInv, SentimentTypeOK
    <2> QED
      BY <2>1, <2>3, <2>5, <2>7, <2>8, <2>16, <2>17, <2>18, <2>19 DEF SentimentInv
  <1> QED
    BY <1>2, <1>3 DEF AskWeek

\* The loop is over.
LEMMA FlushKeeps ==
    ASSUME SentimentInv, Flush
    PROVE  SentimentInv'
  <1> DEFINE f == scores
             open == {k \in Kinds : stats[k].current # NoStat}
             old(kind) == AbsPeriod(kind, week - WeekSeconds)
  <1>1. /\ step = "ask" /\ toSave = <<>> /\ step' = "flush" /\ toSave' = ItemsFor(open)
        /\ UNCHANGED <<week, stop, stats, batch, stored, unprocessed, scores, sent, runs>>
    BY DEF Flush
  <1>2. WeeksTo(f, week) /\ \A kind \in Kinds : CounterFor(f, week, kind, stats[kind])
    BY DEF SentimentInv
  <1>3. Proper(toSave') /\ Elems(toSave') = {Finished(kind, stats[kind]) : kind \in open}
    <2>1. open \cap Kinds = open
      OBVIOUS
    <2> QED
      BY <1>1, <2>1, ItemsGiven
  <1>4. Waiting' = Waiting \cup {Finished(kind, stats[kind]) : kind \in open}
    BY <1>1, <1>3, EmptyElems DEF Waiting
  <1>5. \A kind \in Kinds : /\ Due(kind) = {start \in Periods(f, kind) : start # old(kind)}
                            /\ Due(kind)' = Periods(f, kind)
    BY <1>1 DEF Due
  <1>6. \A kind \in open : /\ old(kind) \in Periods(f, kind)
                           /\ Finished(kind, stats[kind]) = ItemOf(f, kind, old(kind))
    <2> SUFFICES ASSUME NEW kind \in Kinds, stats[kind].current # NoStat
                 PROVE  /\ old(kind) \in Periods(f, kind)
                        /\ Finished(kind, stats[kind]) = ItemOf(f, kind, old(kind))
      OBVIOUS
    <2>1. DOMAIN f # {}
      <3> SUFFICES ASSUME DOMAIN f = {} PROVE FALSE
        OBVIOUS
      <3>1. stats[kind] = [current |-> NoStat, last |-> NoStat]
        BY <1>2, Zenon DEF CounterFor
      <3> QED
        BY <3>1
    <2> QED
      BY <1>2, <2>1, FinishedIsItem, CurrentScores
  <1>7. \A kind \in Kinds : \A start \in Periods(f, kind) :
            start \in Due(kind) \/ (kind \in open /\ start = old(kind))
    <2> SUFFICES ASSUME NEW kind \in Kinds, old(kind) \in Periods(f, kind)
                 PROVE  stats[kind].current # NoStat
      BY <1>5
    <2>1. DOMAIN f # {}
      BY DEF Periods
    <2> QED
      BY <1>2, <2>1, FinishedIsItem
  <1> HIDE DEF old, open
  <1>8. WaitingExact'
    <2> SUFFICES ASSUME NEW i \in Waiting'
                 PROVE  i.key \in Kinds /\ i.at \in Due(i.key)' /\ i = ItemOf(f, i.key, i.at)
      BY <1>1 DEF WaitingExact
    <2>1. CASE i \in Waiting
      <3>1. i.key \in Kinds /\ i.at \in Due(i.key) /\ i = ItemOf(f, i.key, i.at)
        BY <1>1, <2>1 DEF SentimentInv, WaitingExact
      <3> QED
        BY <1>5, <3>1
    <2>2. CASE \E kind \in open : i = Finished(kind, stats[kind])
      <3>1. PICK kind \in open : i = Finished(kind, stats[kind])
        BY <2>2
      <3>2. kind \in Kinds
        BY <3>1 DEF open
      <3>3. i = ItemOf(f, kind, old(kind)) /\ old(kind) \in Due(kind)'
        BY <1>5, <1>6, <3>1, <3>2
      <3>4. i.key = kind /\ i.at = old(kind)
        BY <3>3 DEF ItemOf
      <3> QED
        BY <3>2, <3>3, <3>4
    <2> QED
      BY <1>4, <2>1, <2>2
  <1>9. DueKept'
    <2> SUFFICES ASSUME NEW kind \in Kinds, NEW start \in Periods(f, kind)
                 PROVE  \/ ItemOf(f, kind, start) \in Waiting'
                        \/ SettledIn(stored, ItemOf(f, kind, start))
      BY <1>1, <1>5 DEF DueKept
    <2>1. CASE start \in Due(kind)
      <3>1. ItemOf(f, kind, start) \in Waiting \/ SettledIn(stored, ItemOf(f, kind, start))
        BY <1>1, <2>1 DEF SentimentInv, DueKept
      <3> QED
        BY <1>4, <3>1
    <2>2. CASE kind \in open /\ start = old(kind)
      BY <1>4, <1>6, <2>2
    <2> QED
      BY <1>7, <2>1, <2>2
  <1>10. SentimentTypeOK' /\ sent' = FALSE
    <2>1. sent = FALSE
      BY <1>1 DEF SentimentInv, SentimentTypeOK
    <2> QED
      BY <1>1, <2>1 DEF SentimentInv, SentimentTypeOK
  <1>11. /\ Proper(batch') /\ WeeksTo(scores', week')
         /\ \A kind \in Kinds : CounterFor(scores', week', kind, stats'[kind])
    BY <1>1, <1>2 DEF SentimentInv
  <1> QED
    BY <1>3, <1>8, <1>9, <1>10, <1>11 DEF SentimentInv

\* What is not written are proper items of the run.
LEMMA WaitingItems ==
    ASSUME SentimentInv, step \in {"ask", "flush"}, NEW i \in Waiting
    PROVE  i.key \in Kinds /\ i.at \in Int /\ i = ItemOf(scores, i.key, i.at)
  <1>1. i.key \in Kinds /\ i.at \in Periods(scores, i.key) /\ i = ItemOf(scores, i.key, i.at)
    BY DEF SentimentInv, WaitingExact, Due
  <1>2. i.at \in Int
    BY <1>1, PeriodsUpTo DEF SentimentInv
  <1> QED
    BY <1>1, <1>2

\* A request succeeds: what it leaves is remembered.
LEMMA AddGives ==
    ASSUME NEW seq, AddFBStats(seq)
    PROVE  \E left \in SUBSET Elems(seq) :
               stored' = Put(Elems(seq) \ left) /\ unprocessed' = unprocessed \cup left
  BY DEF AddFBStats, Elems

\* An item goes into the queue, which is written when it is full.
LEMMA SaveKeeps ==
    ASSUME SentimentInv, Save
    PROVE  SentimentInv'
  <1> DEFINE full == Append(batch, Head(toSave))
  <1>1. /\ step \in {"ask", "flush"} /\ toSave # <<>>
        /\ UNCHANGED <<week, stop, stats, scores, runs>>
    BY DEF Save
  <1>2. /\ Proper(full) /\ Proper(Tail(toSave))
        /\ Waiting = Elems(full) \cup Elems(Tail(toSave)) \cup unprocessed
    <2>1. Proper(batch) /\ Proper(toSave)
      BY DEF SentimentInv
    <2>2. Proper(Tail(toSave)) /\ Elems(toSave) = {Head(toSave)} \cup Elems(Tail(toSave))
      BY <1>1, <2>1, HeadTailElems
    <2>3. Proper(full) /\ Elems(full) = Elems(batch) \cup {Head(toSave)}
      BY <2>1, AppendElems
    <2> QED
      BY <2>2, <2>3 DEF Waiting
  <1>3. \A i \in Waiting : i.key \in Kinds /\ i.at \in Int /\ i = ItemOf(scores, i.key, i.at)
    BY <1>1, WaitingItems
  <1>4. WaitingExact /\ DueKept /\ sent = FALSE
    BY <1>1 DEF SentimentInv, SentimentTypeOK
  <1>5. CASE Ended(FALSE) /\ UNCHANGED <<stored, unprocessed, batch, toSave>>
    BY <1>1, <1>5, FailureKeeps
  <1>6. CASE /\ toSave' = Tail(toSave) /\ UNCHANGED <<step, sent>>
             /\ \/ batch' = full /\ UNCHANGED <<stored, unprocessed>>
                \/ AddFBStats(full) /\ batch' = <<>>
    <2>0. \/ batch' = full /\ stored' = stored /\ unprocessed' = unprocessed
          \/ /\ batch' = <<>>
             /\ \E left \in SUBSET Elems(full) :
                    stored' = Put(Elems(full) \ left) /\ unprocessed' = unprocessed \cup left
      BY <1>6, AddGives
    <2>1. Proper(batch') /\ Proper(toSave')
      BY <1>2, <1>6, EmptyElems
    <2>2. Waiting' \subseteq Waiting
      BY <1>2, <1>6, <2>0, EmptyElems DEF Waiting
    <2>3. \A kind : Due(kind)' = Due(kind)
      BY <1>1, <1>6 DEF Due
    <2>4. WaitingExact'
      BY <1>1, <1>4, <2>2, <2>3 DEF WaitingExact
    <2>5. DueKept'
      <3> SUFFICES ASSUME NEW kind \in Kinds, NEW start \in Due(kind)
                   PROVE  \/ ItemOf(scores, kind, start) \in Waiting'
                          \/ SettledIn(stored', ItemOf(scores, kind, start))
        BY <1>1, <2>3 DEF DueKept
      <3>1. \/ ItemOf(scores, kind, start) \in Waiting
            \/ SettledIn(stored, ItemOf(scores, kind, start))
        BY <1>4 DEF DueKept
      <3>2. CASE batch' = full /\ stored' = stored /\ unprocessed' = unprocessed
        BY <1>2, <1>6, <3>1, <3>2 DEF Waiting
      <3>3. CASE /\ batch' = <<>>
                 /\ \E left \in SUBSET Elems(full) :
                        stored' = Put(Elems(full) \ left) /\ unprocessed' = unprocessed \cup left
        <4>1. PICK left \in SUBSET Elems(full) :
                  stored' = Put(Elems(full) \ left) /\ unprocessed' = unprocessed \cup left
          BY <3>3
        <4>2. CASE ItemOf(scores, kind, start) \in Elems(Tail(toSave)) \cup unprocessed \cup left
          BY <1>6, <4>1, <4>2 DEF Waiting
        <4>3. CASE ItemOf(scores, kind, start) \notin Elems(Tail(toSave)) \cup unprocessed \cup left
          <5>1. \/ ItemOf(scores, kind, start) \in Elems(full) \ left
                \/ SettledIn(stored, ItemOf(scores, kind, start))
            BY <1>2, <3>1, <4>3
          <5>2. \A n \in Elems(full) \ left : n.key \in Kinds /\ n = ItemOf(scores, n.key, n.at)
            BY <1>2, <1>3
          <5>3. SettledIn(Put(Elems(full) \ left), ItemOf(scores, kind, start))
            BY <5>1, <5>2, PutSettles
          <5> QED
            BY <4>1, <5>3
        <4> QED
          BY <4>2, <4>3
      <3> QED
        BY <2>0, <3>2, <3>3
    <2>6. \A i \in stored' \cup unprocessed' : i.key \in Kinds /\ i.at \in Int
      <3>1. \A i \in stored \cup unprocessed : i.key \in Kinds /\ i.at \in Int
        BY DEF SentimentInv, SentimentTypeOK
      <3>2. \A n \in Elems(full) : n.key \in Kinds /\ n.at \in Int
        BY <1>2, <1>3
      <3>3. \A left : \A i \in Put(Elems(full) \ left) : i.key \in Kinds /\ i.at \in Int
        BY <3>1, <3>2, PutTyped
      <3> QED
        BY <2>0, <3>1, <3>2, <3>3
    <2>7. SentimentTypeOK'
      BY <1>1, <1>6, <2>6 DEF SentimentInv, SentimentTypeOK
    <2>8. WeeksTo(scores', week') /\ \A kind \in Kinds : CounterFor(scores', week', kind, stats'[kind])
      BY <1>1 DEF SentimentInv
    <2>9. ~sent'
      BY <1>4, <1>6
    <2> QED
      BY <2>1, <2>4, <2>5, <2>7, <2>8, <2>9 DEF SentimentInv
  <1>7. \/ /\ toSave' = Tail(toSave) /\ UNCHANGED <<step, sent>>
           /\ \/ batch' = full /\ UNCHANGED <<stored, unprocessed>>
              \/ AddFBStats(full) /\ batch' = <<>>
        \/ Ended(FALSE) /\ UNCHANGED <<stored, unprocessed, batch, toSave>>
    BY Zenon DEF Save
  <1> QED
    BY <1>5, <1>6, <1>7

\* The rest is written.
LEMMA FinishKeeps ==
    ASSUME SentimentInv, Finish
    PROVE  SentimentInv'
  <1>1. /\ step = "flush" /\ toSave = <<>>
        /\ UNCHANGED <<week, stop, stats, toSave, batch, scores, runs>>
    BY DEF Finish
  <1>2. CASE Ended(FALSE) /\ UNCHANGED <<stored, unprocessed>>
    BY <1>1, <1>2, FailureKeeps
  <1>3. CASE AddFBStats(batch) /\ Ended(TRUE)
    <2>0. PICK left \in SUBSET Elems(batch) :
              stored' = Put(Elems(batch) \ left) /\ unprocessed' = unprocessed \cup left
      BY <1>3, AddGives
    <2>1. step' = "done" /\ sent' = TRUE
      BY <1>3 DEF Ended
    <2>2. Waiting = Elems(batch) \cup unprocessed
      BY <1>1, EmptyElems DEF Waiting
    <2>3. \A i \in Elems(batch) \cup unprocessed :
              i.key \in Kinds /\ i.at \in Int /\ i = ItemOf(scores, i.key, i.at)
      BY <1>1, <2>2, WaitingItems
    <2>4. AllSettled'
      <3> SUFFICES ASSUME NEW kind \in Kinds, NEW start \in Periods(scores, kind),
                          ItemOf(scores, kind, start) \notin unprocessed \cup left
                   PROVE  SettledIn(Put(Elems(batch) \ left), ItemOf(scores, kind, start))
        BY <1>1, <2>0 DEF AllSettled
      <3>1. start \in Due(kind) /\ DueKept
        BY <1>1 DEF SentimentInv, Due
      <3>2. \/ ItemOf(scores, kind, start) \in Elems(batch) \ left
            \/ SettledIn(stored, ItemOf(scores, kind, start))
        BY <2>2, <3>1 DEF DueKept
      <3> QED
        BY <2>3, <3>2, PutSettles
    <2>5. \A i \in stored' \cup unprocessed' : i.key \in Kinds /\ i.at \in Int
      <3>1. \A i \in Put(Elems(batch) \ left) : i.key \in Kinds /\ i.at \in Int
        BY <2>3, PutTyped DEF SentimentInv, SentimentTypeOK
      <3> QED
        BY <2>0, <2>3, <3>1
    <2>8. LeftExact'
      BY <1>1, <2>0, <2>3 DEF LeftExact
    <2>6. SentimentTypeOK'
      BY <1>1, <2>1, <2>5 DEF SentimentInv, SentimentTypeOK
    <2>7. /\ Proper(batch') /\ Proper(toSave') /\ WeeksTo(scores', week')
          /\ \A kind \in Kinds : CounterFor(scores', week', kind, stats'[kind])
      BY <1>1 DEF SentimentInv
    <2> QED
      BY <2>1, <2>4, <2>6, <2>7, <2>8 DEF SentimentInv
  <1> QED
    BY <1>2, <1>3 DEF Finish

LEMMA StutterKeeps ==
    ASSUME SentimentInv, UNCHANGED sentimentVars
    PROVE  SentimentInv'
  BY DEF SentimentInv, SentimentTypeOK, WaitingExact, DueKept, AllSettled, LeftExact, Waiting, Due, sentimentVars

-----------------------------------------------------------------------------
(* The theorems. *)

THEOREM SentimentInvariant == SentimentSpec => []SentimentInv
  <1>1. SentimentInit => SentimentInv
    BY SentimentAssumption, SentimentStarts
  <1>2. SentimentInv /\ [SentimentNext]_sentimentVars => SentimentInv'
    BY SentimentAssumption, BeginKeeps, AskKeeps, FlushKeeps, SaveKeeps, FinishKeeps, StutterKeeps
       DEF SentimentNext
  <1> QED
    BY <1>1, <1>2, PTL DEF SentimentSpec

THEOREM SentimentTyped == SentimentSpec => []SentimentTypeOK
  <1>1. SentimentInv => SentimentTypeOK
    BY DEF SentimentInv
  <1> QED
    BY <1>1, SentimentInvariant, PTL

THEOREM SentimentStored == SentimentSpec => []SentimentExact
  <1>1. SentimentInv => SentimentExact
    <2> SUFFICES ASSUME SentimentInv, sent, NEW kind \in Kinds
                 PROVE  {i \in Put(unprocessed) : i.key = kind /\ i.at \in PeriodsOf(kind)}
                            = {StatOf(kind, start) : start \in PeriodsOf(kind)}
      BY DEF SentimentExact
    <2>1. PeriodsOf(kind) = Periods(scores, kind)
      BY DEF PeriodsOf, Periods
    <2>2. \A start : StatOf(kind, start) = ItemOf(scores, kind, start)
      BY ItemIsStat DEF SentimentInv, WeeksTo
    <2>3. \A start \in PeriodsOf(kind) : SettledIn(Put(unprocessed), StatOf(kind, start))
      BY <2>1, <2>2, PutSettles DEF SentimentInv, AllSettled, LeftExact
    <2>4. \A start : StatOf(kind, start).key = kind /\ StatOf(kind, start).at = start
      BY <2>2 DEF ItemOf
    <2> QED
      BY <2>3, <2>4 DEF SettledIn
  <1> QED
    BY <1>1, SentimentInvariant, PTL
=============================================================================
