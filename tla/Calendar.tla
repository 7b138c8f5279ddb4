------------------------------- MODULE Calendar -------------------------------
(***************************************************************************)
(* The periods of timeutil/time.go: the UTC day, week (from Sunday), month,  *)
(* year and decade that a Unix time in seconds lies in, each named by the    *)
(* second it starts at.  Go's time package is modelled by what it computes,   *)
(* the proleptic Gregorian calendar.                                        *)
(***************************************************************************)
EXTENDS Integers

DaySeconds == 86400
WeekSeconds == 7 * DaySeconds

Day(t) == t \div DaySeconds

\* The epoch is a Thursday; 0 stands for Sunday.
Weekday(t) == (Day(t) + 4) % 7

AbsDay(t) == Day(t) * DaySeconds

AbsWeek(t) == AbsDay(t) - Weekday(t) * DaySeconds

IsLeap(y) == y % 4 = 0 /\ (y % 100 # 0 \/ y % 400 = 0)

\* The leap days before the year y.
LeapDays(y) == (y - 1) \div 4 - (y - 1) \div 100 + (y - 1) \div 400

YearStart(y) == ((y - 1970) * 365 + LeapDays(y) - LeapDays(1970)) * DaySeconds

\* An average year has 31556952 seconds, and no year starts two days off.
Year(t) ==
    LET guess == 1970 + t \div 31556952
    IN CHOOSE y \in guess - 1 .. guess + 1 : YearStart(y) <= t /\ t < YearStart(y + 1)

DaysBefore == <<0, 31, 59, 90, 120, 151, 181, 212, 243, 273, 304, 334>>

MonthStart(y, m) ==
    YearStart(y) + (DaysBefore[m] + IF m > 2 /\ IsLeap(y) THEN 1 ELSE 0) * DaySeconds

AbsMonth(t) ==
    LET year == Year(t)
        month == CHOOSE m \in 1 .. 12 :
            MonthStart(year, m) <= t /\ (m < 12 => t < MonthStart(year, m + 1))
    IN MonthStart(year, month)

AbsYear(t) == YearStart(Year(t))

AbsDecade(t) == YearStart(Year(t) - (Year(t) % 10))

\* The periods that have statistics.
Kinds == {"week", "year", "decade"}

AbsPeriod(period, t) ==
    CASE period = "week"   -> AbsWeek(t)
      [] period = "month"  -> AbsMonth(t)
      [] period = "year"   -> AbsYear(t)
      [] period = "decade" -> AbsDecade(t)
      [] OTHER             -> t

\* Mutant: the last value is not tested.
GetDiff_Unchecked(current, last) == <<current - last, last>>

\* The growth from last to current, as a fraction.
GetDiff(current, last) ==
    IF last # 0 THEN <<current - last, last>>
    ELSE <<IF current = 0 THEN 0 ELSE 1, 1>>

=============================================================================
