---------------------------- MODULE FacebookIncome ----------------------------
(***************************************************************************)
(* GET /api/insight: what Facebook earned with a user's data between two      *)
(* times (api/insight.go).  The handler cuts the period to the activity range *)
(* in the account's metadata, picks the table of quarters of the user's area, *)
(* and walks through the period a day at a time and through the table a       *)
(* quarter at a time, in one loop that does either in a turn.                 *)
(*                                                                         *)
(* The income is the days counted in each quarter; a quarter's amount only    *)
(* weighs them.                                                            *)
(***************************************************************************)
EXTENDS Integers, Sequences, FiniteSets

CONSTANTS
    DayLength,  \* 24*60*60
    Moment,     \* times that requests and metadata name
    Country,    \* values of original_location; "" stands for none
    Continent,  \* countryContinentMap, of some countries
    Quarters    \* areaFBIncomeMap: per area a sequence of [started, ended]

Areas == {"world_wide", "us_canada", "europe", "asia_pacific", "rest"}

ASSUME DayAssumption     == DayLength \in Nat \ {0}
ASSUME MomentAssumption  == Moment \subseteq Int
ASSUME CountryAssumption == "" \in Country /\ DOMAIN Continent \subseteq Country
ASSUME QuarterAssumption == Quarters \in [Areas -> Seq([started : Int, ended : Int])]

VARIABLES
    stage,   \* "idle", "loop", "answered", "refused"
    area,    \* the table that is looked up
    from,    \* the next day
    to,      \* the end of the period
    first,   \* firstDayTimestamp
    quarter, \* quarterIndex, from 1
    days     \* days counted in each quarter of the table, <<>> for the answer -1

incomeVars == <<stage, area, from, to, first, quarter, days>>

\* getFBIncomeFromUserData, the table of a country.
AreaOf(country) ==
    CASE country = "" -> "world_wide"
      [] country \in {"us", "ca"} -> "us_canada"
      [] country \in DOMAIN Continent \ {"us", "ca"} ->
            CASE Continent[country] = "Europe" -> "europe"
              [] Continent[country] = "Asia" -> "asia_pacific"
              [] OTHER -> "rest"
      [] OTHER -> "rest"

Table == Quarters[area]

IncomeInit ==
    /\ stage = "idle" /\ area = "rest"
    /\ from = 0 /\ to = 0 /\ first = 0 /\ quarter = 1 /\ days = <<>>

Later(a, b) == IF a < b THEN b ELSE a
Sooner(a, b) == IF a < b THEN a ELSE b

\* getInsight, getFBIncomeFromUserData and the beginning of getTotalFBIncomeForDataPeriod.  An
\* account without the metadata leaves the bounds of the request.
Ask(start, end, activity, country) ==
    /\ stage = "idle" /\ start <= end
    /\ LET begin == IF activity = <<>> THEN start ELSE Later(start, activity[1])
           stop == IF activity = <<>> THEN end ELSE Sooner(end, activity[2])
           table == Quarters[AreaOf(country)]
       IN /\ area' = AreaOf(country)
          /\ IF begin > stop
             THEN /\ stage' = "refused" /\ from' = 0 /\ to' = 0 /\ first' = 0 /\ days' = <<>>
             ELSE IF table = <<>>
             THEN /\ stage' = "answered" /\ from' = 0 /\ to' = 0 /\ first' = 0 /\ days' = <<>>
             ELSE /\ stage' = "loop" /\ to' = stop
                  /\ first' = Later(begin, table[1].started) /\ from' = first'
                  /\ days' = [q \in DOMAIN table |-> 0]
    /\ quarter' = 1

\* Mutant: a day that begins when a quarter ends belongs to the next one.
Turn_EndExcluded ==
    /\ stage = "loop"
    /\ IF from >= Table[quarter].ended
       THEN quarter' = quarter + 1 /\ UNCHANGED <<from, days>>
       ELSE /\ days' = [days EXCEPT ![quarter] = @ + 1]
            /\ from' = from + DayLength
            /\ UNCHANGED quarter
    /\ stage' = IF from' > to \/ quarter' > Len(Table) THEN "answered" ELSE "loop"
    /\ UNCHANGED <<area, to, first>>

\* Mutant: only the end of the period stops the loop.
Turn_NoBound ==
    /\ stage = "loop" /\ quarter <= Len(Table)
    /\ IF from > Table[quarter].ended
       THEN quarter' = quarter + 1 /\ UNCHANGED <<from, days>>
       ELSE /\ days' = [days EXCEPT ![quarter] = @ + 1]
            /\ from' = from + DayLength
            /\ UNCHANGED quarter
    /\ stage' = IF from' > to THEN "answered" ELSE "loop"
    /\ UNCHANGED <<area, to, first>>

\* getTotalFBIncomeForDataPeriod, a turn of the loop: the next quarter, or the next day.
Turn ==
    /\ stage = "loop"
    /\ IF from > Table[quarter].ended
       THEN quarter' = quarter + 1 /\ UNCHANGED <<from, days>>
       ELSE /\ days' = [days EXCEPT ![quarter] = @ + 1]
            /\ from' = from + DayLength
            /\ UNCHANGED quarter
    /\ stage' = IF from' > to \/ quarter' > Len(Table) THEN "answered" ELSE "loop"
    /\ UNCHANGED <<area, to, first>>

Activities == {<<>>} \cup {a \in Moment \X Moment : a[1] <= a[2]}

IncomeNext ==
    \/ \E start, end \in Moment, activity \in Activities, country \in Country :
            Ask(start, end, activity, country)
    \/ Turn

IncomeSpec == IncomeInit /\ [][IncomeNext]_incomeVars

-----------------------------------------------------------------------------
(* Properties. *)

IncomeTypeOK ==
    /\ stage \in {"idle", "loop", "answered", "refused"}
    /\ area \in Areas
    /\ from \in Int /\ to \in Int /\ first \in Int /\ quarter \in Nat \ {0}
    /\ days = <<>> \/ days \in [DOMAIN Table -> Nat]

\* The loop, which tests the index after it has raised it and never before it uses it, does
\* not look behind the end of the table (the program would panic there), and the counters it
\* uses are those of the table it looks at.
QuarterInTable == stage = "loop" => quarter \in DOMAIN Table /\ DOMAIN days = DOMAIN Table

\* The last quarter that ends before t does.
Before(t) == {q \in DOMAIN Table : Table[q].ended < t}

\* The beginnings of the days from first to to.
DayStarts == {t \in first..to : (t - first) % DayLength = 0}

\* Each quarter is charged with the days that begin after the quarter before has ended and not
\* after it has ended itself, none twice and none left out, but that a period that ends before
\* the first quarter begins is charged with one day, which the loop counts before its test.
DaysExact ==
    stage = "answered" /\ days # <<>> =>
        IF first > to
        THEN to < Table[1].started /\ days = [q \in DOMAIN Table |-> IF q = 1 THEN 1 ELSE 0]
        ELSE \A q \in DOMAIN Table :
                days[q] = Cardinality({t \in DayStarts : t <= Table[q].ended
                                            /\ (q > 1 => t > Table[q - 1].ended)})
=============================================================================
