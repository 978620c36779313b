------------------------------ MODULE Periods ------------------------------
(***************************************************************************)
(* The periods a question can ask for (connectors/demo_sqlite.py:          *)
(* resolve_time_window, resolve_comparison_range, _shift_year, which every *)
(* connector calls).  A date is its proleptic Gregorian ordinal, as in     *)
(* Python's datetime: day 1 is 1 January of year 1, a Monday.              *)
(***************************************************************************)
EXTENDS Integers
-----------------------------------------------------------------------------
(* The calendar (Python's datetime and calendar modules)                   *)

Leap(y) == y % 4 = 0 /\ (y % 100 # 0 \/ y % 400 = 0)

YearStart(y) == 365 * (y - 1) + (y - 1) \div 4 - (y - 1) \div 100 + (y - 1) \div 400 + 1

DaysBefore == <<0, 31, 59, 90, 120, 151, 181, 212, 243, 273, 304, 334, 365>>

MonthStart(y, m) == YearStart(y) + DaysBefore[m] + (IF m > 2 /\ Leap(y) THEN 1 ELSE 0)

MonthDays(y, m) == DaysBefore[m + 1] - DaysBefore[m] + (IF m = 2 /\ Leap(y) THEN 1 ELSE 0)

Date(y, m, d) == MonthStart(y, m) + d - 1

Year(o)    == CHOOSE y \in o \div 366 .. o \div 365 + 1 : YearStart(y) <= o /\ o < YearStart(y + 1)
Month(o)   == CHOOSE m \in 1..12 : o \in MonthStart(Year(o), m)..Date(Year(o), m, MonthDays(Year(o), m))
Day(o)     == o - MonthStart(Year(o), Month(o)) + 1
Weekday(o) == (o + 6) % 7                    \* Monday is 0
-----------------------------------------------------------------------------
(* The windows and the periods they are compared with                      *)

CurrentPresets  == {"CURRENT_DAY", "CURRENT_WEEK", "CURRENT_MONTH", "CURRENT_QUARTER", "CURRENT_YEAR"}
PreviousPresets == {"PREVIOUS_COMPLETE_DAY", "PREVIOUS_COMPLETE_WEEK", "PREVIOUS_COMPLETE_MONTH",
                    "PREVIOUS_COMPLETE_QUARTER", "PREVIOUS_COMPLETE_YEAR"}
RollingPresets  == {"ROLLING_30_DAYS", "ROLLING_12_MONTHS"}
Presets         == CurrentPresets \cup PreviousPresets \cup RollingPresets \cup {"CUSTOM"}

QuarterStart(o) == MonthStart(Year(o), ((Month(o) - 1) \div 3) * 3 + 1)

Span(first, last) == [start |-> first, end |-> last]

(* Mutant: the rolling window starts a month too early.                    *)
TwelveMonthsBack(a) == Date(Year(a) - 1, Month(a), 1)

RollingStart(a) == IF Month(a) = 12 THEN Date(Year(a), 1, 1) ELSE Date(Year(a) - 1, Month(a) + 1, 1)

(* resolve_time_window                                                     *)
Resolve(w) ==
    LET a     == w.anchor
        month == MonthStart(Year(a), Month(a))
    IN CASE w.preset = "CUSTOM"                    -> w.dates
         [] w.preset = "CURRENT_DAY"               -> Span(a, a)
         [] w.preset = "PREVIOUS_COMPLETE_DAY"     -> Span(a - 1, a - 1)
         [] w.preset = "CURRENT_WEEK"              -> Span(a - Weekday(a), a)
         [] w.preset = "PREVIOUS_COMPLETE_WEEK"    ->
              LET end == a - (Weekday(a) + 1) IN Span(end - 6, end)
         [] w.preset = "CURRENT_MONTH"             -> Span(month, a)
         [] w.preset = "PREVIOUS_COMPLETE_MONTH"   ->
              Span(MonthStart(Year(month - 1), Month(month - 1)), month - 1)
         [] w.preset = "CURRENT_QUARTER"           -> Span(QuarterStart(a), a)
         [] w.preset = "PREVIOUS_COMPLETE_QUARTER" ->
              LET end == QuarterStart(a) - 1 IN Span(QuarterStart(end), end)
         [] w.preset = "CURRENT_YEAR"              -> Span(Date(Year(a), 1, 1), a)
         [] w.preset = "PREVIOUS_COMPLETE_YEAR"    -> Span(Date(Year(a) - 1, 1, 1), Date(Year(a) - 1, 12, 31))
         [] w.preset = "ROLLING_30_DAYS"           -> Span(a - 29, a)
         [] w.preset = "ROLLING_12_MONTHS"         -> Span(RollingStart(a), a)

ShiftBackOneYear(o) ==
    LET y == Year(o) - 1
        d == Day(o)
    IN Date(y, Month(o), IF d > MonthDays(y, Month(o)) THEN MonthDays(y, Month(o)) ELSE d)

Comparisons == {"NONE", "PRIOR_PERIOD", "YEAR_OVER_YEAR"}

(* resolve_comparison_range, for a comparison other than NONE              *)
Against(current, comparison) ==
    IF comparison = "PRIOR_PERIOD"
    THEN Span(current.start - 1 - (current.end - current.start), current.start - 1)
    ELSE Span(ShiftBackOneYear(current.start), ShiftBackOneYear(current.end))
-----------------------------------------------------------------------------
(* What the words mean, told without dates: days, weeks, months, quarters  *)
(* and years are numbered, and a window asks for some of them.             *)

MonthIndex(o) == 12 * Year(o) + Month(o) - 1

Index(grain, o) ==
    CASE grain = "DAY"     -> o
      [] grain = "WEEK"    -> (o - 1) \div 7
      [] grain = "MONTH"   -> MonthIndex(o)
      [] grain = "QUARTER" -> MonthIndex(o) \div 3
      [] grain = "YEAR"    -> Year(o)

UnitOf ==
    [CURRENT_DAY |-> "DAY", CURRENT_WEEK |-> "WEEK", CURRENT_MONTH |-> "MONTH",
     CURRENT_QUARTER |-> "QUARTER", CURRENT_YEAR |-> "YEAR",
     PREVIOUS_COMPLETE_DAY |-> "DAY", PREVIOUS_COMPLETE_WEEK |-> "WEEK",
     PREVIOUS_COMPLETE_MONTH |-> "MONTH", PREVIOUS_COMPLETE_QUARTER |-> "QUARTER",
     PREVIOUS_COMPLETE_YEAR |-> "YEAR", ROLLING_30_DAYS |-> "DAY", ROLLING_12_MONTHS |-> "MONTH"]

Asked(w, o) ==
    LET back == Index(UnitOf[w.preset], w.anchor) - Index(UnitOf[w.preset], o)
    IN \/ w.preset \in CurrentPresets /\ back = 0 /\ o <= w.anchor
       \/ w.preset \in PreviousPresets /\ back = 1
       \/ w.preset = "ROLLING_30_DAYS" /\ back \in 0..29
       \/ w.preset = "ROLLING_12_MONTHS" /\ back \in 0..11 /\ o <= w.anchor

(* A range is exactly the days a window asks for: both ends are asked for, *)
(* and their outer neighbours are not.                                     *)
Covers(range, w) ==
    IF w.preset = "CUSTOM"
    THEN range = w.dates
    ELSE /\ range.start <= range.end
         /\ Asked(w, range.start) /\ Asked(w, range.end)
         /\ ~Asked(w, range.start - 1) /\ ~Asked(w, range.end + 1)

(* The date one year before, the last of February for 29 February.         *)
YearBefore(o, p) ==
    /\ MonthIndex(p) = MonthIndex(o) - 12
    /\ Day(p) = IF Day(o) = 29 /\ Month(o) = 2 THEN 28 ELSE Day(o)

Precedes(range, current, comparison) ==
    CASE comparison = "PRIOR_PERIOD" ->
           /\ range.end + 1 = current.start
           /\ range.end - range.start = current.end - current.start
      [] comparison = "YEAR_OVER_YEAR" ->
           YearBefore(current.start, range.start) /\ YearBefore(current.end, range.end)
============================================================================
