----------------------------- MODULE RestartDates -----------------------------
(***************************************************************************)
(* When a restart test writes its restart and what date the restart has    *)
(* (SystemTestsCommon._set_restart_interval, _leap_year_correction).       *)
(* A date is a record [y, m, d], a time has also the seconds of its day.   *)
(***************************************************************************)
EXTENDS Integers, FiniteSets

Secs == [hour |-> 3600, day |-> 86400, year |-> 31536000, decade |-> 315360000]

\* The times a run may start at
StartTimes == [date : [y : Nat \ {0}, m : 1..12, d : 1..31], tod : 0 .. (Secs.day - 1)]

Leap(y) == y % 4 = 0 /\ (y % 100 # 0 \/ y % 400 = 0)

\* Days of a year before its month m, in a year without a leap day
Before == <<0, 31, 59, 90, 120, 151, 181, 212, 243, 273, 304, 334>>

\* The number of a date in python's datetime, and in a calendar of 365 days
DayNumber(cal, d) ==
  LET p == d.y - 1
  IN IF cal = "NO_LEAP" THEN 365 * p + Before[d.m] + d.d
     ELSE 365 * p + p \div 4 - p \div 100 + p \div 400 + Before[d.m] + d.d
            + (IF d.m > 2 /\ Leap(d.y) THEN 1 ELSE 0)

Latest(cal, S) == CHOOSE x \in S : \A o \in S : DayNumber(cal, o) <= DayNumber(cal, x)

\* The first day of the year, and of the month, of the day with number n
YearOf(cal, n) ==
  Latest(cal, {o \in {[y |-> k, m |-> 1, d |-> 1] : k \in ((n - 1) \div 366) .. ((n + 365) \div 365)}
                 : DayNumber(cal, o) <= n})
MonthOf(cal, n) ==
  Latest(cal, {o \in {[YearOf(cal, n) EXCEPT !.m = k] : k \in 1..12} : DayNumber(cal, o) <= n})

\* The date with number n
DateOf(cal, n) == [MonthOf(cal, n) EXCEPT !.d = n - DayNumber(cal, MonthOf(cal, n)) + 1]

AddDays(cal, date, n) == DateOf(cal, DayNumber(cal, date) + n)

(***************************************************************************)
(* The interval.  A test t has the stop option, the calendar, the coupling *)
(* period (base) with the largest and the smallest number of couplings in  *)
(* it, whether the driver is mct, the restart interval the shell_commands  *)
(* give (0 when none) and whether it is an IRT.  Divisions of the base     *)
(* period are exact for the numbers of couplings used.                     *)
(***************************************************************************)
Timestep(t)     == Secs[t.base] \div t.most
CouplingSecs(t) == Secs[t.base] \div (IF t.mct THEN t.most ELSE t.least)

\* "nyears" has the seconds of a decade in the code
Factor(t) == CASE t.option = "nsteps"   -> Timestep(t)
               [] t.option = "nminutes" -> 60
               [] t.option = "nhours"   -> 3600
               [] t.option = "ndays"    -> 86400
               [] t.option = "nyears"   -> 315360000

\* stop_n * factor // coupling_secs, on whole coupling intervals per unit
Intervals(t, stop) ==
  IF Factor(t) % CouplingSecs(t) = 0 THEN stop * (Factor(t) \div CouplingSecs(t))
                                     ELSE (stop * Factor(t)) \div CouplingSecs(t)

\* The ceiling of n coupling intervals in units of the stop option
InUnits(t, n) ==
  IF Factor(t) % CouplingSecs(t) = 0
  THEN LET per == Factor(t) \div CouplingSecs(t) IN (n + per - 1) \div per
  ELSE (n * CouplingSecs(t) + Factor(t) - 1) \div Factor(t)

\* Mutant: a restart in the middle is written again at the end.
HalfInterval(t, stop) ==
  IF t.rest # 0 THEN t.rest
  ELSE IF t.kind = "IRT" THEN InUnits(t, Intervals(t, stop) \div 3)
  ELSE InUnits(t, Intervals(t, stop) \div 2)

RestartInterval(t, stop) ==
  IF t.rest # 0 THEN t.rest
  ELSE IF t.kind = "IRT" THEN InUnits(t, Intervals(t, stop) \div 3)
  ELSE InUnits(t, Intervals(t, stop) \div 2 + 1)

\* Mutant: no upper bound.
AnyLength(t, stop) == Intervals(t, stop) > 0 /\ RestartInterval(t, stop) > 0

\* The run is long enough: otherwise the test ends with "STOP_N too short"
LongEnough(t, stop) ==
  /\ Intervals(t, stop) > 0
  /\ RestartInterval(t, stop) > 0 /\ RestartInterval(t, stop) < stop

\* n units of the stop option in days and seconds
Span(t, n) ==
  CASE t.option = "ndays"  -> <<n, 0>>
    [] t.option = "nyears" -> <<365 * n, 0>>
    [] OTHER               -> <<(n * Factor(t)) \div 86400, (n * Factor(t)) % 86400>>

\* The moment n units after the start of a run, in a calendar
After(cal, t, start, n) ==
  LET secs == start.tod + Span(t, n)[2]
  IN [date |-> AddDays(cal, start.date, Span(t, n)[1] + secs \div 86400), tod |-> secs % 86400]

\* Mutant: the year of the restart itself is not looked at.
FullYearsOnly(start, rest) == Cardinality({y \in start.y .. (rest.y - 1) : Leap(y)})

\* The leap days the loop and the last condition count between two dates
LeapYearCorrection(start, rest) ==
  Cardinality({y \in start.y .. (rest.y - 1) : Leap(y)})
    + (IF rest.m > 2 /\ (start.m <= 2 \/ rest.y > start.y) /\ Leap(rest.y) THEN 1 ELSE 0)

\* The time that names the restart (_rest_time): python's dates, corrected
RestTime(t, start, n) ==
  LET r == After("GREGORIAN", t, start, n)
  IN IF t.cal = "NO_LEAP"
     THEN [r EXCEPT !.date = AddDays("GREGORIAN", @, LeapYearCorrection(start.date, @))]
     ELSE r

\* The time at which the model writes it: its own calendar
ModelTime(t, start, n) ==
  IF t.option = "nyears" /\ t.cal # "NO_LEAP" THEN [start EXCEPT !.date.y = @ + n]
  ELSE After(t.cal, t, start, n)
===============================================================================
