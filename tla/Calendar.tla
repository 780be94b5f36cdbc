------------------------------- MODULE Calendar -------------------------------
(***************************************************************************)
(* Time::toLocalTime (mstime.cc:36-110): the seconds since 1970 as a date  *)
(* of the local time zone, field by field as in struct tm, where tm_year   *)
(* counts from 1900 and tm_mon from 0.                                     *)
(*                                                                         *)
(* The code's loops over years and months end where the sum of what they   *)
(* have left behind says.  LocalDate begins with the hours, as the seconds *)
(* after 2038 are too many for the model checker's integers.               *)
(***************************************************************************)
EXTENDS Integers

\* The days, in a year that is not leap, before each month and after the last:
\* the sums of the code's table, days.
daysBefore == <<0, 31, 59, 90, 120, 151, 181, 212, 243, 273, 304, 334, 365>>

\* tm_mon and tm_mday of the day'th day, from 1, of a year that is not leap.
\* The code's loop ends at the month that day is in.
IsMonthOf(mon, day) == daysBefore[mon + 1] < day /\ day <= daysBefore[mon + 2]

MonthAndDay(day) ==
    LET mon == CHOOSE m \in 0..11 : IsMonthOf(m, day)
    IN  [mon |-> mon, mday |-> day - daysBefore[mon + 1]]

MonthAndDayOfLeapYear(day) ==
    CASE day > 60 -> MonthAndDay(day - 1)
      [] day = 60 -> [mon |-> 1, mday |-> 29]
      [] OTHER    -> MonthAndDay(day)

IsLeap(year) == year % 4 = 0

\* The hours of n years, no more than four, beginning with first.
HoursOf(first, n) ==
    24 * (365 * n + IF \E year \in first..(first + n - 1) : IsLeap(year) THEN 1 ELSE 0)

\* The code's loop over the four years ends at the m'th.
IsYearOf(m, first, hours) == HoursOf(first, m) <= hours /\ hours < HoursOf(first, m + 1)

\* Whole terms of four years, then years as long as one is over.
FirstYear(hours) == 70 + 4 * (hours \div (1461 * 24))

YearsPast(hours) ==
    CHOOSE m \in 0..3 : IsYearOf(m, FirstYear(hours), hours % (1461 * 24))

LocalDate(hours) ==
    LET n     == YearsPast(hours)
        year  == FirstYear(hours) + n
        hour  == (hours % (1461 * 24)) - HoursOf(FirstYear(hours), n)
        day   == 1 + hour \div 24
        month == IF IsLeap(year) THEN MonthAndDayOfLeapYear(day) ELSE MonthAndDay(day)
    IN  [year |-> year, mon |-> month.mon, mday |-> month.mday, hour |-> hour % 24]

\* A time before 1970 is taken for the beginning of 1970.
ToLocalTime(second, timezone) ==
    LET local == IF second < timezone THEN 0 ELSE second - timezone
    IN  [date |-> LocalDate(local \div 3600),
         min  |-> (local \div 60) % 60,
         sec  |-> local % 60]

-----------------------------------------------------------------------------
(* The Gregorian calendar, to compare with.                                *)

GregorianLeap(year) == year % 4 = 0 /\ (year % 100 # 0 \/ year % 400 = 0)

\* The days of a month, counted from 1.
DaysOf(month, leap) ==
    CASE month = 2 -> IF leap THEN 29 ELSE 28
      [] month \in {4, 6, 9, 11} -> 30
      [] OTHER -> 31

\* The day after <<year, month, day>>.
Tomorrow(d) ==
    CASE d[3] < DaysOf(d[2], GregorianLeap(d[1])) -> <<d[1], d[2], d[3] + 1>>
      [] d[2] < 12 -> <<d[1], d[2] + 1, 1>>
      [] OTHER     -> <<d[1] + 1, 1, 1>>

\* The hours from the beginning of 1970 to t's, where every fourth year is leap.
HoursUntil(t) ==
    LET day == daysBefore[t.mon + 1] + t.mday
                 + IF t.mon > 1 /\ IsLeap(t.year) THEN 1 ELSE 0
    IN  24 * (365 * (t.year - 70) + (t.year - 69) \div 4 + day - 1) + t.hour

DateOf(hours) ==
    LET t == LocalDate(hours) IN <<t.year + 1900, t.mon + 1, t.mday>>

\* toLocalTime gives the dates of the Gregorian calendar, one after the other
\* from 1 January 1970, the first and the last hour of a day the same date; and
\* hours, minutes and seconds put together are the time of the day, in any time
\* zone.  So it is until 28 February 2100, as the code takes 2100 for a leap
\* year (mstime.cc:64-105).
LastDay == 47540

DatesAreGregorian ==
    /\ DateOf(0) = <<1970, 1, 1>>
    /\ \A n \in 0..LastDay :
         LET date == DateOf(24 * n) IN
         /\ DateOf(24 * n + 23) = date
         /\ n < LastDay => DateOf(24 * (n + 1)) = Tomorrow(date)
    /\ \A second \in 0..7300, timezone \in {-28800, 0, 3600} :
         LET t == ToLocalTime(second, timezone)
             s == t.sec + 60 * (t.min + 60 * t.date.hour)
         IN  s = IF second < timezone THEN 0 ELSE second - timezone
===============================================================================
