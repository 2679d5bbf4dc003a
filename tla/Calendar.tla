------------------------------ MODULE Calendar ------------------------------
(* Days, months and the time grains of a query. A day is a number, and day *)
(* 0 is a Monday; a month is an index into FirstDay.                       *)
(*                                                                         *)
(* A grain is computed by the database: PostgreSQL truncates the date, for *)
(* SQLite compile_time_grain (dialect.py) builds the date itself.          *)
EXTENDS Integers

CONSTANT FirstDay  \* the first day of each month, in order; month 0 is a January

(* The months follow one another.                                          *)
ASSUME CalendarAssumption ==
  /\ DOMAIN FirstDay \subseteq Int
  /\ \A m \in DOMAIN FirstDay : FirstDay[m] \in Int
  /\ \A m, n \in DOMAIN FirstDay :
       m < n => m + 1 \in DOMAIN FirstDay /\ FirstDay[m] < FirstDay[n]

MonthOf(day) ==
  CHOOSE m \in DOMAIN FirstDay :
    FirstDay[m] <= day /\ (m + 1 \in DOMAIN FirstDay => day < FirstDay[m + 1])

(* A day of the calendar is in one of its months.                          *)
InCalendar(day) ==
  \E m \in DOMAIN FirstDay :
    FirstDay[m] <= day /\ (m + 1 \in DOMAIN FirstDay => day < FirstDay[m + 1])

Weekday(day) == day % 7

Grains == {"day", "week", "month", "quarter", "year"}

(* date_trunc of PostgreSQL: the first day of the period.                  *)
Truncated(grain, day) ==
  LET month == MonthOf(day)
  IN CASE grain = "day" -> day
       [] grain = "week" -> day - Weekday(day)
       [] grain = "month" -> FirstDay[month]
       [] grain = "quarter" -> FirstDay[month - (month % 3)]
       [] grain = "year" -> FirstDay[month - (month % 12)]

(* "weekday 1" of SQLite: the same day or the next one that is a Monday.   *)
NextMonday(day) == day + ((7 - Weekday(day)) % 7)

(* What compile_time_grain makes of a day for SQLite.                      *)
SqliteGrain(grain, day) ==
  LET number == (MonthOf(day) % 12) + 1         \* strftime('%m')
      january == MonthOf(day) - (number - 1)    \* of the year strftime('%Y')
      quarterMonth == ((number - 1) \div 3) * 3 + 1
  IN CASE grain = "day" -> day
       [] grain = "week" -> NextMonday(day - 6)
       [] grain = "month" -> FirstDay[january + number - 1]
       [] grain = "quarter" -> FirstDay[january + quarterMonth - 1]
       [] grain = "year" -> FirstDay[january]
=============================================================================
