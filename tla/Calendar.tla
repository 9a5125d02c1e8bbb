------------------------------ MODULE Calendar ------------------------------
(***************************************************************************)
(* The end of a paid period as a date: addSubscriptionPeriod, applied to   *)
(* the end of the period before it for as long as an account renews in     *)
(* time.  Billing counts periods in ticks; here a period is a month or a   *)
(* year of the calendar.  The time of the day is kept by the code and left *)
(* out.                                                                    *)
(***************************************************************************)
EXTENDS Integers

CONSTANTS FirstYears,  \* years in which a first payment is made
          MaxMonths    \* bound on the months an account buys

ASSUME CalendarAssumption == FirstYears \subseteq Nat /\ MaxMonths \in Nat

VARIABLES begun,   \* the date of the first payment
          end,     \* current_period_end
          bought   \* history: the months paid for since then

calendarVars == <<begun, end, bought>>

-----------------------------------------------------------------------------
(* The package time, as far as it is used: dates count days, and a day     *)
(* before or after its month falls into the month next to it.              *)

\* The days before the first of a month, in years that begin in March.
DaysBefore(y, m) ==
  LET year == IF m <= 2 THEN y - 1 ELSE y
      month == IF m <= 2 THEN m + 9 ELSE m - 3
  IN  365 * year + year \div 4 - year \div 100 + year \div 400
      + (153 * month + 2) \div 5

\* A month above 12 is one of the next year.
NextMonth(y, m) == IF m >= 12 THEN [year |-> y + 1, month |-> 1]
                              ELSE [year |-> y, month |-> m + 1]

\* time.Date(y, m + 1, 0).Day()
LastDay(y, m) ==
  LET next == NextMonth(y, m) IN
  DaysBefore(next.year, next.month) - DaysBefore(y, m)

GoDate(y, m, d) ==
  IF d > LastDay(y, m)
  THEN [year |-> NextMonth(y, m).year, month |-> NextMonth(y, m).month,
        day |-> d - LastDay(y, m)]
  ELSE [year |-> y, month |-> m, day |-> d]

-----------------------------------------------------------------------------
Clipped(day, last) == IF day > last THEN last ELSE day

\* Variant: the day is not clipped.
AddUnclipped(start, period) ==
  LET next == NextMonth(start.year, start.month) IN
  IF period = "year" THEN GoDate(start.year + 1, start.month, start.day)
                     ELSE GoDate(next.year, next.month, start.day)

AddSubscriptionPeriod(start, period) ==
  LET next == NextMonth(start.year, start.month)
      year == IF period = "year" THEN start.year + 1 ELSE next.year
      month == IF period = "year" THEN start.month ELSE next.month
  IN  GoDate(year, month, Clipped(start.day, LastDay(year, month)))

CalendarInit ==
  /\ begun \in [year : FirstYears, month : 1 .. 12, day : 1 .. 31]
  /\ begun.day <= LastDay(begun.year, begun.month)
  /\ end = begun
  /\ bought = 0

Renew(period, months) ==
  /\ bought + months <= MaxMonths
  /\ end' = AddSubscriptionPeriod(end, period)
  /\ bought' = bought + months
  /\ UNCHANGED begun

CalendarNext == Renew("month", 1) \/ Renew("year", 12)

CalendarSpec == CalendarInit /\ [][CalendarNext]_calendarVars

-----------------------------------------------------------------------------
(* Properties. *)

LeapYear(y) == y % 4 = 0 /\ (y % 100 # 0 \/ y % 400 = 0)

DaysIn(y, m) ==
  CASE m = 2 -> IF LeapYear(y) THEN 29 ELSE 28
    [] m \in {4, 6, 9, 11} -> 30
    [] OTHER -> 31

Smaller(a, b) == IF a < b THEN a ELSE b

\* However months and years are bought one after the other, the account has
\* exactly as many months of the calendar as it paid for: no renewal skips a
\* short month or stays in its month, the day is never later than the day of
\* the first payment, and short months cost it no day below the 28th.
MonthsAreKept ==
  /\ 12 * end.year + end.month = 12 * begun.year + begun.month + bought
  /\ end.day <= Smaller(begun.day, DaysIn(end.year, end.month))
  /\ end.day >= Smaller(begun.day, 28)
=============================================================================
