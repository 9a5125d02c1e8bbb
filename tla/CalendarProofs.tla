--------------------------- MODULE CalendarProofs ---------------------------
(***************************************************************************)
(* Paid months are kept for every first payment, in every year, and for    *)
(* every number of renewals.                                               *)
(***************************************************************************)
EXTENDS Calendar, TLAPS

Date == [year : Nat, month : 1 .. 12, day : 1 .. 31]

\* The lengths of the months, computed from day numbers as the package time
\* does, are those of the Gregorian calendar, in every year.
LEMMA MonthLengths ==
  ASSUME NEW y \in Nat, NEW m \in 1 .. 12
  PROVE  LastDay(y, m) = DaysIn(y, m)
  <1>1. CASE m = 2
    BY <1>1 DEF LastDay, NextMonth, DaysBefore, DaysIn, LeapYear
  <1>2. CASE m \in {1, 3, 4, 5, 6, 7}
    BY <1>2 DEF LastDay, NextMonth, DaysBefore, DaysIn
  <1>3. CASE m \in {8, 9, 10, 11, 12}
    BY <1>3 DEF LastDay, NextMonth, DaysBefore, DaysIn
  <1>4. QED BY <1>1, <1>2, <1>3

LEMMA MonthHasDays ==
  ASSUME NEW y \in Nat, NEW m \in 1 .. 12
  PROVE  LastDay(y, m) \in 28 .. 31
  BY MonthLengths DEF DaysIn

\* A month that is asked for within its days is not normalised.
LEMMA NoOverflow ==
  ASSUME NEW y \in Nat, NEW m \in 1 .. 12, NEW d \in 1 .. 31
  PROVE  GoDate(y, m, Clipped(d, LastDay(y, m)))
           = [year |-> y, month |-> m, day |-> Clipped(d, LastDay(y, m))]
  <1>1. Clipped(d, LastDay(y, m)) <= LastDay(y, m)
    BY MonthHasDays DEF Clipped
  <1>2. LastDay(y, m) \in Int /\ Clipped(d, LastDay(y, m)) \in Int
    BY MonthHasDays DEF Clipped
  <1>3. QED BY <1>1, <1>2 DEF GoDate

\* The date a period after start, and by how many months it is later.
LEMMA PeriodEnd ==
  ASSUME NEW start \in Date, NEW period \in {"month", "year"}
  PROVE  LET e == AddSubscriptionPeriod(start, period) IN
         /\ e \in Date
         /\ 12 * e.year + e.month = 12 * start.year + start.month
                                    + (IF period = "year" THEN 12 ELSE 1)
         /\ e.day = Clipped(start.day, DaysIn(e.year, e.month))
  <1> DEFINE next == NextMonth(start.year, start.month)
             y == IF period = "year" THEN start.year + 1 ELSE next.year
             m == IF period = "year" THEN start.month ELSE next.month
             d == Clipped(start.day, LastDay(y, m))
  <1>1. start.year \in Nat /\ start.month \in 1 .. 12 /\ start.day \in 1 .. 31
    BY DEF Date
  <1>2. /\ next.year \in Nat /\ next.month \in 1 .. 12
        /\ 12 * next.year + next.month = 12 * start.year + start.month + 1
    BY <1>1 DEF NextMonth
  <1>3. /\ y \in Nat /\ m \in 1 .. 12
        /\ 12 * y + m = 12 * start.year + start.month
                        + (IF period = "year" THEN 12 ELSE 1)
    BY <1>1, <1>2
  <1>4. AddSubscriptionPeriod(start, period) = GoDate(y, m, d)
    BY DEF AddSubscriptionPeriod
  <1> HIDE DEF y, m
  <1>5. GoDate(y, m, d) = [year |-> y, month |-> m, day |-> d]
    BY <1>1, <1>3, NoOverflow
  <1>6. d \in 1 .. 31
    BY <1>1, <1>3, MonthHasDays DEF Clipped
  <1>7. d = Clipped(start.day, DaysIn(y, m))
    BY <1>3, MonthLengths
  <1>8. QED BY <1>3, <1>4, <1>5, <1>6, <1>7 DEF Date

\* The dates are dates, of the account's first payment and of its period's end.
CalendarInv ==
  /\ begun \in Date /\ end \in Date
  /\ bought \in Nat
  /\ MonthsAreKept

LEMMA RenewalKeeps ==
  ASSUME CalendarInv, NEW period \in {"month", "year"},
         Renew(period, IF period = "year" THEN 12 ELSE 1)
  PROVE  CalendarInv'
  <1> DEFINE e == AddSubscriptionPeriod(end, period)
             n == IF period = "year" THEN 12 ELSE 1
  <1>1. end' = e /\ bought' = bought + n /\ begun' = begun
    BY DEF Renew
  <1>2. /\ e \in Date
        /\ 12 * e.year + e.month = 12 * end.year + end.month + n
        /\ e.day = Clipped(end.day, DaysIn(e.year, e.month))
    BY PeriodEnd DEF CalendarInv
  <1>3. /\ e.year \in Nat /\ e.month \in 1 .. 12 /\ e.day \in 1 .. 31
        /\ end.year \in Nat /\ end.month \in 1 .. 12 /\ end.day \in 1 .. 31
        /\ begun.year \in Nat /\ begun.month \in 1 .. 12 /\ begun.day \in 1 .. 31
    BY <1>2 DEF Date, CalendarInv
  <1> HIDE DEF e
  <1>4. DaysIn(e.year, e.month) \in 28 .. 31
    BY <1>3 DEF DaysIn
  <1>5. e.day <= Smaller(begun.day, DaysIn(e.year, e.month))
    <2>1. end.day <= begun.day
      <3>1. DaysIn(end.year, end.month) \in 28 .. 31
        BY <1>3 DEF DaysIn
      <3>2. QED BY <1>3, <3>1 DEF CalendarInv, MonthsAreKept, Smaller
    <2>2. QED BY <1>2, <1>3, <1>4, <2>1 DEF Clipped, Smaller
  <1>6. e.day >= Smaller(begun.day, 28)
    BY <1>2, <1>3, <1>4 DEF CalendarInv, MonthsAreKept, Clipped, Smaller
  <1>7. 12 * e.year + e.month = 12 * begun.year + begun.month + bought + n
    BY <1>2, <1>3 DEF CalendarInv, MonthsAreKept
  <1>8. QED
    BY <1>1, <1>2, <1>3, <1>5, <1>6, <1>7 DEF CalendarInv, MonthsAreKept

\* However an account renews, by months, by years or both, from whichever day
\* of whichever year, addSubscriptionPeriod gives it the months it paid for.
THEOREM MonthsKept == CalendarSpec => []MonthsAreKept
  <1>1. CalendarInit => CalendarInv
    <2> SUFFICES ASSUME CalendarInit PROVE CalendarInv
      OBVIOUS
    <2>1. begun \in Date /\ end \in Date /\ bought \in Nat
      BY CalendarAssumption DEF CalendarInit, Date
    <2>2. end.day <= DaysIn(end.year, end.month)
      BY <2>1, MonthLengths DEF CalendarInit, Date
    <2>3. QED BY <2>1, <2>2 DEF CalendarInit, CalendarInv, MonthsAreKept, Smaller, Date
  <1>2. CalendarInv /\ [CalendarNext]_calendarVars => CalendarInv'
    <2> SUFFICES ASSUME CalendarInv, [CalendarNext]_calendarVars
                 PROVE  CalendarInv'
      OBVIOUS
    <2>1. CASE Renew("month", 1)
      BY <2>1, RenewalKeeps
    <2>2. CASE Renew("year", 12)
      BY <2>2, RenewalKeeps
    <2>3. CASE UNCHANGED calendarVars
      BY <2>3 DEF calendarVars, CalendarInv, MonthsAreKept
    <2>4. QED BY <2>1, <2>2, <2>3 DEF CalendarNext
  <1>3. CalendarInv => MonthsAreKept
    BY DEF CalendarInv
  <1>4. QED BY <1>1, <1>2, <1>3, PTL DEF CalendarSpec
=============================================================================
