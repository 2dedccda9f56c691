------------------------------ MODULE Calendar ------------------------------
(***************************************************************************)
(* date_add_ym, get_ym_days and is_leap_year (CommMan/utils.cpp) on the    *)
(* date of a struct tm: tm_year counts from 1900 and tm_mon from 0.        *)
(***************************************************************************)
EXTENDS Integers

CONSTANTS
    FirstYear, LastYear,   \* bound: years a date moves in
    Years, Months          \* bound: what is added to a date

CalendarAssumption ==
    /\ FirstYear \in Int /\ LastYear \in Int
    /\ Years \subseteq Int /\ Months \subseteq Int

VARIABLE tm

(* C's division and remainder, which round towards 0.                      *)
Quotient(a, b)  == IF a < 0 THEN -((-a) \div b) ELSE a \div b
Remainder(a, b) == a - b * Quotient(a, b)

(* As it stands: a century is a leap year, whatever its remainder by 400.  *)
is_leap_year(y) ==
    /\ Remainder(y, 4) = 0
    /\ Remainder(y, 100) = 0 \/ Remainder(y, 400) # 0

days_of_month ==
    [m \in 0 .. 11 |-> CASE m = 1 -> 28
                         [] m \in {3, 5, 8, 10} -> 30
                         [] OTHER -> 31]

get_ym_days(y, m) == days_of_month[m] + (IF m = 1 /\ is_leap_year(y) THEN 1 ELSE 0)

Least(a, b) == IF a < b THEN a ELSE b

(* Years and months are added; the month the date had is overwritten.  The *)
(* remainder is never above 11, so that the code's last branch is dead.    *)
(* Mutant: a remainder below 0 stays.                                      *)
RemainderStays(d, y, m) ==
    LET year == d.tm_year + y + Quotient(m, 12)
        mon  == Remainder(m, 12)
        legal == IF mon < 0 THEN 0 ELSE mon
    IN  [tm_year |-> year, tm_mon |-> mon,
         tm_mday |-> Least(d.tm_mday, get_ym_days(year, legal))]

date_add_ym(d, y, m) ==
    LET mon == Remainder(m, 12)
        borrow == IF mon < 0 THEN 1 ELSE 0
        year == d.tm_year + y + Quotient(m, 12) - borrow
    IN  [tm_year |-> year,
         tm_mon  |-> mon + 12 * borrow,
         tm_mday |-> Least(d.tm_mday, get_ym_days(year, mon + 12 * borrow))]

Dates ==
    [tm_year : FirstYear .. LastYear, tm_mon : 0 .. 11, tm_mday : 1 .. 31]

Init == tm \in {d \in Dates : d.tm_mday <= get_ym_days(d.tm_year, d.tm_mon)}

Add(y, m) ==
    /\ tm' = date_add_ym(tm, y, m)
    /\ tm'.tm_year \in FirstYear .. LastYear

Next == \E y \in Years, m \in Months : Add(y, m)

Spec == Init /\ [][Next]_tm
-----------------------------------------------------------------------------
(* The Gregorian calendar.                                                 *)
IsLeap(year) == year % 4 = 0 /\ (year % 100 # 0 \/ year % 400 = 0)
LastDay(year, mon) ==
    CASE mon = 1 -> IF IsLeap(year) THEN 29 ELSE 28
      [] mon \in {3, 5, 8, 10} -> 30
      [] OTHER -> 31

(* There is such a day in the calendar.                                    *)
IsDate(d) ==
    /\ d.tm_mon \in 0 .. 11
    /\ d.tm_mday \in 1 .. LastDay(1900 + d.tm_year, d.tm_mon)

(* What "4/30 - '2 monthes' => 2/28" (utils.cpp 231) promises: the months  *)
(* are counted from the date's own, and a day behind the end of the month  *)
(* that is reached becomes its last one.                                   *)
Sum(d, y, m) ==
    LET months == 12 * (d.tm_year + y) + d.tm_mon + m
        year   == months \div 12
        mon    == months % 12
    IN  [tm_year |-> year, tm_mon |-> mon,
         tm_mday |-> Least(d.tm_mday, LastDay(1900 + year, mon))]

(* From 1901 to 2099 a date stays one of the calendar, over years, leap    *)
(* days and months of any sign, and the sum is the one above if, and only  *)
(* if, the date is one of January: of any other the month is forgotten.    *)
DateAddsUp ==
    /\ tm.tm_year \in 1 .. 199 => IsDate(tm)
    /\ \A y \in Years, m \in Months :
          LET after == date_add_ym(tm, y, m) IN
          after.tm_year \in 1 .. 199 => (after = Sum(tm, y, m) <=> tm.tm_mon = 0)
=============================================================================
