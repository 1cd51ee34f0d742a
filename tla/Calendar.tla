------------------------------ MODULE Calendar ------------------------------
(***************************************************************************)
(* The dates of the program: the due dates of a circle's cycles            *)
(* (add_months() in app/modules/circles/service.py) and the months that    *)
(* statements cover (parse_period() there, parse_statement_period() in     *)
(* app/modules/wallets/service.py).  A date is <<year, month, day>>; the   *)
(* end of the calendar at year 9999 is left out.                           *)
(***************************************************************************)
EXTENDS Integers

IsLeap(year) == year % 4 = 0 /\ (year % 100 # 0 \/ year % 400 = 0)

MonthLength(year, month) ==
  CASE month = 2                -> IF IsLeap(year) THEN 29 ELSE 28
    [] month \in {4, 6, 9, 11}  -> 30
    [] OTHER                    -> 31

Dates ==
  {date \in Nat \X (1..12) \X (1..31) : date[3] <= MonthLength(date[1], date[2])}

(* The order of dates.                                                      *)
Before(a, b) ==
  \/ a[1] < b[1]
  \/ a[1] = b[1] /\ a[2] < b[2]
  \/ a[1] = b[1] /\ a[2] = b[2] /\ a[3] < b[3]

(* The same day some months later, or the last day of that month.           *)
add_months(date, months) ==
  LET index == date[2] - 1 + months
      year == date[1] + (index \div 12)
      month == (index % 12) + 1
      length == MonthLength(year, month)
  IN <<year, month, IF date[3] < length THEN date[3] ELSE length>>

(* The period of a circle's statement: its first day, and the first day that *)
(* is not in it.                                                             *)
parse_period(year, month) ==
  LET start == <<year, month, 1>>
  IN [start |-> start, end |-> add_months(start, 1)]

(* The period of a wallet's statement.                                      *)
parse_statement_period(year, month) ==
  [start |-> <<year, month, 1>>,
   end |-> IF month = 12 THEN <<year + 1, 1, 1>> ELSE <<year, month + 1, 1>>]

=============================================================================
