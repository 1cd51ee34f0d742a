--------------------------- MODULE CalendarProofs ---------------------------
(* What the dates of Calendar guarantee, for every date.                    *)
EXTENDS Calendar, TLAPS

(* Every month has at least 28 and at most 31 days.                         *)
LEMMA MonthLengths ==
  ASSUME NEW year \in Nat, NEW month \in 1..12
  PROVE  MonthLength(year, month) \in 28..31
  BY DEF MonthLength

(* Months are ordered as their number since the year 0.                     *)
LEMMA MonthOrder ==
  ASSUME NEW y \in Nat, NEW m \in 1..12, NEW z \in Nat, NEW n \in 1..12,
         12 * y + m < 12 * z + n
  PROVE  y < z \/ (y = z /\ m < n)
  OBVIOUS

(* add_months() counts months: it is as many months later as it was asked.  *)
LEMMA MonthsCount ==
  ASSUME NEW date \in Dates, NEW n \in Nat
  PROVE  LET later == add_months(date, n)
         IN /\ later[1] \in Nat /\ later[2] \in 1..12
            /\ 12 * later[1] + later[2] = 12 * date[1] + date[2] + n
  <1> DEFINE index == date[2] - 1 + n
             years == index \div 12
             rest == index % 12
             later == add_months(date, n)
  <1>1. date[1] \in Nat /\ date[2] \in 1..12
    BY DEF Dates
  <1>2. index \in Nat
    BY <1>1
  <1>3. years \in Nat /\ rest \in 0..11 /\ index = 12 * years + rest
    <2> HIDE DEF index
    <2> QED
      BY <1>2
  <1>4. later[1] = date[1] + years /\ later[2] = rest + 1
    BY DEF add_months
  <1> HIDE DEF years, rest, later
  <1>5. later[1] \in Nat /\ later[2] \in 1..12
    BY <1>1, <1>3, <1>4
  <1>6. 12 * later[1] + later[2] = 12 * date[1] + date[2] + n
    BY <1>1, <1>3, <1>4
  <1> QED
    BY <1>5, <1>6 DEF later

(* A due date exists in the calendar: the day is never past the end of its  *)
(* month.                                                                   *)
THEOREM DueDatesExist ==
  ASSUME NEW date \in Dates, NEW n \in Nat
  PROVE  add_months(date, n) \in Dates
  <1> DEFINE later == add_months(date, n)
             length == MonthLength(later[1], later[2])
  <1>1. later[1] \in Nat /\ later[2] \in 1..12
    BY MonthsCount
  <1>2. length \in 28..31
    BY <1>1, MonthLengths
  <1>3. date[3] \in 1..31
    BY DEF Dates
  <1>4. later[3] = IF date[3] < length THEN date[3] ELSE length
    BY DEF add_months
  <1>5. later = <<later[1], later[2], later[3]>>
    BY DEF add_months
  <1> HIDE DEF later, length
  <1>6. later[3] \in 1..31 /\ later[3] <= length
    BY <1>2, <1>3, <1>4
  <1> QED
    BY <1>1, <1>5, <1>6 DEF Dates, length, later

(* The cycles of a circle fall due one after another, in the order of their *)
(* positions, although a date late in the month is cut to shorter months.   *)
THEOREM DueDatesIncrease ==
  ASSUME NEW date \in Dates, NEW i \in Nat, NEW j \in Nat, i < j
  PROVE  Before(add_months(date, i), add_months(date, j))
  <1> DEFINE a == add_months(date, i)
             b == add_months(date, j)
  <1>1. /\ a[1] \in Nat /\ a[2] \in 1..12
        /\ 12 * a[1] + a[2] = 12 * date[1] + date[2] + i
    BY MonthsCount
  <1>2. /\ b[1] \in Nat /\ b[2] \in 1..12
        /\ 12 * b[1] + b[2] = 12 * date[1] + date[2] + j
    BY MonthsCount
  <1>3. date[1] \in Nat /\ date[2] \in 1..12
    BY DEF Dates
  <1> HIDE DEF a, b
  <1>4. a[1] < b[1] \/ (a[1] = b[1] /\ a[2] < b[2])
    <2>1. 12 * a[1] + a[2] < 12 * b[1] + b[2]
      BY <1>1, <1>2, <1>3
    <2> QED
      BY <1>1, <1>2, <2>1, MonthOrder
  <1> QED
    BY <1>4 DEF Before, a, b

(* Wallets and circles mean the same month by a period, although they       *)
(* compute it in two ways.                                                  *)
THEOREM PeriodsAgree ==
  ASSUME NEW year \in Nat, NEW month \in 1..12
  PROVE  parse_period(year, month) = parse_statement_period(year, month)
  <1> DEFINE first == <<year, month, 1>>
             next == add_months(first, 1)
  <1>1. MonthLength(year, month) \in 28..31
    BY MonthLengths
  <1>2. first \in Dates
    BY <1>1 DEF Dates
  <1>3. /\ next[1] \in Nat /\ next[2] \in 1..12
        /\ 12 * next[1] + next[2] = 12 * year + month + 1
    <2>1. first[1] = year /\ first[2] = month
      OBVIOUS
    <2> QED
      BY <1>2, <2>1, MonthsCount
  <1>4. MonthLength(next[1], next[2]) \in 28..31
    BY <1>3, MonthLengths
  <1>5. next = <<next[1], next[2], 1>>
    BY <1>4 DEF add_months
  <1> HIDE DEF next
  <1>6. CASE month = 12
    <2>1. next[1] = year + 1 /\ next[2] = 1
      BY <1>3, <1>6
    <2> QED
      BY <1>5, <1>6, <2>1 DEF parse_period, parse_statement_period, next
  <1>7. CASE month # 12
    <2>1. next[1] = year /\ next[2] = month + 1
      BY <1>3, <1>7
    <2> QED
      BY <1>5, <1>7, <2>1 DEF parse_period, parse_statement_period, next
  <1> QED
    BY <1>6, <1>7

(* A day is in the statement of a month exactly if it is a day of that      *)
(* month: no posting falls between two periods or into both.                *)
THEOREM PeriodsPartition ==
  ASSUME NEW date \in Dates, NEW year \in Nat, NEW month \in 1..12
  PROVE  LET period == parse_statement_period(year, month)
         IN ~Before(date, period.start) /\ Before(date, period.end)
              <=> date[1] = year /\ date[2] = month
  <1>1. date[1] \in Nat /\ date[2] \in 1..12 /\ date[3] \in 1..31
    BY DEF Dates
  <1> QED
    BY <1>1 DEF parse_statement_period, Before

=============================================================================
