------------------------------ MODULE Calendar ------------------------------
(***************************************************************************)
(* Next instants of a cron schedule (internal/schedule): Preview walks from   *)
(* one instant to the next, as EnqueueDue does for a job.  Expressions are    *)
(* modelled by what the parser makes of them; the fields for seconds, minutes *)
(* and hours are a set of ticks of the day, and a zone has no clock changes.  *)
(*                                                                         *)
(* An instant is an integer that orders (month, day, tick): month 0 is        *)
(* January 2023, a Sunday starts it.                                        *)
(***************************************************************************)
EXTENDS Integers, FiniteSets, Sequences

CONSTANTS
  Rule,         \* the day rules that validateCronExpression accepts
  Months,       \* the sets of months an expression may name
  Ticks,        \* the sets of ticks of the day an expression may name
  StartMonths,  \* the months a walk may start in
  MaxSteps,     \* length of a walk (Preview accepts 1 to 100)
  MaxChecked    \* months nextQuartzCalendar looks at: 1200 in the code

VARIABLES
  expr,     \* [rule, months, ticks]
  cursor,   \* the instant reached
  step,     \* steps taken
  outcome   \* "ok", or the error that ended the walk

vars == <<expr, cursor, step, outcome>>

NoInstant == -1
Unparsable == -2
NoMatch == -3

TicksPerDay == 2
YearLimit == 60   \* the cron library gives up after five years

(***************************************************************************)
(* The civil calendar (package time).                                       *)
(***************************************************************************)

Instant(month, day, tick) == (month * 32 + day) * TicksPerDay + tick
MonthOf(t) == t \div (32 * TicksPerDay)
DayOf(t) == (t \div TicksPerDay) % 32

YearOf(month) == 2023 + (month \div 12)
InYear(month) == (month % 12) + 1

Leap(year) == year % 4 = 0 /\ (year % 100 # 0 \/ year % 400 = 0)

LastDay(month) ==
  IF InYear(month) = 2 THEN IF Leap(YearOf(month)) THEN 29 ELSE 28
  ELSE IF InYear(month) \in {4, 6, 9, 11} THEN 30 ELSE 31

DaysBefore == <<0, 31, 59, 90, 120, 151, 181, 212, 243, 273, 304, 334>>

\* 0 is Sunday.  Before 2024 no leap day lies in the years counted.
Weekday(month, day) ==
  LET year == YearOf(month)
      leaps == Cardinality({y \in 2023..(year - 1) : Leap(y)})
               + (IF Leap(year) /\ InYear(month) > 2 THEN 1 ELSE 0)
  IN (365 * (year - 2023) + leaps + DaysBefore[InYear(month)] + day - 1) % 7

Sunday == 0
Saturday == 6

(***************************************************************************)
(* Days of a rule.                                                          *)
(***************************************************************************)

\* Mutant: the nearest weekday may leave the month.
nearestWeekdayUnclamped(month, day, last) ==
  IF Weekday(month, day) = Saturday THEN day - 1
  ELSE IF Weekday(month, day) = Sunday THEN day + 1 ELSE day

nearestWeekday(month, day, last) ==
  CASE Weekday(month, day) = Saturday -> IF day = 1 THEN day + 2 ELSE day - 1
    [] Weekday(month, day) = Sunday -> IF day = last THEN day - 2 ELSE day + 1
    [] OTHER -> day

\* 0: the month has no such day.
dayInMonth(rule, month) ==
  LET last == LastDay(month)
      nth == 1 + ((rule.day - 1 - Weekday(month, 1) + 7) % 7) + (rule.week - 1) * 7
  IN CASE rule.kind = "last" -> last - rule.offset
       [] rule.kind = "nearest" ->
            IF rule.day > last THEN 0 ELSE nearestWeekday(month, rule.day, last)
       [] rule.kind = "lastWeekday" ->
            IF last - rule.offset < 1 THEN 0
            ELSE nearestWeekday(month, last - rule.offset, last)
       [] rule.kind = "lastOf" -> last - ((Weekday(month, last) - (rule.day - 1) + 7) % 7)
       [] rule.kind = "nth" -> IF nth > last THEN 0 ELSE nth

RECURSIVE quartzDayRange(_, _)
quartzDayRange(from, to) ==
  IF from = to THEN <<from>>
  ELSE <<from>> \o quartzDayRange(IF from + 1 = 8 THEN 1 ELSE from + 1, to)

\* A list of day-of-week items, each "*", a, a-b, or one of them with a step (0: none).
\* Quartz counts from 1 = Sunday, the cron library from 0.
normalizeQuartzDayOfWeek(items) ==
  UNION {LET to == IF item.to = item.from /\ item.step > 0 /\ ~item.range THEN 7 ELSE item.to
             values == quartzDayRange(item.from, to)
             stride == IF item.step = 0 THEN 1 ELSE item.step
         IN {values[i] - 1 : i \in {k \in DOMAIN values : (k - 1) % stride = 0}} : item \in items}

(***************************************************************************)
(* The cron library: the first instant after t in the named months, at the    *)
(* named ticks, on one of the days of its month; NoInstant after five years.   *)
(***************************************************************************)
Near(t) == MonthOf(t)..(MonthOf(t) + YearLimit)

CronNext(months, ticks, days, t) ==
  LET at(month) == {u \in {Instant(month, d, k) : d \in days[month] \cap (1..LastDay(month)),
                                                  k \in ticks} : u > t}
      hit(month) == InYear(month) \in months /\ at(month) # {}
      first == CHOOSE m \in Near(t) : hit(m) /\ \A n \in MonthOf(t)..(m - 1) : ~hit(n)
  IN IF \E m \in Near(t) : hit(m)
     THEN CHOOSE u \in at(first) : \A v \in at(first) : u <= v
     ELSE NoInstant

\* One round of the loop over months: the instant to return, Unparsable, or NoInstant to
\* go on with the next month.  The search starts just before the month, except in the first.
Candidate(e, after, round) ==
  LET month == MonthOf(after) + round
      day == dayInMonth(e.rule, month)
      t == IF round = 0 THEN after ELSE Instant(month, 1, 0) - 1
      found == CronNext(e.months, e.ticks, [m \in Near(t) |-> {day}], t)
  IN CASE day = 0 -> NoInstant
       [] day < 0 -> Unparsable
       [] OTHER -> IF MonthOf(found) = month /\ DayOf(found) = day THEN found ELSE NoInstant

nextQuartzCalendar(e, after) ==
  LET rounds == 0..(MaxChecked - 1)
      first == CHOOSE k \in rounds :
                 /\ Candidate(e, after, k) # NoInstant
                 /\ \A i \in 0..(k - 1) : Candidate(e, after, i) = NoInstant
  IN IF \E k \in rounds : Candidate(e, after, k) # NoInstant
     THEN Candidate(e, after, first)
     ELSE NoMatch

\* Next for schedule type "cron".
NextInstant(e, after) ==
  IF e.rule.kind = "week"
  THEN LET days == normalizeQuartzDayOfWeek(e.rule.items)
           on == [m \in Near(after) |-> {d \in 1..LastDay(m) : Weekday(m, d) \in days}]
       IN CronNext(e.months, e.ticks, on, after)
  ELSE nextQuartzCalendar(e, after)

(***************************************************************************)
(* The walk.                                                                *)
(***************************************************************************)

Init ==
  /\ expr \in [rule : Rule, months : Months, ticks : Ticks]
  /\ cursor \in {Instant(m, 1, 0) : m \in StartMonths}
  /\ step = 0
  /\ outcome = "ok"

Preview ==
  /\ outcome = "ok" /\ step < MaxSteps
  /\ LET next == NextInstant(expr, cursor)
     IN /\ outcome' = CASE next = Unparsable -> "unparsable"
                        [] next = NoMatch -> "no match"
                        [] next = NoInstant -> "exhausted"
                        [] OTHER -> "ok"
        /\ cursor' = IF next < 0 THEN cursor ELSE next
  /\ step' = step + 1
  /\ UNCHANGED expr

Next == Preview

Spec == Init /\ [][Next]_vars

-----------------------------------------------------------------------------
(***************************************************************************)
(* What the rules mean, in terms of the days of a month.                     *)
(***************************************************************************)
Days(month) == 1..LastDay(month)
Workdays(month) == {d \in Days(month) : Weekday(month, d) \notin {Saturday, Sunday}}
Distance(a, b) == IF a < b THEN b - a ELSE a - b

\* d is the working day of the month closest to the given day.
Closest(month, d, day) ==
  /\ day \in Days(month) /\ d \in Workdays(month)
  /\ \A e \in Workdays(month) : Distance(d, day) <= Distance(e, day)

Same(month, d) == {e \in Days(month) : Weekday(month, e) = Weekday(month, d)}

Means(rule, month, d) ==
  CASE rule.kind = "last" -> Cardinality({e \in Days(month) : e > d}) = rule.offset
    [] rule.kind = "nearest" -> Closest(month, d, rule.day)
    [] rule.kind = "lastWeekday" -> Closest(month, d, LastDay(month) - rule.offset)
    [] rule.kind = "lastOf" ->
         Weekday(month, d) = rule.day - 1 /\ \A e \in Same(month, d) : e <= d
    [] rule.kind = "nth" ->
         Weekday(month, d) = rule.day - 1
         /\ Cardinality({e \in Same(month, d) : e <= d}) = rule.week
    [] rule.kind = "week" ->
         \E item \in rule.items :
           LET to == IF item.range \/ item.step = 0 THEN item.to ELSE 7
               far == (Weekday(month, d) + 1 - item.from) % 7
           IN far <= (to - item.from) % 7 /\ (item.step > 0 => far % item.step = 0)

\* The instants of an expression in a month.
Instants(e, month) ==
  IF InYear(month) \in e.months
  THEN {Instant(month, d, k) : d \in {x \in Days(month) : Means(e.rule, month, x)}, k \in e.ticks}
  ELSE {}

(* Next skips no instant of the expression, invents none and goes forward: it   *)
(* is the least instant after the cursor at which the rule holds, for every     *)
(* rule and month length, across year ends and leap days.  When it fails, the   *)
(* months it has looked at hold no instant (nextQuartzCalendar, dayInMonth,      *)
(* nearestWeekday, normalizeQuartzDayOfWeek).                                 *)
LeastNext ==
  [][vars' # vars =>
     LET here == MonthOf(cursor)
         upto == CASE outcome' = "ok" -> MonthOf(cursor')
                   [] outcome' = "no match" -> here + MaxChecked - 1
                   [] OTHER -> here
         later == {t \in UNION {Instants(expr, m) : m \in here..upto} : t > cursor}
     IN IF outcome' = "ok"
        THEN cursor' \in later /\ \A t \in later : cursor' <= t
        ELSE later = {}]_vars

(* An expression that was accepted and has a next instant is given it: the       *)
(* offset of L-n may be 0 to 30, whatever the length of the months              *)
(* (parseQuartzCalendarRule, nextQuartzCalendar).                            *)
AcceptedKeepsFiring == outcome # "unparsable"

-----------------------------------------------------------------------------
(* Values for the constants: every day rule the parser accepts, except lists  *)
(* of several weekday items.                                                  *)
LastRules == {[kind |-> k, offset |-> o] : k \in {"last", "lastWeekday"}, o \in 0..30}
NearestRules == {[kind |-> "nearest", day |-> d] : d \in 1..31}
LastOfRules == {[kind |-> "lastOf", day |-> d] : d \in 1..7}
NthRules == {[kind |-> "nth", day |-> d, week |-> w] : d \in 1..7, w \in 1..5}

Item == {[from |-> a, to |-> b, step |-> s, range |-> a # b] : a, b \in {1, 3, 6, 7}, s \in {0, 2, 3}}
WeekRules == {[kind |-> "week", items |-> {i}] : i \in Item}

AllRules == LastRules \cup NearestRules \cup LastOfRules \cup NthRules \cup WeekRules
LastDayRules == {[kind |-> "last", offset |-> o] : o \in 0..30}

EveryMonth == {1..12}
SomeMonths == {1..12, {2}}
OneTick == {{1}}
SomeTicks == {{0}, {0, 1}}
=============================================================================
