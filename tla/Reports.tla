------------------------------ MODULE Reports ------------------------------
(***************************************************************************)
(* The run report of a tenant: a range of local days and one point of counts   *)
(* per day (internal/core/reports.go, operations_service.go,                  *)
(* internal/store/console.go).  Time is in ticks, days are numbered.           *)
(***************************************************************************)
EXTENDS Integers, Sequences, FiniteSets, SequencesExt, FiniteSetsExt

CONSTANTS DayTicks,    \* length of a day
          MaxDays,     \* maxRunReportDays
          DefaultDays  \* 14

None == -1             \* a date left out
Bad == -2              \* a date or zone that does not parse

VARIABLES runAt,       \* the tenant's runs: id -> [at, status]
          request,     \* [tenant, zone, from, to, now]
          answered,    \* the handler has run
          answer       \* the points of the report, <<>> if it was refused

reportVars == <<runAt, request, answered, answer>>

\* A zone is its offset from UTC; "shift" changes it in the middle of day 1.
Offset(zone, t) == CASE zone = "east"  -> 1
                     [] zone = "west"  -> -1
                     [] zone = "shift" -> IF t >= DayTicks + DayTicks \div 2 THEN 1 ELSE 0
                     [] OTHER          -> 0

LocalDay(zone, t) == (t + Offset(zone, t)) \div DayTicks

\* The instant at which a local day begins (date AT TIME ZONE zone).
DayStart(zone, day) ==
  CHOOSE t \in (day * DayTicks - 1) .. (day * DayTicks + 1) : t + Offset(zone, t) = day * DayTicks

\* The range of days, <<>> if there is none.  The default start counts back from today, not
\* from the end asked for.
normalizeRunReportInput(in) ==
  LET today == LocalDay(in.zone, in.now)
      from  == IF in.from = None THEN today - (DefaultDays - 1) ELSE in.from
      to    == IF in.to = None THEN today ELSE in.to
  IN  IF \/ in.tenant = FALSE \/ in.zone = "bad"
         \/ Bad \in {in.from, in.to}
         \/ to < from \/ to - from + 1 > MaxDays
      THEN <<>> ELSE <<from, to>>

Count(S, statuses) == Cardinality({r \in S : runAt[r].status \in statuses})

\* One day's counts over the runs selected for it.
Point(day, S) ==
  [date |-> day, total |-> Cardinality(S),
   succeeded |-> Count(S, {"succeeded"}), failed |-> Count(S, {"failed", "timed_out"}),
   active |-> Count(S, {"pending", "running", "waiting_callback"}),
   cancelled |-> Count(S, {"cancelled"}), skipped |-> Count(S, {"skipped"})]

\* The bounds of the query taken as UTC days.
SelectedUTC(zone, from, to) ==
  {r \in DOMAIN runAt : runAt[r].at >= from * DayTicks /\ runAt[r].at < (to + 1) * DayTicks}

\* The runs between the start of the first local day and the end of the last.
Selected(zone, from, to) ==
  {r \in DOMAIN runAt : runAt[r].at >= DayStart(zone, from) /\ runAt[r].at < DayStart(zone, to + 1)}

\* Every day of the range has its point, in order, zero where nothing ran.
RunReport(zone, from, to) ==
  [i \in 1 .. to - from + 1 |->
     LET day == from + i - 1
     IN  Point(day, {r \in Selected(zone, from, to) : LocalDay(zone, runAt[r].at) = day})]

\* The service: a request that does not normalise is refused.
GetRunReport ==
  LET range == normalizeRunReportInput(request)
  IN  IF range = <<>> THEN <<>> ELSE RunReport(request.zone, range[1], range[2])

ReportInit ==
  /\ runAt \in [1 .. 2 -> [at : {0, DayTicks - 1, DayTicks, DayTicks + 2, 2 * DayTicks, 3 * DayTicks},
                            status : {"timed_out", "running"}]]
  /\ request \in [tenant : {TRUE}, zone : {"UTC", "east", "shift"}, from : {None, 0, 1, Bad},
                   to : {None, 0, 2}, now : {DayTicks, 3 * DayTicks - 1}]
                 \cup [tenant : BOOLEAN, zone : {"UTC", "bad"}, from : {0}, to : {0}, now : {0}]
  /\ answered = FALSE /\ answer = <<>>

\* The handler asks for the report of the caller's tenant.
runReport ==
  /\ ~answered /\ answered' = TRUE
  /\ answer' = GetRunReport
  /\ UNCHANGED <<runAt, request>>

\* The counts of every day add up, every run of the range is counted on
\* exactly one day of its zone, and no report is longer than the limit
\* (RunReport, normalizeRunReportInput).
ReportAddsUp ==
  answer # <<>> =>
    /\ Len(answer) <= MaxDays
    /\ \A i \in DOMAIN answer :
         LET p == answer[i] IN p.total = p.succeeded + p.failed + p.active + p.cancelled + p.skipped
    /\ FoldLeft(LAMBDA n, p : n + p.total, 0, answer)
         = Cardinality({r \in DOMAIN runAt : LocalDay(request.zone, runAt[r].at)
                                               \in {answer[i].date : i \in DOMAIN answer}})
=============================================================================
