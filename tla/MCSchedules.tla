----------------------------- MODULE MCSchedules -----------------------------
(***************************************************************************)
(* Time and counts, in scenarios: the walk over cron expressions (calendar),     *)
(* the late ticks of a job (misfire), the days of a run report (report), the      *)
(* benchmark with three events (benchmark) and loaded twice (benchmarks).  A      *)
(* behaviour stays in one.                                                   *)
(***************************************************************************)
EXTENDS Calendar

VARIABLES scenario, schedule, policy, maxCatchUp, next_run_at, now, fired,
          runAt, request, answered, answer,
          args, setup, offset, index, worker, ctxEnded, firstErr, loaded, jobs, clock, loads,
          expected, received, duplicates, unexpected, invalid, strays, wiped

Schedules ==
  {[type |-> "cron", period |-> 4, phases |-> p] : p \in {{0}, {1, 2}, {0, 2, 3}}}
  \cup {[type |-> t, period |-> p] : t \in {"fixed_rate", "fixed_delay"}, p \in {1, 3}}
  \cup {[type |-> "once", at |-> 2, period |-> 1]}

Late == INSTANCE Misfire WITH
  Schedule <- Schedules, Policy <- {"skip", "fire_once", "catch_up"}, CatchUp <- 0..3, MaxNow <- 9

Report == INSTANCE Reports WITH DayTicks <- 4, MaxDays <- 3, DefaultDays <- 2

Bench == INSTANCE Benchmark WITH
  Count <- 3, BatchSize <- 2, Worker <- {"w1", "w2"}, Systems <- {"go", "other"}, Times <- {1, 2}, MaxClock <- 2,
  MaxLoads <- 1, MaxHits <- 2, MaxStray <- 1
Benches == INSTANCE Benchmark WITH
  Count <- 2, BatchSize <- 1, Worker <- {"w1", "w2"}, Systems <- {"xxl"}, Times <- {1, 2}, MaxClock <- 2,
  MaxLoads <- 2, MaxHits <- 1, MaxStray <- 0

lateVars == <<schedule, policy, maxCatchUp, next_run_at, now, fired>>
reportVars == <<runAt, request, answered, answer>>
benchVars == <<args, setup, offset, index, worker, ctxEnded, firstErr, loaded, jobs, clock, loads,
               expected, received, duplicates, unexpected, invalid, strays, wiped>>
allVars == <<scenario, vars, lateVars, reportVars, benchVars>>

CalendarAtRest ==
  /\ expr = [rule |-> [kind |-> "last", offset |-> 0], months |-> 1..12, ticks |-> {0}]
  /\ cursor = 0 /\ step = 0 /\ outcome = "ok"
LateAtRest ==
  /\ schedule = [type |-> "once", at |-> 2, period |-> 1] /\ policy = "skip" /\ maxCatchUp = 0
  /\ next_run_at = 2 /\ now = 0 /\ fired = <<>>
ReportAtRest ==
  /\ runAt = <<>> /\ answered = TRUE /\ answer = <<>>
  /\ request = [tenant |-> TRUE, zone |-> "UTC", from |-> 0, to |-> 0, now |-> 0]

MCInit ==
  /\ \/ scenario = "calendar" /\ Init /\ LateAtRest /\ ReportAtRest
     \/ scenario = "misfire" /\ Late!Init /\ CalendarAtRest /\ ReportAtRest
     \/ scenario = "report" /\ Report!ReportInit /\ CalendarAtRest /\ LateAtRest
     \/ scenario \in {"benchmark", "benchmarks"} /\ CalendarAtRest /\ LateAtRest /\ ReportAtRest
  /\ Bench!BenchInit

MCNext ==
  /\ scenario' = scenario
  /\ \/ /\ \/ scenario = "calendar" /\ Next /\ UNCHANGED <<lateVars, reportVars>>
           \/ scenario = "misfire" /\ Late!Next /\ UNCHANGED <<vars, reportVars>>
           \/ scenario = "report" /\ Report!runReport /\ UNCHANGED <<vars, lateVars>>
        /\ UNCHANGED benchVars
     \/ /\ \/ scenario = "benchmark" /\ Bench!BenchNext
           \/ scenario = "benchmarks" /\ Benches!BenchNext
        /\ UNCHANGED <<vars, lateVars, reportVars>>

MCSpec == MCInit /\ [][MCNext]_allVars

(* Due fires what the misfire policy says and resumes after now, a re-arming      *)
(* only fills an empty next_run_at, and no instant is fired twice, out of order    *)
(* or early (Due, EnqueueDue).                                                *)
DueFollowsPolicy ==
  [][scenario = "misfire" => Late!DuePerPolicy /\ Late!FiredInOrder']_allVars

(* The counts of a report add up and are about what they say: a run report counts   *)
(* every run of its days once, on the day of its zone, and a benchmark report counts  *)
(* the events of its run once, whatever was lost, repeated or interrupted            *)
(* (RunReport, normalizeRunReportInput, Collector.Report, LoadScheduledJobs).      *)
ReportAddsUp ==
  /\ scenario = "report" => Report!ReportAddsUp
  /\ scenario = "benchmark" => Bench!BenchmarkAddsUp
  /\ scenario = "benchmarks" => Benches!BenchmarkAddsUp
=============================================================================
