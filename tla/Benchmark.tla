------------------------------ MODULE Benchmark ------------------------------
(***************************************************************************)
(* The scheduler benchmark: load tells the sink which events to expect, then   *)
(* its workers create one job per event; the jobs fire into the sink, directly   *)
(* or through the benchmark executor, and the sink reports what came            *)
(* (internal/perfbench, cmd/scheduler-bench).  An event of a run is its index.   *)
(***************************************************************************)
EXTENDS Integers, Sequences, FiniteSets, SequencesExt, FiniteSetsExt, Functions, TLC

CONSTANTS Count,       \* events of a run, request.Count
          BatchSize,   \* expectationBatchSize
          Worker,      \* the goroutines of LoadScheduledJobs
          Systems,     \* -system
          Times,       \* scheduled-at
          MaxClock, MaxLoads, MaxHits, MaxStray  \* bounds: time, loads, requests per job, strays

VARIABLES args,        \* the flags of the last load, NoArgs if it was refused
          setup,       \* load: "none", "registering", "loading", "closed", "failed", "ok"
          offset,      \* events registered
          index,       \* events handed to the workers
          worker,      \* worker -> the event in hand, Idle without one
          ctxEnded, firstErr,
          loaded,      \* results
          jobs,        \* job in the scheduler -> requests it has sent
          clock, loads,
          expected, received, duplicates, unexpected, invalid,  \* the Collector
          strays, wiped  \* requests of nobody's job; the sink was reset

setupVars == <<args, setup, offset, index, worker, ctxEnded, firstErr, loaded, loads>>
sinkVars == <<expected, received, duplicates, unexpected, invalid>>
benchVars == <<setupVars, jobs, clock, sinkVars, strays, wiped>>

Idle == -1
NoId == -1
Event == 0 .. Count - 1
NoArgs == [given |-> FALSE, system |-> "", at |-> 0]

BenchInit ==
  /\ args = NoArgs /\ setup = "none" /\ offset = 0 /\ index = 0
  /\ worker = [w \in Worker |-> Idle]
  /\ ctxEnded = FALSE /\ firstErr = FALSE /\ loaded = {} /\ loads = 0
  /\ jobs = <<>> /\ clock = 0
  /\ expected = <<>> /\ received = <<>>
  /\ duplicates = 0 /\ unexpected = 0 /\ invalid = 0
  /\ strays = 0 /\ wiped = FALSE

-----------------------------------------------------------------------------
(* The sink. *)

MarkInvalid == invalid' = invalid + 1

(* A batch is taken whole or not at all: an event keeps its scheduled time. *)
conflicting(events, at) == \E e \in events \cap DOMAIN expected : expected[e] # at
Expect(events, at) == expected' = [e \in events |-> at] @@ expected

(* The handler: an answer other than 200 counts as an invalid request. *)
expect(events, at) ==
  IF conflicting(events, at) THEN MarkInvalid /\ UNCHANGED expected
  ELSE Expect(events, at) /\ UNCHANGED invalid

Observe(id) ==
  /\ \/ id = NoId /\ MarkInvalid /\ UNCHANGED <<unexpected, duplicates, received>>
     \/ id # NoId /\ id \notin DOMAIN expected /\ unexpected' = unexpected + 1
        /\ UNCHANGED <<invalid, duplicates, received>>
     \/ id \in DOMAIN expected \cap DOMAIN received /\ duplicates' = duplicates + 1
        /\ UNCHANGED <<invalid, unexpected, received>>
     \/ /\ id \in DOMAIN expected \ DOMAIN received
        /\ received' = (id :> [scheduledAt |-> expected[id], receivedAt |-> clock]) @@ received
        /\ UNCHANGED <<invalid, unexpected, duplicates>>
  /\ UNCHANGED expected

(* The handler: an oversized body is invalid whatever its id. *)
execute(id, fits) == IF fits THEN Observe(id) ELSE MarkInvalid /\ UNCHANGED <<expected, received, duplicates, unexpected>>

Reset ==
  /\ expected # <<>> /\ wiped' = TRUE
  /\ expected' = <<>> /\ received' = <<>> /\ duplicates' = 0 /\ unexpected' = 0 /\ invalid' = 0
  /\ UNCHANGED <<setupVars, jobs, clock, strays>>

(* The value at a percentile, in thousandths, of latencies in order. *)
nearestRank(sorted, percentile) ==
  LET n == Len(sorted)
      rank == (percentile * n + 999) \div 1000
  IN sorted[Max({1, Min({rank, n})})]

summarizeLatencies(values) ==
  IF values = <<>> THEN <<>>
  ELSE LET sorted == SortSeq(values, <)
       IN <<sorted[1]>>
          \o [p \in 1 .. 5 |-> nearestRank(sorted, <<500, 900, 950, 990, 999>>[p])] \o <<Last(sorted)>>

Report ==
  LET latency(e) == received[e].receivedAt - received[e].scheduledAt
      latencies == FoldSet(LAMBDA e, values : Append(values, latency(e)), <<>>, DOMAIN received)
      first == Min({received[e].scheduledAt : e \in DOMAIN received})
      last == Max({received[e].receivedAt : e \in DOMAIN received})
  IN [expected |-> Cardinality(DOMAIN expected), received |-> Cardinality(DOMAIN received),
      missing |-> Cardinality(DOMAIN expected) - Cardinality(DOMAIN received),
      window |-> IF received # <<>> /\ last > first THEN last - first ELSE 0,
      latency |-> summarizeLatencies(latencies)]

-----------------------------------------------------------------------------
(* load, and what it does before the jobs are due. *)

BuildExpectedEvents(from) == from .. Min({from + BatchSize, Count}) - 1

(* Every flag is given, the time is far enough ahead, the loader has what it logs in with. *)
accepted(a) == a.given /\ a.at > clock /\ a.system \in {"go", "xxl"}

load(a) ==
  /\ setup \in {"none", "failed"} /\ loads < MaxLoads /\ loads' = loads + 1
  /\ args' = IF accepted(a) THEN a ELSE NoArgs
  /\ offset' = 0 /\ index' = 0 /\ loaded' = {} /\ ctxEnded' = FALSE /\ firstErr' = FALSE
  /\ setup' = IF accepted(a) THEN "registering" ELSE "failed"
  /\ UNCHANGED <<worker, jobs, clock, sinkVars, strays, wiped>>

(* One batch: its request or the answer to it may be lost, and load gives up. *)
RegisterExpectations ==
  LET events == BuildExpectedEvents(offset)
  IN /\ setup = "registering"
     /\ \/ /\ expect(events, args.at)
           /\ \/ /\ ~conflicting(events, args.at) /\ offset' = offset + Cardinality(events)
                 /\ setup' = IF offset' = Count THEN "loading" ELSE setup
              \/ setup' = "failed" /\ UNCHANGED offset
        \/ setup' = "failed" /\ UNCHANGED <<offset, expected, invalid>>
     /\ UNCHANGED <<args, index, worker, ctxEnded, firstErr, loaded, loads, jobs, clock,
                    received, duplicates, unexpected, strays, wiped>>

(* LoadScheduledJobs: jobs <- index. *)
HandOut(w) ==
  /\ setup = "loading" /\ index < Count /\ worker[w] = Idle
  /\ worker' = [worker EXCEPT ![w] = index] /\ index' = index + 1
  /\ UNCHANGED <<args, setup, offset, ctxEnded, firstErr, loaded, loads, jobs, clock, sinkVars, strays, wiped>>

(* The channel is closed: all events are handed out, or the context ended. *)
CloseJobs ==
  /\ setup = "loading" /\ (index = Count \/ ctxEnded) /\ setup' = "closed"
  /\ UNCHANGED <<args, offset, index, worker, ctxEnded, firstErr, loaded, loads, jobs, clock, sinkVars,
                 strays, wiped>>

ValidateScheduledJob(e) == e \in Event /\ args.at # 0

(* CreateScheduledJob: the job may exist although its creation failed for the worker; *)
(* the first failure ends the context of all.                                   *)
CreateScheduledJob(w) ==
  /\ worker[w] # Idle /\ ValidateScheduledJob(worker[w])
  /\ worker' = [worker EXCEPT ![w] = Idle]
  /\ \E reached, answered \in BOOLEAN :
       /\ answered => reached
       /\ jobs' = IF reached
                  THEN ([load |-> loads, event |-> worker[w], at |-> args.at] :> 0) @@ jobs ELSE jobs
       /\ loaded' = IF answered THEN loaded \cup {worker[w]} ELSE loaded
       /\ firstErr' = (firstErr \/ ~answered) /\ ctxEnded' = (ctxEnded \/ ~answered)
  /\ UNCHANGED <<args, setup, offset, index, loads, clock, sinkVars, strays, wiped>>

(* A signal or the timeout. *)
Interrupt ==
  /\ setup \in {"loading", "closed"} /\ ~ctxEnded /\ ctxEnded' = TRUE
  /\ UNCHANGED <<args, setup, offset, index, worker, firstErr, loaded, loads, jobs, clock, sinkVars,
                 strays, wiped>>

(* workers.Wait(), then the verdict; a set-up that took too long is no run. *)
EndLoad ==
  /\ setup = "closed" /\ \A w \in Worker : worker[w] = Idle
  /\ setup' = IF firstErr \/ index < Count \/ clock >= args.at THEN "failed" ELSE "ok"
  /\ UNCHANGED <<args, offset, index, worker, ctxEnded, firstErr, loaded, loads, jobs, clock, sinkVars,
                 strays, wiped>>

-----------------------------------------------------------------------------
(* The jobs fire (external: the scheduler under test), at least once each. *)

validateEventID(id) == id # NoId

(* The benchmark executor forwards an event to the sink. *)
forward(id) == execute(id, TRUE)
executeGo(id, fits) == IF fits /\ validateEventID(id) THEN forward(id) ELSE UNCHANGED sinkVars
executeXXL(id, known) == IF known /\ validateEventID(id) THEN forward(id) ELSE UNCHANGED sinkVars

Fire(j) ==
  /\ clock >= j.at /\ jobs[j] < MaxHits
  /\ jobs' = [jobs EXCEPT ![j] = @ + 1]
  /\ IF args.system = "xxl" THEN executeXXL(j.event, TRUE) ELSE executeGo(j.event, TRUE)
  /\ UNCHANGED <<setupVars, clock, strays, wiped>>

(* A request that belongs to no job: without an id, with another run's, too large. *)
Stray ==
  /\ strays < MaxStray /\ strays' = strays + 1
  /\ \E id \in {NoId, Count}, fits \in BOOLEAN : execute(id, fits) \/ executeGo(id, fits)
  /\ UNCHANGED <<setupVars, jobs, clock, wiped>>

Elapse ==
  /\ clock < MaxClock /\ clock' = clock + 1
  /\ UNCHANGED <<setupVars, jobs, sinkVars, strays, wiped>>

BenchNext ==
  \/ \E given \in BOOLEAN, system \in Systems, at \in Times :
       load([given |-> given, system |-> system, at |-> at])
  \/ RegisterExpectations \/ CloseJobs \/ Interrupt \/ EndLoad
  \/ \E w \in Worker : HandOut(w) \/ CreateScheduledJob(w)
  \/ \E j \in DOMAIN jobs : Fire(j)
  \/ Stray \/ Reset \/ Elapse

-----------------------------------------------------------------------------
(* The report of a run that load approved is about that run: every event has a job and   *)
(* an expectation from before its job was created, so no request of a job is counted as   *)
(* unexpected, each event that reached the sink is received once and every further         *)
(* request is a duplicate, no event is early, and the percentiles lie in order between    *)
(* the extremes.  A reset of the sink after the expectations were registered undoes it     *)
(* (load, LoadScheduledJobs, Observe, Report, summarizeLatencies).                   *)
BenchmarkAddsUp ==
  LET hits == {h \in (DOMAIN jobs) \X (1 .. MaxHits) : h[2] <= jobs[h[1]]}
      reached == {h[1].event : h \in hits}
      report == Report
      lat == report.latency
  IN /\ report.missing >= 0 /\ report.received + report.missing = report.expected
     /\ \A i, k \in DOMAIN lat : i <= k => lat[i] <= lat[k]
     /\ ~wiped => /\ DOMAIN received = reached
                  /\ duplicates = Cardinality(hits) - Cardinality(reached)
                  /\ unexpected + invalid <= strays + loads
                  /\ lat # <<>> => lat[1] >= 0
     /\ setup = "ok" =>
          /\ loaded = Event
          /\ \A e \in Event : [load |-> loads, event |-> e, at |-> args.at] \in DOMAIN jobs
          /\ ~wiped => \A e \in Event : expected[e] = args.at
=============================================================================
