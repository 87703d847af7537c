------------------------------- MODULE Misfire -------------------------------
(***************************************************************************)
(* The instants EnqueueDue fires for one job (internal/schedule/misfire.go)   *)
(* when its ticks come late: every tick asks Due for the missed instants and   *)
(* for the next one.  Time is in seconds.  A cron schedule is a set of phases  *)
(* of a period (Calendar has its real instants).                             *)
(***************************************************************************)
EXTENDS Integers, Sequences, FiniteSets, SequencesExt

CONSTANTS
  Schedule,   \* [type : {"cron", "once", "fixed_rate", "fixed_delay"}, ...]
  Policy,     \* subset of {"skip", "fire_once", "catch_up"}
  CatchUp,    \* the values of max_catch_up; below 1 means 10
  MaxNow      \* bound on time

VARIABLES
  schedule, policy, maxCatchUp,   \* the job
  next_run_at,                    \* Zero: NULL
  now,
  fired                           \* the instants of its runs, in the order of insertion

vars == <<schedule, policy, maxCatchUp, next_run_at, now, fired>>

Zero == -1
Grace == 2   \* a job that is later than two seconds has misfired

Least(S) == CHOOSE t \in S : \A u \in S : t <= u

NextOf(s, after) ==
  CASE s.type = "cron" -> Least({t \in (after + 1)..(after + s.period) : t % s.period \in s.phases})
    [] s.type = "once" -> IF s.at > after THEN s.at ELSE Zero
    [] s.type \in {"fixed_rate", "fixed_delay"} -> after + s.period

\* A loop that collects one instant too many.
RECURSIVE AdvanceOneMore(_, _, _, _, _)
AdvanceOneMore(s, p, cap, due, next) ==
  IF next = Zero \/ next > now THEN [due |-> due, next |-> next]
  ELSE LET candidate == NextOf(s, next)
           collect == p = "catch_up" /\ candidate # Zero /\ candidate <= now /\ Len(due) <= cap
       IN AdvanceOneMore(s, p, cap, IF collect THEN Append(due, candidate) ELSE due, candidate)

\* The loop that moves next beyond now and collects the missed instants of catch_up.
RECURSIVE Advance(_, _, _, _, _)
Advance(s, p, cap, due, next) ==
  IF next = Zero \/ next > now THEN [due |-> due, next |-> next]
  ELSE LET candidate == NextOf(s, next)
           collect == p = "catch_up" /\ candidate # Zero /\ candidate <= now /\ Len(due) < cap
       IN Advance(s, p, cap, IF collect THEN Append(due, candidate) ELSE due, candidate)

Due(s, p, cap, first) ==
  LET misfired == now - first > Grace
  IN IF s.type = "fixed_delay"
     THEN CASE misfired /\ p = "skip" -> [due |-> <<>>, next |-> NextOf(s, now)]
            [] misfired /\ p # "skip" -> [due |-> <<now>>, next |-> Zero]
            [] OTHER -> [due |-> <<first>>, next |-> Zero]
     ELSE Advance(s, p, IF cap < 1 THEN 10 ELSE cap,
                  CASE misfired /\ p = "skip" -> <<>>
                    [] misfired /\ p = "fire_once" -> <<now>>
                    [] OTHER -> <<first>>,
                  first)

(***************************************************************************)
(* Actions.                                                                 *)
(***************************************************************************)

\* CreateJob: the first instant after its creation.
Init ==
  /\ schedule \in Schedule /\ policy \in Policy /\ maxCatchUp \in CatchUp
  /\ next_run_at = NextOf(schedule, 0)
  /\ now = 0
  /\ fired = <<>>

EnqueueDue ==
  /\ next_run_at # Zero /\ next_run_at <= now
  /\ LET r == Due(schedule, policy, maxCatchUp, next_run_at)
     IN fired' = fired \o r.due /\ next_run_at' = r.next
  /\ UNCHANGED <<schedule, policy, maxCatchUp, now>>

\* The run of a fixed_delay job has ended (rescheduleFixedDelayTx).
Rearm ==
  /\ schedule.type = "fixed_delay" /\ next_run_at = Zero
  /\ next_run_at' = NextOf(schedule, now)
  /\ UNCHANGED <<schedule, policy, maxCatchUp, now, fired>>

TimePasses ==
  /\ now < MaxNow
  /\ now' = now + 1
  /\ UNCHANGED <<schedule, policy, maxCatchUp, next_run_at, fired>>

Next == EnqueueDue \/ Rearm \/ TimePasses

Spec == Init /\ [][Next]_vars

-----------------------------------------------------------------------------
Occurs(t) ==
  CASE schedule.type = "cron" -> t % schedule.period \in schedule.phases
    [] schedule.type = "once" -> t = schedule.at
    [] OTHER -> (t - next_run_at) % schedule.period = 0

FirstOf(k, S) == {t \in S : Cardinality({u \in S : u < t}) < k}

(* A late tick fires what the misfire policy says and no more, and resumes at    *)
(* the first instant after now: catch_up fires the oldest missed instants up to   *)
(* max_catch_up, fire_once one run at the time of the tick, skip none; a tick     *)
(* within two seconds fires its own instant (Due).                            *)
DuePerPolicy ==
  LET missed == {t \in next_run_at..now : Occurs(t)}
      late == now - next_run_at > Grace
      delay == schedule.type = "fixed_delay"
      cap == IF maxCatchUp < 1 THEN 10 ELSE maxCatchUp
      new == SubSeq(fired', Len(fired) + 1, Len(fired'))
      fires == CASE late /\ policy = "skip" -> {}
                 [] late /\ (policy = "fire_once" \/ delay) -> {now}
                 [] policy = "catch_up" /\ ~delay -> FirstOf(cap, missed)
                 [] OTHER -> {next_run_at}
      later == {t \in (now + 1)..(now + schedule.period) : Occurs(t)}
  IN fired # fired' \/ (next_run_at # Zero /\ next_run_at # next_run_at') =>
       /\ ToSet(new) = fires /\ Len(new) = Cardinality(fires)
       /\ next_run_at' = CASE delay /\ fires # {} -> Zero
                           [] delay -> now + schedule.period
                           [] schedule.type = "once" -> Zero
                           [] OTHER -> Least(later)

(* No instant is fired twice or out of order, none lies in the future, and a     *)
(* job whose tick is done is not due at the same time again: all policies move    *)
(* next_run_at beyond what they fired (Due, EnqueueDue).                       *)
FiredInOrder ==
  LET all == fired \o (IF next_run_at = Zero THEN <<>> ELSE <<next_run_at>>)
  IN \A i \in 1..(Len(all) - 1) : all[i] < all[i + 1] /\ all[i] <= now
=============================================================================
