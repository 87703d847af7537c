----------------------------- MODULE Retention -----------------------------
(***************************************************************************)
(* What is deleted when: the maintenance loop of one Core, the history        *)
(* clean-ups, the purge of terminal runs and the drop of expired partitions   *)
(* (internal/core/engine_maintenance.go, internal/store/history.go and        *)
(* partitions.go).  Every run here is scheduled before the cutoff; the rows   *)
(* that belong to it grow old by themselves.                                 *)
(***************************************************************************)
EXTENDS Naturals, FiniteSets, FiniteSetsExt

CONSTANTS OldRun,    \* runs scheduled before now - retention
          Late,      \* those a catch-up may still insert
          Batch,     \* LIMIT of a clean-up
          Table      \* tables of rows about runs, out of those below

VARIABLES
  history,     \* each run: "absent", "active", "terminal" or "gone"
  housed,      \* runs stored in the expired partition, not in the default one
  partition,   \* the expired partition has not been dropped
  kept,        \* pairs <<table, run>>: the row of that run in that table
  old,         \* the rows of kept whose age exceeds the retention
  settled,     \* outbox rows published, commands delivered
  purged,      \* runs that PurgeRunHistory deleted
  maintPc,     \* where maintain is
  overdue,     \* maintenance tasks whose interval has passed
  broken       \* tasks whose statements fail

rowVars == <<history, housed, kept, old, purged>>
retentionVars == <<rowVars, partition, settled, maintPc, overdue, broken>>

Owned == {"logs", "idempotency", "dispatches"}   \* a purge deletes these too
Queue == {"outbox", "commands"}                  \* work still to do, until settled
Task == {"partitions", "auxiliary", "runs"}
Terminal == {r \in OldRun : history[r] = "terminal"}
Due(t) == t \in overdue \ broken

RetentionInit ==
  /\ history = [r \in OldRun |-> IF r \in Late THEN "absent" ELSE "active"]
  /\ housed = OldRun \ Late /\ partition = TRUE
  /\ kept = {} /\ old = {} /\ settled = {} /\ purged = {}
  /\ maintPc = "idle" /\ overdue = Task /\ broken \in {{}, {"partitions"}}

-----------------------------------------------------------------------------
\* The deletions

\* PurgeRunHistory deletes terminal runs and what belongs to them, in one
\* transaction that holds their rows.
DeleteRuns(ids) ==
  /\ history' = [r \in OldRun |-> IF r \in ids THEN "gone" ELSE history[r]]
  /\ kept' = kept \ (Owned \X ids)
  /\ old' = old \cap kept' /\ housed' = housed \ ids
  /\ purged' = purged \cup ids

\* What a purge of at most limit runs selects: as many terminal runs.
Doomed(limit) ==
  {ids \in SUBSET Terminal : Cardinality(ids) = Min({limit, Cardinality(Terminal)})}

\* A request to purge, with any limit its validation lets through.
PurgeRunHistory ==
  /\ \E limit \in 1 .. Batch : \E ids \in Doomed(limit) : ids # {} /\ DeleteRuns(ids)
  /\ UNCHANGED <<partition, settled, maintPc, overdue, broken>>

\* Old rows go, of the outbox only published ones and of the commands only
\* delivered ones.
Expired == {k \in old : k[1] \in Queue => k \in settled}

-----------------------------------------------------------------------------
\* maintain: three tasks one after the other.  A task is forgotten until its
\* next interval only if it succeeded, and its failure does not stop the next.

\* maintain, were the first error its end.
maintenanceGivesUp ==
  /\ maintPc = "idle" /\ maintPc' = IF overdue \cap broken = {} THEN "partitions" ELSE "idle"
  /\ UNCHANGED <<rowVars, partition, settled, overdue, broken>>

maintenanceLoop ==
  /\ maintPc = "idle" /\ maintPc' = "partitions"
  /\ UNCHANGED <<rowVars, partition, settled, overdue, broken>>

\* The inspection without its question.
InspectNothing ==
  /\ maintPc = "partitions"
  /\ IF Due("partitions") /\ partition
     THEN maintPc' = "drop" /\ UNCHANGED overdue
     ELSE maintPc' = "auxiliary" /\ overdue' = overdue \ ({"partitions"} \ broken)
  /\ UNCHANGED <<rowVars, partition, settled, broken>>

\* Under the advisory lock: the expired partition is inspected for active runs.
InspectPartition ==
  /\ maintPc = "partitions"
  /\ IF Due("partitions") /\ partition /\ \A r \in housed : history[r] # "active"
     THEN maintPc' = "drop" /\ UNCHANGED overdue
     ELSE maintPc' = "auxiliary" /\ overdue' = overdue \ ({"partitions"} \ broken)
  /\ UNCHANGED <<rowVars, partition, settled, broken>>

\* DROP TABLE takes every run the partition has by then.
DropPartition ==
  /\ maintPc = "drop" /\ maintPc' = "auxiliary"
  /\ overdue' = overdue \ {"partitions"}
  /\ partition' = FALSE /\ housed' = {}
  /\ history' = [r \in OldRun |-> IF r \in housed THEN "gone" ELSE history[r]]
  /\ UNCHANGED <<kept, old, purged, settled, broken>>

CleanupAuxiliaryHistory ==
  /\ maintPc = "auxiliary" /\ maintPc' = "runs"
  /\ IF Due("auxiliary")
     THEN /\ overdue' = overdue \ {"auxiliary"}
          /\ kept' = kept \ Expired /\ old' = old \ Expired
     ELSE UNCHANGED <<overdue, kept, old>>
  /\ UNCHANGED <<history, housed, purged, partition, settled, broken>>

CleanupRunHistory ==
  /\ maintPc = "runs" /\ maintPc' = "idle"
  /\ IF Due("runs")
     THEN overdue' = overdue \ {"runs"} /\ \E ids \in Doomed(Batch) : DeleteRuns(ids)
     ELSE UNCHANGED <<overdue, rowVars>>
  /\ UNCHANGED <<partition, settled, broken>>

maintain == InspectPartition \/ DropPartition \/ CleanupAuxiliaryHistory \/ CleanupRunHistory

-----------------------------------------------------------------------------
\* The rest of the system

\* EnqueueDue catches up on a time before the cutoff.
CatchUp(r) ==
  /\ history[r] = "absent" /\ history' = [history EXCEPT ![r] = "active"]
  /\ housed' = IF partition THEN housed \cup {r} ELSE housed
  /\ UNCHANGED <<kept, old, purged, partition, settled, maintPc, overdue, broken>>

EndRun(r) ==
  /\ history[r] = "active" /\ history' = [history EXCEPT ![r] = "terminal"]
  /\ UNCHANGED <<housed, kept, old, purged, partition, settled, maintPc, overdue, broken>>

\* An active run is written about; later the outbox row is published or the
\* command delivered.
Write(k) ==
  /\ k \notin kept /\ history[k[2]] = "active" /\ kept' = kept \cup {k}
  /\ UNCHANGED <<history, housed, old, purged, partition, settled, maintPc, overdue, broken>>

Settle(k) ==
  /\ k \in kept \ settled /\ k[1] \in Queue /\ settled' = settled \cup {k}
  /\ UNCHANGED <<rowVars, partition, maintPc, overdue, broken>>

\* Time passes for a row, or for a task of maintain.
Age(k) ==
  /\ k \in kept \ old /\ old' = old \cup {k}
  /\ UNCHANGED <<history, housed, kept, purged, partition, settled, maintPc, overdue, broken>>

IntervalPasses(t) ==
  /\ t \notin overdue /\ overdue' = overdue \cup {t}
  /\ UNCHANGED <<rowVars, partition, settled, maintPc, broken>>

RetentionNext ==
  \/ PurgeRunHistory \/ maintenanceLoop \/ maintain
  \/ \E r \in OldRun : CatchUp(r) \/ EndRun(r)
  \/ \E k \in Table \X OldRun : Write(k) \/ Settle(k) \/ Age(k)
  \/ \E t \in Task : IntervalPasses(t)

\* No deletion takes an active run, an unpublished event or an undelivered
\* command (PurgeRunHistory, CleanupAuxiliaryHistory, MaintainRunPartitions).
\* Of the active runs this leaves out those a catch-up inserts with a time
\* before the cutoff: one inserted between inspection and drop is lost.
KeepsWhatIsNeeded ==
  /\ \A r \in OldRun \ Late : history[r] = "active" => history'[r] # "gone"
  /\ \A k \in kept \ kept' : k[1] \in Queue => k \in settled

\* A purged run leaves no log, idempotency key or dependency dispatch behind
\* (PurgeRunHistory).
PurgeIsComplete ==
  \A k \in kept : k[1] \in Owned => k[2] \notin purged

\* Whatever happens to the partitions, what ended is deleted, and so are the
\* rows of a run that a dropped partition took with it (maintain).
HistoryGoes ==
  /\ \A r \in OldRun : (history[r] = "terminal") ~> (history[r] = "gone")
  /\ \A k \in (Table \cap Owned) \X OldRun :
       (k \in kept /\ history[k[2]] = "gone") ~> (k \notin kept)
=============================================================================
