------------------------------ MODULE RunLogs ------------------------------
(***************************************************************************)
(* The rolling log of one run: entries appended by entry_id, and a reader     *)
(* that follows them page by page with the last id it has seen                *)
(* (internal/store/run_logs.go, internal/core/run_logs.go, runs logs -f).      *)
(*                                                                         *)
(* An id is drawn from the table's sequence when the INSERT runs, and the     *)
(* row is seen by others when the statement commits.                         *)
(***************************************************************************)
EXTENDS Integers, Sequences, FiniteSets, SequencesExt, FiniteSetsExt

CONSTANTS Sender,      \* calls of AppendRunLogs that may be open at a time
          Entry,       \* entry_ids
          Limit,       \* page size
          MaxId,       \* bound: ids drawn
          Bad          \* what validateRunLogInputs refuses

VARIABLES logRun,      \* the run: "open", "ended" or "purged"
          logs,        \* committed rows, as pairs <<id, entry>>
          drawn,       \* each sender's uncommitted row, <<>> if it has none
          lastId,      \* the sequence of job_run_logs
          cursor,      \* the follower's cursor
          printed      \* what it has printed

logVars == <<logRun, logs, drawn, lastId, cursor, printed>>

LogInit ==
  /\ logRun = "open" /\ logs = {} /\ lastId = 0
  /\ drawn = [s \in Sender |-> <<>>]
  /\ cursor = 0 /\ printed = <<>>

\* A call names one to a hundred entries, all well formed.
validateRunLogInputs(entries) == entries # {} /\ Bad \notin entries

\* The service wants a token and entries in order; the store compares the token's
\* hash with the one the run was dispatched with.
acceptsAppend(token, entries) == token # "" /\ validateRunLogInputs(entries)
isRunToken(token) == token = "right"

\* The rows an INSERT .. ON CONFLICT(run_id,entry_id) of these entries adds:
\* those already there keep their id; each of the others draws one.
NewRows(entries) ==
  LET new == SetToSeq({e \in entries : \A l \in logs : l[2] # e})
  IN  {<<lastId + i, new[i]>> : i \in 1 .. Len(new)}

\* The statement runs: it reads the run's state and token, and waits for an
\* uncommitted row of the same entry.
AppendRunLogs(s, token, entries) ==
  /\ acceptsAppend(token, entries) /\ isRunToken(token)
  /\ logRun = "open" /\ drawn[s] = <<>>
  /\ \A t \in Sender : \A l \in ToSet(drawn[t]) : l[2] \notin entries
  /\ LET rows == NewRows(entries) IN
       /\ lastId + Cardinality(rows) <= MaxId
       /\ lastId' = lastId + Cardinality(rows)
       /\ drawn' = [drawn EXCEPT ![s] = SetToSeq(rows)]
  /\ UNCHANGED <<logRun, logs, cursor, printed>>

\* It commits, whether or not the caller still waits for the answer: a caller
\* that timed out may send the entries again.
CommitAppend(s) ==
  /\ drawn[s] # <<>>
  /\ logs' = logs \cup ToSet(drawn[s])
  /\ drawn' = [drawn EXCEPT ![s] = <<>>]
  /\ UNCHANGED <<logRun, lastId, cursor, printed>>

\* The callback, the deadline or a cancellation ends the run: no more logs.
EndRun ==
  /\ logRun = "open" /\ logRun' = "ended"
  /\ UNCHANGED <<logs, drawn, lastId, cursor, printed>>

\* A purge removes the logs with the run.
Purge ==
  /\ logRun = "ended" /\ logRun' = "purged" /\ logs' = {}
  /\ UNCHANGED <<drawn, lastId, cursor, printed>>

\* A page: the first rows past the cursor, in the order of their ids.
ListRunLogs(after) ==
  LET past == SetToSortSeq({l \in logs : l[1] > after}, LAMBDA k, l : k[1] < l[1])
  IN  SubSeq(past, 1, Min({Len(past), Limit}))

\* One poll of the follower: it prints the page and keeps the last id.
Follow ==
  /\ logRun # "purged"
  /\ LET page == ListRunLogs(cursor) IN
       /\ page # <<>>
       /\ printed' = printed \o [i \in DOMAIN page |-> page[i][2]]
       /\ cursor' = Last(page)[1]
  /\ UNCHANGED <<logRun, logs, drawn, lastId>>

LogNext ==
  \/ \E s \in Sender, token \in {"", "right", "wrong"}, es \in SUBSET (Entry \cup {Bad}) :
       AppendRunLogs(s, token, es)
  \/ \E s \in Sender : CommitAppend(s)
  \/ EndRun \/ Purge \/ Follow

LogSpec == LogInit /\ [][LogNext]_logVars

\* However often an entry is sent, it has one row, and a follower prints it
\* once (AppendRunLogs, ListRunLogs).
EntriesOnce ==
  /\ \A k, l \in logs : k[2] = l[2] => k = l
  /\ IsInjective(printed)

\* A follower skips nothing: what has an id up to its cursor was printed
\* (ListRunLogs).  It holds for calls that do not overlap.
NothingSkipped == \A l \in logs : l[1] <= cursor => l[2] \in ToSet(printed)
=============================================================================
