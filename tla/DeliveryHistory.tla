--------------------------- MODULE DeliveryHistory ---------------------------
(* The history of notification deliveries, read page by page with a cursor,  *)
(* while deliveries are inserted, settled and purged.  A page is one          *)
(* statement; created_at is the start of the inserting transaction, which     *)
(* may commit after a later one.                                              *)
EXTENDS Answers, FiniteSets, SequencesExt

CONSTANTS DeliveryId,    \* ids, in the order of their type (numbers)
          Instant,       \* values of created_at; two per second
          HistoryLimits, \* limits asked for, [given, n]; a missing one has n = 0
          DefaultLimit, MaxLimit

VARIABLES entry,      \* id -> [at, status], "none" before the insert, "purged" after
          hsReader,   \* the reader: "idle", "paging", "done"
          hsFilter,   \* the status asked for, "" for all
          hsCursor,   \* the cursor of the next page
          hsShown,    \* the ids shown so far, in order
          hsOwed      \* rows of the first page's snapshot still matching

historyVars == <<entry, hsReader, hsFilter, hsCursor, hsShown, hsOwed>>

NoEntry == [at |-> 0, status |-> "none"]
NoCursor == [v |-> 0, at |-> 0, id |-> 0]

HistoryInit ==
  /\ entry = [d \in DeliveryId |-> NoEntry]
  /\ hsReader = "idle" /\ hsFilter = ""
  /\ hsCursor = NoCursor /\ hsShown = <<>> /\ hsOwed = {}

\* (created_at, id) < cursor.
Before(a, b) == a.at < b.at \/ (a.at = b.at /\ a.id < b.id)

\* Mutant: the cursor keeps the seconds of created_at only.
encodeSeconds(row) == [v |-> 1, at |-> (row.at \div 2) * 2, id |-> row.id]

\* encodeNotificationHistoryCursor: version 1, the last row shown, created_at
\* to the nanosecond.
encodeNotificationHistoryCursor(row) == [v |-> 1, at |-> row.at, id |-> row.id]

\* decodeNotificationHistoryCursor: an empty cursor is the start; another one
\* must be of version 1 and name an instant.
decodeNotificationHistoryCursor(cursor) ==
  [valid |-> cursor = NoCursor \/ (cursor.v = 1 /\ cursor.at > 0),
   start |-> cursor = NoCursor,
   before |-> [at |-> cursor.at, id |-> cursor.id]]

\* The rows of a status, of any status for "".
Matching(filter) ==
  {d \in DeliveryId : /\ entry[d].status \notin {"none", "purged"}
                      /\ filter \in {"", entry[d].status}}

\* NotificationHistory: newest first, at most n of them.
NotificationHistory(filter, cursor, n) ==
  LET rows == {[at |-> entry[d].at, id |-> d] : d \in Matching(filter)}
      older == {r \in rows : cursor.start \/ Before(r, cursor.before)}
      sorted == SetToSortSeq(older, LAMBDA a, b : Before(b, a))
  IN SubSeq(sorted, 1, IF Len(sorted) < n THEN Len(sorted) ELSE n)

\* ListHistory: one row more than asked for tells whether there is a next page.
ListHistory(filter, limit, cursor) ==
  LET n == IF limit = 0 THEN DefaultLimit ELSE limit
      at == decodeNotificationHistoryCursor(cursor)
      rows == NotificationHistory(filter, at, n + 1)
      more == Len(rows) > n
      shown == SubSeq(rows, 1, IF more THEN n ELSE Len(rows))
  IN [accepted |-> /\ filter \in {"", "pending", "delivered", "dead"}
                   /\ n \in 1 .. MaxLimit
                   /\ at.valid,
      rows |-> shown,
      next |-> IF more THEN encodeNotificationHistoryCursor(Last(shown)) ELSE NoCursor]

\* listNotificationHistory: a missing limit is the default, a given one is
\* checked before the call.
listNotificationHistory(filter, limit, cursor) ==
  LET n == IF limit.given THEN limit.n ELSE DefaultLimit
      page == ListHistory(filter, n, cursor)
  IN [page EXCEPT !.accepted = @ /\ n \in 1 .. MaxLimit]
-----------------------------------------------------------------------------
\* A reader asks for the first page, and for the next ones with its cursor.
\* A refused request shows nothing.
ReadPage ==
  /\ hsReader # "done"
  /\ \E filter \in {"", "pending", "other"}, limit \in HistoryLimits :
       /\ hsReader = "paging" => filter = hsFilter
       /\ LET page == listNotificationHistory(filter, limit, hsCursor)
          IN /\ page.accepted
             /\ hsShown' = hsShown \o [i \in DOMAIN page.rows |-> page.rows[i].id]
             /\ hsCursor' = page.next
             /\ hsReader' = IF page.next = NoCursor THEN "done" ELSE "paging"
             /\ hsFilter' = filter
             /\ hsOwed' = IF hsReader = "idle" THEN Matching(filter) ELSE hsOwed
  /\ UNCHANGED entry

Restart ==
  /\ hsReader = "done"
  /\ hsReader' = "idle" /\ hsFilter' = ""
  /\ hsCursor' = NoCursor /\ hsShown' = <<>> /\ hsOwed' = {}
  /\ UNCHANGED entry

\* The dispatcher inserts a delivery, settles it, and old ones are purged.
InsertDelivery(d, at) ==
  /\ entry[d] = NoEntry
  /\ entry' = [entry EXCEPT ![d] = [at |-> at, status |-> "pending"]]
  /\ UNCHANGED <<hsReader, hsFilter, hsCursor, hsShown, hsOwed>>

SettleDelivery(d, status) ==
  /\ entry[d].status = "pending"
  /\ entry' = [entry EXCEPT ![d].status = status]
  /\ hsOwed' = IF hsFilter = "pending" THEN hsOwed \ {d} ELSE hsOwed
  /\ UNCHANGED <<hsReader, hsFilter, hsCursor, hsShown>>

PurgeDelivery(d) ==
  /\ entry[d].status \in {"delivered", "dead"}
  /\ entry' = [entry EXCEPT ![d] = [NoEntry EXCEPT !.status = "purged"]]
  /\ hsOwed' = hsOwed \ {d}
  /\ UNCHANGED <<hsReader, hsFilter, hsCursor, hsShown>>

HistoryNext ==
  \/ ReadPage \/ Restart
  \/ \E d \in DeliveryId :
       \/ \E at \in Instant : InsertDelivery(d, at)
       \/ \E status \in {"delivered", "dead"} : SettleDelivery(d, status)
       \/ PurgeDelivery(d)
-----------------------------------------------------------------------------
\* Following the cursors to the end shows every delivery of the first page's
\* snapshot that is still there, and no delivery twice, although deliveries
\* arrive, share an instant, change status and disappear between two pages
\* (ListHistory, NotificationHistory).
PagesAreComplete ==
  /\ \A i, j \in DOMAIN hsShown : hsShown[i] = hsShown[j] => i = j
  /\ hsReader = "done" => hsOwed \subseteq ToSet(hsShown)
=============================================================================
