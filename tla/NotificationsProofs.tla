------------------------ MODULE NotificationsProofs ------------------------
(***************************************************************************)
(* Two promises of Notifications for any number of events, channels and       *)
(* workers: a late answer decides nothing, and a stopped channel is quiet.     *)
(***************************************************************************)
EXTENDS Notifications, TLAPS

(* The rows and the transactions are records of their kind.                   *)
Types ==
  /\ channel \in [Channel -> ChannelRow]
  /\ delivery \in [Delivery -> Row]
  /\ prep \in [Worker -> PrepTx]
  /\ hold \in [Worker -> [Delivery -> Hold]]
  /\ stop \in [Channel -> StopTx]

(* So are the empty ones.                                                    *)
LEMMA EmptyRecords ==
  /\ NoRow \in Row /\ NoHold \in Hold
  /\ NoPrep \in PrepTx
  /\ NoStop \in StopTx
BY AttemptAssumption DEF NoRow, NoHold, NoPrep, NoStop, Row, Hold, PrepTx, StopTx

(* The columns that the transactions write.                                  *)
LEMMA RecordUpdates ==
  /\ \A r \in Row :
       /\ [r EXCEPT !.fresh = FALSE] \in Row
       /\ [r EXCEPT !.due = TRUE] \in Row
       /\ [r EXCEPT !.owner = NoWorker, !.fresh = FALSE, !.due = FALSE] \in Row
       /\ \A w \in Worker, n \in 0 .. MaxClaims :
            [r EXCEPT !.owner = w, !.fresh = TRUE, !.attempts = n] \in Row
       /\ \A t \in {"delivered", "dead"} :
            [r EXCEPT !.status = t, !.owner = NoWorker, !.fresh = FALSE] \in Row
  /\ \A h \in Hold :
       /\ [h EXCEPT !.at = "updated"] \in Hold
       /\ \A b \in BOOLEAN : /\ [h EXCEPT !.at = "attempted", !.ok = b] \in Hold
                            /\ [h EXCEPT !.at = "checked", !.last = b] \in Hold
  /\ \A k \in ChannelRow, b, c \in BOOLEAN :
       /\ [k EXCEPT !.enabled = b] \in ChannelRow
       /\ [k EXCEPT !.enabled = b, !.deleted = c] \in ChannelRow
       /\ \A m \in 1 .. MaxAttempts : [k EXCEPT !.max = m] \in ChannelRow
  /\ \A p \in PrepTx, C \in SUBSET Channel : [p EXCEPT !.at = "matched", !.chans = C] \in PrepTx
<1>0. ASSUME NEW k \in ChannelRow, NEW b \in BOOLEAN, NEW c \in BOOLEAN
      PROVE  /\ [k EXCEPT !.enabled = b] \in ChannelRow
             /\ [k EXCEPT !.enabled = b, !.deleted = c] \in ChannelRow
  BY DEF ChannelRow
<1>1. ASSUME NEW r \in Row PROVE [r EXCEPT !.fresh = FALSE] \in Row
  BY DEF Row
<1>2. ASSUME NEW r \in Row PROVE [r EXCEPT !.due = TRUE] \in Row
  BY DEF Row
<1>3. ASSUME NEW r \in Row PROVE [r EXCEPT !.owner = NoWorker, !.fresh = FALSE, !.due = FALSE] \in Row
  BY DEF Row
<1>4. ASSUME NEW r \in Row, NEW w \in Worker, NEW n \in 0 .. MaxClaims
      PROVE  [r EXCEPT !.owner = w, !.fresh = TRUE, !.attempts = n] \in Row
  BY DEF Row
<1>5. ASSUME NEW r \in Row, NEW t \in {"delivered", "dead"}
      PROVE  [r EXCEPT !.status = t, !.owner = NoWorker, !.fresh = FALSE] \in Row
  BY DEF Row
<1>6. ASSUME NEW h \in Hold PROVE [h EXCEPT !.at = "updated"] \in Hold
  BY DEF Hold
<1>7. ASSUME NEW h \in Hold, NEW b \in BOOLEAN
      PROVE  [h EXCEPT !.at = "attempted", !.ok = b] \in Hold
  BY DEF Hold
<1>8. ASSUME NEW h \in Hold, NEW b \in BOOLEAN
      PROVE  [h EXCEPT !.at = "checked", !.last = b] \in Hold
  BY DEF Hold
<1>9. ASSUME NEW p \in PrepTx, NEW C \in SUBSET Channel
      PROVE  [p EXCEPT !.at = "matched", !.chans = C] \in PrepTx
  BY DEF PrepTx
<1>10. ASSUME NEW k \in ChannelRow, NEW m \in 1 .. MaxAttempts PROVE [k EXCEPT !.max = m] \in ChannelRow
  BY DEF ChannelRow
<1> QED
  BY <1>0, <1>9, <1>10, <1>1, <1>2, <1>3, <1>4, <1>5, <1>6, <1>7, <1>8, Zenon

(* The tables start with such records ...                                    *)
LEMMA InitTypes == Init => Types
<1>1. ASSUME NEW k \in [enabled : BOOLEAN, deleted : {FALSE}, max : {MaxAttempts}] PROVE k \in ChannelRow
  <2>1. MaxAttempts \in 1 .. MaxAttempts
    BY AttemptAssumption
  <2> QED
    BY <2>1, Zenon DEF ChannelRow
<1>2. Init => channel \in [Channel -> ChannelRow]
  BY <1>1, Zenon DEF Init
<1>3. NoRow \in Row /\ NoHold \in Hold /\ NoPrep \in PrepTx /\ NoStop \in StopTx
  BY EmptyRecords
<1>4. Init => /\ delivery \in [Delivery -> Row] /\ prep \in [Worker -> PrepTx]
              /\ hold \in [Worker -> [Delivery -> Hold]] /\ stop \in [Channel -> StopTx]
  BY <1>3 DEF Init
<1> QED
  BY <1>2, <1>4 DEF Types

(* ... and every statement writes them.                                      *)
LEMMA TypesKept ==
  ASSUME Types, [Next]_vars
  PROVE  Types'
<1> USE DEF Types, tables
<1>0. /\ \A d \in Delivery, r \in Row : [delivery EXCEPT ![d] = r] \in [Delivery -> Row]
      /\ \A w \in Worker, d \in Delivery, h \in Hold : [hold EXCEPT ![w][d] = h] \in [Worker -> [Delivery -> Hold]]
      /\ \A d \in Delivery : delivery[d] \in Row /\ \A w \in Worker : hold[w][d] \in Hold
  OBVIOUS
<1>1. ASSUME NEW e \in Event, Emit(e) PROVE Types'
  BY <1>1 DEF Emit
<1>2. ASSUME NEW w \in Worker, NEW e \in Event, PrepareSelect(w, e) PROVE Types'
  <2>1. [NoPrep EXCEPT !.at = "selected", !.event = {e}] \in PrepTx
    BY DEF NoPrep, PrepTx
  <2> QED
    BY <1>2, <2>1 DEF PrepareSelect
<1>3. ASSUME NEW w \in Worker, PrepareMatch(w) PROVE Types'
  <2>1. UNCHANGED <<channel, delivery, hold, stop>>
    BY <1>3 DEF PrepareMatch
  <2>2. PICK e \in prep[w].event :
          \/ prep' = [prep EXCEPT ![w] = NoPrep]
          \/ prep' = [prep EXCEPT ![w].at = "matched", ![w].chans = matching(e)]
    BY <1>3 DEF PrepareMatch
  <2>3. matching(e) \subseteq Channel
    BY DEF matching
  <2>4. prep' \in [Worker -> PrepTx]
    <3>1. CASE prep' = [prep EXCEPT ![w] = NoPrep]
      BY <3>1, EmptyRecords
    <3>2. CASE prep' = [prep EXCEPT ![w].at = "matched", ![w].chans = matching(e)]
      <4>1. prep' = [prep EXCEPT ![w] = [prep[w] EXCEPT !.at = "matched", !.chans = matching(e)]]
        BY <3>2
      <4> QED
        BY <2>3, <4>1, RecordUpdates
    <3> QED
      BY <2>2, <3>1, <3>2
  <2> QED
    BY <2>1, <2>4
<1>4. ASSUME NEW w \in Worker, PrepareCommit(w) PROVE Types'
  <2>1. UNCHANGED <<channel, hold, stop>> /\ prep' = [prep EXCEPT ![w] = NoPrep]
    BY <1>4 DEF PrepareCommit
  <2>2. [NoRow EXCEPT !.status = "pending", !.due = TRUE] \in Row
    BY EmptyRecords DEF NoRow, Row
  <2>3. delivery' \in [Delivery -> Row]
    BY <1>4, <2>2 DEF PrepareCommit
  <2> QED
    BY <2>1, <2>3, EmptyRecords
<1>5. ASSUME NEW w \in Worker, NEW d \in Delivery, Claim(w, d) PROVE Types'
  <2>1. delivery[d].attempts + 1 \in 0 .. MaxClaims /\ channel[d[2]].max \in 0 .. MaxAttempts
    BY <1>5, AttemptAssumption DEF Claim, Row, Delivery
  <2>2. [NoHold EXCEPT !.at = "claimed", !.attempts = delivery[d].attempts + 1, !.max = channel[d[2]].max] \in Hold
    BY <2>1 DEF NoHold, Hold
  <2>3. hold' \in [Worker -> [Delivery -> Hold]]
    BY <1>5, <2>2 DEF Claim
  <2>4. delivery' \in [Delivery -> Row]
    <3>1. delivery' = [delivery EXCEPT ![d] =
            [delivery[d] EXCEPT !.owner = w, !.fresh = TRUE, !.attempts = delivery[d].attempts + 1]]
      BY <1>5 DEF Claim, Row
    <3> QED
      BY <1>0, <2>1, <3>1, RecordUpdates
  <2> QED
    BY <1>5, <2>3, <2>4 DEF Claim
<1>6. ASSUME NEW w \in Worker, NEW d \in Delivery, Attempt(w, d) PROVE Types'
  <2>1. PICK ok \in BOOLEAN : hold' = [hold EXCEPT ![w][d].at = "attempted", ![w][d].ok = ok]
    BY <1>6 DEF Attempt
  <2>2. hold' \in [Worker -> [Delivery -> Hold]]
    <3>1. hold' = [hold EXCEPT ![w][d] = [hold[w][d] EXCEPT !.at = "attempted", !.ok = ok]]
      BY <2>1
    <3> QED
      BY <1>0, <3>1, RecordUpdates
  <2> QED
    BY <1>6, <2>2 DEF Attempt
<1>7. ASSUME NEW w \in Worker, NEW d \in Delivery, FinishUpdate(w, d) PROVE Types'
  <2>1. hold' \in [Worker -> [Delivery -> Hold]]
    <3>1. CASE hold' = [hold EXCEPT ![w][d].at = "updated"]
      <4>1. hold' = [hold EXCEPT ![w][d] = [hold[w][d] EXCEPT !.at = "updated"]]
        BY <3>1
      <4> QED
        BY <1>0, <4>1, RecordUpdates
    <3>2. CASE hold' = [hold EXCEPT ![w][d] = NoHold]
      BY <3>2, EmptyRecords
    <3> QED
      BY <1>7, <3>1, <3>2 DEF FinishUpdate, Drop
  <2> QED
    BY <1>7, <2>1 DEF FinishUpdate
<1>8. ASSUME NEW w \in Worker, NEW d \in Delivery, FinishCheck(w, d) PROVE Types'
  <2>1. PICK b \in BOOLEAN : b = ~pendingElsewhere(d)
    BY Zenon
  <2>2. hold' = [hold EXCEPT ![w][d].at = "checked", ![w][d].last = b]
    BY <1>8, <2>1 DEF FinishCheck
  <2>3. hold' \in [Worker -> [Delivery -> Hold]]
    <3>1. hold' = [hold EXCEPT ![w][d] = [hold[w][d] EXCEPT !.at = "checked", !.last = b]]
      BY <2>2
    <3> QED
      BY <1>0, <3>1, RecordUpdates
  <2> QED
    BY <1>8, <2>3 DEF FinishCheck
<1>9. ASSUME NEW w \in Worker, NEW d \in Delivery, FinishCommit(w, d) PROVE Types'
  <2>1. hold' \in [Worker -> [Delivery -> Hold]]
    BY <1>9, EmptyRecords DEF FinishCommit, Drop
  <2>2. delivery' \in [Delivery -> Row]
    <3>1. PICK t \in {"delivered", "dead"} : delivery' = Ended(d, t)
      BY <1>9 DEF FinishCommit
    <3>2. delivery' = [delivery EXCEPT ![d] =
            [delivery[d] EXCEPT !.status = t, !.owner = NoWorker, !.fresh = FALSE]]
      BY <3>1 DEF Ended
    <3> QED
      BY <1>0, <3>2, RecordUpdates
  <2> QED
    BY <1>9, <2>1, <2>2 DEF FinishCommit
<1>10. ASSUME NEW w \in Worker, NEW d \in Delivery, Retry(w, d) PROVE Types'
  <2>1. hold' \in [Worker -> [Delivery -> Hold]]
    BY <1>10, EmptyRecords DEF Retry, Drop
  <2>2. delivery' \in [Delivery -> Row]
    <3>1. \/ delivery' = delivery
          \/ delivery' = [delivery EXCEPT ![d] =
               [delivery[d] EXCEPT !.owner = NoWorker, !.fresh = FALSE, !.due = FALSE]]
      BY <1>10 DEF Retry
    <3>2. [delivery[d] EXCEPT !.owner = NoWorker, !.fresh = FALSE, !.due = FALSE] \in Row
      BY <1>0, RecordUpdates, Zenon
    <3>3. [delivery EXCEPT ![d] = [delivery[d] EXCEPT !.owner = NoWorker, !.fresh = FALSE, !.due = FALSE]]
            \in [Delivery -> Row]
      BY <1>0, <3>2, Zenon
    <3> QED
      BY <3>1, <3>3, Zenon
  <2> QED
    BY <1>10, <2>1, <2>2 DEF Retry
<1>11. ASSUME NEW w \in Worker, Crash(w) PROVE Types'
  BY <1>11, EmptyRecords DEF Crash
<1>12. ASSUME NEW d \in Delivery, LeaseExpires(d) \/ BackoffEnds(d) PROVE Types'
  <2>1. delivery' \in [Delivery -> Row]
    <3>1. \/ delivery' = [delivery EXCEPT ![d] = [delivery[d] EXCEPT !.fresh = FALSE]]
          \/ delivery' = [delivery EXCEPT ![d] = [delivery[d] EXCEPT !.due = TRUE]]
      BY <1>12 DEF LeaseExpires, BackoffEnds
    <3>2. [delivery[d] EXCEPT !.fresh = FALSE] \in Row /\ [delivery[d] EXCEPT !.due = TRUE] \in Row
      BY <1>0, RecordUpdates, Zenon
    <3> QED
      BY <1>0, <3>1, <3>2, Zenon
  <2> QED
    BY <1>12, <2>1 DEF LeaseExpires, BackoffEnds
<1>13. ASSUME NEW c \in Channel, EnableChannel(c) \/ UpdateChannel(c) PROVE Types'
  <2>1. channel[c] \in ChannelRow
    OBVIOUS
  <2>2. \/ channel' = [channel EXCEPT ![c] = [channel[c] EXCEPT !.enabled = TRUE]]
        \/ \E m \in 1 .. MaxAttempts : channel' = [channel EXCEPT ![c] = [channel[c] EXCEPT !.max = m]]
    BY <1>13 DEF EnableChannel, UpdateChannel
  <2>3. UNCHANGED <<delivery, prep, hold, stop>>
    BY <1>13 DEF EnableChannel, UpdateChannel
  <2>4. /\ [channel[c] EXCEPT !.enabled = TRUE] \in ChannelRow
        /\ \A m \in 1 .. MaxAttempts : [channel[c] EXCEPT !.max = m] \in ChannelRow
    BY <2>1, RecordUpdates, Zenon
  <2>5. channel' \in [Channel -> ChannelRow]
    BY <2>2, <2>4, Zenon
  <2> QED
    BY <2>3, <2>5
<1>14. ASSUME NEW c \in Channel, StopChannel(c) PROVE Types'
  <2> DEFINE rows == {d \in Delivery : d[2] = c /\ Pending(d)}
             last == {d[1] : d \in {r \in rows : ~pendingElsewhere(r)}}
  <2>1. rows \subseteq Delivery /\ last \subseteq Event
    BY DEF Delivery
  <2>2. PICK deletes \in BOOLEAN :
          stop' = [stop EXCEPT ![c] = [at |-> "open", deletes |-> deletes, rows |-> rows, last |-> last]]
    BY <1>14 DEF StopChannel
  <2> HIDE DEF rows, last
  <2>3. [at |-> "open", deletes |-> deletes, rows |-> rows, last |-> last] \in StopTx
    BY <2>1 DEF StopTx
  <2> QED
    BY <1>14, <2>2, <2>3 DEF StopChannel
<1>15. ASSUME NEW c \in Channel, CommitStop(c) PROVE Types'
  <2>1. PICK b \in BOOLEAN : b = (channel[c].deleted \/ stop[c].deletes)
    BY Zenon
  <2>2. channel' = [channel EXCEPT ![c].enabled = FALSE, ![c].deleted = b]
    BY <1>15, <2>1 DEF CommitStop
  <2>3. \A d \in Delivery : Ended(d, "dead")[d] \in Row
    <3> TAKE d \in Delivery
    <3>1. Ended(d, "dead")[d] = [delivery[d] EXCEPT !.status = "dead", !.owner = NoWorker, !.fresh = FALSE]
      BY DEF Ended
    <3>2. [delivery[d] EXCEPT !.status = "dead", !.owner = NoWorker, !.fresh = FALSE] \in Row
      BY <1>0, RecordUpdates, Zenon
    <3> QED
      BY <3>1, <3>2, Zenon
  <2>4. delivery' \in [Delivery -> Row]
    BY <1>15, <2>3 DEF CommitStop
  <2>5. stop' = [stop EXCEPT ![c] = NoStop] /\ UNCHANGED <<prep, hold>>
    BY <1>15 DEF CommitStop
  <2>6. channel' \in [Channel -> ChannelRow]
    <3>1. [channel[c] EXCEPT !.enabled = FALSE, !.deleted = b] \in ChannelRow
      BY RecordUpdates, Zenon
    <3>2. channel' = [channel EXCEPT ![c] = [channel[c] EXCEPT !.enabled = FALSE, !.deleted = b]]
      BY <2>2
    <3> QED
      BY <3>1, <3>2, Zenon
  <2>7. stop' \in [Channel -> StopTx]
    BY <2>5, EmptyRecords, Zenon
  <2> QED
    BY <2>4, <2>5, <2>6, <2>7
<1>16. CASE UNCHANGED vars
  BY <1>16 DEF vars
<1> QED
  BY <1>1, <1>2, <1>3, <1>4, <1>5, <1>6, <1>7, <1>8, <1>9, <1>10, <1>11, <1>12, <1>13, <1>14, <1>15, <1>16
     DEF Next, WorkerStep
(* What a holder knows of a row it still owns is what the row says, and while *)
(* a row is being ended its transaction is the only one at it.                *)
LeaseInv ==
  /\ \A w \in Worker, d \in Delivery :
       hold[w][d].at # "none" /\ delivery[d].owner = w => hold[w][d].attempts = delivery[d].attempts
  /\ \A w \in Worker, d \in Delivery :
       ending(w, d) => Pending(d) /\ hold[w][d].attempts = delivery[d].attempts
  /\ \A v, w \in Worker, d \in Delivery : ending(v, d) /\ ending(w, d) => v = w

(* Claim, attempt, end and retry of a delivery, the stop of its channel and a  *)
(* crash keep what holders know of their rows.                               *)
LEMMA LeaseInductive ==
  ASSUME Types, LeaseInv, [Next]_vars
  PROVE  LeaseInv'
<1>0. /\ \A w \in Worker, d \in Delivery : hold[w][d] \in Hold
      /\ \A d \in Delivery : delivery[d] \in Row
      /\ hold \in [Worker -> [Delivery -> Hold]] /\ delivery \in [Delivery -> Row]
  BY DEF Types
<1> USE DEF LeaseInv, ending, Pending
\* Steps of one worker at one row.
<1>1. ASSUME NEW w \in Worker, NEW d \in Delivery, delivery' = delivery,
             \A v \in Worker, q \in Delivery : v # w \/ q # d => hold'[v][q] = hold[v][q],
             \/ hold'[w][d].at = "none"
             \/ /\ hold[w][d].at # "none" /\ hold'[w][d].attempts = hold[w][d].attempts
                /\ ending(w, d)' => ending(w, d) \/ (holdsLease(w, d) /\ ~rowLocked(d))
      PROVE  LeaseInv'
  BY <1>1 DEF rowLocked, holdsLease
<1>2. ASSUME NEW w \in Worker, NEW d \in Delivery, Claim(w, d) PROVE LeaseInv'
  <2>1. \A v \in Worker, q \in Delivery : v # w \/ q # d => hold'[v][q] = hold[v][q]
    BY <1>0, <1>2 DEF Claim
  <2>2. hold'[w][d].at = "claimed" /\ hold'[w][d].attempts = delivery[d].attempts + 1
    BY <1>0, <1>2 DEF Claim, NoHold
  <2>3. \A q \in Delivery : q # d => delivery'[q] = delivery[q]
    BY <1>0, <1>2 DEF Claim
  <2>4. delivery'[d].owner = w /\ delivery'[d].attempts = delivery[d].attempts + 1
    BY <1>0, <1>2 DEF Claim, Row
  <2>5. ~rowLocked(d)
    BY <1>2 DEF Claim, claimable
  <2> QED
    BY <2>1, <2>2, <2>3, <2>4, <2>5 DEF rowLocked
<1>3. ASSUME NEW w \in Worker, NEW d \in Delivery, FinishCommit(w, d) PROVE LeaseInv'
  <2>1. \A v \in Worker, q \in Delivery : v # w \/ q # d => hold'[v][q] = hold[v][q]
    BY <1>0, <1>3 DEF FinishCommit, Drop
  <2>2. hold'[w][d].at = "none" /\ ending(w, d)
    BY <1>0, <1>3 DEF FinishCommit, Drop, NoHold
  <2>3. \A q \in Delivery : q # d => delivery'[q] = delivery[q]
    BY <1>0, <1>3 DEF FinishCommit, Ended
  <2>4. delivery'[d].owner = NoWorker
    BY <1>0, <1>3 DEF FinishCommit, Ended, Row
  <2> QED
    BY <2>1, <2>2, <2>3, <2>4, WorkerAssumption
<1>4. ASSUME NEW w \in Worker, NEW d \in Delivery, Retry(w, d) PROVE LeaseInv'
  <2>1. \A v \in Worker, q \in Delivery : v # w \/ q # d => hold'[v][q] = hold[v][q]
    BY <1>0, <1>4 DEF Retry, Drop
  <2>2. hold'[w][d].at = "none" /\ ~rowLocked(d)
    BY <1>0, <1>4 DEF Retry, Drop, NoHold
  <2>3. \A q \in Delivery : q # d => delivery'[q] = delivery[q]
    BY <1>0, <1>4 DEF Retry
  <2>4. delivery'[d] = delivery[d] \/ delivery'[d].owner = NoWorker
    BY <1>0, <1>4 DEF Retry, Row
  <2> QED
    BY <2>1, <2>2, <2>3, <2>4, WorkerAssumption DEF rowLocked
<1>5. ASSUME NEW w \in Worker, Crash(w) PROVE LeaseInv'
  <2>1. /\ delivery' = delivery
        /\ \A v \in Worker, q \in Delivery : hold'[v][q] = hold[v][q] \/ hold'[v][q].at = "none"
    BY <1>0, <1>5 DEF Crash, NoHold, tables
  <2> QED
    BY <2>1
<1>6. ASSUME NEW w \in Worker, NEW d \in Delivery, Attempt(w, d) \/ FinishUpdate(w, d) \/ FinishCheck(w, d)
      PROVE  LeaseInv'
  <2>1. /\ delivery' = delivery
        /\ \A v \in Worker, q \in Delivery : v # w \/ q # d => hold'[v][q] = hold[v][q]
    BY <1>0, <1>6 DEF Attempt, FinishUpdate, FinishCheck, Drop, tables
  <2>2. CASE Attempt(w, d)
    <3>1. hold[w][d].at # "none" /\ hold'[w][d].at = "attempted" /\ hold'[w][d].attempts = hold[w][d].attempts
      BY <1>0, <2>2 DEF Attempt, Hold
    <3> QED
      BY <1>1, <2>1, <3>1
  <2>3. CASE FinishUpdate(w, d)
    <3>1. \/ hold'[w][d].at = "none"
          \/ hold[w][d].at # "none" /\ hold'[w][d].attempts = hold[w][d].attempts /\ holdsLease(w, d) /\ ~rowLocked(d)
      <4>1. CASE holdsLease(w, d)
        <5>1. hold' = [hold EXCEPT ![w][d] = [hold[w][d] EXCEPT !.at = "updated"]]
          BY <2>3, <4>1 DEF FinishUpdate
        <5>2. [hold[w][d] EXCEPT !.at = "updated"].attempts = hold[w][d].attempts
          BY <1>0 DEF Hold
        <5> QED
          BY <1>0, <2>3, <4>1, <5>1, <5>2 DEF FinishUpdate
      <4>2. CASE ~holdsLease(w, d)
        BY <1>0, <2>3, <4>2 DEF FinishUpdate, Drop, NoHold
      <4> QED
        BY <4>1, <4>2
    <3> QED
      BY <1>1, <2>1, <3>1
  <2>4. CASE FinishCheck(w, d)
    <3>1. hold[w][d].at = "updated" /\ hold'[w][d].attempts = hold[w][d].attempts
      BY <1>0, <2>4 DEF FinishCheck, Hold
    <3> QED
      BY <1>1, <2>1, <3>1
  <2> QED
    BY <1>6, <2>2, <2>3, <2>4
<1>7. ASSUME NEW w \in Worker, PrepareCommit(w) PROVE LeaseInv'
  <2>1. hold' = hold
    BY <1>7 DEF PrepareCommit
  <2>2. \A d \in Delivery : \/ delivery'[d] = delivery[d]
                            \/ delivery[d].status = "none" /\ delivery'[d].owner = NoWorker
    <3>1. NoRow.owner = NoWorker /\ [NoRow EXCEPT !.status = "pending", !.due = TRUE].owner = NoWorker
      BY DEF NoRow
    <3> QED
      BY <1>0, <1>7, <3>1 DEF PrepareCommit
  <2> QED
    BY <2>1, <2>2, WorkerAssumption
<1>8. ASSUME NEW c \in Channel, CommitStop(c) PROVE LeaseInv'
  <2>1. hold' = hold
    BY <1>8 DEF CommitStop
  <2>2. \A d \in Delivery : \/ delivery'[d] = delivery[d]
                            \/ ~rowLocked(d) /\ delivery'[d].owner = NoWorker
    BY <1>0, <1>8 DEF CommitStop, Ended, Row
  <2> QED
    BY <2>1, <2>2, WorkerAssumption DEF rowLocked
<1>9. ASSUME NEW d \in Delivery, LeaseExpires(d) \/ BackoffEnds(d) PROVE LeaseInv'
  <2>1. hold' = hold
    BY <1>9 DEF LeaseExpires, BackoffEnds
  <2>2. \A q \in Delivery : /\ delivery'[q].status = delivery[q].status
                            /\ delivery'[q].owner = delivery[q].owner
                            /\ delivery'[q].attempts = delivery[q].attempts
    <3>1. CASE LeaseExpires(d)
      BY <1>0, <3>1 DEF LeaseExpires, Row
    <3>2. CASE BackoffEnds(d)
      BY <1>0, <3>2 DEF BackoffEnds, Row
    <3> QED
      BY <1>9, <3>1, <3>2
  <2> QED
    BY <2>1, <2>2
<1>10. ASSUME hold' = hold, delivery' = delivery PROVE LeaseInv'
  BY <1>10
<1> QED
  BY <1>2, <1>3, <1>4, <1>5, <1>6, <1>7, <1>8, <1>9, <1>10
     DEF Next, WorkerStep, Emit, PrepareSelect, PrepareMatch, EnableChannel, UpdateChannel, StopChannel, vars, tables
(* However many workers, leases that pass and crashes there are, a late answer *)
(* of the provider does not decide a row that another claim has taken          *)
(* (finishNotificationDelivery asks for the owner and the lease).             *)
THEOREM LateAnswersDecideNothing == Spec => []LatestClaimEnds
<1>1. Init => Types /\ LeaseInv
  <2> SUFFICES ASSUME Init PROVE Types /\ LeaseInv
    OBVIOUS
  <2>1. Types
    BY InitTypes
  <2>2. \A w \in Worker, d \in Delivery : hold[w][d].at = "none"
    BY DEF Init, NoHold
  <2> QED
    BY <2>1, <2>2 DEF LeaseInv, ending
<1>2. (Types /\ LeaseInv) /\ [Next]_vars => (Types /\ LeaseInv)'
  BY TypesKept, LeaseInductive
<1>3. Types /\ LeaseInv => LatestClaimEnds
  BY DEF LeaseInv, LatestClaimEnds
<1> QED
  BY <1>1, <1>2, <1>3, PTL DEF Spec

(* A channel matched by an open Prepare is enabled and nobody is stopping it;  *)
(* the operation that stops a channel has all its pending rows.               *)
StopInv ==
  /\ StoppedChannelQuiet
  /\ \A w \in Worker, c \in Channel :
       prep[w].at = "matched" /\ c \in prep[w].chans => channel[c].enabled /\ stop[c].at = "idle"
  /\ \A c \in Channel, d \in Delivery :
       stop[c].at = "open" /\ d[2] = c /\ Pending(d) => d \in stop[c].rows

(* Prepare, the end of a delivery and the channel operations keep the locks   *)
(* of the channel rows in this order.                                        *)
LEMMA StopInductive ==
  ASSUME Types, StopInv, [Next]_vars
  PROVE  StopInv'
<1>0. /\ \A d \in Delivery : delivery[d] \in Row /\ d[2] \in Channel
      /\ \A c \in Channel : channel[c] \in ChannelRow /\ stop[c] \in StopTx
      /\ \A w \in Worker : prep[w] \in PrepTx
      /\ delivery \in [Delivery -> Row] /\ channel \in [Channel -> ChannelRow]
      /\ prep \in [Worker -> PrepTx] /\ stop \in [Channel -> StopTx]
  BY DEF Types, Delivery
<1> USE DEF StopInv, StoppedChannelQuiet, Pending
\* Steps that make no row pending and open no Prepare.
<1>1. ASSUME channel' = channel, stop' = stop,
             \A d \in Delivery : Pending(d)' => Pending(d),
             \A w \in Worker : prep'[w] = prep[w] \/ prep'[w].at # "matched"
      PROVE  StopInv'
  BY <1>1
<1>2. ASSUME NEW w \in Worker, NEW e \in Event, PrepareSelect(w, e) PROVE StopInv'
  <2>1. \A v \in Worker : prep'[v] = prep[v] \/ prep'[v].at # "matched"
    BY <1>0, <1>2 DEF PrepareSelect, NoPrep
  <2> QED
    BY <1>1, <1>2, <2>1 DEF PrepareSelect, tables
<1>3. ASSUME NEW w \in Worker, PrepareMatch(w) PROVE StopInv'
  <2>1. PICK e \in prep[w].event :
          \/ prep' = [prep EXCEPT ![w] = NoPrep]
          \/ /\ \A c \in matching(e) : ~channelLocked(c)
             /\ prep' = [prep EXCEPT ![w].at = "matched", ![w].chans = matching(e)]
    BY <1>3 DEF PrepareMatch
  <2>2. UNCHANGED <<channel, delivery, stop>>
    BY <1>3 DEF PrepareMatch, tables
  <2>3. CASE prep' = [prep EXCEPT ![w] = NoPrep]
    BY <1>0, <1>1, <2>2, <2>3 DEF NoPrep
  <2>4. CASE /\ \A c \in matching(e) : ~channelLocked(c)
             /\ prep' = [prep EXCEPT ![w].at = "matched", ![w].chans = matching(e)]
    <3>1. \A c \in matching(e) : c \in Channel /\ channel[c].enabled /\ stop[c].at = "idle"
      BY <1>0, <2>4 DEF matching, channelLocked, StopTx
    <3>2. prep'[w].chans = matching(e) /\ \A v \in Worker : v # w => prep'[v] = prep[v]
      BY <1>0, <2>4 DEF PrepTx
    <3> QED
      BY <2>2, <3>1, <3>2
  <2> QED
    BY <2>1, <2>3, <2>4
<1>4. ASSUME NEW w \in Worker, PrepareCommit(w) PROVE StopInv'
  <2>1. /\ prep[w].at = "matched" /\ UNCHANGED <<channel, stop>>
        /\ prep'[w].at = "idle" /\ \A v \in Worker : v # w => prep'[v] = prep[v]
    BY <1>0, <1>4 DEF PrepareCommit, NoPrep
  <2>2. \A d \in Delivery : Pending(d)' => Pending(d) \/ d[2] \in prep[w].chans
    BY <1>0, <1>4 DEF PrepareCommit
  <2>3. \A d \in Delivery : Pending(d)' => channel[d[2]].enabled
    BY <1>0, <2>1, <2>2
  <2>4. \A c \in Channel, d \in Delivery : stop[c].at = "open" /\ d[2] = c /\ Pending(d)' => d \in stop[c].rows
    BY <1>0, <2>1, <2>2
  <2> QED
    BY <2>1, <2>3, <2>4
<1>5. ASSUME NEW w \in Worker, NEW d \in Delivery,
             Claim(w, d) \/ FinishCommit(w, d) \/ Retry(w, d)
      PROVE  StopInv'
  <2>1. UNCHANGED <<channel, stop, prep>>
    BY <1>5 DEF Claim, FinishCommit, Retry
  <2>2. \A q \in Delivery : q # d => delivery'[q] = delivery[q]
    BY <1>0, <1>5 DEF Claim, FinishCommit, Ended, Retry
  <2>3. Pending(d)' => Pending(d)
    <3>1. CASE Claim(w, d)
      BY <3>1 DEF Claim, claimable
    <3>2. CASE FinishCommit(w, d)
      BY <1>0, <3>2 DEF FinishCommit, Ended, Row
    <3>3. CASE Retry(w, d)
      BY <1>0, <3>3 DEF Retry, Row
    <3> QED
      BY <1>5, <3>1, <3>2, <3>3
  <2> QED
    BY <1>1, <2>1, <2>2, <2>3
<1>6. ASSUME NEW w \in Worker, Crash(w) PROVE StopInv'
  <2>1. \A v \in Worker : prep'[v] = prep[v] \/ prep'[v].at # "matched"
    BY <1>0, <1>6 DEF Crash, NoPrep
  <2> QED
    BY <1>1, <1>6, <2>1 DEF Crash, tables
<1>7. ASSUME NEW c \in Channel, EnableChannel(c) \/ UpdateChannel(c) PROVE StopInv'
  <2>1. UNCHANGED <<delivery, prep, stop>>
    BY <1>7 DEF EnableChannel, UpdateChannel
  <2>2. \A k \in Channel : channel[k].enabled => channel'[k].enabled
    <3>1. CASE EnableChannel(c)
      BY <1>0, <3>1, Zenon DEF EnableChannel, ChannelRow
    <3>2. CASE UpdateChannel(c)
      BY <1>0, <3>2 DEF UpdateChannel, ChannelRow
    <3> QED
      BY <1>7, <3>1, <3>2
  <2> QED
    BY <1>0, <2>1, <2>2
<1>8. ASSUME NEW c \in Channel, StopChannel(c) PROVE StopInv'
  <2>1. UNCHANGED <<channel, delivery, prep>> /\ ~channelLocked(c)
    BY <1>8 DEF StopChannel, Edit, tables
  <2>2. /\ stop'[c].rows = {d \in Delivery : d[2] = c /\ Pending(d)}
        /\ \A k \in Channel : k # c => stop'[k] = stop[k]
    BY <1>0, <1>8 DEF StopChannel
  <2>3. \A w \in Worker : ~(prep[w].at = "matched" /\ c \in prep[w].chans)
    BY <2>1 DEF channelLocked, matched
  <2> QED
    BY <2>1, <2>2, <2>3
<1>9. ASSUME NEW c \in Channel, CommitStop(c) PROVE StopInv'
  <2>1. /\ stop[c].at = "open" /\ prep' = prep
        /\ stop'[c].at = "idle" /\ \A k \in Channel : k # c => stop'[k] = stop[k]
        /\ \A k \in Channel : k # c => channel'[k] = channel[k]
    BY <1>0, <1>9 DEF CommitStop, NoStop
  <2>2. \A d \in Delivery : Pending(d)' => Pending(d) /\ d[2] # c
    <3> TAKE d \in Delivery
    <3>1. Ended(d, "dead")[d].status = "dead"
      BY <1>0 DEF Ended, Row
    <3>2. delivery'[d] = IF d \in stop[c].rows /\ Pending(d) THEN Ended(d, "dead")[d] ELSE delivery[d]
      BY <1>9 DEF CommitStop
    <3> QED
      BY <2>1, <3>1, <3>2
  <2>3. \A w \in Worker : ~(prep[w].at = "matched" /\ c \in prep[w].chans)
    BY <2>1
  <2> QED
    BY <1>0, <2>1, <2>2, <2>3
<1>10. ASSUME NEW d \in Delivery, LeaseExpires(d) \/ BackoffEnds(d) PROVE StopInv'
  <2>1. UNCHANGED <<channel, stop, prep>> /\ \A q \in Delivery : q # d => delivery'[q] = delivery[q]
    BY <1>0, <1>10 DEF LeaseExpires, BackoffEnds
  <2>2. Pending(d)' => Pending(d)
    <3>1. CASE LeaseExpires(d)
      BY <1>0, <3>1 DEF LeaseExpires, Row
    <3>2. CASE BackoffEnds(d)
      BY <3>2 DEF BackoffEnds
    <3> QED
      BY <1>10, <3>1, <3>2
  <2> QED
    BY <1>1, <2>1, <2>2
<1>11. ASSUME UNCHANGED <<channel, delivery, prep, stop>> PROVE StopInv'
  BY <1>11
<1> QED
  BY <1>2, <1>3, <1>4, <1>5, <1>6, <1>7, <1>8, <1>9, <1>10, <1>11
     DEF Next, WorkerStep, Emit, Attempt, FinishUpdate, FinishCheck, vars, tables

(* A stopped channel has nothing left to send, whatever Prepares, deliveries    *)
(* and channel operations overlap: SetNotificationChannelEnabled,              *)
(* DeleteNotificationChannel and matchingNotificationChannelIDs lock its row.  *)
THEOREM StoppedChannelsAreQuiet == Spec => []StoppedChannelQuiet
<1>1. Init => Types /\ StopInv
  <2> SUFFICES ASSUME Init PROVE Types /\ StopInv
    OBVIOUS
  <2>1. Types
    BY InitTypes
  <2>2. /\ \A d \in Delivery : delivery[d].status = "none"
        /\ \A w \in Worker : prep[w].at = "idle"
        /\ \A c \in Channel : stop[c].at = "idle"
    BY DEF Init, NoRow, NoPrep, NoStop
  <2> QED
    BY <2>1, <2>2 DEF StopInv, StoppedChannelQuiet, Pending
<1>2. (Types /\ StopInv) /\ [Next]_vars => (Types /\ StopInv)'
  BY TypesKept, StopInductive
<1>3. StopInv => StoppedChannelQuiet
  BY DEF StopInv
<1> QED
  BY <1>1, <1>2, <1>3, PTL DEF Spec
=============================================================================
