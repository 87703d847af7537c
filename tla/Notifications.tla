--------------------------- MODULE Notifications ---------------------------
(***************************************************************************)
(* The notification outbox: PrepareNotificationDeliveries,                   *)
(* ClaimNotificationDeliveries, finishNotificationDelivery and               *)
(* RetryNotificationDelivery (internal/store/outbox.go), the worker tick of   *)
(* internal/notifier, and the channel operations that stop deliveries.       *)
(*                                                                         *)
(* An event is delivered to every channel subscribed to it, each delivery     *)
(* under a 30 second lease of the Core that claimed it; the event is          *)
(* published when none of its deliveries is pending any more.  The            *)
(* transactions that decide this lock different delivery rows and overlap:    *)
(* their statements are separate steps.                                     *)
(*                                                                         *)
(* A delivery is a pair <<event, channel>>.  due abstracts available_at,      *)
(* fresh says that locked_until is not past.  A batch is claimed row by row;  *)
(* the deliveries a worker holds are processed concurrently.                 *)
(***************************************************************************)
EXTENDS Naturals, FiniteSets

CONSTANTS
  Event, Channel, Worker,
  Subscribed,     \* pairs <<event, channel>> matched by event_types and the job scope
  MaxAttempts,    \* the channels' max_attempts range over 1..MaxAttempts
  MaxClaims,      \* bound: claims of one delivery
  MaxEdits,       \* bound: channel operations
  MaxCrashes,     \* bound: crashes of a worker
  Stalls,         \* a live worker may be slower than its 30 second lease
  NoWorker

ASSUME SubscriptionAssumption == Subscribed \subseteq Event \X Channel
ASSUME AttemptAssumption ==
  /\ MaxAttempts \in Nat \ {0} /\ MaxClaims \in Nat
  /\ MaxEdits \in Nat /\ MaxCrashes \in Nat
  /\ Stalls \in BOOLEAN
ASSUME WorkerAssumption == NoWorker \notin Worker

Delivery == Event \X Channel

VARIABLES
  emitted,    \* events in outbox_events
  published,  \* events with published_at
  channel,    \* [Channel -> [enabled, deleted, max]]
  delivery,   \* [Delivery -> row of notification_deliveries, or status "none"]
  prep,       \* [Worker -> its PrepareNotificationDeliveries transaction]
  hold,       \* [Worker -> [Delivery -> what the worker does with the row]]
  stop,       \* [Channel -> the transaction disabling or deleting it]
  opened,     \* history: a channel has been enabled since the start
  edits, crashes

tables == <<emitted, published, channel, delivery>>
vars == <<tables, prep, hold, stop, opened, edits, crashes>>

NoRow == [status |-> "none", owner |-> NoWorker, fresh |-> FALSE, due |-> FALSE, attempts |-> 0]
NoHold == [at |-> "none", ok |-> FALSE, last |-> FALSE, attempts |-> 0, max |-> 0]
NoPrep == [at |-> "idle", event |-> {}, chans |-> {}]
NoStop == [at |-> "idle", deletes |-> FALSE, rows |-> {}, last |-> {}]

Row == [status : {"none", "pending", "delivered", "dead"}, owner : Worker \cup {NoWorker},
        fresh : BOOLEAN, due : BOOLEAN, attempts : 0 .. MaxClaims]
(* claimed: the batch is read; attempted: the provider has answered; updated:  *)
(* the row is final in an open transaction; checked: that transaction knows    *)
(* whether it ended the event's last delivery.                               *)
Hold == [at : {"none", "claimed", "attempted", "updated", "checked"}, ok : BOOLEAN, last : BOOLEAN,
         attempts : 0 .. MaxClaims, max : 0 .. MaxAttempts]

ChannelRow == [enabled : BOOLEAN, deleted : BOOLEAN, max : 1 .. MaxAttempts]
PrepTx == [at : {"idle", "selected", "matched"}, event : SUBSET Event, chans : SUBSET Channel]
StopTx == [at : {"idle", "open"}, deletes : BOOLEAN, rows : SUBSET Delivery, last : SUBSET Event]

TypeOK ==
  /\ emitted \subseteq Event /\ published \subseteq emitted
  /\ channel \in [Channel -> ChannelRow]
  /\ delivery \in [Delivery -> Row]
  /\ prep \in [Worker -> PrepTx]
  /\ hold \in [Worker -> [Delivery -> Hold]]
  /\ stop \in [Channel -> StopTx]
  /\ opened \in BOOLEAN /\ edits \in 0 .. MaxEdits /\ crashes \in 0 .. MaxCrashes
  /\ \A d \in Delivery : delivery[d].fresh => delivery[d].owner # NoWorker /\ delivery[d].status = "pending"

Init ==
  /\ emitted = {} /\ published = {}
  /\ channel \in [Channel -> [enabled : BOOLEAN, deleted : {FALSE}, max : {MaxAttempts}]]
  /\ delivery = [d \in Delivery |-> NoRow]
  /\ prep = [w \in Worker |-> NoPrep]
  /\ hold = [w \in Worker |-> [d \in Delivery |-> NoHold]]
  /\ stop = [c \in Channel |-> NoStop]
  /\ opened = FALSE /\ edits = 0 /\ crashes = 0

Pending(d) == delivery[d].status = "pending"

(* The transaction that claimed or is ending the row keeps it locked; an     *)
(* enabled channel row is locked by the Prepare that matched it and by the   *)
(* operation that stops it.                                                 *)
ending(w, d) == hold[w][d].at \in {"updated", "checked"}
rowLocked(d) == \E w \in Worker : ending(w, d)
matched(c) == \E w \in Worker : prep[w].at = "matched" /\ c \in prep[w].chans

channelLocked(c) == matched(c) \/ stop[c].at = "open"

-----------------------------------------------------------------------------
(* emitRunEventTx commits an event (the run transactions of JobRuns).        *)
Emit(e) ==
  /\ e \notin emitted
  /\ emitted' = emitted \cup {e}
  /\ UNCHANGED <<published, channel, delivery, prep, hold, stop, opened, edits, crashes>>

(* tick: Prepare, then Claim, then all of the batch before the next tick.    *)
tickIdle(w) == \A d \in Delivery : hold[w][d].at = "none"

(* SELECT .. WHERE published_at IS NULL AND NOT EXISTS(deliveries): the       *)
(* snapshot of the statement.                                               *)
PrepareSelect(w, e) ==
  /\ prep[w].at = "idle" /\ tickIdle(w)
  /\ e \in emitted \ published
  /\ \A c \in Channel : delivery[<<e, c>>].status = "none"
  /\ prep' = [prep EXCEPT ![w] = [NoPrep EXCEPT !.at = "selected", !.event = {e}]]
  /\ UNCHANGED <<tables, hold, stop, opened, edits, crashes>>

matching(e) == {c \in Channel : channel[c].enabled /\ ~channel[c].deleted /\ <<e, c>> \in Subscribed}

(* FOR UPDATE OF e SKIP LOCKED: a locked event is skipped, a changed one is   *)
(* checked again.  matchingNotificationChannelIDs then locks the enabled,     *)
(* subscribed channels, waiting for their holders.                           *)
PrepareMatch(w) ==
  \E e \in prep[w].event :
    LET busy == \E v \in Worker \ {w} : prep[v].at = "matched" /\ prep[v].event = {e} IN
    /\ prep[w].at = "selected"
    /\ \/ /\ busy \/ e \in published
          /\ prep' = [prep EXCEPT ![w] = NoPrep]
       \/ /\ ~busy /\ e \notin published
          /\ \A c \in matching(e) : ~channelLocked(c)
          /\ prep' = [prep EXCEPT ![w].at = "matched", ![w].chans = matching(e)]
    /\ UNCHANGED <<tables, hold, stop, opened, edits, crashes>>

(* No channel: the event is published.  Otherwise INSERT .. ON CONFLICT DO   *)
(* NOTHING, and COMMIT.                                                      *)
PrepareCommit(w) ==
  \E e \in prep[w].event :
    /\ prep[w].at = "matched"
    /\ IF prep[w].chans = {}
       THEN published' = published \cup {e} /\ UNCHANGED delivery
       ELSE /\ delivery' = [d \in Delivery |->
                 IF d[1] = e /\ d[2] \in prep[w].chans /\ delivery[d].status = "none"
                 THEN [NoRow EXCEPT !.status = "pending", !.due = TRUE] ELSE delivery[d]]
            /\ UNCHANGED published
    /\ prep' = [prep EXCEPT ![w] = NoPrep]
    /\ UNCHANGED <<emitted, channel, hold, stop, opened, edits, crashes>>

(* Mutant: an owner that never comes back keeps the row for ever.            *)
claimableUnowned(d) == Pending(d) /\ delivery[d].due /\ delivery[d].owner = NoWorker /\ ~rowLocked(d)

(* pending, due, the lease absent or past; rows locked by others skipped.    *)
claimable(d) == Pending(d) /\ delivery[d].due /\ ~delivery[d].fresh /\ ~rowLocked(d)

(* The claim reads the channel's max_attempts along with the row; a tick that  *)
(* has started to process its batch claims no more.                          *)
Claim(w, d) ==
  /\ prep[w].at = "idle"
  /\ \A q \in Delivery : hold[w][q].at \in {"none", "claimed"}
  /\ claimable(d)
  /\ hold[w][d].at = "none"
  /\ delivery[d].attempts < MaxClaims
  /\ delivery' = [delivery EXCEPT ![d].owner = w, ![d].fresh = TRUE, ![d].attempts = @ + 1]
  /\ hold' = [hold EXCEPT ![w][d] = [NoHold EXCEPT !.at = "claimed", !.attempts = delivery[d].attempts + 1,
                                                   !.max = channel[d[2]].max]]
  /\ UNCHANGED <<emitted, published, channel, prep, stop, opened, edits, crashes>>

(* attemptDelivery: the provider takes the message, or fails, times out,      *)
(* panics or the config cannot be decrypted.                                 *)
Attempt(w, d) ==
  /\ hold[w][d].at = "claimed"
  /\ \E ok \in BOOLEAN : hold' = [hold EXCEPT ![w][d].at = "attempted", ![w][d].ok = ok]
  /\ UNCHANGED <<tables, prep, stop, opened, edits, crashes>>

(* WHERE status='pending' AND locked_by=$owner AND locked_until>=now(); the   *)
(* mutant leaves the lease out.                                              *)
holdsAnyRow(w, d) == delivery[d].status # "none"
holdsLease(w, d) == Pending(d) /\ delivery[d].owner = w /\ delivery[d].fresh

Drop(w, d) == hold' = [hold EXCEPT ![w][d] = NoHold]

exhausted(w, d) == hold[w][d].attempts >= hold[w][d].max

(* finishNotificationDelivery: the UPDATE locks the row, or                   *)
(* ErrNotificationLeaseLost ends the attempt.                                *)
FinishUpdate(w, d) ==
  /\ hold[w][d].at = "attempted"
  /\ hold[w][d].ok \/ exhausted(w, d)
  /\ ~rowLocked(d)
  /\ IF holdsLease(w, d) THEN hold' = [hold EXCEPT ![w][d].at = "updated"] ELSE Drop(w, d)
  /\ UNCHANGED <<tables, prep, stop, opened, edits, crashes>>

(* SELECT EXISTS(.. event_id=$1 AND status='pending'): other rows as they    *)
(* are committed.                                                           *)
pendingElsewhere(d) == \E q \in Delivery \ {d} : q[1] = d[1] /\ Pending(q)

FinishCheck(w, d) ==
  /\ hold[w][d].at = "updated"
  /\ hold' = [hold EXCEPT ![w][d].at = "checked", ![w][d].last = ~pendingElsewhere(d)]
  /\ UNCHANGED <<tables, prep, stop, opened, edits, crashes>>

Ended(d, s) == [delivery EXCEPT ![d].status = s, ![d].owner = NoWorker, ![d].fresh = FALSE]

(* UPDATE outbox_events waits for a Prepare that has locked the event.        *)
FinishCommit(w, d) ==
  LET mine == hold[w][d] IN
  /\ mine.at = "checked"
  /\ mine.last => \A v \in Worker : ~(prep[v].at = "matched" /\ prep[v].event = {d[1]})
  /\ delivery' = Ended(d, IF mine.ok THEN "delivered" ELSE "dead")
  /\ published' = IF mine.last THEN published \cup {d[1]} ELSE published
  /\ Drop(w, d)
  /\ UNCHANGED <<emitted, channel, prep, stop, opened, edits, crashes>>

(* RetryNotificationDelivery: back to the queue after the backoff.           *)
Retry(w, d) ==
  /\ hold[w][d].at = "attempted" /\ ~hold[w][d].ok /\ ~exhausted(w, d)
  /\ ~rowLocked(d)
  /\ delivery' = IF holdsLease(w, d)
                 THEN [delivery EXCEPT ![d].owner = NoWorker, ![d].fresh = FALSE, ![d].due = FALSE]
                 ELSE delivery
  /\ Drop(w, d)
  /\ UNCHANGED <<emitted, published, channel, prep, stop, opened, edits, crashes>>

(* A Core that stops or loses its database loses its transactions and what   *)
(* it knew; the rows keep their lease.                                       *)
Crash(w) ==
  /\ crashes < MaxCrashes
  /\ crashes' = crashes + 1
  /\ prep' = [prep EXCEPT ![w] = NoPrep]
  /\ hold' = [hold EXCEPT ![w] = [d \in Delivery |-> NoHold]]
  /\ UNCHANGED <<tables, stop, opened, edits>>

(* now() passes locked_until; now() passes available_at.                     *)
LeaseExpires(d) ==
  /\ delivery[d].fresh
  /\ Stalls \/ hold[delivery[d].owner][d].at = "none"
  /\ delivery' = [delivery EXCEPT ![d].fresh = FALSE]
  /\ UNCHANGED <<emitted, published, channel, prep, hold, stop, opened, edits, crashes>>

BackoffEnds(d) ==
  /\ Pending(d) /\ ~delivery[d].due
  /\ delivery' = [delivery EXCEPT ![d].due = TRUE]
  /\ UNCHANGED <<emitted, published, channel, prep, hold, stop, opened, edits, crashes>>

-----------------------------------------------------------------------------
(* Channel operations.  Each names the version it read; one with a stale     *)
(* version gets ErrConflict and changes nothing.                             *)
Edit(c) ==
  /\ ~channel[c].deleted /\ ~channelLocked(c)
  /\ edits < MaxEdits
  /\ edits' = edits + 1

EnableChannel(c) ==
  /\ ~channel[c].enabled
  /\ Edit(c)
  /\ channel' = [channel EXCEPT ![c].enabled = TRUE]
  /\ opened' = TRUE
  /\ UNCHANGED <<emitted, published, delivery, prep, hold, stop, crashes>>

UpdateChannel(c) ==
  /\ Edit(c)
  /\ \E m \in 1 .. MaxAttempts : channel' = [channel EXCEPT ![c].max = m]
  /\ UNCHANGED <<emitted, published, delivery, prep, hold, stop, opened, crashes>>

(* SetNotificationChannelEnabled(false) and DeleteNotificationChannel: the    *)
(* channel row, then terminalizePendingNotificationDeliveries, whose single   *)
(* statement picks the pending rows and the events without another pending    *)
(* one from one snapshot.                                                    *)
StopChannel(c) ==
  LET rows == {d \in Delivery : d[2] = c /\ Pending(d)} IN
  /\ Edit(c)
  /\ \E deletes \in BOOLEAN :
       stop' = [stop EXCEPT ![c] = [at |-> "open", deletes |-> deletes, rows |-> rows,
                                    last |-> {d[1] : d \in {r \in rows : ~pendingElsewhere(r)}}]]
  /\ UNCHANGED <<tables, prep, hold, opened, crashes>>

(* It waits for rows being finished and skips those that are final by then.   *)
CommitStop(c) ==
  LET ended == {d \in stop[c].rows : Pending(d)} IN
  /\ stop[c].at = "open"
  /\ \A d \in stop[c].rows : ~rowLocked(d)
  /\ channel' = [channel EXCEPT ![c].enabled = FALSE, ![c].deleted = @ \/ stop[c].deletes]
  /\ delivery' = [d \in Delivery |-> IF d \in ended THEN Ended(d, "dead")[d] ELSE delivery[d]]
  /\ published' = published \cup (stop[c].last \cap {d[1] : d \in ended})
  /\ stop' = [stop EXCEPT ![c] = NoStop]
  /\ UNCHANGED <<emitted, prep, hold, opened, edits, crashes>>

WorkerStep(w) ==
  \/ PrepareMatch(w) \/ PrepareCommit(w)
  \/ \E e \in Event : PrepareSelect(w, e)
  \/ \E d \in Delivery : Claim(w, d) \/ Attempt(w, d) \/ FinishUpdate(w, d) \/ FinishCheck(w, d)
                         \/ FinishCommit(w, d) \/ Retry(w, d)

Next ==
  \/ \E e \in Event : Emit(e)
  \/ \E w \in Worker : WorkerStep(w) \/ Crash(w)
  \/ \E d \in Delivery : LeaseExpires(d) \/ BackoffEnds(d)
  \/ \E c \in Channel : EnableChannel(c) \/ UpdateChannel(c) \/ StopChannel(c) \/ CommitStop(c)

Spec == Init /\ [][Next]_vars

(* Ticks repeat, the provider call is bounded by notificationTimeout, time     *)
(* passes and an open channel operation ends.                                *)
Fairness ==
  /\ \A w \in Worker : WF_vars(PrepareMatch(w)) /\ WF_vars(PrepareCommit(w))
  /\ \A e \in Event : WF_vars(\E w \in Worker : PrepareSelect(w, e))
  /\ \A d \in Delivery :
       /\ WF_vars(\E w \in Worker : Claim(w, d))
       /\ \A w \in Worker : /\ WF_vars(Attempt(w, d)) /\ WF_vars(FinishUpdate(w, d))
                             /\ WF_vars(FinishCheck(w, d)) /\ WF_vars(FinishCommit(w, d))
                             /\ WF_vars(Retry(w, d))
       /\ WF_vars(LeaseExpires(d)) /\ WF_vars(BackoffEnds(d))
  /\ \A c \in Channel : WF_vars(CommitStop(c))

FairSpec == Spec /\ Fairness

-----------------------------------------------------------------------------
(* A channel that has been disabled or deleted has no delivery left to send   *)
(* (README.md:299 "停用或删除会把尚未完成的投递置为 dead"), also when an event is   *)
(* being matched to it at that moment.                                       *)
StoppedChannelQuiet == \A d \in Delivery : Pending(d) => channel[d[2]].enabled

(* An event is only published, and so released to the history purge, when      *)
(* each of its deliveries has ended (store_integration_test.go:1669 fails on   *)
(* "event published before all channels"), as long as no channel is enabled:   *)
(* one enabled between the snapshots of two Prepares of the event adds a       *)
(* delivery after the others have ended.                                     *)
PublishedIsSettled ==
  ~opened => \A d \in Delivery : Pending(d) => d[1] \notin published

(* A worker that ends a delivery is the one that claimed it last: after its    *)
(* lease has passed to another worker, a late answer of the provider does not  *)
(* decide the row (docs/code-audit.md:112).                                  *)
LatestClaimEnds ==
  \A w \in Worker, d \in Delivery : ending(w, d) => hold[w][d].attempts = delivery[d].attempts

(* When all deliveries of an event have ended the event is published: a       *)
(* failing channel does not block the outbox (README.md:291 "投递耗尽后进入      *)
(* dead，不会永久阻塞 Outbox").                                               *)
EndedEventPublished ==
  \A e \in Event :
    (/\ \E c \in Channel : delivery[<<e, c>>].status # "none"
     /\ \A c \in Channel : ~Pending(<<e, c>>)) => e \in published

(* Each delivery ends, after at most max_attempts answers of the provider.     *)
DeliveriesEnd == \A d \in Delivery : Pending(d) ~> ~Pending(d)
=============================================================================
