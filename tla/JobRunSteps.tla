---------------------------- MODULE JobRunSteps ----------------------------
(***************************************************************************)
(* What the steps of JobRuns have in common.  Whatever transaction a step  *)
(* is, each run it finds stays as it is, moves along the status graph,     *)
(* is born, or is the retry of the one run the step fails, and the outbox  *)
(* gets the events of exactly that.  JobRunsProofs proves the invariants   *)
(* from this shape alone.                                                  *)
(***************************************************************************)
EXTENDS JobRuns, FiniteSetTheorems, TLAPS

-----------------------------------------------------------------------------
(* The rows a transaction writes are rows. *)

LEMMA RunIds == RunId \subseteq Int /\ NoRun \notin RunId
BY RunsAssumption DEF RunId

LEMMA FinishedRow ==
  ASSUME NEW x \in Row, NEW s \in TerminalStates
  PROVE  [x EXCEPT !.status = s, !.due = FALSE, !.token = 0] \in Row
<1>1. 0 \in Nat
  OBVIOUS
<1>2. QED
  BY <1>1, ZenonT(30) DEF Row

LEMMA RetryRow ==
  ASSUME NEW x \in Row, NEW r \in RunId, NEW id \in RunId
  PROVE  [x EXCEPT !.status = "pending", !.due = FALSE, !.token = 0,
                   !.attempt = x.attempt + 1, !.retryOf = r, !.ext = id] \in Row
<1>1. 0 \in Nat /\ x.attempt + 1 \in Nat
  BY DEF Row
<1>2. "pending" \in ActiveStates
  BY DEF ActiveStates
<1>3. QED
  BY <1>1, <1>2, ZenonT(60) DEF Row

LEMMA ClaimedRow ==
  ASSUME NEW x \in Row
  PROVE  [x EXCEPT !.status = "running", !.due = FALSE,
                   !.token = x.token + 1] \in Row
<1>1. x.token + 1 \in Nat
  BY DEF Row
<1>2. "running" \in ActiveStates
  BY DEF ActiveStates
<1>3. QED
  BY <1>1, <1>2, ZenonT(60) DEF Row

LEMMA PreparedRow ==
  ASSUME NEW x \in Row, NEW n \in Nat
  PROVE  [x EXCEPT !.status = "waiting_callback", !.due = FALSE, !.addr = TRUE,
                   !.token = n] \in Row
<1>1. "waiting_callback" \in ActiveStates
  BY DEF ActiveStates
<1>2. QED
  BY <1>1, ZenonT(60) DEF Row

LEMMA DueRow ==
  ASSUME NEW x \in Row
  PROVE  [x EXCEPT !.due = TRUE] \in Row
BY ZenonT(30) DEF Row

LEMMA InsertedRow ==
  ASSUME NEW r \in RunId, NEW j \in Job, NEW s \in {"pending", "skipped"},
         NEW n \in Nat, NEW head \in RunId, NEW parent \in RunId \cup {NoRun},
         NEW resched \in BOOLEAN
  PROVE  Inserted(r, j, s, n, head, parent, resched) \in Row
BY DEF Inserted, AbsentRow, Row, ActiveStates, TerminalStates

LEMMA WriteType ==
  ASSUME TypeOK, NEW rows, Write(rows),
         \A r \in RunId : r \in DOMAIN rows => rows[r] \in Row
  PROVE  runs' \in [RunId -> Row]
BY DEF TypeOK, Write

LEMMA EmitType ==
  ASSUME TypeOK, NEW E, Emit(E)
  PROVE  events' \in [RunId -> [Kind -> Nat]]
BY DEF TypeOK, Emit

-----------------------------------------------------------------------------
(* The shape of a step: what happens to a run, and to its events, in any   *)
(* transaction.  f is the run the step replaces by a retry, if any.        *)

Status(r) == runs[r].status

SameLineage(x, y) == /\ x.parent = y.parent /\ x.group = y.group
                     /\ x.total = y.total /\ x.resched = y.resched

SameIdentity(r) == /\ runs'[r].job = runs[r].job
                   /\ runs'[r].attempt = runs[r].attempt
                   /\ runs'[r].root = runs[r].root
                   /\ runs'[r].retryOf = runs[r].retryOf
                   /\ SameLineage(runs'[r], runs[r])

Announce(r, K) ==
  \A k \in Kind : events'[r][k] = events[r][k] + (IF k \in K THEN 1 ELSE 0)

Unmoved(r) == /\ runs'[r].status = Status(r)
              /\ SameIdentity(r)
              /\ ~ IsActive(r) => runs'[r] = runs[r]
              /\ Announce(r, {})
              /\ r >= nextId => r >= nextId'

MovesTo(s) ==
  CASE s = "pending" -> {"running", "cancelled"}
    [] s = "running" -> {"waiting_callback", "failed", "timed_out", "cancelled"}
    [] s = "waiting_callback" -> {"succeeded", "failed", "timed_out", "cancelled"}
    [] OTHER -> {}

Moved(r, f) ==
  /\ IsActive(r) /\ runs'[r].status \in MovesTo(Status(r))
  /\ SameIdentity(r)
  /\ Announce(r, {runs'[r].status} \cup
                   (IF runs'[r].status \in {"failed", "timed_out"} /\ r # f
                    THEN {"exhausted"} ELSE {}))

Born(r) == /\ nextId <= r /\ r < nextId'
           /\ runs'[r].status \in {"pending", "skipped"}
           /\ runs'[r].job \in Job
           /\ runs'[r].attempt = 1 /\ runs'[r].root = r
           /\ runs'[r].retryOf = NoRun
           /\ Announce(r, {runs'[r].status})

Retried(r, f) == /\ f \in RunId /\ r = nextId /\ r < nextId'
                 /\ runs'[r].status = "pending"
                 /\ runs'[r].job = runs[f].job
                 /\ runs'[r].attempt = runs[f].attempt + 1
                 /\ runs'[r].root = runs[f].root
                 /\ runs'[r].retryOf = f
                 /\ SameLineage(runs'[r], runs[f])
                 /\ shouldRetry(f)
                 /\ Announce(r, {"pending"})

Shape(f) ==
  /\ runs' \in [RunId -> Row]
  /\ events' \in [RunId -> [Kind -> Nat]]
  /\ nextId' \in nextId .. MaxRuns + 1
  /\ \A r \in RunId : Unmoved(r) \/ Moved(r, f) \/ Born(r) \/ Retried(r, f)
  /\ f # NoRun => /\ f \in RunId /\ nextId \in RunId
                  /\ Moved(f, f) /\ runs'[f].status \in {"failed", "timed_out"}
                  /\ Retried(nextId, f)

LEMMA PairSet ==
  ASSUME NEW S, NEW c, NEW r, NEW k
  PROVE  <<r, k>> \in {<<x, c>> : x \in S} <=> r \in S /\ k = c
OBVIOUS

LEMMA EmitAnnounces ==
  ASSUME TypeOK, NEW E, Emit(E), NEW r \in RunId, NEW K,
         \A k \in Kind : <<r, k>> \in E <=> k \in K
  PROVE  Announce(r, K)
BY DEF TypeOK, Emit, Announce

LEMMA EmitsNothing ==
  ASSUME TypeOK, NEW E, Emit(E), NEW r \in RunId, \A k \in Kind : <<r, k>> \notin E
  PROVE  Announce(r, {})
BY DEF TypeOK, Emit, Announce

LEMMA NextIdRange ==
  ASSUME TypeOK
  PROVE  nextId \in nextId .. MaxRuns + 1
BY RunsAssumption DEF TypeOK

LEMMA ActiveIsOld ==
  ASSUME TypeOK, NEW r \in RunId, runs[r].status # "absent"
  PROVE  r < nextId
BY RunIds DEF TypeOK

LEMMA UnchangedShape ==
  ASSUME TypeOK, UNCHANGED <<runs, events, nextId>>
  PROVE  Shape(NoRun)
<1>1. ASSUME NEW r \in RunId PROVE Unmoved(r)
  BY RunIds DEF TypeOK, Unmoved, Status, SameIdentity, SameLineage, Announce, IsActive
<1>2. QED
  BY <1>1 DEF TypeOK, Shape

(* A row the transaction leaves out keeps its shape. *)
LEMMA UntouchedRow ==
  ASSUME TypeOK, NEW rows, Write(rows), NEW E, Emit(E), NEW r \in RunId,
         r \notin DOMAIN rows, \A k \in Kind : <<r, k>> \notin E,
         r >= nextId => r >= nextId'
  PROVE  Unmoved(r)
<1>1. Announce(r, {})
  BY EmitsNothing
<1>2. runs'[r] = runs[r]
  BY DEF Write
<1>3. QED
  BY <1>1, <1>2 DEF Unmoved, Status, SameIdentity, SameLineage, IsActive

LEMMA FinishedFields ==
  ASSUME TypeOK, NEW r \in RunId, NEW s, runs'[r] = Finished(r, s)
  PROVE  runs'[r].status = s /\ SameIdentity(r)
<1>1. runs[r] \in Row
  BY DEF TypeOK
<1>2. QED
  BY <1>1 DEF Finished, Status, SameIdentity, SameLineage, Row

LEMMA CancelledShape ==
  ASSUME TypeOK, NEW r \in RunId, NEW f, IsActive(r),
         runs'[r] = Finished(r, "cancelled"), Announce(r, {"cancelled"})
  PROVE  Moved(r, f)
<1>1. runs'[r].status = "cancelled" /\ SameIdentity(r)
  BY FinishedFields
<1>2. "cancelled" \in MovesTo(Status(r))
  BY DEF IsActive, ActiveStates, MovesTo, Status
<1>3. QED
  BY <1>1, <1>2 DEF Moved

LEMMA InsertedFields ==
  ASSUME NEW r \in RunId, NEW j \in Job, NEW s, NEW n, NEW head, NEW parent,
         NEW resched, runs'[r] = Inserted(r, j, s, n, head, parent, resched)
  PROVE  /\ runs'[r].status = s /\ runs'[r].job = j
         /\ runs'[r].attempt = 1 /\ runs'[r].root = r
         /\ runs'[r].retryOf = NoRun
BY DEF Inserted, AbsentRow, Status

LEMMA InsertTriggerShape ==
  ASSUME TypeOK, NEW j \in Job, NEW s \in {"pending", "skipped"},
         NEW n \in Nat \ {0}, NEW resched \in BOOLEAN,
         InsertTrigger(j, s, n, resched)
  PROVE  Shape(NoRun)
<1> DEFINE ids == NewIds(n)
           covered == applyBlockAction(j)
           rows == [r \in ids \cup covered |->
                      IF r \in ids THEN Inserted(r, j, s, n, nextId, NoRun, resched)
                                   ELSE Finished(r, "cancelled")]
           E == {<<r, s>> : r \in ids} \cup Cancelled(covered)
<1>1. Write(rows) /\ Emit(E) /\ nextId' = nextId + n /\ HasRoom(n)
  BY DEF InsertTrigger
<1>2. covered \subseteq RunId /\ \A r \in covered : IsActive(r) /\ r < nextId
  BY ActiveIsOld DEF applyBlockAction, ActiveRuns, IsActive, ActiveStates
<1>3. /\ nextId \in Int /\ nextId \in RunId /\ nextId' \in nextId .. MaxRuns + 1
      /\ ids \subseteq RunId
      /\ \A r \in RunId : r \in ids <=> nextId <= r /\ r < nextId'
  BY <1>1, RunsAssumption DEF TypeOK, HasRoom, RunId, NewIds
<1>4. ASSUME NEW r \in RunId, r \in DOMAIN rows PROVE rows[r] \in Row
  <2>1. CASE r \in ids
    BY <2>1, <1>3, InsertedRow
  <2>2. CASE r \notin ids
    <3>1. runs[r] \in Row /\ "cancelled" \in TerminalStates
      BY DEF TypeOK, TerminalStates
    <3>2. QED
      BY <2>2, <3>1, <1>4, FinishedRow DEF Finished
  <2>3. QED
    BY <2>1, <2>2
<1>5. runs' \in [RunId -> Row] /\ events' \in [RunId -> [Kind -> Nat]]
  <2>1. runs' \in [RunId -> Row]
    BY <1>1, <1>4, WriteType
  <2>2. QED
    BY <1>1, <2>1, EmitType
<1>6. ASSUME NEW r \in RunId PROVE Unmoved(r) \/ Moved(r, NoRun) \/ Born(r)
  <2>1. CASE r \in ids
    <3>1. runs'[r] = Inserted(r, j, s, n, nextId, NoRun, resched)
      BY <1>1, <2>1 DEF Write
    <3>2. \A k \in Kind : <<r, k>> \in E <=> k \in {s}
      <4>1. r \notin covered
        BY <1>2, <1>3, <2>1, RunIds
      <4>2. QED
        BY <2>1, <4>1, PairSet DEF Cancelled
    <3>3. Announce(r, {s})
      BY <1>1, <3>2, EmitAnnounces
    <3>4. QED
      BY <3>1, <3>3, <1>3, <2>1, InsertedFields DEF Born
  <2>2. CASE r \in covered
    <3>1. runs'[r] = Finished(r, "cancelled")
      BY <1>1, <1>2, <1>3, <2>2 DEF Write
    <3>2. \A k \in Kind : <<r, k>> \in E <=> k \in {"cancelled"}
      <4>1. r \notin ids
        BY <1>2, <1>3, <2>2, RunIds
      <4>2. QED
        BY <2>2, <4>1, PairSet DEF Cancelled
    <3>3. Announce(r, {"cancelled"})
      BY <1>1, <3>2, EmitAnnounces
    <3>4. QED
      BY <3>1, <3>3, <1>2, <2>2, CancelledShape
  <2>3. CASE r \notin ids \cup covered
    <3>1. r \notin DOMAIN rows /\ \A k \in Kind : <<r, k>> \notin E
      BY <2>3 DEF Cancelled
    <3>2. r >= nextId => r >= nextId'
      BY <1>3, <2>3, RunIds
    <3>3. QED
      BY <1>1, <3>1, <3>2, UntouchedRow
  <2>4. QED
    BY <2>1, <2>2, <2>3
<1>7. QED
  BY <1>3, <1>5, <1>6 DEF Shape

LEMMA ClaimShape ==
  ASSUME TypeOK, NEW S \in SUBSET RunId, ClaimRuns(S)
  PROVE  Shape(NoRun)
<1> DEFINE rows == [r \in S |-> Claimed(r)]
<1>1. Write(rows) /\ Emit(emitRunning(S)) /\ nextId' = nextId
  BY DEF ClaimRuns
<1>2. \A r \in S : runs[r].status \in {"pending", "running"}
  BY DEF ClaimRuns, Claimable
<1>3. ASSUME NEW r \in RunId, r \in DOMAIN rows PROVE rows[r] \in Row
  <2>1. runs[r] \in Row
    BY DEF TypeOK
  <2>2. QED
    BY <1>3, <2>1, ClaimedRow DEF Claimed
<1>4. runs' \in [RunId -> Row] /\ events' \in [RunId -> [Kind -> Nat]]
  <2>1. runs' \in [RunId -> Row]
    BY <1>1, <1>3, WriteType
  <2>2. QED
    BY <1>1, <2>1, EmitType
<1>5. ASSUME NEW r \in RunId PROVE Unmoved(r) \/ Moved(r, NoRun)
  <2>1. CASE r \in S
    <3>1. runs'[r] = Claimed(r)
      BY <1>1, <2>1 DEF Write
    <3>2. runs'[r].status = "running" /\ SameIdentity(r)
      <4>1. runs[r] \in Row
        BY DEF TypeOK
      <4>2. QED
        BY <3>1, <4>1 DEF Claimed, Row, Status, SameIdentity, SameLineage
    <3>3. CASE runs[r].status = "pending"
      <4>1. \A k \in Kind : <<r, k>> \in emitRunning(S) <=> k \in {"running"}
        BY <2>1, <3>3, PairSet DEF emitRunning
      <4>2. Announce(r, {"running"})
        BY <1>1, <4>1, EmitAnnounces
      <4>3. QED
        BY <3>2, <3>3, <4>2 DEF Moved, MovesTo, IsActive, ActiveStates, Status
    <3>4. CASE runs[r].status = "running"
      <4>1. \A k \in Kind : <<r, k>> \notin emitRunning(S)
        BY <2>1, <3>4, PairSet DEF emitRunning
      <4>2. Announce(r, {})
        BY <1>1, <4>1, EmitsNothing
      <4>3. QED
        BY <1>1, <3>2, <3>4, <4>2 DEF Unmoved, IsActive, ActiveStates, Status
    <3>5. QED
      BY <1>2, <2>1, <3>3, <3>4
  <2>2. CASE r \notin S
    <3>1. r \notin DOMAIN rows /\ \A k \in Kind : <<r, k>> \notin emitRunning(S)
      BY <2>2 DEF emitRunning
    <3>2. r >= nextId => r >= nextId'
      BY <1>1
    <3>3. QED
      BY <1>1, <3>1, <3>2, UntouchedRow
  <2>3. QED
    BY <2>1, <2>2
<1>6. nextId' \in nextId .. MaxRuns + 1
  BY <1>1, NextIdRange
<1>7. QED
  BY <1>4, <1>5, <1>6 DEF Shape

(* One row written, one set of events: the shape follows from that row's.  *)
LEMMA OneRowShape ==
  ASSUME TypeOK, NEW r \in RunId, NEW y \in Row, Write([x \in {r} |-> y]),
         NEW K, Emit({<<r, k>> : k \in K}), nextId' = nextId,
         runs'[r] = y /\ Announce(r, K) => Unmoved(r) \/ Moved(r, NoRun)
  PROVE  Shape(NoRun)
<1>1. runs'[r] = y
  BY DEF Write
<1>2. \A x \in RunId, k \in Kind : <<x, k>> \in {<<r, c>> : c \in K} <=> x = r /\ k \in K
  OBVIOUS
<1>3. Announce(r, K)
  BY <1>2, EmitAnnounces
<1>4. ASSUME NEW x \in RunId, x # r PROVE Unmoved(x)
  <2>1. x \notin DOMAIN [z \in {r} |-> y]
    BY <1>4
  <2>2. \A k \in Kind : <<x, k>> \notin {<<r, c>> : c \in K}
    BY <1>2, <1>4
  <2>3. QED
    BY <2>1, <2>2, UntouchedRow
<1>5. runs' \in [RunId -> Row] /\ events' \in [RunId -> [Kind -> Nat]]
  <2>1. \A x \in RunId : x \in DOMAIN [z \in {r} |-> y] => [z \in {r} |-> y][x] \in Row
    OBVIOUS
  <2>2. runs' \in [RunId -> Row]
    BY <2>1, WriteType
  <2>3. QED
    BY <2>2, EmitType
<1>6. nextId' \in nextId .. MaxRuns + 1
  BY NextIdRange
<1>7. QED
  BY <1>1, <1>3, <1>4, <1>5, <1>6 DEF Shape

LEMMA TimePassesShape ==
  ASSUME TypeOK, NEW r \in RunId, TimePasses(r)
  PROVE  Shape(NoRun)
<1> DEFINE y == [runs[r] EXCEPT !.due = TRUE]
           K == {}
<1>1. y \in Row
  BY DueRow DEF TypeOK
<1>2. Write([x \in {r} |-> y]) /\ nextId' = nextId /\ events' = events /\ IsActive(r)
  BY DEF TimePasses
<1>3. Emit({<<r, k>> : k \in K})
  BY <1>2 DEF Emit, TypeOK
<1>4. ASSUME runs'[r] = y, Announce(r, K) PROVE Unmoved(r)
  <2>1. runs[r] \in Row
    BY DEF TypeOK
  <2>2. QED
    BY <1>2, <1>4, <2>1 DEF Unmoved, Status, SameIdentity, SameLineage, Row
<1>5. QED
  BY <1>1, <1>2, <1>3, <1>4, OneRowShape

LEMMA CancelShape ==
  ASSUME TypeOK, NEW r \in RunId, CancelRun(r)
  PROVE  Shape(NoRun)
<1>1. CASE UNCHANGED <<runs, events, nextId>>
  BY <1>1, UnchangedShape
<1>2. CASE /\ IsActive(r) /\ Write([x \in {r} |-> Finished(r, "cancelled")])
           /\ Emit(Cancelled({r})) /\ nextId' = nextId
  <2> DEFINE K == {"cancelled"}
  <2>1. Finished(r, "cancelled") \in Row
    <3>1. runs[r] \in Row /\ "cancelled" \in TerminalStates
      BY DEF TypeOK, TerminalStates
    <3>2. QED
      BY <3>1, FinishedRow DEF Finished
  <2>2. Cancelled({r}) = {<<r, k>> : k \in K}
    BY DEF Cancelled
  <2>3. Emit({<<r, k>> : k \in K})
    BY <1>2, <2>2
  <2>4. runs'[r] = Finished(r, "cancelled") /\ Announce(r, K) => Moved(r, NoRun)
    BY <1>2, CancelledShape
  <2>5. QED
    BY <1>2, <2>1, <2>3, <2>4, OneRowShape
<1>3. QED
  BY <1>1, <1>2 DEF CancelRun, cancellable

LEMMA PrepareShape ==
  ASSUME TypeOK, NEW w \in work, PrepareClaimedExecutorDispatch(w)
  PROVE  Shape(NoRun)
<1> DEFINE r == w.run
           y == Prepared(r, w.lease)
           K == {"waiting_callback"}
<1>1. r \in RunId /\ w.lease \in Nat /\ runs[r] \in Row
  BY DEF TypeOK
<1>2. y \in Row
  BY <1>1, PreparedRow DEF Prepared
<1>3. /\ runs[r].status = "running" /\ nextId' = nextId
      /\ Write([x \in {w.run} |-> Prepared(x, w.lease)])
      /\ Emit({<<r, "waiting_callback">>})
  BY DEF PrepareClaimedExecutorDispatch, holdsLease
<1>4. Write([x \in {r} |-> y])
  BY <1>3, <1>1 DEF Write
<1>5. Emit({<<r, k>> : k \in K})
  <2>1. {<<r, k>> : k \in K} = {<<r, "waiting_callback">>}
    OBVIOUS
  <2>2. QED
    BY <1>3, <2>1
<1>6. ASSUME runs'[r] = y, Announce(r, K) PROVE Moved(r, NoRun)
  <2>1. runs'[r].status = "waiting_callback" /\ SameIdentity(r)
    BY <1>1, <1>6 DEF Prepared, Status, SameIdentity, SameLineage, Row
  <2>2. QED
    BY <1>3, <1>6, <2>1 DEF Moved, MovesTo, Status, IsActive, ActiveStates
<1>7. QED
  BY <1>1, <1>2, <1>3, <1>4, <1>5, <1>6, OneRowShape

(* An attempt ends in s: running or waiting, it moves; f says whether a    *)
(* retry takes over.                                                       *)
LEMMA FailedMove ==
  ASSUME TypeOK, NEW r \in RunId, NEW s \in {"failed", "timed_out"},
         runs[r].status \in {"running", "waiting_callback"},
         runs'[r] = Finished(r, s), NEW f,
         Announce(r, {s} \cup (IF r # f THEN {"exhausted"} ELSE {}))
  PROVE  Moved(r, f) /\ runs'[r].status = s
<1>1. runs'[r].status = s /\ SameIdentity(r)
  BY FinishedFields
<1>2. s \in MovesTo(Status(r))
  BY DEF MovesTo, Status
<1>3. IsActive(r)
  BY DEF IsActive, ActiveStates
<1>4. QED
  BY <1>1, <1>2, <1>3 DEF Moved

LEMMA ExhaustedShape ==
  ASSUME TypeOK, NEW r \in RunId, NEW s \in {"failed", "timed_out"},
         runs[r].status \in {"running", "waiting_callback"},
         EndFailed(r, s), ~ shouldRetry(r)
  PROVE  Shape(NoRun)
<1> DEFINE y == Finished(r, s)
           K == {s} \cup (IF r # NoRun THEN {"exhausted"} ELSE {})
<1>1. y \in Row
  <2>1. runs[r] \in Row /\ s \in TerminalStates
    BY DEF TypeOK, TerminalStates
  <2>2. QED
    BY <2>1, FinishedRow DEF Finished
<1>2. /\ Write([x \in {r} |-> y]) /\ nextId' = nextId
      /\ Emit({<<r, s>>, <<r, "exhausted">>})
  BY DEF EndFailed
<1>3. Emit({<<r, k>> : k \in K})
  <2>1. K = {s, "exhausted"}
    BY RunIds
  <2> HIDE DEF K
  <2>2. {<<r, k>> : k \in K} = {<<r, s>>, <<r, "exhausted">>}
    BY <2>1
  <2>3. QED
    BY <1>2, <2>2
<1>4. runs'[r] = y /\ Announce(r, K) => Moved(r, NoRun)
  BY FailedMove
<1> HIDE DEF y, K
<1>5. QED
  BY <1>1, <1>2, <1>3, <1>4, OneRowShape

LEMMA RetryFields ==
  ASSUME NEW r, runs[r] \in Row, NEW y, y = insertRetryRunTx(r)
  PROVE  /\ y.status = "pending" /\ y.job = runs[r].job
         /\ y.attempt = runs[r].attempt + 1 /\ y.root = runs[r].root
         /\ y.retryOf = r /\ SameLineage(y, runs[r])
BY DEF insertRetryRunTx, Row, SameLineage

LEMMA RetriedShape ==
  ASSUME TypeOK, NEW r \in RunId, NEW s \in {"failed", "timed_out"},
         runs[r].status \in {"running", "waiting_callback"},
         EndFailed(r, s), shouldRetry(r)
  PROVE  Shape(r)
<1> DEFINE rows == [x \in {r, nextId} |-> IF x = r THEN Finished(r, s)
                                                    ELSE insertRetryRunTx(r)]
           E == {<<r, s>>, <<nextId, "pending">>}
<1>1. Write(rows) /\ Emit(E) /\ nextId' = nextId + 1 /\ HasRoom(1)
  BY DEF EndFailed
<1>2. /\ nextId \in RunId /\ nextId \in Int
      /\ nextId' \in nextId .. MaxRuns + 1
  BY <1>1, RunsAssumption DEF TypeOK, HasRoom, RunId
<1>3. r < nextId /\ r # nextId
  BY <1>2, ActiveIsOld, RunIds
<1>4. ASSUME NEW x \in RunId, x \in DOMAIN rows PROVE rows[x] \in Row
  <2>1. runs[r] \in Row /\ s \in TerminalStates
    BY DEF TypeOK, TerminalStates
  <2>2. Finished(r, s) \in Row
    BY <2>1, FinishedRow DEF Finished
  <2>3. insertRetryRunTx(r) \in Row
    BY <2>1, <1>2, RetryRow DEF insertRetryRunTx
  <2>4. QED
    BY <2>2, <2>3, <1>4
<1>5. runs' \in [RunId -> Row] /\ events' \in [RunId -> [Kind -> Nat]]
  <2>1. runs' \in [RunId -> Row]
    BY <1>1, <1>4, WriteType
  <2>2. QED
    BY <1>1, <2>1, EmitType
<1>6. Moved(r, r) /\ runs'[r].status = s
  <2>1. runs'[r] = Finished(r, s)
    BY <1>1 DEF Write
  <2>2. \A k \in Kind : <<r, k>> \in E <=> k \in {s}
    BY <1>3
  <2>3. Announce(r, {s})
    BY <1>1, <2>2, EmitAnnounces
  <2>4. {s} \cup (IF r # r THEN {"exhausted"} ELSE {}) = {s}
    OBVIOUS
  <2>5. Announce(r, {s} \cup (IF r # r THEN {"exhausted"} ELSE {}))
    BY <2>3, <2>4
  <2>6. QED
    BY <2>1, <2>5, FailedMove
<1>7. Retried(nextId, r)
  <2>1. runs'[nextId] = insertRetryRunTx(r)
    BY <1>1, <1>2, <1>3 DEF Write
  <2>2. \A k \in Kind : <<nextId, k>> \in E <=> k \in {"pending"}
    BY <1>3
  <2>3. Announce(nextId, {"pending"})
    BY <1>1, <1>2, <2>2, EmitAnnounces
  <2>4. /\ runs'[nextId].status = "pending"
        /\ runs'[nextId].job = runs[r].job
        /\ runs'[nextId].attempt = runs[r].attempt + 1
        /\ runs'[nextId].root = runs[r].root
        /\ runs'[nextId].retryOf = r /\ SameLineage(runs'[nextId], runs[r])
    <3>1. runs[r] \in Row
      BY DEF TypeOK
    <3>2. QED
      BY <2>1, <3>1, RetryFields DEF Status
  <2>5. QED
    BY <1>1, <1>2, <2>3, <2>4 DEF Retried
<1>8. ASSUME NEW x \in RunId, x # r, x # nextId PROVE Unmoved(x)
  <2>1. x \notin DOMAIN rows /\ \A k \in Kind : <<x, k>> \notin E
    BY <1>8
  <2>2. x >= nextId => x >= nextId'
    BY <1>1, <1>2, <1>8, RunIds
  <2>3. QED
    BY <1>1, <2>1, <2>2, UntouchedRow
<1>9. QED
  BY <1>2, <1>5, <1>6, <1>7, <1>8 DEF Shape

(* A success: the parent ends, children are covered and inserted.          *)
LEMMA SucceededShape ==
  ASSUME TypeOK, NEW r \in RunId, runs[r].status = "waiting_callback",
         runs[r].job \in Job, EndSucceeded(r)
  PROVE  Shape(NoRun)
<1> DEFINE child(i) == Children[runs[r].job][i]
           todo == notDispatched(r)
<1>k. PICK k \in 0 .. MaxShards * Len(Children[runs[r].job]) :
        /\ HasRoom(k) /\ nextId' = nextId + k
        /\ \E live \in [todo -> 1 .. MaxShards] :
           \E own \in [NewIds(k) -> todo] :
           \E head \in [todo -> NewIds(k)] :
              enqueueDependentRuns(r, live, own, head)
  BY DEF EndSucceeded
<1>1. PICK live \in [todo -> 1 .. MaxShards],
           own \in [NewIds(k) -> todo],
           head \in [todo -> NewIds(k)] :
        enqueueDependentRuns(r, live, own, head)
  BY <1>k
<1> DEFINE s(i) == Outcome(child(i), live[i])
           n(i) == Width(child(i), s(i), live[i])
           covered == UNION {applyBlockAction(child(i)) : i \in todo}
           rows == [x \in {r} \cup DOMAIN own \cup covered |->
                      IF x = r THEN Finished(r, "succeeded")
                      ELSE IF x \in DOMAIN own
                      THEN Inserted(x, child(own[x]), s(own[x]), n(own[x]),
                                    head[own[x]], r, FALSE)
                      ELSE Finished(x, "cancelled")]
           E == {<<r, "succeeded">>} \cup Cancelled(covered)
                  \cup {<<x, s(own[x])>> : x \in DOMAIN own}
<1>2. Write(rows) /\ Emit(E)
  BY <1>1 DEF enqueueDependentRuns
<1>3. \A i \in todo : /\ child(i) \in Job /\ child(i) # runs[r].job
                      /\ s(i) \in {"pending", "skipped"} /\ n(i) \in Nat
  <2>1. k \in Nat /\ MaxShards \in Nat
    BY ConfigAssumption
  <2>2. ASSUME NEW i \in todo PROVE child(i) \in Job /\ child(i) # runs[r].job
    BY ConfigAssumption DEF notDispatched
  <2>3. ASSUME NEW i \in todo PROVE n(i) \in Nat
    BY <2>1, <1>1 DEF Width
  <2>4. ASSUME NEW i \in todo PROVE s(i) \in {"pending", "skipped"}
    BY DEF Outcome
  <2>5. QED
    BY <2>2, <2>3, <2>4
<1>4. /\ covered \subseteq RunId \ {r}
      /\ \A x \in covered : IsActive(x) /\ x < nextId
  <2>1. ASSUME NEW i \in todo, NEW x \in applyBlockAction(child(i))
        PROVE  x \in RunId /\ x # r /\ IsActive(x) /\ x < nextId
    <3>1. x \in RunId /\ runs[x].job = child(i) /\ IsActive(x)
      BY <2>1 DEF applyBlockAction, ActiveRuns
    <3>2. QED
      BY <3>1, <1>3, ActiveIsOld DEF IsActive, ActiveStates
  <2>2. QED
    BY <2>1
<1>5. /\ nextId \in Int /\ nextId' \in nextId .. MaxRuns + 1
      /\ DOMAIN own = NewIds(k) /\ NewIds(k) \subseteq RunId
      /\ \A x \in RunId : x \in NewIds(k) <=> nextId <= x /\ x < nextId'
      /\ r < nextId
  <2>1. r < nextId
    BY ActiveIsOld
  <2>2. k \in Nat
    BY ConfigAssumption
  <2>3. QED
    BY <1>k, <2>1, <2>2, RunsAssumption DEF TypeOK, HasRoom, RunId, NewIds
<1> HIDE DEF child, todo, s, n, covered
<1>6. r \notin NewIds(k) /\ covered \cap NewIds(k) = {}
  <2>1. r \notin NewIds(k)
    BY <1>5, RunIds
  <2>2. ASSUME NEW x \in covered PROVE x \notin NewIds(k)
    BY <1>4, <1>5, RunIds
  <2>3. QED
    BY <2>1, <2>2
<1>7. \A x \in NewIds(k) : own[x] \in todo /\ head[own[x]] \in RunId
  BY <1>1, <1>5
<1>8. ASSUME NEW x \in RunId, x \in DOMAIN rows PROVE rows[x] \in Row
  <2>1. CASE x = r
    <3>1. runs[r] \in Row /\ "succeeded" \in TerminalStates
      BY DEF TypeOK, TerminalStates
    <3>2. QED
      BY <2>1, <3>1, FinishedRow DEF Finished
  <2>2. CASE x \in NewIds(k)
    BY <2>2, <1>3, <1>5, <1>6, <1>7, InsertedRow
  <2>3. CASE x # r /\ x \notin NewIds(k)
    <3>1. runs[x] \in Row /\ "cancelled" \in TerminalStates
      BY DEF TypeOK, TerminalStates
    <3>2. rows[x] = Finished(x, "cancelled")
      BY <2>3, <1>5, <1>8
    <3>3. QED
      BY <3>1, <3>2, FinishedRow DEF Finished
  <2>4. QED
    BY <2>1, <2>2, <2>3
<1>9. runs' \in [RunId -> Row] /\ events' \in [RunId -> [Kind -> Nat]]
  <2>1. runs' \in [RunId -> Row]
    BY <1>2, <1>8, WriteType
  <2>2. QED
    BY <1>2, <2>1, EmitType
<1>10. Moved(r, NoRun)
  <2>1. runs'[r] = Finished(r, "succeeded")
    BY <1>2 DEF Write
  <2>2. \A c \in Kind : <<r, c>> \in E <=> c \in {"succeeded"}
    BY <1>4, <1>5, <1>6 DEF Cancelled
  <2>3. Announce(r, {"succeeded"})
    BY <1>2, <2>2, EmitAnnounces
  <2>4. runs'[r].status = "succeeded" /\ SameIdentity(r)
    BY <2>1, FinishedFields
  <2>5. QED
    BY <2>3, <2>4 DEF Moved, MovesTo, Status, IsActive, ActiveStates
<1>11. ASSUME NEW x \in NewIds(k) PROVE Born(x)
  <2>1. runs'[x] = Inserted(x, child(own[x]), s(own[x]), n(own[x]),
                            head[own[x]], r, FALSE)
    BY <1>2, <1>5, <1>6 DEF Write
  <2>2. \A c \in Kind : <<x, c>> \in E <=> c \in {s(own[x])}
    <3>1. x # r /\ x \notin covered /\ x \in DOMAIN own
      BY <1>5, <1>6
    <3>2. QED
      BY <3>1 DEF Cancelled
  <2>3. Announce(x, {s(own[x])})
    BY <1>2, <1>5, <2>2, EmitAnnounces
  <2>4. child(own[x]) \in Job /\ s(own[x]) \in {"pending", "skipped"} /\ x \in RunId
    BY <1>3, <1>5, <1>7
  <2>5. nextId <= x /\ x < nextId'
    BY <1>5
  <2>6. /\ runs'[x].status = s(own[x]) /\ runs'[x].job = child(own[x])
        /\ runs'[x].attempt = 1 /\ runs'[x].root = x /\ runs'[x].retryOf = NoRun
    BY <2>1 DEF Inserted, AbsentRow
  <2>7. QED
    BY <2>3, <2>4, <2>5, <2>6 DEF Born
<1>12. ASSUME NEW x \in covered PROVE Moved(x, NoRun)
  <2>1. x \in RunId /\ x # r /\ x \notin NewIds(k) /\ IsActive(x)
    BY <1>4, <1>6
  <2>2. runs'[x] = Finished(x, "cancelled")
    BY <1>2, <1>5, <2>1 DEF Write
  <2>3. \A c \in Kind : <<x, c>> \in E <=> c \in {"cancelled"}
    BY <1>5, <2>1 DEF Cancelled
  <2>4. Announce(x, {"cancelled"})
    BY <1>2, <2>1, <2>3, EmitAnnounces
  <2>5. QED
    BY <2>1, <2>2, <2>4, CancelledShape
<1>13. ASSUME NEW x \in RunId, x # r, x \notin NewIds(k), x \notin covered
       PROVE  Unmoved(x)
  <2>1. x \notin DOMAIN rows /\ \A c \in Kind : <<x, c>> \notin E
    BY <1>5, <1>13 DEF Cancelled
  <2>2. x >= nextId => x >= nextId'
    BY <1>5, <1>13, RunIds
  <2>3. QED
    BY <1>2, <2>1, <2>2, UntouchedRow
<1>14. QED
  BY <1>5, <1>9, <1>10, <1>11, <1>12, <1>13 DEF Shape
=============================================================================
