--------------------------- MODULE JobRunsProofs ---------------------------
(***************************************************************************)
(* Theorems about JobRuns for every set of jobs, every configuration of    *)
(* them and every bound.                                                   *)
(***************************************************************************)
EXTENDS JobRunSteps

-----------------------------------------------------------------------------
(* Every step has a shape. *)

StepShape == \E f \in RunId \cup {NoRun} : Shape(f)

LEMMA WidthNat ==
  ASSUME NEW j \in Job, NEW n \in LiveNodes(j), NEW s
  PROVE  Width(j, s, n) \in Nat \ {0}
BY ConfigAssumption DEF LiveNodes, Width

LEMMA JobKnown ==
  ASSUME TypeOK, NEW r \in RunId, runs[r].status # "absent"
  PROVE  runs[r].job \in Job
BY DEF TypeOK, Row

LEMMA EndFailedShape ==
  ASSUME TypeOK, NEW r \in RunId, NEW s \in {"failed", "timed_out"},
         runs[r].status \in {"running", "waiting_callback"}, EndFailed(r, s)
  PROVE  StepShape
BY RetriedShape, ExhaustedShape DEF StepShape

LEMMA JobShape ==
  ASSUME TypeOK, NEW j \in Job, JobStep(j)
  PROVE  StepShape
<1>1. CASE EnqueueDue(j)
  <2>1. PICK n \in LiveNodes(j) :
          LET s == IF OverlapPolicy[j] = "parallel" /\ j \notin Broadcast
                   THEN "pending" ELSE Outcome(j, n)
          IN  InsertTrigger(j, s, Width(j, s, n), j \in FixedDelay)
    BY <1>1 DEF EnqueueDue
  <2> DEFINE s == IF OverlapPolicy[j] = "parallel" /\ j \notin Broadcast
                  THEN "pending" ELSE Outcome(j, n)
  <2>2. s \in {"pending", "skipped"}
    BY DEF Outcome
  <2>3. Width(j, s, n) \in Nat \ {0} /\ (j \in FixedDelay) \in BOOLEAN
    BY WidthNat
  <2>4. InsertTrigger(j, s, Width(j, s, n), j \in FixedDelay)
    BY <2>1
  <2> HIDE DEF s
  <2>5. Shape(NoRun)
    BY <2>2, <2>3, <2>4, InsertTriggerShape
  <2>6. QED
    BY <2>5 DEF StepShape
<1>2. CASE \E ks \in {{}} \cup {{k} : k \in Key} : TriggerJob(j, ks)
  <2>1. PICK n \in LiveNodes(j) :
          LET s == IF Action(j) = "skip" THEN "skipped" ELSE "pending"
          IN  InsertTrigger(j, s, Width(j, s, n), FALSE)
    BY <1>2 DEF TriggerJob
  <2> DEFINE s == IF Action(j) = "skip" THEN "skipped" ELSE "pending"
  <2>2. s \in {"pending", "skipped"}
    OBVIOUS
  <2>3. Width(j, s, n) \in Nat \ {0}
    BY WidthNat
  <2>4. InsertTrigger(j, s, Width(j, s, n), FALSE)
    BY <2>1
  <2> HIDE DEF s
  <2>5. Shape(NoRun)
    BY <2>2, <2>3, <2>4, InsertTriggerShape
  <2>6. QED
    BY <2>5 DEF StepShape
<1>3. CASE SkipMisfire(j) \/ \E on \in BOOLEAN : SetJobEnabled(j, on) \/ UpdateJob(j, on)
  <2>1. UNCHANGED <<runs, events, nextId>>
    BY <1>3 DEF SkipMisfire, SetJobEnabled, UpdateJob
  <2>2. QED
    BY <2>1, UnchangedShape DEF StepShape
<1>4. QED
  BY <1>1, <1>2, <1>3 DEF JobStep

LEMMA WorkerShape ==
  ASSUME TypeOK, NEW w \in work, WorkerStep(w) \/ WorkerLost(w)
  PROVE  StepShape
<1>1. w.run \in RunId
  BY DEF TypeOK
<1>2. CASE UNCHANGED <<runs, events, nextId>>
  BY <1>2, UnchangedShape DEF StepShape
<1>3. ASSUME NEW s \in {"failed", "timed_out"}, FailRun(w, s) PROVE StepShape
  <2>1. CASE holdsLease(w) /\ EndFailed(w.run, s)
    BY <1>1, <2>1, EndFailedShape DEF holdsLease
  <2>2. QED
    BY <1>2, <1>3, <2>1 DEF FailRun, db
<1>4. CASE DispatchFailed(w)
  <2>1. CASE acceptsCallback(w.run, w.lease) /\ EndFailed(w.run, "failed")
    BY <1>1, <2>1, EndFailedShape DEF acceptsCallback
  <2>2. QED
    BY <1>2, <1>4, <2>1 DEF DispatchFailed, db
<1>5. CASE PrepareClaimedExecutorDispatch(w)
  BY <1>5, PrepareShape DEF StepShape
<1>6. CASE SendDispatch(w) \/ DispatchAccepted(w) \/ WorkerLost(w)
  BY <1>2, <1>6 DEF SendDispatch, DispatchAccepted, WorkerLost, db
<1>7. QED
  BY <1>3, <1>4, <1>5, <1>6 DEF WorkerStep

LEMMA CallbackShape ==
  ASSUME TypeOK, NEW d \in sent, NEW ok \in BOOLEAN,
         CompleteCallback(d[1], d[2], ok)
  PROVE  StepShape
<1>1. d[1] \in RunId /\ runs[d[1]].status = "waiting_callback"
  BY DEF TypeOK, CompleteCallback, acceptsCallback
<1>2. CASE ok
  BY <1>1, <1>2, SucceededShape, JobKnown DEF StepShape, CompleteCallback
<1>3. CASE ~ ok
  BY <1>1, <1>3, EndFailedShape DEF CompleteCallback
<1>4. QED
  BY <1>2, <1>3

LEMMA NextShape ==
  ASSUME TypeOK, [Next]_vars
  PROVE  StepShape
<1>1. CASE UNCHANGED vars
  BY <1>1, UnchangedShape DEF StepShape, vars, db
<1>2. ASSUME NEW r \in RunId, RunStep(r) PROVE StepShape
  <2>1. CASE ExpireCallbacks(r)
    BY <2>1, EndFailedShape DEF ExpireCallbacks
  <2>2. CASE CancelRun(r)
    BY <2>2, CancelShape DEF StepShape
  <2>3. CASE TimePasses(r)
    BY <2>3, TimePassesShape DEF StepShape
  <2>4. QED
    BY <1>2, <2>1, <2>2, <2>3 DEF RunStep
<1>3. ASSUME NEW S \in SUBSET {r \in RunId : Claimable(r)}, ClaimRuns(S)
      PROVE  StepShape
  BY <1>3, ClaimShape DEF StepShape
<1>4. QED
  BY <1>1, <1>2, <1>3, JobShape, WorkerShape, CallbackShape DEF Next

-----------------------------------------------------------------------------
(* Type correctness *)

LEMMA ShapeType ==
  ASSUME TypeOK, NEW f \in RunId \cup {NoRun}, Shape(f)
  PROVE  /\ (runs \in [RunId -> Row])'
         /\ (nextId \in 1 .. MaxRuns + 1)'
         /\ (\A r \in RunId : /\ runs[r].status = "absent" <=> r >= nextId
                              /\ runs[r].status = "absent" <=> runs[r].job = NoJob)'
         /\ (events \in [RunId -> [Kind -> Nat]])'
<1>1. /\ nextId \in Int /\ nextId' \in Int /\ nextId <= nextId'
      /\ nextId' \in 1 .. MaxRuns + 1
  BY RunsAssumption DEF TypeOK, Shape
<1>2. ASSUME NEW r \in RunId
      PROVE  /\ runs'[r].status = "absent" <=> r >= nextId'
             /\ runs'[r].status = "absent" <=> runs'[r].job = NoJob
  <2>1. r \in Int
    BY RunIds
  <2>2. CASE Unmoved(r)
    BY <2>1, <2>2, <1>1 DEF Unmoved, SameIdentity, Status, TypeOK
  <2>3. CASE Moved(r, f)
    <3>1. r < nextId /\ runs[r].status # "absent"
      BY <2>1, <2>3 DEF Moved, IsActive, ActiveStates, TypeOK
    <3>2. runs'[r].status # "absent"
      BY <2>3 DEF Moved, MovesTo, Status, IsActive, ActiveStates
    <3>3. QED
      BY <2>1, <2>3, <3>1, <3>2, <1>1 DEF Moved, SameIdentity, TypeOK
  <2>4. CASE Born(r)
    BY <2>1, <2>4, <1>1, JobAssumption DEF Born
  <2>5. CASE Retried(r, f)
    <3>1. f \in RunId /\ Moved(f, f)
      BY <2>5, RunIds DEF Retried, Shape
    <3>2. runs[f].job \in Job
      BY <3>1, JobKnown DEF Moved, IsActive, ActiveStates
    <3>3. QED
      BY <2>1, <2>5, <3>2, <1>1, JobAssumption DEF Retried
  <2>6. QED
    BY <2>2, <2>3, <2>4, <2>5 DEF Shape
<1>3. QED
  BY <1>1, <1>2 DEF Shape

RestOK == /\ commands \subseteq RunId
          /\ idem \in [Job -> [Key -> RunId \cup {NoRun}]]
          /\ deps \subseteq RunId \X Job
          /\ armed \in [Job -> BOOLEAN]
          /\ enabled \in [Job -> BOOLEAN]
          /\ work \subseteq [run : RunId, lease : Nat,
                             pc : {"routing", "dispatching", "sent"}]
          /\ sent \subseteq RunId \X Nat
          /\ edits \in 0 .. MaxEdits

LEMMA RearmedType ==
  ASSUME NEW S
  PROVE  Rearmed(S) \in [Job -> BOOLEAN]
BY Zenon DEF Rearmed

LEMMA EndFailedType ==
  ASSUME TypeOK, NEW r, NEW s, EndFailed(r, s)
  PROVE  commands' = commands /\ deps' = deps /\ armed' \in [Job -> BOOLEAN]
BY RearmedType DEF EndFailed, TypeOK

LEMMA InsertTriggerType ==
  ASSUME TypeOK, NEW j \in Job, NEW s, NEW n \in Nat \ {0}, NEW resched,
         InsertTrigger(j, s, n, resched)
  PROVE  commands' \subseteq RunId /\ deps' = deps /\ nextId \in RunId
<1>1. applyBlockAction(j) \subseteq RunId
  BY DEF applyBlockAction, ActiveRuns
<1>2. commands' \subseteq RunId
  BY <1>1 DEF InsertTrigger, enqueueExecutorCancellationTx, TypeOK
<1>3. nextId \in RunId
  BY RunsAssumption DEF InsertTrigger, HasRoom, RunId, TypeOK
<1>4. QED
  BY <1>2, <1>3 DEF InsertTrigger

LEMMA JobType ==
  ASSUME TypeOK, NEW j \in Job, JobStep(j)
  PROVE  RestOK'
<1>1. CASE EnqueueDue(j)
  <2>1. PICK n \in LiveNodes(j) :
          LET s == IF OverlapPolicy[j] = "parallel" /\ j \notin Broadcast
                   THEN "pending" ELSE Outcome(j, n)
          IN  /\ InsertTrigger(j, s, Width(j, s, n), j \in FixedDelay)
              /\ armed' = [armed EXCEPT ![j] =
                             IF j \in FixedDelay THEN s = "skipped"
                                                 ELSE j \notin Once]
    BY <1>1 DEF EnqueueDue
  <2> DEFINE s == IF OverlapPolicy[j] = "parallel" /\ j \notin Broadcast
                  THEN "pending" ELSE Outcome(j, n)
             a == IF j \in FixedDelay THEN s = "skipped" ELSE j \notin Once
  <2>2. /\ InsertTrigger(j, s, Width(j, s, n), j \in FixedDelay)
        /\ armed' = [armed EXCEPT ![j] = a]
    BY <2>1
  <2>3. a \in BOOLEAN /\ Width(j, s, n) \in Nat \ {0}
    BY WidthNat
  <2> HIDE DEF s, a
  <2>4. commands' \subseteq RunId /\ deps' = deps
    BY <2>2, <2>3, InsertTriggerType
  <2>5. armed' \in [Job -> BOOLEAN]
    BY <2>2, <2>3 DEF TypeOK
  <2>6. enabled' \in [Job -> BOOLEAN]
    BY <1>1, Zenon DEF EnqueueDue, TypeOK
  <2>7. QED
    BY <1>1, <2>4, <2>5, <2>6 DEF EnqueueDue, TypeOK, RestOK
<1>2. ASSUME NEW ks, TriggerJob(j, ks) PROVE RestOK'
  <2>1. PICK n \in LiveNodes(j), s \in {"pending", "skipped"} :
          InsertTrigger(j, s, Width(j, s, n), FALSE)
    BY <1>2 DEF TriggerJob
  <2>2. commands' \subseteq RunId /\ deps' = deps /\ nextId \in RunId
    BY <2>1, WidthNat, InsertTriggerType
  <2>3. armed' \in [Job -> BOOLEAN]
    BY <1>2, RearmedType DEF TriggerJob
  <2>4. idem' \in [Job -> [Key -> RunId \cup {NoRun}]]
    BY <1>2, <2>2 DEF TriggerJob, TypeOK
  <2>5. QED
    BY <1>2, <2>2, <2>3, <2>4 DEF TriggerJob, TypeOK, RestOK
<1>3. CASE SkipMisfire(j)
  BY <1>3 DEF SkipMisfire, TypeOK, RestOK
<1>4. ASSUME NEW on \in BOOLEAN, SetJobEnabled(j, on) \/ UpdateJob(j, on)
      PROVE  RestOK'
  <2>1. /\ enabled' = [enabled EXCEPT ![j] = on]
        /\ \E a \in BOOLEAN : armed' = [armed EXCEPT ![j] = a]
        /\ edits < MaxEdits /\ edits' = edits + 1
        /\ UNCHANGED <<commands, deps, idem, work, sent>>
    BY <1>4 DEF SetJobEnabled, UpdateJob, NextArmed
  <2>2. edits' \in 0 .. MaxEdits
    BY <2>1, ConfigAssumption DEF TypeOK
  <2>3. QED
    BY <2>1, <2>2 DEF TypeOK, RestOK
<1>5. QED
  BY <1>1, <1>2, <1>3, <1>4 DEF JobStep

LEMMA WorkerType ==
  ASSUME TypeOK, NEW w \in work, WorkerStep(w) \/ WorkerLost(w)
  PROVE  RestOK'
<1>1. /\ w.run \in RunId /\ w.lease \in Nat
      /\ w \in [run : RunId, lease : Nat, pc : {"routing", "dispatching", "sent"}]
  BY DEF TypeOK
<1>2. \A pc \in {"dispatching", "sent"} :
        [w EXCEPT !.pc = pc] \in
          [run : RunId, lease : Nat, pc : {"routing", "dispatching", "sent"}]
  BY <1>1
<1>3. CASE UNCHANGED db
  BY <1>1, <1>2, <1>3 DEF WorkerStep, WorkerLost, FailRun, SendDispatch,
     DispatchAccepted, DispatchFailed, PrepareClaimedExecutorDispatch, Leave,
     Advance, db, TypeOK, RestOK
<1>4. ASSUME NEW s, EndFailed(w.run, s), Leave(w), UNCHANGED <<idem, enabled, sent, edits>>
      PROVE  RestOK'
  BY <1>4, EndFailedType DEF Leave, TypeOK, RestOK
<1>5. CASE PrepareClaimedExecutorDispatch(w)
  BY <1>2, <1>5 DEF PrepareClaimedExecutorDispatch, Advance, TypeOK, RestOK
<1>6. QED
  BY <1>3, <1>4, <1>5 DEF WorkerStep, WorkerLost, FailRun, SendDispatch,
     DispatchAccepted, DispatchFailed

LEMMA CallbackType ==
  ASSUME TypeOK, NEW d \in sent, NEW ok \in BOOLEAN,
         CompleteCallback(d[1], d[2], ok)
  PROVE  RestOK'
<1> DEFINE r == d[1]
<1>1. r \in RunId /\ runs[r].job \in Job
  BY JobKnown DEF TypeOK, CompleteCallback, acceptsCallback
<1>2. CASE ok
  <2> DEFINE child(i) == Children[runs[r].job][i]
             covered == UNION {applyBlockAction(child(i)) : i \in notDispatched(r)}
  <2>0. PICK live, own, head : enqueueDependentRuns(r, live, own, head)
    BY <1>2 DEF CompleteCallback, EndSucceeded
  <2>1. /\ commands' = commands \cup enqueueExecutorCancellationTx(covered)
        /\ deps' = deps \cup {<<r, child(i)>> : i \in notDispatched(r)}
        /\ armed' = Rearmed({r} \cup covered)
    BY <2>0, Zenon DEF enqueueDependentRuns
  <2>2. commands' \subseteq RunId
    <3>1. \A j : applyBlockAction(j) \subseteq RunId
      BY DEF applyBlockAction, ActiveRuns
    <3>2. covered \subseteq RunId
      BY <3>1
    <3> HIDE DEF covered
    <3>3. QED
      BY <2>1, <3>2 DEF enqueueExecutorCancellationTx, TypeOK
  <2>3. deps' \subseteq RunId \X Job
    <3>1. \A i \in notDispatched(r) : child(i) \in Job
      BY <1>1, ConfigAssumption DEF notDispatched
    <3> HIDE DEF child
    <3>2. QED
      BY <1>1, <2>1, <3>1 DEF TypeOK
  <2>4. armed' \in [Job -> BOOLEAN]
    BY <2>1, RearmedType
  <2>5. QED
    BY <2>2, <2>3, <2>4 DEF CompleteCallback, TypeOK, RestOK
<1>3. CASE ~ ok
  BY <1>3, EndFailedType DEF CompleteCallback, TypeOK, RestOK
<1>4. QED
  BY <1>2, <1>3

LEMMA TypeStep ==
  ASSUME TypeOK, [Next]_vars
  PROVE  TypeOK'
<1>1. RestOK'
  <2>1. CASE UNCHANGED vars
    BY <2>1 DEF vars, db, TypeOK, RestOK
  <2>2. ASSUME NEW r \in RunId, RunStep(r) PROVE RestOK'
    <3>1. CASE ExpireCallbacks(r)
      BY <3>1, EndFailedType DEF ExpireCallbacks, TypeOK, RestOK
    <3>2. CASE CancelRun(r)
      <4>1. armed' \in [Job -> BOOLEAN]
        BY <3>2, RearmedType DEF CancelRun, TypeOK
      <4>2. commands' \subseteq RunId
        BY <3>2 DEF CancelRun, enqueueExecutorCancellationTx, TypeOK
      <4>3. QED
        BY <3>2, <4>1, <4>2 DEF CancelRun, TypeOK, RestOK
    <3>3. CASE TimePasses(r)
      BY <3>3 DEF TimePasses, TypeOK, RestOK
    <3>4. QED
      BY <2>2, <3>1, <3>2, <3>3 DEF RunStep
  <2>3. ASSUME NEW S \in SUBSET RunId, ClaimRuns(S) PROVE RestOK'
    <3>1. ASSUME NEW r \in S
          PROVE  [run |-> r, lease |-> runs[r].token + 1, pc |-> "routing"] \in
                   [run : RunId, lease : Nat, pc : {"routing", "dispatching", "sent"}]
      <4>1. runs[r].token \in Nat
        BY DEF TypeOK, Row
      <4>2. QED
        BY <4>1
    <3>2. QED
      BY <2>3, <3>1 DEF ClaimRuns, TypeOK, RestOK
  <2>4. QED
    BY <2>1, <2>2, <2>3, JobType, WorkerType, CallbackType DEF Next
<1>2. PICK f \in RunId \cup {NoRun} : Shape(f)
  BY NextShape DEF StepShape
<1>3. QED
  BY <1>1, <1>2, ShapeType DEF TypeOK, RestOK

(* The database and the workers stay well-typed in every run, whatever the *)
(* jobs, their policies and the bounds are.                                *)
THEOREM TypeCorrect == Spec => []TypeOK
<1>1. Init => TypeOK
  <2>1. AbsentRow \in Row
    BY DEF AbsentRow, Row
  <2>2. QED
    BY <2>1, RunsAssumption, ConfigAssumption DEF Init, TypeOK, RunId, AbsentRow
<1>2. TypeOK /\ [Next]_vars => TypeOK'
  BY TypeStep
<1>3. QED
  BY <1>1, <1>2, PTL DEF Spec

-----------------------------------------------------------------------------
(* Terminal runs *)

(* No transaction, however late or repeated, rewrites a run that has ended *)
(* (the status conditions of CompleteCallback, ExpireCallbacks, CancelRun, *)
(* FailRun and the claim query).                                           *)
THEOREM TerminalRunsStay == Spec => TerminalIsFinal
<1> DEFINE Kept == \A r \in RunId : runs[r].status \in TerminalStates =>
                     runs'[r] = runs[r]
<1>1. ASSUME TypeOK, [Next]_vars PROVE Kept
  <2>1. PICK f \in RunId \cup {NoRun} : Shape(f)
    BY <1>1, NextShape DEF StepShape
  <2>2. ASSUME NEW r \in RunId, runs[r].status \in TerminalStates
        PROVE  runs'[r] = runs[r]
    <3>1. ~ IsActive(r) /\ runs[r].status # "absent"
      BY <2>2 DEF IsActive, ActiveStates, TerminalStates
    <3>2. ~ (nextId <= r)
      BY <1>1, <3>1, RunIds DEF TypeOK
    <3>3. ~ Born(r) /\ ~ Retried(r, f) /\ ~ Moved(r, f)
      BY <1>1, <3>1, <3>2, RunIds DEF Born, Retried, Moved, TypeOK
    <3>4. QED
      BY <2>1, <3>1, <3>3 DEF Shape, Unmoved
  <2>3. QED
    BY <2>2
<1>2. TypeOK /\ [Next]_vars => [Kept]_vars
  BY <1>1
<1>3. QED
  BY <1>2, TypeCorrect, PTL DEF Spec, TerminalIsFinal

-----------------------------------------------------------------------------
(* One live attempt.  The chain of a run starts at a run that exists, so   *)
(* the chain a new trigger opens is nobody's yet.                          *)

ChainInv == /\ \A r \in RunId : runs[r].status # "absent" =>
                 runs[r].root \in RunId /\ runs[r].root < nextId
            /\ OneLiveAttempt

LEMMA ChainStep ==
  ASSUME TypeOK, ChainInv, NEW f \in RunId \cup {NoRun}, Shape(f)
  PROVE  ChainInv'
<1> DEFINE Old(r) == Unmoved(r) \/ Moved(r, f)
<1>1. /\ nextId \in Int /\ nextId' \in Int /\ nextId <= nextId'
  BY RunsAssumption DEF TypeOK, Shape
<1>2. ASSUME NEW r \in RunId, Old(r)
      PROVE  /\ runs'[r].root = runs[r].root
             /\ IsActive(r)' => IsActive(r)
             /\ runs'[r].status # "absent" => runs[r].status # "absent"
  BY <1>2 DEF Unmoved, Moved, SameIdentity, IsActive, Status, ActiveStates
<1>3. ASSUME NEW r \in RunId, Retried(r, f)
      PROVE  /\ f \in RunId /\ r = nextId /\ runs'[r].root = runs[f].root
             /\ IsActive(f) /\ ~ IsActive(f)'
  <2>1. f \in RunId /\ Moved(f, f) /\ runs'[f].status \in {"failed", "timed_out"}
    BY <1>3, RunIds DEF Retried, Shape
  <2>2. QED
    BY <1>3, <2>1 DEF Retried, Moved, IsActive, ActiveStates
<1>4. ASSUME NEW r \in RunId, runs'[r].status # "absent"
      PROVE  runs'[r].root \in RunId /\ runs'[r].root < nextId'
  <2>1. CASE Old(r)
    <3>1. /\ runs'[r].root = runs[r].root
          /\ runs[r].root \in RunId /\ runs[r].root < nextId
      BY <1>2, <1>4, <2>1 DEF ChainInv
    <3>2. runs[r].root \in Int
      BY <3>1, RunIds
    <3>3. runs[r].root < nextId'
      BY <1>1, <3>1, <3>2
    <3>4. QED
      BY <3>1, <3>3
  <2>2. CASE Born(r)
    BY <2>2 DEF Born
  <2>3. CASE Retried(r, f)
    BY <1>1, <1>3, <2>3, RunIds DEF ChainInv, IsActive, ActiveStates
  <2>4. QED
    BY <2>1, <2>2, <2>3 DEF Shape
<1>5. ASSUME NEW r \in RunId, NEW s \in RunId, Old(r),
             IsActive(r)', IsActive(s)', runs'[r].root = runs'[s].root
      PROVE  r = s
  <2>1. IsActive(r) /\ runs[r].root \in RunId /\ runs[r].root < nextId
    BY <1>2, <1>5 DEF ChainInv, IsActive, ActiveStates
  <2>2. CASE Old(s)
    BY <1>2, <1>5, <2>1, <2>2 DEF ChainInv, OneLiveAttempt
  <2>3. CASE Born(s)
    BY <1>1, <1>2, <1>5, <2>1, <2>3, RunIds DEF Born
  <2>4. CASE Retried(s, f)
    BY <1>2, <1>3, <1>5, <2>1, <2>4 DEF ChainInv, OneLiveAttempt
  <2>5. QED
    BY <2>2, <2>3, <2>4 DEF Shape
<1>6. ASSUME NEW r \in RunId, NEW s \in RunId, ~ Old(r), ~ Old(s),
             runs'[r].root = runs'[s].root
      PROVE  r = s
  <2>1. Born(r) \/ Retried(r, f)
    BY <1>6 DEF Shape
  <2>2. Born(s) \/ Retried(s, f)
    BY <1>6 DEF Shape
  <2>3. ASSUME NEW x \in RunId, Retried(x, f) PROVE runs'[x].root < nextId
    BY <1>3, <2>3 DEF ChainInv, IsActive, ActiveStates
  <2>4. ASSUME NEW x \in RunId, Born(x) PROVE runs'[x].root = x /\ nextId <= x
    BY <2>4 DEF Born
  <2>5. QED
    BY <1>1, <1>3, <1>6, <2>1, <2>2, <2>3, <2>4, RunIds
<1>7. OneLiveAttempt'
  <2>1. ASSUME NEW r \in RunId, NEW s \in RunId,
               IsActive(r)', IsActive(s)', runs'[r].root = runs'[s].root
        PROVE  r = s
    BY <1>5, <1>6, <2>1
  <2>2. QED
    BY <2>1 DEF OneLiveAttempt, IsActive
<1>8. QED
  BY <1>4, <1>7 DEF ChainInv

(* At any time one attempt of an execution is alive: a retry exists only   *)
(* once its predecessor has ended, and nothing brings that one back.       *)
THEOREM OneAttemptAtATime == Spec => []OneLiveAttempt
<1>1. Init => ChainInv
  BY DEF Init, ChainInv, OneLiveAttempt, AbsentRow, IsActive, ActiveStates
<1>2. TypeOK /\ ChainInv /\ [Next]_vars => ChainInv'
  BY ChainStep, NextShape DEF StepShape
<1>3. ChainInv => OneLiveAttempt
  BY DEF ChainInv
<1>4. QED
  BY <1>1, <1>2, <1>3, TypeCorrect, PTL DEF Spec

-----------------------------------------------------------------------------
(* One dispatch per run.  A run passes "running" once; whoever holds it    *)
(* past that point is alone, and nothing was sent before.                  *)

Past(r) == runs[r].status \notin {"absent", "pending", "running"}

FenceInv ==
  /\ \A d \in sent : Past(d[1])
  /\ \A w \in work : w.pc # "routing" => Past(w.run)
  /\ \A w \in work : w.pc = "sent" => <<w.run, w.lease>> \in sent
  /\ \A w \in work : w.pc = "dispatching" => \A d \in sent : d[1] # w.run
  /\ \A v, w \in work : v.pc # "routing" /\ w.pc # "routing" /\ v.run = w.run
                          => v = w
  /\ DispatchedOnce

LEMMA PastStays ==
  ASSUME TypeOK, NEW f \in RunId \cup {NoRun}, Shape(f), NEW r \in RunId, Past(r)
  PROVE  Past(r)'
<1>1. r < nextId
  BY ActiveIsOld DEF Past
<1>2. ~ Born(r) /\ ~ Retried(r, f)
  BY <1>1, RunIds DEF Born, Retried, TypeOK
<1>3. CASE Unmoved(r)
  BY <1>3 DEF Unmoved, Status, Past
<1>4. CASE Moved(r, f)
  BY <1>4 DEF Moved, MovesTo, Status, Past, IsActive, ActiveStates
<1>5. QED
  BY <1>2, <1>3, <1>4 DEF Shape

(* Steps that send nothing and move no worker past routing. *)
LEMMA FenceQuiet ==
  ASSUME TypeOK, FenceInv, StepShape, sent' = sent,
         \A w \in work' : w.pc # "routing" => w \in work
  PROVE  FenceInv'
<1>1. \A r \in RunId : Past(r) => Past(r)'
  BY PastStays DEF StepShape
<1>2. (\A d \in sent : d[1] \in RunId) /\ (\A w \in work : w.run \in RunId)
  BY DEF TypeOK
<1>3. \A d \in sent' : Past(d[1])'
  BY <1>1, <1>2 DEF FenceInv, Past
<1>4. \A w \in work' : w.pc # "routing" => Past(w.run)'
  BY <1>1, <1>2 DEF FenceInv, Past
<1>5. \A w \in work' : w.pc = "sent" => <<w.run, w.lease>> \in sent'
  BY DEF FenceInv
<1>6. \A w \in work' : w.pc = "dispatching" => \A d \in sent' : d[1] # w.run
  BY DEF FenceInv
<1>7. \A v, w \in work' : v.pc # "routing" /\ w.pc # "routing" /\ v.run = w.run
                            => v = w
  BY DEF FenceInv
<1>8. DispatchedOnce'
  BY DEF FenceInv, DispatchedOnce
<1>9. QED
  BY <1>3, <1>4, <1>5, <1>6, <1>7, <1>8 DEF FenceInv, Past

LEMMA FencePrepare ==
  ASSUME TypeOK, FenceInv, StepShape, NEW w \in work,
         PrepareClaimedExecutorDispatch(w)
  PROVE  FenceInv'
<1> DEFINE u == [w EXCEPT !.pc = "dispatching"]
<1>1. /\ w.run \in RunId /\ ~ Past(w.run) /\ runs[w.run].status = "running"
      /\ u.run = w.run /\ u.lease = w.lease /\ u.pc = "dispatching"
  BY DEF TypeOK, PrepareClaimedExecutorDispatch, holdsLease, Past
<1>2. sent' = sent /\ work' = (work \ {w}) \cup {u}
  BY DEF PrepareClaimedExecutorDispatch, Advance
<1>3. Past(w.run)'
  <2>1. runs'[w.run] = Prepared(w.run, w.lease) /\ runs[w.run] \in Row
    BY <1>1 DEF PrepareClaimedExecutorDispatch, Write, TypeOK
  <2>2. runs'[w.run].status = "waiting_callback"
    BY <2>1 DEF Prepared, Row
  <2>3. w.run = w.run
    OBVIOUS
  <2>4. QED
    BY <2>2 DEF Past
<1>4. \A r \in RunId : Past(r) => Past(r)'
  BY PastStays DEF StepShape
<1>5. /\ \A d \in sent : d[1] # w.run
      /\ \A v \in work : v.pc # "routing" => v.run # w.run
  BY <1>1 DEF FenceInv
<1>6. (\A d \in sent : d[1] \in RunId) /\ (\A v \in work : v.run \in RunId)
  BY DEF TypeOK
<1> HIDE DEF u
<1>7. \A d \in sent' : Past(d[1])'
  BY <1>2, <1>4, <1>6 DEF FenceInv, Past
<1>8. \A v \in work' : v.pc # "routing" => Past(v.run)'
  BY <1>1, <1>2, <1>3, <1>4, <1>6 DEF FenceInv, Past
<1>9. \A v \in work' : v.pc = "sent" => <<v.run, v.lease>> \in sent'
  BY <1>1, <1>2 DEF FenceInv
<1>10. \A v \in work' : v.pc = "dispatching" => \A d \in sent' : d[1] # v.run
  BY <1>1, <1>2, <1>5 DEF FenceInv
<1>11. \A v, x \in work' : v.pc # "routing" /\ x.pc # "routing" /\ v.run = x.run
                             => v = x
  BY <1>1, <1>2, <1>5 DEF FenceInv
<1>12. DispatchedOnce'
  BY <1>2 DEF FenceInv, DispatchedOnce
<1>13. QED
  BY <1>7, <1>8, <1>9, <1>10, <1>11, <1>12 DEF FenceInv, Past

LEMMA FenceSend ==
  ASSUME TypeOK, FenceInv, NEW w \in work, SendDispatch(w)
  PROVE  FenceInv'
<1> DEFINE u == [w EXCEPT !.pc = "sent"]
           e == <<w.run, w.lease>>
<1>1. /\ w.pc = "dispatching" /\ u.run = w.run /\ u.lease = w.lease /\ u.pc = "sent"
      /\ e[1] = w.run
  BY DEF TypeOK, SendDispatch
<1>2. sent' = sent \cup {e} /\ work' = (work \ {w}) \cup {u} /\ runs' = runs
  BY DEF SendDispatch, Advance, db
<1>3. /\ Past(w.run) /\ \A d \in sent : d[1] # w.run
      /\ \A v \in work : v.pc # "routing" /\ v.run = w.run => v = w
  BY <1>1 DEF FenceInv
<1>4. e = <<u.run, u.lease>>
  BY <1>1
<1> HIDE DEF u, e
<1>5. \A d \in sent' : Past(d[1])'
  BY <1>1, <1>2, <1>3 DEF FenceInv, Past
<1>6. \A v \in work' : v.pc # "routing" => Past(v.run)'
  BY <1>1, <1>2, <1>3 DEF FenceInv, Past
<1>7. \A v \in work' : v.pc = "sent" => <<v.run, v.lease>> \in sent'
  BY <1>2, <1>4 DEF FenceInv
<1>8. \A v \in work' : v.pc = "dispatching" => \A d \in sent' : d[1] # v.run
  BY <1>1, <1>2, <1>3 DEF FenceInv
<1>9. \A v, x \in work' : v.pc # "routing" /\ x.pc # "routing" /\ v.run = x.run
                            => v = x
  BY <1>1, <1>2, <1>3 DEF FenceInv
<1>10. DispatchedOnce'
  BY <1>1, <1>2, <1>3 DEF FenceInv, DispatchedOnce
<1>11. QED
  BY <1>5, <1>6, <1>7, <1>8, <1>9, <1>10 DEF FenceInv, Past

LEMMA FenceStep ==
  ASSUME TypeOK, FenceInv, [Next]_vars
  PROVE  FenceInv'
<1>1. StepShape
  BY NextShape
<1>2. CASE \E w \in work : PrepareClaimedExecutorDispatch(w)
  BY <1>1, <1>2, FencePrepare
<1>3. CASE \E w \in work : SendDispatch(w)
  BY <1>3, FenceSend
<1>4. ASSUME NEW w \in work, WorkerStep(w) \/ WorkerLost(w),
             ~ PrepareClaimedExecutorDispatch(w), ~ SendDispatch(w)
      PROVE  FenceInv'
  <2>1. sent' = sent /\ work' = work \ {w}
    BY <1>4 DEF WorkerStep, WorkerLost, FailRun, DispatchAccepted,
       DispatchFailed, Leave
  <2>2. QED
    BY <1>1, <2>1, FenceQuiet
<1>5. ASSUME sent' = sent, work' = work PROVE FenceInv'
  BY <1>1, <1>5, FenceQuiet
<1>6. ASSUME NEW S, ClaimRuns(S) PROVE FenceInv'
  <2>1. sent' = sent /\ \A v \in work' : v.pc # "routing" => v \in work
    BY <1>6 DEF ClaimRuns
  <2>2. QED
    BY <1>1, <2>1, FenceQuiet
<1>7. ASSUME NEW r \in RunId, RunStep(r) PROVE FenceInv'
  BY <1>5, <1>7 DEF RunStep, ExpireCallbacks, CancelRun, TimePasses
<1>8. ASSUME NEW j \in Job, JobStep(j) PROVE FenceInv'
  BY <1>5, <1>8 DEF JobStep, EnqueueDue, SkipMisfire, TriggerJob, SetJobEnabled,
     UpdateJob
<1>9. ASSUME NEW d, NEW ok, CompleteCallback(d[1], d[2], ok) PROVE FenceInv'
  BY <1>5, <1>9 DEF CompleteCallback
<1>10. CASE UNCHANGED vars
  BY <1>5, <1>10 DEF vars
<1>11. QED
  BY <1>2, <1>3, <1>4, <1>6, <1>7, <1>8, <1>9, <1>10 DEF Next

(* However often a run is claimed again, by whatever Cores, at most one    *)
(* dispatch of it leaves the system: the lease token admits one worker to  *)
(* PrepareClaimedExecutorDispatch.                                         *)
THEOREM DispatchIsFenced == Spec => []DispatchedOnce
<1>1. Init => FenceInv
  BY DEF Init, FenceInv, DispatchedOnce
<1>2. TypeOK /\ FenceInv /\ [Next]_vars => FenceInv'
  BY FenceStep
<1>3. FenceInv => DispatchedOnce
  BY DEF FenceInv
<1>4. QED
  BY <1>1, <1>2, <1>3, TypeCorrect, PTL DEF Spec

-----------------------------------------------------------------------------
(* The outbox.  A status not yet reached has not been announced. *)

Unreached(s) ==
  CASE s = "absent" -> Kind
    [] s = "pending" -> Kind \ {"pending"}
    [] s = "running" -> Kind \ {"pending", "running"}
    [] s = "waiting_callback" -> Kind \ ActiveStates
    [] s \in {"failed", "timed_out"} -> TerminalStates \ {s}
    [] OTHER -> (TerminalStates \ {s}) \cup {"exhausted"}

OutboxInv ==
  \A r \in RunId :
    /\ \A k \in Kind : events[r][k] <= 1
    /\ runs[r].status # "absent" => events[r][runs[r].status] = 1
    /\ \A k \in Unreached(runs[r].status) : events[r][k] = 0

LEMMA MoveReaches ==
  ASSUME NEW s \in ActiveStates, NEW t \in MovesTo(s)
  PROVE  /\ t \in Unreached(s) /\ "exhausted" \in Unreached(s)
         /\ Unreached(t) \subseteq Unreached(s) \ {t}
         /\ t \notin {"failed", "timed_out"} \/ "exhausted" \notin Unreached(t)
         /\ t \in Kind /\ t # "absent" /\ t # "exhausted"
BY DEF ActiveStates, TerminalStates, Kind, MovesTo, Unreached

LEMMA UnreachedKinds ==
  ASSUME NEW s \in ActiveStates \cup TerminalStates \cup {"absent"}
  PROVE  /\ Unreached(s) \subseteq Kind
         /\ TerminalStates \ {s} \subseteq Unreached(s)
         /\ s \notin {"failed", "timed_out"} => "exhausted" \in Unreached(s)
BY DEF ActiveStates, TerminalStates, Kind, Unreached

LEMMA OutboxStep ==
  ASSUME TypeOK, OutboxInv, NEW f \in RunId \cup {NoRun}, Shape(f)
  PROVE  OutboxInv'
<1> DEFINE Good(r) == /\ \A k \in Kind : events'[r][k] <= 1
                      /\ runs'[r].status # "absent" => events'[r][runs'[r].status] = 1
                      /\ \A k \in Unreached(runs'[r].status) : events'[r][k] = 0
<1>1. \A r \in RunId, k \in Kind : events[r][k] \in Nat
  BY DEF TypeOK
<1>2. \A r \in RunId : runs[r].status \in ActiveStates \cup TerminalStates \cup {"absent"}
  BY DEF TypeOK, Row
<1>3. \A s \in ActiveStates \cup TerminalStates : s \in Kind
  BY DEF Kind
<1>4. ASSUME NEW r \in RunId, Unmoved(r) PROVE Good(r)
  <2>1. runs'[r].status = runs[r].status /\ \A k \in Kind : events'[r][k] = events[r][k]
    BY <1>1, <1>4 DEF Unmoved, Status, Announce
  <2>2. Unreached(runs[r].status) \subseteq Kind
    BY <1>2, UnreachedKinds
  <2>3. QED
    BY <1>2, <1>3, <2>1, <2>2 DEF OutboxInv
<1>5. ASSUME NEW r \in RunId, Moved(r, f) PROVE Good(r)
  <2> DEFINE s == runs[r].status
             t == runs'[r].status
             K == {t} \cup (IF t \in {"failed", "timed_out"} /\ r # f
                            THEN {"exhausted"} ELSE {})
  <2>1. s \in ActiveStates /\ t \in MovesTo(s) /\ Announce(r, K)
    BY <1>5 DEF Moved, IsActive, Status
  <2>2. /\ t \in Unreached(s) /\ "exhausted" \in Unreached(s)
        /\ Unreached(t) \subseteq Unreached(s) \ {t}
        /\ t \notin {"failed", "timed_out"} \/ "exhausted" \notin Unreached(t)
        /\ t \in Kind
    BY <2>1, MoveReaches
  <2>3. \A k \in Kind : events'[r][k] = events[r][k] + (IF k \in K THEN 1 ELSE 0)
    BY <2>1 DEF Announce
  <2>4. Unreached(s) \subseteq Kind
    BY <1>2, UnreachedKinds
  <2>5. \A k \in Unreached(s) : events[r][k] = 0
    BY DEF OutboxInv
  <2>6. K \subseteq Unreached(s) /\ Unreached(t) \cap K = {} /\ t \in K
    BY <2>2
  <2> HIDE DEF s, t, K
  <2>7. \A k \in Kind : events'[r][k] <= 1
    <3>1. ASSUME NEW k \in Kind PROVE events'[r][k] <= 1
      <4>1. CASE k \in K
        BY <2>3, <2>5, <2>6, <4>1
      <4>2. CASE k \notin K
        BY <1>1, <2>3, <4>2 DEF OutboxInv
      <4>3. QED
        BY <4>1, <4>2
    <3>2. QED
      BY <3>1
  <2>8. events'[r][t] = 1
    BY <2>2, <2>3, <2>5, <2>6
  <2>9. \A k \in Unreached(t) : events'[r][k] = 0
    BY <2>2, <2>3, <2>4, <2>5, <2>6
  <2>10. QED
    BY <2>7, <2>8, <2>9 DEF t
<1>6. ASSUME NEW r \in RunId, NEW t \in {"pending", "skipped"}, r >= nextId,
             runs'[r].status = t, Announce(r, {t})
      PROVE  Good(r)
  <2>1. \A k \in Kind : events[r][k] = 0
    BY <1>6 DEF TypeOK, OutboxInv, Unreached
  <2>2. t \in Kind /\ Unreached(t) \subseteq Kind \ {t}
    BY DEF Kind, Unreached, ActiveStates, TerminalStates
  <2>3. \A k \in Kind : events'[r][k] = IF k = t THEN 1 ELSE 0
    BY <1>6, <2>1 DEF Announce
  <2>4. \A k \in Kind : events'[r][k] <= 1
    BY <2>3
  <2>5. events'[r][t] = 1
    BY <2>2, <2>3
  <2>6. \A k \in Unreached(t) : events'[r][k] = 0
    BY <2>2, <2>3
  <2>7. QED
    BY <1>6, <2>4, <2>5, <2>6
<1>7. ASSUME NEW r \in RunId PROVE Good(r)
  <2>1. CASE Born(r)
    <3>1. r >= nextId
      BY <2>1, RunIds DEF Born, TypeOK
    <3>2. QED
      BY <2>1, <3>1, <1>6 DEF Born
  <2>2. CASE Retried(r, f)
    <3>1. r >= nextId
      BY <2>2, RunIds DEF Retried, TypeOK
    <3>2. QED
      BY <2>2, <3>1, <1>6 DEF Retried
  <2>3. QED
    BY <1>4, <1>5, <2>1, <2>2 DEF Shape
<1>8. QED
  BY <1>7 DEF OutboxInv

LEMMA OutboxInductive == Spec => []OutboxInv
<1>1. Init => OutboxInv
  BY DEF Init, OutboxInv, AbsentRow, Unreached
<1>2. TypeOK /\ OutboxInv /\ [Next]_vars => OutboxInv'
  BY OutboxStep, NextShape DEF StepShape
<1>3. QED
  BY <1>1, <1>2, TypeCorrect, PTL DEF Spec

(* The outbox announces each status a run takes exactly once, and at most  *)
(* one terminal status per run, however its transactions interleave.       *)
THEOREM OutboxIsExact == Spec => []OutboxTellsStatus
<1>1. TypeOK /\ OutboxInv => OutboxTellsStatus
  <2> SUFFICES ASSUME TypeOK, OutboxInv, NEW r \in RunId
               PROVE  /\ \A k \in Kind : events[r][k] <= 1
                      /\ runs[r].status # "absent" => events[r][runs[r].status] = 1
                      /\ \A k \in TerminalStates \ {runs[r].status} : events[r][k] = 0
    BY DEF OutboxTellsStatus
  <2>1. runs[r].status \in ActiveStates \cup TerminalStates \cup {"absent"}
    BY DEF TypeOK, Row
  <2>2. TerminalStates \ {runs[r].status} \subseteq Unreached(runs[r].status)
    BY <2>1, UnreachedKinds
  <2>3. QED
    BY <2>2 DEF OutboxInv
<1>2. QED
  BY <1>1, TypeCorrect, OutboxInductive, PTL

-----------------------------------------------------------------------------
(* Failed attempts.  RetryInv says who continues a failed run without      *)
(* counting.                                                               *)

RetryOrAlert(r) ==
  IF Failed(r)
  THEN \/ events[r]["exhausted"] = 1 /\ RetriesOf(r) = {}
       \/ events[r]["exhausted"] = 0 /\ \E s \in RunId : RetriesOf(r) = {s}
  ELSE events[r]["exhausted"] = 0 /\ RetriesOf(r) = {}

Continues(s) == LET p == runs[runs[s].retryOf]
                IN  /\ runs[s].attempt = p.attempt + 1
                    /\ runs[s].job = p.job /\ runs[s].root = p.root
                    /\ SameLineage(runs[s], p)

RetryInv ==
  /\ \A r \in RunId : RetryOrAlert(r)
  /\ \A r \in RunId : runs[r].status = "absent" => runs[r].retryOf = NoRun
  /\ \A r \in RunId : runs[r].status # "absent" =>
       runs[r].attempt <= MaxRetries[runs[r].job] + 1
  /\ \A s \in RunId : runs[s].retryOf # NoRun =>
       runs[runs[s].retryOf].status # "absent" /\ Continues(s)

LEMMA RetryStep ==
  ASSUME TypeOK, RetryInv, NEW f \in RunId \cup {NoRun}, Shape(f)
  PROVE  RetryInv'
<1> DEFINE Old(r) == Unmoved(r) \/ Moved(r, f)
           New(r) == Born(r) \/ Retried(r, f)
<1>0. \A r \in RunId : runs[r] \in Row /\ runs'[r] \in Row
  BY DEF TypeOK, Shape
<1>1. ASSUME NEW r \in RunId, Old(r)
      PROVE  /\ SameIdentity(r)
             /\ runs'[r].status = "absent" <=> runs[r].status = "absent"
  <2>1. CASE Unmoved(r)
    BY <2>1 DEF Unmoved, Status
  <2>2. CASE Moved(r, f)
    BY <2>2 DEF Moved, MovesTo, IsActive, ActiveStates, Status
  <2>3. QED
    BY <1>1, <2>1, <2>2
<1>2. ASSUME NEW r \in RunId, New(r)
      PROVE  /\ runs[r].status = "absent" /\ runs[r].retryOf = NoRun
             /\ runs'[r].status # "absent" /\ ~ Old(r)
  <2>1. r >= nextId /\ ~ (r >= nextId')
    BY <1>2, RunIds, RunsAssumption DEF Born, Retried, TypeOK, Shape
  <2>2. runs[r].status = "absent"
    BY <2>1 DEF TypeOK
  <2>3. ~ Unmoved(r) /\ ~ Moved(r, f)
    BY <2>1, <2>2 DEF Unmoved, Moved, IsActive, ActiveStates
  <2>4. runs'[r].status # "absent"
    BY <1>2 DEF Born, Retried
  <2>5. QED
    BY <2>2, <2>3, <2>4 DEF RetryInv
<1>3. \A r \in RunId : Old(r) \/ New(r)
  BY DEF Shape
<1>4. ASSUME NEW r \in RunId, Retried(r, f)
      PROVE  /\ f \in RunId /\ r = nextId /\ Moved(f, f)
             /\ runs'[f].status \in {"failed", "timed_out"} /\ IsActive(f)
  BY <1>4, RunIds DEF Retried, Shape, Moved
<1>5. ASSUME NEW r \in RunId, r # f PROVE RetriesOf(r)' = RetriesOf(r)
  <2>1. ASSUME NEW s \in RunId PROVE runs'[s].retryOf = r <=> runs[s].retryOf = r
    <3>1. CASE Old(s)
      BY <1>1, <3>1 DEF SameIdentity
    <3>2. CASE Born(s)
      BY <1>2, <3>2, RunIds DEF Born
    <3>3. CASE Retried(s, f)
      BY <1>2, <1>5, <3>3, RunIds DEF Retried
    <3>4. QED
      BY <1>3, <3>1, <3>2, <3>3
  <2>2. QED
    BY <2>1 DEF RetriesOf
<1>6. ASSUME f \in RunId PROVE RetriesOf(f)' = RetriesOf(f) \cup {nextId}
  <2>1. nextId \in RunId /\ Retried(nextId, f)
    BY <1>6, RunIds DEF Shape
  <2>2. runs'[nextId].retryOf = f
    BY <2>1 DEF Retried
  <2>3. ASSUME NEW s \in RunId, s # nextId
        PROVE  runs'[s].retryOf = f <=> runs[s].retryOf = f
    <3>1. CASE Old(s)
      BY <1>1, <3>1 DEF SameIdentity
    <3>2. CASE Born(s)
      BY <1>2, <1>6, <3>2, RunIds DEF Born
    <3>3. CASE Retried(s, f)
      BY <2>3, <3>3 DEF Retried
    <3>4. QED
      BY <1>3, <3>1, <3>2, <3>3
  <2>4. QED
    BY <2>1, <2>2, <2>3 DEF RetriesOf
<1>7. ASSUME NEW r \in RunId PROVE RetryOrAlert(r)'
  <2>0. events[r]["exhausted"] \in Nat /\ "exhausted" \in Kind
    BY DEF TypeOK, Kind
  <2>1. CASE Unmoved(r)
    <3>1. r # f
      <4>1. ASSUME r = f PROVE FALSE
        <5>1. Moved(r, r) /\ runs'[r].status \in {"failed", "timed_out"}
          BY <4>1, RunIds DEF Shape
        <5>2. QED
          BY <2>1, <5>1 DEF Unmoved, Moved, IsActive, ActiveStates, Status
      <4>2. QED
        BY <4>1
    <3>2. events'[r]["exhausted"] = events[r]["exhausted"] /\ Failed(r)' = Failed(r)
      BY <2>0, <2>1 DEF Unmoved, Announce, Failed, Status
    <3>3. RetriesOf(r)' = RetriesOf(r)
      BY <1>5, <3>1
    <3>4. QED
      BY <3>2, <3>3 DEF RetryInv, RetryOrAlert
  <2>2. CASE Moved(r, f)
    <3>1. ~ Failed(r) /\ events[r]["exhausted"] = 0 /\ RetriesOf(r) = {}
      BY <2>2 DEF Moved, IsActive, ActiveStates, Failed, RetryInv, RetryOrAlert
    <3>2. CASE r = f
      <4>1. RetriesOf(r)' = {nextId} /\ nextId \in RunId
        BY <1>6, <3>1, <3>2, RunIds DEF Shape
      <4>2. runs'[r].status \in {"failed", "timed_out"}
        BY <3>2, RunIds DEF Shape
      <4>3. events'[r]["exhausted"] = 0
        BY <2>0, <2>2, <3>1, <3>2, <4>2 DEF Moved, Announce
      <4>4. QED
        BY <4>1, <4>2, <4>3 DEF RetryOrAlert, Failed
    <3>3. CASE r # f
      <4>1. RetriesOf(r)' = {}
        BY <1>5, <3>1, <3>3
      <4>2. runs'[r].status # "exhausted"
        BY <1>0 DEF Row, ActiveStates, TerminalStates
      <4>3. events'[r]["exhausted"] =
              IF runs'[r].status \in {"failed", "timed_out"} THEN 1 ELSE 0
        BY <2>0, <2>2, <3>1, <3>3, <4>2 DEF Moved, Announce
      <4>4. QED
        BY <4>1, <4>3 DEF RetryOrAlert, Failed
    <3>4. QED
      BY <3>2, <3>3
  <2>3. CASE New(r)
    <3>1. runs[r].status = "absent"
      BY <1>2, <2>3
    <3>2. r # f
      BY <1>4, <2>3, <3>1, RunIds DEF IsActive, ActiveStates, Shape, Moved
    <3>3. events[r]["exhausted"] = 0 /\ RetriesOf(r) = {}
      BY <3>1 DEF RetryInv, RetryOrAlert, Failed
    <3>4. runs'[r].status \in {"pending", "skipped"} /\ Announce(r, {runs'[r].status})
      BY <2>3 DEF Born, Retried
    <3>5. events'[r]["exhausted"] = 0
      BY <2>0, <3>3, <3>4 DEF Announce
    <3>6. RetriesOf(r)' = {}
      BY <1>5, <3>2, <3>3
    <3>7. QED
      BY <3>4, <3>5, <3>6 DEF RetryOrAlert, Failed
  <2>4. QED
    BY <1>3, <2>1, <2>2, <2>3
<1>8. ASSUME NEW r \in RunId, runs'[r].status = "absent" PROVE runs'[r].retryOf = NoRun
  BY <1>1, <1>2, <1>3, <1>8 DEF SameIdentity, RetryInv
<1>9. ASSUME NEW r \in RunId, runs'[r].status # "absent"
      PROVE  runs'[r].attempt <= MaxRetries[runs'[r].job] + 1
  <2>1. CASE Old(r)
    BY <1>1, <1>9, <2>1 DEF SameIdentity, RetryInv
  <2>2. CASE Born(r)
    BY <2>2, ConfigAssumption DEF Born
  <2>3. CASE Retried(r, f)
    <3>1. /\ runs'[r].attempt = runs[f].attempt + 1 /\ runs'[r].job = runs[f].job
          /\ runs[f].attempt <= MaxRetries[runs[f].job]
      BY <2>3 DEF Retried, shouldRetry
    <3>2. runs[f].attempt \in Nat /\ runs[f].job \in Job
      BY <1>0, <1>4, <2>3, JobKnown DEF Row, IsActive, ActiveStates
    <3>3. MaxRetries[runs[f].job] \in Nat
      BY <3>2, ConfigAssumption
    <3>4. QED
      BY <3>1, <3>2, <3>3
  <2>4. QED
    BY <1>3, <2>1, <2>2, <2>3
<1>10. ASSUME NEW s \in RunId, runs'[s].retryOf # NoRun
       PROVE  runs'[runs'[s].retryOf].status # "absent" /\ Continues(s)'
  <2>1. CASE Old(s)
    <3>1. /\ runs'[s].retryOf = runs[s].retryOf
          /\ runs[runs[s].retryOf].status # "absent" /\ Continues(s)
      BY <1>1, <1>10, <2>1 DEF SameIdentity, RetryInv
    <3>2. runs[s].retryOf \in RunId
      BY <1>0, <1>10, <3>1 DEF Row
    <3>3. PICK p \in RunId : p = runs[s].retryOf
      BY <3>2
    <3>4. Old(p) /\ runs'[p].status # "absent" /\ SameIdentity(p)
      BY <1>1, <1>2, <1>3, <3>1, <3>3
    <3>5. QED
      BY <1>1, <2>1, <3>1, <3>3, <3>4 DEF Continues, SameIdentity, SameLineage
  <2>2. CASE Born(s)
    BY <1>10, <2>2 DEF Born
  <2>3. CASE Retried(s, f)
    <3>1. f \in RunId /\ Moved(f, f) /\ IsActive(f) /\ runs'[s].retryOf = f
      BY <1>4, <2>3 DEF Retried
    <3>2. SameIdentity(f) /\ runs'[f].status # "absent"
      BY <1>1, <3>1 DEF IsActive, ActiveStates
    <3>3. QED
      BY <2>3, <3>1, <3>2 DEF Continues, Retried, SameIdentity, SameLineage
  <2>4. QED
    BY <1>3, <2>1, <2>2, <2>3
<1>11. QED
  BY <1>7, <1>8, <1>9, <1>10 DEF RetryInv

(* Whichever of FailRun, CompleteCallback and ExpireCallbacks ends an      *)
(* attempt, the failure is answered exactly once: by one retry that        *)
(* continues it within the budget, or by one exhausted alert.              *)
THEOREM FailuresAreAccounted == Spec => []FailureAccounted
<1>1. Init => RetryInv
  <2>1. ASSUME Init, NEW r \in RunId PROVE RetryOrAlert(r)
    BY <2>1, RunIds DEF Init, RetryOrAlert, RetriesOf, Failed, AbsentRow, Kind
  <2>2. QED
    BY <2>1 DEF Init, RetryInv, AbsentRow
<1>2. TypeOK /\ RetryInv /\ [Next]_vars => RetryInv'
  BY RetryStep, NextShape DEF StepShape
<1>3. RetryInv => FailureAccounted
  <2> SUFFICES ASSUME RetryInv PROVE FailureAccounted
    OBVIOUS
  <2>1. ASSUME NEW r \in RunId
        PROVE  Cardinality(RetriesOf(r)) + events[r]["exhausted"]
                 = IF Failed(r) THEN 1 ELSE 0
    <3>1. RetryOrAlert(r)
      BY DEF RetryInv
    <3>2. Cardinality({}) = 0 /\ \A s \in RunId : Cardinality({s}) = 1
      BY FS_EmptySet, FS_Singleton
    <3>3. QED
      BY <3>1, <3>2 DEF RetryOrAlert
  <2>2. ASSUME NEW s \in RunId, runs[s].retryOf # NoRun
        PROVE  LET p == runs[runs[s].retryOf]
               IN  /\ runs[s].attempt = p.attempt + 1
                   /\ \A c \in {"job", "root", "parent", "group", "total", "resched"} :
                        runs[s][c] = p[c]
    BY <2>2 DEF RetryInv, Continues, SameLineage
  <2>3. QED
    BY <2>1, <2>2 DEF FailureAccounted, RetryInv
<1>4. QED
  BY <1>1, <1>2, <1>3, TypeCorrect, PTL DEF Spec
=============================================================================
