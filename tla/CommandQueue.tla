---------------------------- MODULE CommandQueue ----------------------------
(***************************************************************************)
(* Delivery of the cancel commands that RequestCancel and the block policies   *)
(* leave in executor_commands: every Core claims a batch                       *)
(* (internal/store/executor_commands.go), sends it to the executors and        *)
(* acknowledges each command on its own (internal/core/engine_commands.go).     *)
(*                                                                         *)
(* A claim is a lock of 30 seconds under the name of the owner, with no token   *)
(* of its own.  The lock may run out at any time: a batch of 16 with 8          *)
(* deliveries at a time, each 5 seconds and a write of up to 10, takes as long. *)
(***************************************************************************)
EXTENDS Integers, FiniteSets, TLAPS

CONSTANTS
  Cmd,          \* rows of executor_commands
  Core,         \* owners
  Batch,        \* executorCommandBatchSize
  MaxAttempts,  \* bound on claims of one command
  Nil           \* NULL

VARIABLES
  status,      \* "pending" or "delivered"
  available,   \* available_at has come
  locked_by, lock,   \* the owner; locked_until: "none", "live" or "past"
  attempts,
  work,        \* work[o][c]: "none", "claimed", "done" or "failed": the goroutine of c
  taken        \* the executor has taken the cancellation of c

vars == <<status, available, locked_by, lock, attempts, work, taken>>

Init ==
  /\ status = [c \in Cmd |-> "pending"]
  /\ available = [c \in Cmd |-> TRUE]
  /\ locked_by = [c \in Cmd |-> Nil]
  /\ lock = [c \in Cmd |-> "none"]
  /\ attempts = [c \in Cmd |-> 0]
  /\ work = [o \in Core |-> [c \in Cmd |-> "none"]]
  /\ taken = [c \in Cmd |-> FALSE]

Claimable == {c \in Cmd : status[c] = "pending" /\ available[c] /\ lock[c] # "live"}

\* group.Wait: the loop claims again when the batch before is over.  SKIP LOCKED passes
\* over the rows of statements that run at the same time, so any part may be picked.
ClaimExecutorCommands(o) ==
  /\ \A c \in Cmd : work[o][c] = "none"
  /\ \E picked \in SUBSET Claimable :
       /\ picked # {} /\ Cardinality(picked) <= Batch
       /\ \A c \in picked : attempts[c] < MaxAttempts
       /\ locked_by' = [c \in Cmd |-> IF c \in picked THEN o ELSE locked_by[c]]
       /\ lock' = [c \in Cmd |-> IF c \in picked THEN "live" ELSE lock[c]]
       /\ attempts' = [c \in Cmd |-> IF c \in picked THEN attempts[c] + 1 ELSE attempts[c]]
       /\ work' = [work EXCEPT ![o] = [c \in Cmd |-> IF c \in picked THEN "claimed" ELSE "none"]]
  /\ UNCHANGED <<status, available, taken>>

\* executorGRPC.cancel: the executor takes it or not, and the answer may be lost; the
\* target of a kubernetes run may be gone, which fails before the call.
Deliver(o, c) ==
  /\ work[o][c] = "claimed"
  /\ \/ taken' = [taken EXCEPT ![c] = TRUE] /\ work' = [work EXCEPT ![o][c] = "done"]
     \/ taken' = [taken EXCEPT ![c] = TRUE] /\ work' = [work EXCEPT ![o][c] = "failed"]
     \/ taken' = taken /\ work' = [work EXCEPT ![o][c] = "failed"]
  /\ UNCHANGED <<status, available, locked_by, lock, attempts>>

\* Mutant: any lock will do.
OwnsAnyClaim(o, c) == status[c] = "pending" /\ lock[c] # "none"

\* The condition of both acknowledgements; an owner that fails it gets ErrConflict.
Owns(o, c) == status[c] = "pending" /\ locked_by[c] = o /\ lock[c] = "live"

Unlock(c) ==
  /\ locked_by' = [locked_by EXCEPT ![c] = Nil]
  /\ lock' = [lock EXCEPT ![c] = "none"]

CompleteExecutorCommand(o, c) ==
  /\ work[o][c] = "done"
  /\ work' = [work EXCEPT ![o][c] = "none"]
  /\ IF Owns(o, c) THEN Unlock(c) /\ status' = [status EXCEPT ![c] = "delivered"]
     ELSE UNCHANGED <<status, locked_by, lock>>
  /\ UNCHANGED <<available, attempts, taken>>

RetryExecutorCommand(o, c) ==
  /\ work[o][c] = "failed"
  /\ work' = [work EXCEPT ![o][c] = "none"]
  /\ IF Owns(o, c) THEN Unlock(c) /\ available' = [available EXCEPT ![c] = FALSE]
     ELSE UNCHANGED <<available, locked_by, lock>>
  /\ UNCHANGED <<status, attempts, taken>>

\* The write of the acknowledgement fails, a cancelled context ends the loop over the
\* batch before c, or the Core dies.
Abandon(o, c) ==
  /\ work[o][c] # "none"
  /\ work' = [work EXCEPT ![o][c] = "none"]
  /\ UNCHANGED <<status, available, locked_by, lock, attempts, taken>>

LockExpires(c) ==
  /\ lock[c] = "live"
  /\ lock' = [lock EXCEPT ![c] = "past"]
  /\ UNCHANGED <<status, available, locked_by, attempts, work, taken>>

\* executorCommandRetryDelay is over.
BecomesAvailable(c) ==
  /\ ~available[c]
  /\ available' = [available EXCEPT ![c] = TRUE]
  /\ UNCHANGED <<status, locked_by, lock, attempts, work, taken>>

Next ==
  \/ \E o \in Core : ClaimExecutorCommands(o)
  \/ \E o \in Core, c \in Cmd :
       Deliver(o, c) \/ CompleteExecutorCommand(o, c) \/ RetryExecutorCommand(o, c) \/ Abandon(o, c)
  \/ \E c \in Cmd : LockExpires(c) \/ BecomesAvailable(c)

Spec == Init /\ [][Next]_vars

-----------------------------------------------------------------------------
(* Only the Core whose claim is live moves a command: a Core whose lock has run   *)
(* out and whose command another Core has claimed neither frees nor completes     *)
(* it, a delivered command had been taken by its executor and is never touched     *)
(* again (CompleteExecutorCommand, RetryExecutorCommand).                      *)
ClaimIsKept ==
  \A c \in Cmd :
    /\ lock[c] = "live" /\ lock'[c] = "none" =>
         /\ work[locked_by[c]][c] \in {"done", "failed"}
         /\ work'[locked_by[c]][c] = "none"
    /\ status'[c] # status[c] => status'[c] = "delivered" /\ taken[c] /\ lock[c] = "live"
    /\ status[c] = "delivered" => lock'[c] = "none" /\ attempts'[c] = attempts[c]
-----------------------------------------------------------------------------
(* A delivered command is unlocked, and a goroutine says done only of a      *)
(* command that its executor has taken.                                      *)
QueueInv ==
  /\ status \in [Cmd -> {"pending", "delivered"}]
  /\ lock \in [Cmd -> {"none", "live", "past"}]
  /\ work \in [Core -> [Cmd -> {"none", "claimed", "done", "failed"}]]
  /\ taken \in [Cmd -> BOOLEAN]
  /\ \A c \in Cmd : status[c] = "delivered" => lock[c] = "none"
  /\ \A o \in Core, c \in Cmd : work[o][c] = "done" => taken[c]

(* Every step keeps the invariant and the promise of the claim.              *)
LEMMA QueueStep ==
  ASSUME QueueInv, [Next]_vars
  PROVE  QueueInv' /\ (ClaimIsKept \/ UNCHANGED vars)
<1> USE DEF QueueInv, ClaimIsKept
<1>1. ASSUME NEW o \in Core, ClaimExecutorCommands(o) PROVE QueueInv' /\ ClaimIsKept
  <2>1. PICK picked \in SUBSET Claimable :
          /\ lock' = [c \in Cmd |-> IF c \in picked THEN "live" ELSE lock[c]]
          /\ attempts' = [c \in Cmd |-> IF c \in picked THEN attempts[c] + 1 ELSE attempts[c]]
          /\ work' = [work EXCEPT ![o] = [c \in Cmd |-> IF c \in picked THEN "claimed" ELSE "none"]]
    BY <1>1 DEF ClaimExecutorCommands
  <2>2. \A c \in Cmd : status[c] = "delivered" => c \notin picked
    BY <2>1 DEF Claimable
  <2>3. UNCHANGED <<status, taken>>
    BY <1>1 DEF ClaimExecutorCommands
  <2> QED
    BY <2>1, <2>2, <2>3
<1>2. ASSUME NEW o \in Core, NEW c \in Cmd, Deliver(o, c) PROVE QueueInv' /\ ClaimIsKept
  <2>1. CASE taken' = [taken EXCEPT ![c] = TRUE]
    <3>1. taken' \in [Cmd -> BOOLEAN] /\ taken'[c] /\ \A d \in Cmd : taken[d] => taken'[d]
      BY <2>1, Zenon
    <3>2. /\ work' \in [Core -> [Cmd -> {"none", "claimed", "done", "failed"}]]
          /\ \A p \in Core, d \in Cmd : work'[p][d] = "done" => work[p][d] = "done" \/ d = c
      BY <1>2 DEF Deliver
    <3>3. UNCHANGED <<status, lock, attempts>>
      BY <1>2 DEF Deliver
    <3> QED
      BY <3>1, <3>2, <3>3
  <2>2. CASE taken' = taken /\ work' = [work EXCEPT ![o][c] = "failed"]
    BY <1>2, <2>2 DEF Deliver
  <2> QED
    BY <1>2, <2>1, <2>2 DEF Deliver
<1>3. ASSUME NEW o \in Core, NEW c \in Cmd, CompleteExecutorCommand(o, c) PROVE QueueInv' /\ ClaimIsKept
  <2>1. /\ work[o][c] = "done" /\ taken[c] /\ UNCHANGED <<attempts, taken>>
        /\ work' = [work EXCEPT ![o][c] = "none"]
    BY <1>3 DEF CompleteExecutorCommand
  <2>2. CASE Owns(o, c)
    <3>1. /\ lock' = [lock EXCEPT ![c] = "none"] /\ status' = [status EXCEPT ![c] = "delivered"]
          /\ lock[c] = "live" /\ locked_by[c] = o
      BY <1>3, <2>2 DEF CompleteExecutorCommand, Owns, Unlock
    <3> QED
      BY <2>1, <3>1
  <2>3. CASE ~Owns(o, c)
    BY <1>3, <2>1, <2>3 DEF CompleteExecutorCommand
  <2> QED
    BY <2>2, <2>3
<1>4. ASSUME NEW o \in Core, NEW c \in Cmd, RetryExecutorCommand(o, c) PROVE QueueInv' /\ ClaimIsKept
  BY <1>4 DEF RetryExecutorCommand, Owns, Unlock
<1>5. ASSUME NEW o \in Core, NEW c \in Cmd, Abandon(o, c) PROVE QueueInv' /\ ClaimIsKept
  BY <1>5 DEF Abandon
<1>6. ASSUME NEW c \in Cmd, LockExpires(c) PROVE QueueInv' /\ ClaimIsKept
  BY <1>6 DEF LockExpires
<1>7. ASSUME NEW c \in Cmd, BecomesAvailable(c) PROVE QueueInv' /\ ClaimIsKept
  BY <1>7 DEF BecomesAvailable
<1>8. CASE UNCHANGED vars
  BY <1>8 DEF vars
<1> QED
  BY <1>1, <1>2, <1>3, <1>4, <1>5, <1>6, <1>7, <1>8 DEF Next

(* However many Cores and commands there are and whenever locks run out, only *)
(* the Core whose claim is live moves a command (Owns, the condition of        *)
(* CompleteExecutorCommand and RetryExecutorCommand).                        *)
THEOREM CommandClaimsAreKept == Spec => [][ClaimIsKept]_vars
<1>1. Init => QueueInv
  BY DEF Init, QueueInv
<1>2. QueueInv /\ [Next]_vars => QueueInv' /\ [ClaimIsKept]_vars
  BY QueueStep
<1> QED
  BY <1>1, <1>2, PTL DEF Spec
=============================================================================
