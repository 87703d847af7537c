------------------------------- MODULE Sender -------------------------------
(***************************************************************************)
(* One notifier process: its loop, the batch it works on with a bounded       *)
(* number of attempts at a time, and the exchange with the provider of each    *)
(* kind (internal/notifier/notifier.go).  Time passes in units of the timeout  *)
(* of an attempt, which may start anywhere in a unit and then ends in the next  *)
(* one at the latest.  Which deliveries there are, and who holds them, is in    *)
(* Notifications.                                                            *)
(***************************************************************************)
EXTENDS Naturals, FiniteSets

CONSTANTS Item,         \* deliveries that are due
          Concurrency,  \* attempts at a time
          Lease,        \* units a claim is good for
          MaxAttempts, Initial, Maximum

VARIABLES
  kind,       \* kind of the channel of each delivery
  sdCtx,      \* the context of Run is done
  sdPc,       \* "drain", "process", "idle", "returned"
  unstarted,  \* deliveries of the batch that have no goroutine yet
  stage,      \* where the goroutine of a delivery is; "" if there is none
  age,        \* 1 when a unit has passed since its attempt started
  held,       \* units since the claim
  attempts,   \* attempts column
  taken,      \* deliveries a provider has really accepted
  outcome,    \* status column
  backoff     \* the delay of the latest retry

attemptVars == <<stage, age, taken>>
senderVars == <<kind, sdCtx, sdPc, unstarted, stage, age, held, attempts, taken, outcome, backoff>>

SenderInit ==
  /\ kind \in [Item -> {"webhook", "dingtalk", "email"}]
  /\ sdCtx = FALSE /\ sdPc = "drain" /\ unstarted = {} /\ taken = {}
  /\ stage = [d \in Item |-> ""] /\ age = [d \in Item |-> 0] /\ held = [d \in Item |-> 0]
  /\ attempts = [d \in Item |-> 0] /\ outcome = [d \in Item |-> "pending"]
  /\ backoff = [d \in Item |-> 0]

busySenders == {d \in Item : stage[d] # ""}

-----------------------------------------------------------------------------
\* The loop.  What is claimed is pending, due and not held by another process.

tick ==
  /\ sdPc = "drain" /\ ~sdCtx
  /\ LET claimed == {d \in Item : outcome[d] = "pending"}
     IN \/ /\ unstarted' = claimed /\ sdPc' = "process"
           /\ held' = [d \in Item |-> 0]
           /\ attempts' = [d \in Item |-> IF d \in claimed THEN attempts[d] + 1 ELSE attempts[d]]
        \/ /\ sdPc' = "idle"   \* prepare or claim failed
           /\ UNCHANGED <<unstarted, held, attempts>>
  /\ UNCHANGED <<kind, sdCtx, attemptVars, outcome, backoff>>

\* processDeliveries: a goroutine for the next one as soon as there is a slot.
\* A configuration that cannot be read is an error without an attempt.
processDeliveries(d) ==
  /\ sdPc = "process" /\ d \in unstarted /\ ~sdCtx
  /\ Cardinality(busySenders) < Concurrency
  /\ unstarted' = unstarted \ {d}
  /\ \E readable \in BOOLEAN : stage' = [stage EXCEPT ![d] = IF readable THEN "deliver" ELSE "error"]
  /\ age' = [age EXCEPT ![d] = 0]
  /\ UNCHANGED <<kind, sdCtx, sdPc, held, attempts, taken, outcome, backoff>>

runNotificationLoop ==
  /\ \/ sdPc = "process" /\ busySenders = {} /\ (unstarted = {} \/ sdCtx)
     \/ sdPc \in {"idle", "drain"} /\ (sdPc = "drain" => sdCtx)
  /\ sdPc' = CASE sdCtx -> "returned" [] sdPc = "process" -> "idle" [] OTHER -> "drain"
  /\ unstarted' = {}
  /\ UNCHANGED <<kind, sdCtx, attemptVars, held, attempts, outcome, backoff>>

StopSender ==
  /\ ~sdCtx /\ sdCtx' = TRUE
  /\ UNCHANGED <<kind, sdPc, unstarted, attemptVars, held, attempts, outcome, backoff>>

-----------------------------------------------------------------------------
\* One attempt, in the steps that reach the provider.  A step that fails, times
\* out or panics is an error (deliverSafely recovers).

At(d, from, to) ==
  /\ stage[d] = from /\ stage' = [stage EXCEPT ![d] = to]
  /\ UNCHANGED <<kind, sdCtx, sdPc, unstarted, age, held, attempts, outcome, backoff>>

\* renderNotificationTemplate, webhookBody, emailContent: the message, unless
\* it is too large, is no JSON or has no subject.
render(d) == At(d, "deliver", IF kind[d] = "email" THEN "connect" ELSE "post") /\ UNCHANGED taken

deliverSafely(d) ==
  /\ stage[d] \notin {"", "ok", "error"}
  /\ At(d, stage[d], "error") /\ UNCHANGED taken

\* The request arrives; the answer is on its way, or lost (deliverSafely).
webhook(d) ==
  /\ kind[d] = "webhook"
  /\ \/ At(d, "post", "ok") /\ taken' = taken \cup {d}
     \/ At(d, "post", "lost") /\ taken' = taken \cup {d}
     \/ At(d, "post", "error") /\ UNCHANGED taken    \* not 2xx

\* Mutant: any 2xx counts, whatever its body says.
dingtalkAnyBody(d) ==
  /\ kind[d] = "dingtalk"
  /\ \/ At(d, "post", "ok") /\ taken' = taken \cup {d}
     \/ At(d, "post", "ok") /\ UNCHANGED taken

\* 2xx says nothing yet: validateDingTalkResponse wants an errcode, and 0.
dingtalk(d) ==
  /\ kind[d] = "dingtalk"
  /\ \/ At(d, "post", "ok") /\ taken' = taken \cup {d}      \* errcode 0
     \/ At(d, "post", "lost") /\ taken' = taken \cup {d}
     \/ At(d, "post", "error") /\ UNCHANGED taken    \* errcode, or no valid body

\* email: connection, STARTTLS and login; sender and every recipient; the
\* message, which the server takes over when the data is closed.
email(d) ==
  /\ kind[d] = "email"
  /\ \/ At(d, "connect", "envelope") /\ UNCHANGED taken
     \/ At(d, "envelope", "data") /\ UNCHANGED taken
     \/ At(d, "data", "ok") /\ taken' = taken \cup {d}
     \/ At(d, "data", "lost") /\ taken' = taken \cup {d}

-----------------------------------------------------------------------------
\* retryDelay: doubled for every attempt but the first, up to the maximum,
\* without computing a product beyond it.
retryDelay(n) ==
  LET delay[k \in 1 .. n] ==
        IF k = 1 THEN (IF Initial > Maximum THEN Maximum ELSE Initial)
        ELSE IF delay[k - 1] > Maximum \div 2 THEN Maximum ELSE 2 * delay[k - 1]
  IN delay[n]

\* What the goroutine does with the result; the write fails once the context
\* is done.
Settle(d) ==
  LET ok == stage[d] = "ok"
      dead == ~ok /\ attempts[d] >= MaxAttempts
  IN /\ stage[d] \in {"ok", "error"}
     /\ stage' = [stage EXCEPT ![d] = ""]
     /\ outcome' = IF sdCtx THEN outcome
                   ELSE [outcome EXCEPT ![d] = IF ok THEN "delivered"
                                               ELSE IF dead THEN "dead" ELSE "pending"]
     /\ backoff' = IF sdCtx \/ ok \/ dead THEN backoff
                   ELSE [backoff EXCEPT ![d] = retryDelay(attempts[d])]
     /\ UNCHANGED <<kind, sdCtx, sdPc, unstarted, age, held, attempts, taken>>

\* attemptDelivery: the context of an attempt has run out.
timedOut(d) == stage[d] # "" /\ age[d] >= 1

\* Time passes while attempts are under way, none of which is overdue; the
\* process's own steps and the database take none.
Pass ==
  /\ busySenders # {} /\ \A d \in Item : ~timedOut(d) /\ held[d] <= Lease
  /\ \A d \in busySenders : stage[d] \notin {"ok", "error"}
  /\ unstarted = {} \/ sdCtx \/ Cardinality(busySenders) = Concurrency
  /\ age' = [d \in Item |-> IF stage[d] # "" THEN 1 ELSE 0]
  /\ held' = [d \in Item |-> held[d] + 1]
  /\ UNCHANGED <<kind, sdCtx, sdPc, unstarted, stage, attempts, taken, outcome, backoff>>

SenderNext ==
  \/ tick \/ runNotificationLoop \/ StopSender \/ Pass
  \/ \E d \in Item :
       \/ processDeliveries(d) \/ render(d) \/ deliverSafely(d)
       \/ webhook(d) \/ dingtalk(d) \/ email(d) \/ Settle(d)

-----------------------------------------------------------------------------
(* A delivery that is recorded as delivered was accepted by its provider       *)
(* (validateDingTalkResponse, the close of the SMTP data, the status of a       *)
(* webhook); the converse fails when an answer is lost.                       *)
DeliveredWasTaken == \A d \in Item : outcome[d] = "delivered" => d \in taken

(* The lease outlasts the batch: as long as time passes only in attempts, each  *)
(* ends while its claim is good, the ones that waited for a slot included, so   *)
(* that no other process sends the same delivery meanwhile                     *)
(* (notificationBatchSize, notificationConcurrency, notificationTimeout).      *)
AttemptWithinLease == \A d \in Item : stage[d] # "" => held[d] < Lease

(* Each retry waits for the initial delay times two to the number of attempts    *)
(* before, or for the maximum if that is less, although retryDelay stops         *)
(* doubling half way to the maximum.                                          *)
RetriesBackOff ==
  \A d \in Item : backoff[d] # 0 =>
    \E n \in {attempts[d] - 1, attempts[d]} :
      LET promised == Initial * 2^(n - 1)
      IN n >= 1 /\ backoff[d] = (IF promised < Maximum THEN promised ELSE Maximum)
=============================================================================
