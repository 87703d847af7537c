----------------------------- MODULE LogicalRun -----------------------------
(***************************************************************************)
(* What the scheduler promises about one logical execution of a job, its   *)
(* first attempt and all retries of it: it opens once, is retried only     *)
(* while its budget lasts, and ends once, in exactly one outcome.  It      *)
(* knows nothing of claims, leases, tokens or executors.  One database     *)
(* transaction may move several executions at once.                        *)
(***************************************************************************)
EXTENDS Integers

CONSTANTS Execution, Job, NoJob, MaxRetries

VARIABLES outcome, attempts, owner

Final == {"succeeded", "exhausted", "cancelled", "skipped"}

LInit == /\ outcome = [e \in Execution |-> "none"]
         /\ attempts = [e \in Execution |-> 0]
         /\ owner = [e \in Execution |-> NoJob]

Same(e) == /\ outcome'[e] = outcome[e]
           /\ attempts'[e] = attempts[e]
           /\ owner'[e] = owner[e]

Open(e) == /\ outcome[e] = "none"
           /\ outcome'[e] \in {"open", "skipped"}
           /\ attempts'[e] = 1
           /\ owner'[e] \in Job

Retry(e) == /\ outcome[e] = "open" /\ outcome'[e] = "open"
            /\ attempts[e] <= MaxRetries[owner[e]]
            /\ attempts'[e] = attempts[e] + 1
            /\ owner'[e] = owner[e]

Close(e) == /\ outcome[e] = "open"
            /\ \/ outcome'[e] \in {"succeeded", "cancelled"}
               \/ /\ outcome'[e] = "exhausted"
                  /\ attempts[e] = MaxRetries[owner[e]] + 1
            /\ attempts'[e] = attempts[e]
            /\ owner'[e] = owner[e]

LNext == /\ outcome' \in [Execution -> Final \cup {"none", "open"}]
         /\ \A e \in Execution : Same(e) \/ Open(e) \/ Retry(e) \/ Close(e)

LSpec == LInit /\ [][LNext]_<<outcome, attempts, owner>>
=============================================================================
