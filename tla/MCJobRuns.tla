----------------------------- MODULE MCJobRuns -----------------------------
(* Small instances of JobRuns: the configuration of the jobs is chosen by  *)
(* each cfg among the definitions below.                                   *)
EXTENDS JobRuns

CONSTANTS j1, j2

AllSerial == [j \in Job |-> "serial"]
AllOne == [j \in Job |-> 1]
AllTwo == [j \in Job |-> 2]
AllZero == [j \in Job |-> 0]
NoChildren == [j \in Job |-> <<>>]
=============================================================================
