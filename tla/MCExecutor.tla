----------------------------- MODULE MCExecutor -----------------------------
(* Small instances of Executor: runs of the kinds each cfg chooses.          *)
EXTENDS Executor

CONSTANTS r1, r2

Kinds(k1, k2) == [r \in Run |-> IF r = r1 THEN k1 ELSE k2]
DockerAndHTTP == Kinds("docker", "http")

OneSlot == [k \in {"script", "http", "docker"} |-> 1]
=============================================================================
