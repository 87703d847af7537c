----------------------------- MODULE StateFiles -----------------------------
(* The executor's state directory, file operation by file operation: the     *)
(* inbox of accepted executions (.execution.pb) and the outbox of unreported  *)
(* completions (.json).  The store's mutex lets one operation run at a time.  *)
(* A killed process leaves the directory as it is; a power failure keeps a    *)
(* prefix of the directory operations made since the last sync (external: a   *)
(* journalled file system), and of an unsynced file any part.                 *)
EXTENDS Naturals, FiniteSets, Sequences

CONSTANTS FileRun,      \* run ids
          MaxRecords, MaxExecutions

VARIABLES onDisk,    \* what a power failure keeps for certain: file -> content
          unsynced,  \* directory operations since the last directory sync
          temporary, \* the temporary file: [state, file, content]
          fileOp,    \* the operation that holds the mutex
          counted,   \* kind -> s.pending and s.executions
          storeUp,   \* the process is up and has opened the directory
          promised,  \* files whose write came back without an error
          reported   \* run -> Core has accepted its completion: "no", "yes", and
                     \* "kept" when the record had been promised

fileVars == <<onDisk, unsynced, temporary, fileOp, counted, storeUp, promised,
              reported>>

File == {"json", "pb"} \X FileRun
NoTemporary == [state |-> "none", file |-> <<"none", "none">>, content |-> "none"]
Free == [name |-> "none", file |-> <<"none", "none">>, content |-> "none"]

\* The directory after the first n unsynced operations, and as it is now.
After(n) ==
  LET put[i \in 0 .. n] ==
        IF i = 0 THEN onDisk
        ELSE [put[i - 1] EXCEPT ![unsynced[i].file] = unsynced[i].content]
  IN put[n]
Now == After(Len(unsynced))
Present(dir, kind) == {f \in File : f[1] = kind /\ dir[f] # "none"}

StateFilesInit ==
  /\ onDisk \in [File -> {"none", "legacy"}]
  /\ \A f \in File : f[1] = "json" => onDisk[f] = "none"
  /\ unsynced = <<>> /\ temporary = NoTemporary /\ fileOp = Free
  /\ counted = [k \in {"json", "pb"} |-> 0]
  /\ storeUp = FALSE /\ promised = {}
  /\ reported = [r \in FileRun |-> "no"]

\* List and ListExecutions: one unreadable record fails the whole listing.
List(dir) == \A f \in File : dir[f] # "torn"

\* NewFileCompletionStore: interrupted writes are removed, the records are
\* counted and read.
NewFileCompletionStore ==
  LET found(k) == Cardinality(Present(Now, k))
  IN /\ ~storeUp
     /\ List(Now) /\ found("json") <= MaxRecords /\ found("pb") <= MaxExecutions
     /\ storeUp' = TRUE
     /\ temporary' = NoTemporary
     /\ counted' = [k \in {"json", "pb"} |-> found(k)]
     /\ UNCHANGED <<onDisk, unsynced, fileOp, promised, reported>>

Begin(name, file, content) ==
  /\ storeUp /\ fileOp = Free
  /\ fileOp' = [name |-> name, file |-> file, content |-> content]

\* validateCompletionRecord: a record as the reporter builds it passes.
validateCompletionRecord(r) == r \in FileRun

\* Save: one record of a run, if there is room.
Save(r) ==
  /\ validateCompletionRecord(r) /\ reported[r] = "no"
  /\ counted["json"] < MaxRecords /\ Now[<<"json", r>>] = "none"
  /\ Begin("write", <<"json", r>>, "whole")
  /\ UNCHANGED <<onDisk, unsynced, temporary, counted, storeUp, promised, reported>>

\* SaveExecution: the same request again is already saved; one written before
\* deadlines existed is replaced; a new one needs room.
SaveExecution(r) ==
  /\ reported[r] = "no"
  /\ Now[<<"pb", r>>] = "legacy" \/ (Now[<<"pb", r>>] = "none" /\ counted["pb"] < MaxExecutions)
  /\ Begin("write", <<"pb", r>>, "whole")
  /\ UNCHANGED <<onDisk, unsynced, temporary, counted, storeUp, promised, reported>>

\* writeAtomicLocked: a temporary file is written and synced, then renamed.
\* A failing step removes it.
writeAtomicLocked ==
  /\ fileOp.name = "write"
  /\ \/ /\ temporary.state = "none"
        /\ temporary' = [state |-> "written", file |-> fileOp.file, content |-> "torn"]
        /\ UNCHANGED <<unsynced, fileOp, counted>>
     \/ /\ temporary.state = "written"
        /\ temporary' = [temporary EXCEPT !.state = "synced", !.content = fileOp.content]
        /\ UNCHANGED <<unsynced, fileOp, counted>>
     \/ /\ temporary.state = "synced"
        /\ unsynced' = Append(unsynced, [file |-> temporary.file, content |-> temporary.content])
        /\ temporary' = NoTemporary
        /\ fileOp' = [fileOp EXCEPT !.name = "sync",
                         !.content = IF Now[fileOp.file] = "none" THEN "new" ELSE "whole"]
        /\ counted' = [counted EXCEPT !["json"] = IF fileOp.file[1] = "json" THEN @ + 1 ELSE @]
     \/ temporary' = NoTemporary /\ fileOp' = Free /\ UNCHANGED <<unsynced, counted>>
  /\ UNCHANGED <<onDisk, storeUp, promised, reported>>

\* syncDirectoryLocked: makes every operation so far durable.  When it fails
\* the file is there and the caller gets an error; an execution is counted
\* only now.
syncDirectoryLocked ==
  /\ fileOp.name = "sync"
  /\ fileOp' = Free
  /\ \/ /\ onDisk' = Now /\ unsynced' = <<>>
        /\ promised' = promised \cup (IF fileOp.content = "none" THEN {} ELSE {fileOp.file})
        /\ counted' = [counted EXCEPT !["pb"] =
                         IF fileOp.content = "new" /\ fileOp.file[1] = "pb" THEN @ + 1 ELSE @]
     \/ UNCHANGED <<onDisk, unsynced, promised, counted>>
  /\ UNCHANGED <<temporary, storeUp, reported>>

Remove(f) ==
  /\ unsynced' = IF Now[f] = "none" THEN unsynced
                 ELSE Append(unsynced, [file |-> f, content |-> "none"])
  /\ counted' = IF Now[f] # "none" /\ counted[f[1]] > 0
                THEN [counted EXCEPT ![f[1]] = @ - 1] ELSE counted
  /\ promised' = promised \ {f}

\* Core has accepted the completion of r: Delete begins.
Delete(r) ==
  /\ Now[<<"json", r>>] # "none" \/ reported[r] # "no"
  /\ Begin("removeInbox", <<"json", r>>, "none")
  /\ reported' = [reported EXCEPT ![r] = IF <<"json", r>> \in promised THEN "kept"
                                        ELSE IF @ = "no" THEN "yes" ELSE @]
  /\ UNCHANGED <<onDisk, unsynced, temporary, counted, storeUp, promised>>

\* Mutant: the completion goes first.
removeCompletionFirst ==
  LET r == fileOp.file[2]
  IN /\ \/ fileOp.name = "removeInbox" /\ Remove(<<"json", r>>)
           /\ fileOp' = [fileOp EXCEPT !.name = "removeOutbox"]
        \/ fileOp.name = "removeOutbox" /\ Remove(<<"pb", r>>)
           /\ fileOp' = [fileOp EXCEPT !.name = "sync"]
     /\ UNCHANGED <<onDisk, temporary, storeUp, reported>>

\* removeExecutionLocked, then the completion, then one sync for both.
removeBoth ==
  LET r == fileOp.file[2]
  IN /\ \/ fileOp.name = "removeInbox" /\ Remove(<<"pb", r>>)
           /\ fileOp' = [fileOp EXCEPT !.name = "removeOutbox"]
        \/ fileOp.name = "removeOutbox" /\ Remove(<<"json", r>>)
           /\ fileOp' = [fileOp EXCEPT !.name = "sync"]
     /\ UNCHANGED <<onDisk, temporary, storeUp, reported>>

\* The process is killed between two file operations.
Killed ==
  /\ storeUp /\ storeUp' = FALSE /\ fileOp' = Free
  /\ UNCHANGED <<onDisk, unsynced, temporary, counted, promised, reported>>

PowerFails ==
  /\ \E n \in 0 .. Len(unsynced) : onDisk' = After(n)
  /\ unsynced' = <<>> /\ fileOp' = Free /\ storeUp' = FALSE
  /\ UNCHANGED <<temporary, counted, promised, reported>>

StateFilesNext ==
  \/ NewFileCompletionStore \/ writeAtomicLocked \/ syncDirectoryLocked
  \/ removeBoth \/ Killed \/ PowerFails
  \/ \E r \in FileRun : Save(r) \/ SaveExecution(r) \/ Delete(r)
-----------------------------------------------------------------------------
\* Whatever stops the executor, between any two file operations: no record is
\* ever half written, so that the store opens again (List fails on one);
\* a record whose write was acknowledged is there; and an execution whose
\* saved completion Core accepted is gone when the completion's record is ("resurrecting
\* an execution after Core accepted its completion is not [safe]",
\* completion_store.go).
RecoverySafe ==
  \A n \in 0 .. Len(unsynced) :
    LET dir == After(n)
    IN /\ List(dir)
       /\ \A f \in promised : dir[f] = "whole"
       /\ \A r \in FileRun :
            reported[r] = "kept" /\ dir[<<"json", r>>] = "none" => dir[<<"pb", r>>] = "none"
=============================================================================
