---------------------------- MODULE ObjectStore -----------------------------
(***************************************************************************)
(* deye.backend.ObjectStore: put, get and delete as the file system calls  *)
(* they make.  A file is empty or cut short ("partial") from the moment    *)
(* write_bytes opens it with O_TRUNC until its data is written.  The       *)
(* content of an object is determined by its name, so what distinguishes   *)
(* the states of a file is only how much of it is there.                   *)
(***************************************************************************)
EXTENDS Naturals, FiniteSets

CONSTANTS
    Processes, Shas,
    MaxMishaps,     \* bound: crashes and failed writes
    MaxCreated      \* bound: files created per object

ASSUME ObjectAssumption == MaxMishaps \in Nat /\ MaxCreated \in Nat

VARIABLES
    file,           \* file[s]: what is at the path of object s
    op,             \* op[p]: the operation process p is in
    created,        \* how many files (inodes) the path of s has named so far
    mishaps,        \* operations that died, or whose write failed (disk full)
    deletions       \* history: how many delete(s) returned True

vars == <<file, op, created, mishaps, deletions>>

File == {"absent", "partial", "whole"}
Points == {"put", "opening", "writing", "get", "reading", "delete", "unlinking"}
Returns == {"stored", "content", "prefix", "None", "True", "False",
            "FileNotFoundError", "OSError"}
Operation == [at : {"idle", "returned"} \cup Points, sha : Shas \cup {""},
              inode : 0..MaxCreated, result : Returns \cup {""}]
NoOp == [at |-> "idle", sha |-> "", inode |-> 0, result |-> ""]

TypeOK ==
    /\ file \in [Shas -> File]
    /\ op \in [Processes -> Operation]
    /\ \A p \in Processes : op[p].at # "idle" => op[p].sha \in Shas
    /\ created \in [Shas -> 0..MaxCreated]
    /\ mishaps \in 0..MaxMishaps
    /\ deletions \in [Shas -> Nat]

Init ==
    /\ file = [s \in Shas |-> "absent"]
    /\ op = [p \in Processes |-> NoOp]
    /\ created = [s \in Shas |-> 0]
    /\ mishaps = 0
    /\ deletions = [s \in Shas |-> 0]

Goto(p, at) == op' = [op EXCEPT ![p].at = at]
Answer(p, r) == op' = [op EXCEPT ![p].at = "returned", ![p].result = r]
Of(p) == file[op[p].sha]

Call(p, what, s) ==
    /\ op[p] = NoOp
    /\ op' = [op EXCEPT ![p] = [at |-> what, sha |-> s, inode |-> 0, result |-> ""]]
    /\ UNCHANGED <<file, created, mishaps, deletions>>

(* `if not target.exists()`: otherwise the write is skipped.               *)
PutCheck(p) ==
    /\ op[p].at = "put"
    /\ IF Of(p) = "absent" THEN Goto(p, "opening") ELSE Answer(p, "stored")
    /\ UNCHANGED <<file, created, mishaps, deletions>>

(* write_bytes: open("wb") creates or truncates ...                        *)
PutOpen(p) ==
    /\ op[p].at = "opening"
    /\ Of(p) = "absent" => created[op[p].sha] < MaxCreated
    /\ LET inode == created[op[p].sha] + (IF Of(p) = "absent" THEN 1 ELSE 0) IN
        /\ created' = [created EXCEPT ![op[p].sha] = inode]
        /\ op' = [op EXCEPT ![p].at = "writing", ![p].inode = inode]
    /\ file' = [file EXCEPT ![op[p].sha] = "partial"]
    /\ UNCHANGED <<mishaps, deletions>>

(* The path still names the file that p opened; once it is unlinked the    *)
(* data goes nowhere, whatever was created there since.                    *)
Linked(p) == Of(p) # "absent" /\ created[op[p].sha] = op[p].inode

(* Faulty variant: put() returns with the data in an unflushed buffer.     *)
PutWriteUnflushed(p) ==
    /\ op[p].at = "writing"
    /\ Answer(p, "stored")
    /\ UNCHANGED <<file, created, mishaps, deletions>>

(* ... then writes to the file it opened ...                               *)
PutWrite(p) ==
    /\ op[p].at = "writing"
    /\ file' = IF Linked(p) THEN [file EXCEPT ![op[p].sha] = "whole"] ELSE file
    /\ Answer(p, "stored")
    /\ UNCHANGED <<created, mishaps, deletions>>

(* ... or fails to (no space left): what was written stays.                *)
PutFails(p) ==
    /\ op[p].at = "writing"
    /\ mishaps < MaxMishaps
    /\ mishaps' = mishaps + 1
    /\ Answer(p, "OSError")
    /\ UNCHANGED <<file, created, deletions>>

GetCheck(p) ==
    /\ op[p].at = "get"
    /\ IF Of(p) = "absent" THEN Answer(p, "None") ELSE Goto(p, "reading")
    /\ UNCHANGED <<file, created, mishaps, deletions>>

GetRead(p) ==
    /\ op[p].at = "reading"
    /\ Answer(p, IF Of(p) = "absent" THEN "FileNotFoundError"
                 ELSE IF Of(p) = "partial" THEN "prefix" ELSE "content")
    /\ UNCHANGED <<file, created, mishaps, deletions>>

DeleteCheck(p) ==
    /\ op[p].at = "delete"
    /\ IF Of(p) = "absent" THEN Answer(p, "False") ELSE Goto(p, "unlinking")
    /\ UNCHANGED <<file, created, mishaps, deletions>>

(* Faulty variant: unlink(missing_ok=True).                                *)
DeleteUnlinkMissingOk(p) ==
    /\ op[p].at = "unlinking"
    /\ file' = [file EXCEPT ![op[p].sha] = "absent"]
    /\ deletions' = [deletions EXCEPT ![op[p].sha] = @ + 1]
    /\ Answer(p, "True")
    /\ UNCHANGED <<created, mishaps>>

DeleteUnlink(p) ==
    /\ op[p].at = "unlinking"
    /\ IF Of(p) = "absent"
       THEN Answer(p, "FileNotFoundError") /\ UNCHANGED <<file, deletions>>
       ELSE /\ file' = [file EXCEPT ![op[p].sha] = "absent"]
            /\ deletions' = [deletions EXCEPT ![op[p].sha] = @ + 1]
            /\ Answer(p, "True")
    /\ UNCHANGED <<created, mishaps>>

Return(p) ==
    /\ op[p].at = "returned"
    /\ op' = [op EXCEPT ![p] = NoOp]
    /\ UNCHANGED <<file, created, mishaps, deletions>>

Crash(p) ==
    /\ op[p].at \in Points
    /\ mishaps < MaxMishaps
    /\ mishaps' = mishaps + 1
    /\ op' = [op EXCEPT ![p] = NoOp]
    /\ UNCHANGED <<file, created, deletions>>

Next == \E p \in Processes :
    \/ \E s \in Shas, what \in {"put", "get", "delete"} : Call(p, what, s)
    \/ PutCheck(p) \/ PutOpen(p) \/ PutWrite(p) \/ PutFails(p)
    \/ GetCheck(p) \/ GetRead(p)
    \/ DeleteCheck(p) \/ DeleteUnlink(p)
    \/ Return(p)
    \/ Crash(p)

Spec == Init /\ [][Next]_vars
-----------------------------------------------------------------------------
(* A stump is always of somebody's making: while the file of an object is  *)
(* partial, a process is writing that very file, or one died or failed.    *)
(* put()s and delete()s that merely race leave none behind.                *)
NoStumps ==
    \A s \in Shas : file[s] = "partial" =>
        mishaps > 0 \/ \E p \in Processes :
            op[p].at = "writing" /\ op[p].sha = s /\ Linked(p)

(* delete() says True once for every time the object came into being, also *)
(* when several processes delete it at the same moment.                    *)
DeletedOnce == \A s \in Shas : deletions[s] <= created[s]

(* "Idempotent on identical content" (backend/__init__.py:280): a put()    *)
(* that finds the object there and writes nothing leaves it whole.         *)
PutMeansStored ==
    [][\A p \in Processes :
          (op[p].at = "put" /\ op'[p].at = "returned") => Of(p) = "whole"]_vars
=============================================================================
