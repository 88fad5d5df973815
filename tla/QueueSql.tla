------------------------------ MODULE QueueSql ------------------------------
(***************************************************************************)
(* deye.backend.Queue as the SQL it runs: one action per statement that    *)
(* other connections can interleave with.  Every call opens a connection   *)
(* of its own to a WAL database in autocommit mode, so at most one of them *)
(* holds the write lock; single-statement writes (enqueue, complete) are   *)
(* atomic and wait until the lock is free.  claim() is a transaction of    *)
(* several statements, and delete_tenant() one of two; their writes become *)
(* visible at COMMIT and are lost when the process dies before it.         *)
(*                                                                         *)
(* Waiting longer than the busy timeout raises OperationalError and leaves *)
(* the database alone: for this module that is a stuttering step.          *)
(***************************************************************************)
EXTENDS JobTable

CONSTANTS
    Admin,          \* the process that runs Lifecycle.delete_tenant
    Nobody,         \* the write lock is free
    MaxCrashes      \* bound: how many processes ever die

ASSUME SqlAssumption ==
    /\ Admin \notin Workers
    /\ Nobody \notin Workers \cup {Admin}
    /\ MaxCrashes \in Nat

VARIABLES
    jobs,       \* the committed table
    nextId,     \* sqlite_sequence
    lock,       \* the process whose connection holds the write lock
    pc,         \* pc[w]: how far worker w is
    row,        \* row[w]: the receipt of the row w SELECTed
    doomed,     \* the tenant the administrator's open transaction deletes
    orphans,    \* history: ids whose worker died while it processed them
    crashes     \* how many processes have died so far

vars == <<jobs, nextId, lock, pc, row, doomed, orphans, crashes>>

(* idle -> begun -> selected -> updated -> working -> idle                 *)
InTransaction == {"begun", "selected", "updated"}
PC == {"idle", "working"} \cup InTransaction

TypeOK ==
    /\ jobs \in [Ids -> Row]
    /\ nextId \in 1..(MaxJobs + 1)
    /\ lock \in Workers \cup {Admin, Nobody}
    /\ pc \in [Workers -> PC]
    /\ row \in [Workers -> Receipt]
    /\ doomed \in Tenants \cup {None}
    /\ orphans \subseteq Ids
    /\ crashes \in 0..MaxCrashes

Init ==
    /\ jobs = [i \in Ids |-> Absent]
    /\ nextId = 1
    /\ lock = Nobody
    /\ pc = [w \in Workers |-> "idle"]
    /\ row = [w \in Workers |-> NoReceipt]
    /\ doomed = None
    /\ orphans = {}
    /\ crashes = 0

-----------------------------------------------------------------------------
(* enqueue(): one autocommit INSERT.                                       *)
Enqueue(tp, tn) ==
    /\ lock = Nobody
    /\ nextId \in Ids
    /\ jobs' = [jobs EXCEPT ![nextId] = Inserted(tp, tn)]
    /\ nextId' = nextId + 1
    /\ UNCHANGED <<lock, pc, row, doomed, orphans, crashes>>

(* Faulty variant: SELECT and UPDATE without a transaction around them.    *)
BeginNothing(w) ==
    /\ pc[w] = "idle"
    /\ pc' = [pc EXCEPT ![w] = "begun"]
    /\ UNCHANGED <<jobs, nextId, lock, row, doomed, orphans, crashes>>

(* BEGIN IMMEDIATE                                                         *)
BeginImmediate(w) ==
    /\ pc[w] = "idle"
    /\ lock = Nobody
    /\ lock' = w
    /\ pc' = [pc EXCEPT ![w] = "begun"]
    /\ UNCHANGED <<jobs, nextId, row, doomed, orphans, crashes>>

(* Faulty variants: a claim without ORDER BY id, and one whose tenant      *)
(* argument is not put into the statement.                                 *)
SelectAny(w) ==
    /\ pc[w] = "begun"
    /\ \E i \in Ids :
        /\ Matches(Poll[w], jobs[i])
        /\ row' = [row EXCEPT ![w] = ReceiptOf(i, jobs[i])]
    /\ pc' = [pc EXCEPT ![w] = "selected"]
    /\ UNCHANGED <<jobs, nextId, lock, doomed, orphans, crashes>>

SelectAnyTenant(w) ==
    /\ pc[w] = "begun"
    /\ \E i \in Ids :
        /\ IsOldest(jobs, [Poll[w] EXCEPT !.tenant = None], i)
        /\ row' = [row EXCEPT ![w] = ReceiptOf(i, jobs[i])]
    /\ pc' = [pc EXCEPT ![w] = "selected"]
    /\ UNCHANGED <<jobs, nextId, lock, doomed, orphans, crashes>>

(* The SELECT finds a row ...                                              *)
Select(w) ==
    /\ pc[w] = "begun"
    /\ \E i \in Ids :
        /\ IsOldest(jobs, Poll[w], i)
        /\ row' = [row EXCEPT ![w] = ReceiptOf(i, jobs[i])]
    /\ pc' = [pc EXCEPT ![w] = "selected"]
    /\ UNCHANGED <<jobs, nextId, lock, doomed, orphans, crashes>>

(* Faulty variant: `return None` without the ROLLBACK, on a connection     *)
(* that stays open.                                                        *)
ReturnNone(w) ==
    /\ pc[w] = "begun"
    /\ ~ \E i \in Ids : Matches(Poll[w], jobs[i])
    /\ pc' = [pc EXCEPT ![w] = "idle"]
    /\ UNCHANGED <<jobs, nextId, lock, row, doomed, orphans, crashes>>

(* ... or none: ROLLBACK, and claim() returns None.                        *)
Rollback(w) ==
    /\ pc[w] = "begun"
    /\ ~ \E i \in Ids : Matches(Poll[w], jobs[i])
    /\ lock' = Nobody
    /\ pc' = [pc EXCEPT ![w] = "idle"]
    /\ UNCHANGED <<jobs, nextId, row, doomed, orphans, crashes>>

(* The UPDATE, visible to this connection only.                            *)
Update(w) ==
    /\ pc[w] = "selected"
    /\ pc' = [pc EXCEPT ![w] = "updated"]
    /\ UNCHANGED <<jobs, nextId, lock, row, doomed, orphans, crashes>>

(* Faulty variant: the transaction ends with ROLLBACK in every case.       *)
CommitNothing(w) ==
    /\ pc[w] = "updated"
    /\ lock' = Nobody
    /\ pc' = [pc EXCEPT ![w] = "working"]
    /\ UNCHANGED <<jobs, nextId, row, doomed, orphans, crashes>>

(* COMMIT, and claim() returns the dict.                                   *)
Commit(w) ==
    /\ pc[w] = "updated"
    /\ jobs' = [jobs EXCEPT ![row[w].id] = Claimed(jobs[row[w].id])]
    /\ lock' = Nobody
    /\ pc' = [pc EXCEPT ![w] = "working"]
    /\ UNCHANGED <<nextId, row, doomed, orphans, crashes>>

(* complete(id, error=...): one autocommit UPDATE by id.                   *)
Complete(w, st) ==
    /\ pc[w] = "working"
    /\ lock = Nobody
    /\ jobs' = [jobs EXCEPT ![row[w].id] = Settled(jobs[row[w].id], st)]
    /\ pc' = [pc EXCEPT ![w] = "idle"]
    /\ row' = [row EXCEPT ![w] = NoReceipt]
    /\ UNCHANGED <<nextId, lock, doomed, orphans, crashes>>

(* delete_tenant(): the DELETE opens a transaction (Python's default       *)
(* isolation level) ...                                                    *)
DeleteBegin(tn) ==
    /\ lock = Nobody
    /\ lock' = Admin
    /\ doomed' = tn
    /\ UNCHANGED <<jobs, nextId, pc, row, orphans, crashes>>

(* ... which `with conn` commits.                                          *)
DeleteCommit ==
    /\ lock = Admin
    /\ jobs' = Purged(jobs, doomed)
    /\ lock' = Nobody
    /\ doomed' = None
    /\ UNCHANGED <<nextId, pc, row, orphans, crashes>>

(* A worker's process dies: its open transaction is rolled back, and the   *)
(* job it was processing stays as it is.                                   *)
Crash(w) ==
    /\ crashes < MaxCrashes
    /\ pc[w] # "idle"
    /\ crashes' = crashes + 1
    /\ lock' = IF lock = w THEN Nobody ELSE lock
    /\ pc' = [pc EXCEPT ![w] = "idle"]
    /\ row' = [row EXCEPT ![w] = NoReceipt]
    /\ orphans' = IF pc[w] = "working" THEN orphans \cup {row[w].id} ELSE orphans
    /\ UNCHANGED <<jobs, nextId, doomed>>

AdminCrash ==
    /\ crashes < MaxCrashes
    /\ lock = Admin
    /\ crashes' = crashes + 1
    /\ lock' = Nobody
    /\ doomed' = None
    /\ UNCHANGED <<jobs, nextId, pc, row, orphans>>

ClaimStep(w) ==
    BeginImmediate(w) \/ Select(w) \/ Rollback(w) \/ Update(w) \/ Commit(w)

CompleteStep(w) == \E st \in {"done", "failed"} : Complete(w, st)

Next ==
    \/ \E tp \in Topics, tn \in Tenants : Enqueue(tp, tn)
    \/ \E w \in Workers : ClaimStep(w) \/ CompleteStep(w) \/ Crash(w)
    \/ \E tn \in Tenants : DeleteBegin(tn)
    \/ DeleteCommit
    \/ AdminCrash

Spec == Init /\ [][Next]_vars

(* A live process finishes the transaction it has begun.  Getting the      *)
(* write lock is only intermittently possible while others use it: the     *)
(* busy handler keeps retrying, and the lock is held for one short         *)
(* transaction, hence the strong fairness.                                 *)
Fairness ==
    /\ \A w \in Workers :
        /\ SF_vars(BeginImmediate(w))
        /\ SF_vars(CompleteStep(w))
        /\ WF_vars(Select(w) \/ Rollback(w))
        /\ WF_vars(Update(w))
        /\ WF_vars(Commit(w))
    /\ WF_vars(DeleteCommit)

FairSpec == Spec /\ Fairness
-----------------------------------------------------------------------------
(* Refinement: a worker holds its receipt once the COMMIT has happened.    *)
HeldBar == [w \in Workers |-> IF pc[w] = "working" THEN row[w] ELSE NoReceipt]

Abstract == INSTANCE JobQueue WITH held <- HeldBar

(* The transactions of Queue implement the atomic queue: every statement   *)
(* is invisible except the COMMIT of a claim that found a row.             *)
ImplementsJobQueue == Abstract!Spec

(* What a claim SELECTed stays true until its COMMIT, because BEGIN        *)
(* IMMEDIATE keeps every other writer out from before the SELECT on:       *)
(* the row is still pending, still the oldest that matches, and the        *)
(* receipt built from it describes the row that is committed.              *)
SelectionStable ==
    \A w \in Workers : pc[w] \in {"selected", "updated"} =>
        /\ lock = w
        /\ row[w].id \in Ids
        /\ IsOldest(jobs, Poll[w], row[w].id)
        /\ row[w] = ReceiptOf(row[w].id, jobs[row[w].id])

(* "Atomically pick the oldest pending job": whatever the SELECTs, UPDATEs *)
(* and COMMITs of several claims do between each other, no two workers are *)
(* processing the same job, one whose worker died is not handed out again, *)
(* and no row was claimed twice.                                           *)
DeliveredOnce ==
    /\ \A w, v \in Workers :
         w # v /\ pc[w] = "working" /\ pc[v] = "working" => row[w].id # row[v].id
    /\ \A w \in Workers : pc[w] = "working" => row[w].id \notin orphans
    /\ \A i \in Ids : jobs[i].attempts <= 1

(* At no moment do two connections write: a transaction is open exactly    *)
(* while its process holds the lock.                                       *)
OneWriter ==
    /\ \A w \in Workers : pc[w] \in InTransaction <=> lock = w
    /\ doomed # None <=> lock = Admin

(* FIFO: when a job is claimed, every older job still pending is one the   *)
(* claiming worker does not ask for ("Atomically pick the oldest pending   *)
(* job").                                                                  *)
OldestFirst ==
    [][\A w \in Workers : pc[w] # "working" /\ pc'[w] = "working" =>
          \A j \in Ids : j < row[w].id => ~ Matches(Poll[w], jobs[j])]_vars

(* A worker that polls for one tenant never changes a row of another,      *)
(* neither by claiming nor by completing, whatever was deleted and         *)
(* enqueued since it claimed.                                              *)
TenantIsolation ==
    [][\A w \in Workers, i \in Ids :
          (pc'[w] # pc[w] /\ Poll[w].tenant # None /\ jobs'[i] # jobs[i])
              => jobs[i].tenant = Poll[w].tenant]_vars

(* No job is starved: one that some worker polls for is eventually done,   *)
(* failed or deleted, or in the hands of a worker that died.               *)
EveryJobSettles ==
    \A i \in Ids :
        (jobs[i].status = "pending" /\ \E w \in Workers : Matches(Poll[w], jobs[i]))
            ~> (jobs[i].status \in {"absent", "done", "failed"} \/ i \in orphans)
=============================================================================
