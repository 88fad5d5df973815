------------------------------ MODULE JobQueue ------------------------------
(***************************************************************************)
(* What deye.backend.Queue promises: a FIFO job queue whose operations are *)
(* atomic.  A worker owns the job from the claim that returns it to the    *)
(* complete() it calls for it.  QueueSql shows that the transactions the   *)
(* code runs implement this module.                                        *)
(***************************************************************************)
EXTENDS JobTable

VARIABLES
    jobs,       \* the table: Ids -> Row
    nextId,     \* the id the next INSERT gets (sqlite_sequence)
    held,       \* held[w]: the receipt worker w is processing
    orphans     \* history: ids whose worker died while it processed them

vars == <<jobs, nextId, held, orphans>>

TypeOK ==
    /\ jobs \in [Ids -> Row]
    /\ nextId \in 1..(MaxJobs + 1)
    /\ held \in [Workers -> Receipt]
    /\ orphans \subseteq Ids

Init ==
    /\ jobs = [i \in Ids |-> Absent]
    /\ nextId = 1
    /\ held = [w \in Workers |-> NoReceipt]
    /\ orphans = {}

Enqueue(tp, tn) ==
    /\ nextId \in Ids
    /\ jobs' = [jobs EXCEPT ![nextId] = Inserted(tp, tn)]
    /\ nextId' = nextId + 1
    /\ UNCHANGED <<held, orphans>>

(* A claim that finds no row returns None and changes nothing.             *)
Claim(w) ==
    /\ held[w] = NoReceipt
    /\ \E i \in Ids :
        /\ IsOldest(jobs, Poll[w], i)
        /\ jobs' = [jobs EXCEPT ![i] = Claimed(jobs[i])]
        /\ held' = [held EXCEPT ![w] = ReceiptOf(i, jobs[i])]
    /\ UNCHANGED <<nextId, orphans>>

(* Faulty variant: an error is only logged, the job is never settled.      *)
CompleteUnlessFailed(w, st) ==
    /\ held[w] # NoReceipt
    /\ jobs' = IF st = "failed" THEN jobs
               ELSE [jobs EXCEPT ![held[w].id] = Settled(jobs[held[w].id], st)]
    /\ held' = [held EXCEPT ![w] = NoReceipt]
    /\ UNCHANGED <<nextId, orphans>>

Complete(w, st) ==
    /\ held[w] # NoReceipt
    /\ jobs' = [jobs EXCEPT ![held[w].id] = Settled(jobs[held[w].id], st)]
    /\ held' = [held EXCEPT ![w] = NoReceipt]
    /\ UNCHANGED <<nextId, orphans>>

DeleteTenant(tn) ==
    /\ jobs' = Purged(jobs, tn)
    /\ UNCHANGED <<nextId, held, orphans>>

(* The worker's process dies between claim() and complete(): there is no   *)
(* lease and no retry, so nothing ever puts the job back.                  *)
Crash(w) ==
    /\ held[w] # NoReceipt
    /\ held' = [held EXCEPT ![w] = NoReceipt]
    /\ orphans' = orphans \cup {held[w].id}
    /\ UNCHANGED <<jobs, nextId>>

Next ==
    \/ \E tp \in Topics, tn \in Tenants : Enqueue(tp, tn)
    \/ \E w \in Workers : Claim(w)
    \/ \E w \in Workers, st \in {"done", "failed"} : Complete(w, st)
    \/ \E tn \in Tenants : DeleteTenant(tn)
    \/ \E w \in Workers : Crash(w)

Spec == Init /\ [][Next]_vars

-----------------------------------------------------------------------------
(* A job is handed out at most once in its life: no two workers process    *)
(* the same job, and one whose worker died is not processed again          *)
(* (Queue.claim, "Atomically pick the oldest pending job").                *)
DeliveredOnce ==
    /\ \A i \in Ids : jobs[i].attempts <= 1
    /\ \A w, v \in Workers : w # v /\ held[w] # NoReceipt => held[v].id # held[w].id
    /\ \A w \in Workers : held[w].id \notin orphans

(* While a worker processes a job its receipt tells the truth about the    *)
(* table: the row is still the one it claimed, or delete_tenant() removed  *)
(* it; the id never came to mean another job.                              *)
ReceiptHonest ==
    \A w \in Workers : held[w] # NoReceipt =>
        LET r == jobs[held[w].id] IN
        \/ r = Absent
        \/ /\ r.status = "in_flight"
           /\ r.topic = held[w].topic
           /\ r.tenant = held[w].tenant
           /\ r.attempts = held[w].attempts

(* A job is done or failed only if some worker claimed it: a complete()    *)
(* that arrives after delete_tenant() cannot settle a job that was         *)
(* enqueued later and never ran.                                           *)
SettledWasClaimed ==
    \A i \in Ids : jobs[i].status \in {"done", "failed"} => jobs[i].attempts = 1

(* Every in-flight row is accounted for: a live worker holds it, or the    *)
(* worker that held it died.                                               *)
InFlightAccounted ==
    \A i \in Ids : jobs[i].status = "in_flight" =>
        i \in orphans \/ \E w \in Workers : held[w].id = i
=============================================================================
