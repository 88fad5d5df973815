------------------------------ MODULE JobTable ------------------------------
(***************************************************************************)
(* The `jobs` table of deye.backend.Queue (backend/__init__.py): its rows, *)
(* the selection made by the four _CLAIM_SQL statements, and the two       *)
(* UPDATEs.  Payload, timestamps and error text are left out: nothing in   *)
(* the queue reads them.  Both the abstract queue (JobQueue) and the one   *)
(* at SQL level (QueueSql) are built from these operators.                 *)
(***************************************************************************)
EXTENDS Naturals

CONSTANTS
    Workers,    \* processes that poll the queue with claim()
    Topics,     \* job topics
    Tenants,    \* job tenants
    MaxJobs,    \* bound: how many jobs are ever enqueued
    None,       \* Python's None: "no filter on this column"
    Poll        \* Poll[w]: the topic/tenant arguments worker w claims with

Filter == [topic : Topics \cup {None}, tenant : Tenants \cup {None}]

ASSUME TableAssumption ==
    /\ MaxJobs \in Nat
    /\ None \notin Topics \cup Tenants
    /\ Poll \in [Workers -> Filter]

(* AUTOINCREMENT ids start at 1 and are handed out in order.               *)
Ids == 1..MaxJobs

Status == {"absent", "pending", "in_flight", "done", "failed"}

Row == [status : Status, topic : Topics \cup {None},
        tenant : Tenants \cup {None}, attempts : Nat]

(* An id without a row: not inserted yet, or deleted.                      *)
Absent == [status |-> "absent", topic |-> None, tenant |-> None, attempts |-> 0]

(* What INSERT stores: status and attempts take the column DEFAULTs.       *)
Inserted(tp, tn) ==
    [status |-> "pending", topic |-> tp, tenant |-> tn, attempts |-> 0]

(* The WHERE clause of the _CLAIM_SQL entry chosen by filter f.            *)
Matches(f, r) ==
    /\ r.status = "pending"
    /\ f.topic \in {None, r.topic}
    /\ f.tenant \in {None, r.tenant}

(* ... ORDER BY id LIMIT 1: row i of table t is the one that is returned.  *)
IsOldest(t, f, i) ==
    /\ Matches(f, t[i])
    /\ \A j \in Ids : Matches(f, t[j]) => i <= j

(* The UPDATE of claim().                                                  *)
Claimed(r) == [status |-> "in_flight", topic |-> r.topic,
               tenant |-> r.tenant, attempts |-> r.attempts + 1]

(* The UPDATE of complete(): no condition on the status; an UPDATE whose   *)
(* WHERE id = ? meets no row changes nothing.                              *)
Settled(r, st) == IF r.status = "absent" THEN r ELSE [r EXCEPT !.status = st]

(* DELETE FROM jobs WHERE tenant = ?                                       *)
Purged(t, tn) ==
    [i \in Ids |-> IF t[i].tenant = tn THEN Absent ELSE t[i]]

(* The dict claim() returns, built from the row as it was SELECTed.        *)
ReceiptOf(i, r) ==
    [id |-> i, topic |-> r.topic, tenant |-> r.tenant, attempts |-> r.attempts + 1]

NoReceipt == [id |-> 0, topic |-> None, tenant |-> None, attempts |-> 0]

Receipt == [id : Ids, topic : Topics \cup {None},
            tenant : Tenants \cup {None}, attempts : Nat] \cup {NoReceipt}
=============================================================================
