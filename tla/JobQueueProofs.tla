--------------------------- MODULE JobQueueProofs ---------------------------
(***************************************************************************)
(* For every number of jobs, every set of workers, topics and tenants and  *)
(* every assignment of polls, the atomic queue keeps its promises.         *)
(***************************************************************************)
EXTENDS JobQueue, TLAPS

(* What makes the promises inductive.  Ids are handed out in order and     *)
(* never again (AUTOINCREMENT), so a receipt or an orphan names an id      *)
(* below nextId, and such an id is never re-inserted.                      *)
FreshIdsAbsent == \A i \in Ids : i >= nextId => jobs[i] = Absent

IssuedIds ==
    /\ \A w \in Workers : held[w] # NoReceipt => held[w].id \in 1..(nextId - 1)
    /\ \A i \in orphans : i < nextId /\ jobs[i].status \in {"absent", "in_flight"}

RowShape ==
    \A i \in Ids :
        /\ jobs[i].status = "absent" => jobs[i] = Absent
        /\ jobs[i].status = "pending" => jobs[i].attempts = 0
        /\ jobs[i].status \in {"in_flight", "done", "failed"} => jobs[i].attempts = 1

Ledger == /\ FreshIdsAbsent
          /\ IssuedIds
          /\ RowShape
          /\ DeliveredOnce
          /\ ReceiptHonest
          /\ InFlightAccounted

IndInv == TypeOK /\ Ledger

-----------------------------------------------------------------------------
LEMMA RowTypes ==
    /\ Absent \in Row
    /\ NoReceipt \in Receipt
    /\ \A tp \in Topics, tn \in Tenants : Inserted(tp, tn) \in Row
    /\ \A r \in Row : Claimed(r) \in Row
    /\ \A r \in Row, st \in {"done", "failed"} : Settled(r, st) \in Row
    /\ \A i \in Ids, r \in Row : ReceiptOf(i, r) \in Receipt
<1>1. Absent \in Row
  BY DEF Absent, Row, Status
<1>2. NoReceipt \in Receipt
  BY DEF Receipt
<1>3. \A tp \in Topics, tn \in Tenants : Inserted(tp, tn) \in Row
  BY DEF Inserted, Row, Status
<1>4. \A r \in Row : Claimed(r) \in Row
  BY DEF Claimed, Row, Status
<1>5. \A r \in Row, st \in {"done", "failed"} : Settled(r, st) \in Row
  BY DEF Settled, Row, Status
<1>6. \A i \in Ids, r \in Row : ReceiptOf(i, r) \in Receipt
  BY DEF ReceiptOf, Receipt, Row
<1>7. QED BY <1>1, <1>2, <1>3, <1>4, <1>5, <1>6

(* A receipt is never mistaken for NoReceipt: ids start at 1.              *)
LEMMA ReceiptIsOne == \A i \in Ids, r \in Row : ReceiptOf(i, r) # NoReceipt
BY DEF ReceiptOf, NoReceipt, Ids

(* The table, the sequence, the receipts and the history keep their types. *)
LEMMA TypesKept == TypeOK /\ [Next]_vars => TypeOK'
<1> SUFFICES ASSUME TypeOK, [Next]_vars PROVE TypeOK'
  OBVIOUS
<1> USE DEF TypeOK
<1>1. ASSUME NEW tp \in Topics, NEW tn \in Tenants, Enqueue(tp, tn) PROVE TypeOK'
  BY <1>1, RowTypes, TableAssumption DEF Enqueue, Ids
<1>2. ASSUME NEW w \in Workers, Claim(w) PROVE TypeOK'
  BY <1>2, RowTypes DEF Claim
<1>3. ASSUME NEW w \in Workers, NEW st \in {"done", "failed"}, Complete(w, st) PROVE TypeOK'
  BY <1>3, RowTypes DEF Complete
<1>4. ASSUME NEW tn \in Tenants, DeleteTenant(tn) PROVE TypeOK'
  BY <1>4, RowTypes DEF DeleteTenant, Purged
<1>5. ASSUME NEW w \in Workers, Crash(w) PROVE TypeOK'
  <2>1. held[w].id \in Ids
    BY <1>5 DEF Crash, Receipt, NoReceipt, Ids
  <2>2. QED BY <1>5, <2>1, RowTypes DEF Crash
<1>6. CASE UNCHANGED vars
  BY <1>6 DEF vars
<1>7. QED BY <1>1, <1>2, <1>3, <1>4, <1>5, <1>6 DEF Next

(* Every state of the atomic queue is well typed.                          *)
THEOREM TypeCorrect == Spec => []TypeOK
<1>1. Init => TypeOK
  BY RowTypes, TableAssumption DEF Init, TypeOK, Ids
<1>2. QED BY <1>1, TypesKept, PTL DEF Spec

-----------------------------------------------------------------------------
LEMMA LedgerInit == Init => Ledger
BY TableAssumption DEF Init, Ledger, FreshIdsAbsent, IssuedIds, RowShape,
   DeliveredOnce, ReceiptHonest, InFlightAccounted, Absent, NoReceipt, Ids

LEMMA HeldIds ==
    ASSUME TypeOK, NEW w \in Workers
    PROVE  /\ held[w] # NoReceipt => held[w].id \in Ids
           /\ held[w] = NoReceipt => held[w].id = 0 /\ held[w].id \notin Ids
BY DEF TypeOK, Receipt, NoReceipt, Ids

LEMMA EnqueueKeepsLedger ==
    ASSUME IndInv, NEW tp \in Topics, NEW tn \in Tenants, Enqueue(tp, tn)
    PROVE  Ledger'
<1> USE DEF IndInv, TypeOK
<1>1. /\ nextId \in Ids /\ nextId' = nextId + 1 /\ nextId \in Nat
      /\ held' = held /\ orphans' = orphans
      /\ jobs' = [jobs EXCEPT ![nextId] = Inserted(tp, tn)]
  BY DEF Enqueue, Ids
<1>2. \A i \in Ids : i # nextId => jobs'[i] = jobs[i]
  BY <1>1
<1>3. jobs'[nextId] = [status |-> "pending", topic |-> tp, tenant |-> tn, attempts |-> 0]
  BY <1>1 DEF Inserted
<1>4. \A w \in Workers : held[w] # NoReceipt => held[w].id \in Ids /\ held[w].id < nextId
  BY <1>1, TableAssumption DEF Ledger, IssuedIds, Ids
<1>5. FreshIdsAbsent'
  BY <1>1, <1>2 DEF Ledger, FreshIdsAbsent, Ids
<1>6. IssuedIds'
  BY <1>1, <1>2 DEF Ledger, IssuedIds, Ids
<1>7. RowShape'
  BY <1>1, <1>2, <1>3 DEF Ledger, RowShape
<1>8. DeliveredOnce'
  BY <1>1, <1>2, <1>3 DEF Ledger, DeliveredOnce
<1>9. ReceiptHonest'
  BY <1>1, <1>2, <1>4 DEF Ledger, ReceiptHonest
<1>10. InFlightAccounted'
  BY <1>1, <1>2, <1>3 DEF Ledger, InFlightAccounted
<1>11. QED BY <1>5, <1>6, <1>7, <1>8, <1>9, <1>10 DEF Ledger

LEMMA ClaimKeepsLedger ==
    ASSUME IndInv, NEW w \in Workers, Claim(w)
    PROVE  Ledger'
<1> USE DEF IndInv, TypeOK
<1>1. PICK i \in Ids : /\ Matches(Poll[w], jobs[i])
                       /\ jobs' = [jobs EXCEPT ![i] = Claimed(jobs[i])]
                       /\ held' = [held EXCEPT ![w] = ReceiptOf(i, jobs[i])]
  BY DEF Claim, IsOldest
<1>2. nextId' = nextId /\ orphans' = orphans /\ held[w] = NoReceipt
  BY DEF Claim
<1>3. jobs[i].status = "pending" /\ jobs[i].attempts = 0
  BY <1>1 DEF Matches, Ledger, RowShape
<1>4. /\ jobs'[i] = [status |-> "in_flight", topic |-> jobs[i].topic,
                     tenant |-> jobs[i].tenant, attempts |-> 1]
      /\ held'[w] = [id |-> i, topic |-> jobs[i].topic,
                     tenant |-> jobs[i].tenant, attempts |-> 1]
  BY <1>1, <1>3 DEF Claimed, ReceiptOf
<1>5. /\ \A j \in Ids : j # i => jobs'[j] = jobs[j]
      /\ \A v \in Workers : v # w => held'[v] = held[v]
  BY <1>1
<1>6. i < nextId
  BY <1>3 DEF Ledger, FreshIdsAbsent, Absent, Ids
(* The row was pending, so nobody holds it and no worker died with it.     *)
<1>7. /\ i \notin orphans
      /\ \A v \in Workers : held[v].id # i
  <2>1. i \notin orphans
    BY <1>3 DEF Ledger, IssuedIds
  <2>2. \A v \in Workers : held[v] # NoReceipt => held[v].id # i
    BY <1>3 DEF Ledger, ReceiptHonest, Absent
  <2>3. \A v \in Workers : held[v] = NoReceipt => held[v].id # i
    BY DEF NoReceipt, Ids
  <2>4. QED BY <2>1, <2>2, <2>3
<1>8. FreshIdsAbsent'
  BY <1>2, <1>5, <1>6 DEF Ledger, FreshIdsAbsent, Ids
<1>9. IssuedIds'
  BY <1>2, <1>4, <1>5, <1>6, <1>7 DEF Ledger, IssuedIds, Ids
<1>10. RowShape'
  BY <1>4, <1>5 DEF Ledger, RowShape
<1>11. DeliveredOnce'
  BY <1>2, <1>4, <1>5, <1>7 DEF Ledger, DeliveredOnce
<1>12. ReceiptHonest'
  <2> SUFFICES ASSUME NEW v \in Workers, held'[v] # NoReceipt
               PROVE  \/ jobs'[held'[v].id] = Absent
                      \/ /\ jobs'[held'[v].id].status = "in_flight"
                         /\ jobs'[held'[v].id].topic = held'[v].topic
                         /\ jobs'[held'[v].id].tenant = held'[v].tenant
                         /\ jobs'[held'[v].id].attempts = held'[v].attempts
    BY DEF ReceiptHonest
  <2>1. CASE v = w
    BY <2>1, <1>4
  <2>2. CASE v # w
    <3>1. held'[v] = held[v] /\ held[v].id \in Ids /\ held[v].id # i
      BY <2>2, <1>5, <1>7, HeldIds
    <3>2. jobs'[held[v].id] = jobs[held[v].id]
      BY <3>1, <1>5
    <3>3. QED BY <3>1, <3>2 DEF Ledger, ReceiptHonest
  <2>3. QED BY <2>1, <2>2
<1>13. InFlightAccounted'
  <2> SUFFICES ASSUME NEW j \in Ids, jobs'[j].status = "in_flight", j \notin orphans
               PROVE  \E v \in Workers : held'[v].id = j
    BY <1>2 DEF InFlightAccounted
  <2>1. CASE j = i
    BY <2>1, <1>4
  <2>2. CASE j # i
    <3>1. PICK v \in Workers : held[v].id = j
      BY <2>2, <1>5 DEF Ledger, InFlightAccounted
    <3>2. v # w
      BY <3>1, <1>2 DEF NoReceipt, Ids
    <3>3. QED BY <3>1, <3>2, <1>5
  <2>3. QED BY <2>1, <2>2
<1>14. QED BY <1>8, <1>9, <1>10, <1>11, <1>12, <1>13 DEF Ledger

LEMMA CompleteKeepsLedger ==
    ASSUME IndInv, NEW w \in Workers, NEW st \in {"done", "failed"}, Complete(w, st)
    PROVE  Ledger'
<1> USE DEF IndInv, TypeOK
<1> DEFINE i == held[w].id
<1>1. /\ i \in Ids
      /\ held[w] # NoReceipt
      /\ jobs' = [jobs EXCEPT ![i] = Settled(jobs[i], st)]
      /\ held' = [held EXCEPT ![w] = NoReceipt]
      /\ nextId' = nextId /\ orphans' = orphans
  BY HeldIds DEF Complete
<1>2. /\ \A j \in Ids : j # i => jobs'[j] = jobs[j]
      /\ \A v \in Workers : v # w => held'[v] = held[v]
      /\ held'[w] = NoReceipt
  BY <1>1
(* The row this worker claimed is settled, or is gone and stays gone.      *)
<1>3. \/ jobs[i] = Absent /\ jobs'[i] = Absent
      \/ jobs[i].attempts = 1 /\ jobs'[i].status = st /\ jobs'[i].attempts = 1
  <2>1. jobs'[i] = Settled(jobs[i], st)
    BY <1>1
  <2>2. CASE jobs[i] = Absent
    BY <2>1, <2>2 DEF Settled, Absent
  <2>3. CASE jobs[i].status = "in_flight"
    <3>1. jobs[i].attempts = 1
      BY <2>3, <1>1 DEF Ledger, RowShape
    <3>2. QED BY <2>1, <2>3, <3>1, <1>1 DEF Settled, Row
  <2>4. QED BY <2>2, <2>3, <1>1 DEF Ledger, ReceiptHonest
<1>4. \A v \in Workers : v # w => held[v].id # i
  BY <1>1 DEF Ledger, DeliveredOnce
<1>5. i < nextId /\ i \notin orphans
  BY <1>1 DEF Ledger, IssuedIds, DeliveredOnce, Ids
<1> HIDE DEF i
<1>6. FreshIdsAbsent'
  BY <1>1, <1>2, <1>5 DEF Ledger, FreshIdsAbsent, Ids
<1>7. IssuedIds'
  BY <1>1, <1>2, <1>5 DEF Ledger, IssuedIds
<1>8. RowShape'
  BY <1>2, <1>3 DEF Ledger, RowShape, Absent
<1>9. DeliveredOnce'
  <2>1. \A j \in Ids : jobs'[j].attempts <= 1
    BY <1>2, <1>3 DEF Ledger, DeliveredOnce, Absent
  <2>2. NoReceipt.id = 0 /\ 0 \notin orphans
    BY DEF NoReceipt, Ids
  <2>3. \A v \in Workers : held'[v] # NoReceipt => held'[v] = held[v] /\ held[v] # NoReceipt /\ v # w
    BY <1>2
  <2>4. \A v \in Workers : held'[v] # NoReceipt => held'[v].id \in Ids
    BY <2>3, HeldIds
  <2>5. ASSUME NEW v \in Workers, NEW u \in Workers, v # u, held'[v] # NoReceipt
        PROVE  held'[u].id # held'[v].id
    <3>1. CASE u = w
      BY <3>1, <2>2, <2>4, <2>5, <1>2 DEF Ids
    <3>2. CASE u # w
      BY <3>2, <2>3, <2>5, <1>2 DEF Ledger, DeliveredOnce
    <3>3. QED BY <3>1, <3>2
  <2>6. \A v \in Workers : held'[v].id \notin orphans
    BY <2>2, <1>2 DEF Ledger, DeliveredOnce
  <2>7. QED BY <2>1, <2>5, <2>6, <1>1 DEF DeliveredOnce
<1>10. ReceiptHonest'
  <2> SUFFICES ASSUME NEW v \in Workers, held'[v] # NoReceipt
               PROVE  \/ jobs'[held'[v].id] = Absent
                      \/ /\ jobs'[held'[v].id].status = "in_flight"
                         /\ jobs'[held'[v].id].topic = held'[v].topic
                         /\ jobs'[held'[v].id].tenant = held'[v].tenant
                         /\ jobs'[held'[v].id].attempts = held'[v].attempts
    BY DEF ReceiptHonest
  <2>1. held'[v] = held[v] /\ held[v].id \in Ids /\ held[v].id # i
    BY <1>2, <1>4, HeldIds
  <2>2. jobs'[held[v].id] = jobs[held[v].id]
    BY <2>1, <1>2
  <2>3. QED BY <2>1, <2>2 DEF Ledger, ReceiptHonest
<1>11. InFlightAccounted'
  <2> SUFFICES ASSUME NEW j \in Ids, jobs'[j].status = "in_flight", j \notin orphans
               PROVE  \E v \in Workers : held'[v].id = j
    BY <1>1 DEF InFlightAccounted
  <2>1. j # i
    BY <1>3 DEF Absent
  <2>2. PICK v \in Workers : held[v].id = j
    BY <2>1, <1>2 DEF Ledger, InFlightAccounted
  <2>3. v # w
    BY <2>1, <2>2 DEF i
  <2>4. QED BY <2>2, <2>3, <1>2
<1>12. QED BY <1>6, <1>7, <1>8, <1>9, <1>10, <1>11 DEF Ledger

LEMMA DeleteKeepsLedger ==
    ASSUME IndInv, NEW tn \in Tenants, DeleteTenant(tn)
    PROVE  Ledger'
<1> USE DEF IndInv, TypeOK
<1>1. /\ \A i \in Ids : jobs'[i] = jobs[i] \/ jobs'[i] = Absent
      /\ nextId' = nextId /\ held' = held /\ orphans' = orphans
  BY DEF DeleteTenant, Purged
<1>2. Absent.status = "absent" /\ Absent.attempts = 0
  BY DEF Absent
<1>3. FreshIdsAbsent' /\ IssuedIds' /\ RowShape'
  BY <1>1, <1>2 DEF Ledger, FreshIdsAbsent, IssuedIds, RowShape
<1>4. DeliveredOnce' /\ InFlightAccounted'
  BY <1>1, <1>2 DEF Ledger, DeliveredOnce, InFlightAccounted
<1>5. ReceiptHonest'
  BY <1>1, HeldIds DEF Ledger, ReceiptHonest
<1>6. QED BY <1>3, <1>4, <1>5 DEF Ledger

LEMMA CrashKeepsLedger ==
    ASSUME IndInv, NEW w \in Workers, Crash(w)
    PROVE  Ledger'
<1> USE DEF IndInv, TypeOK
<1> DEFINE i == held[w].id
<1>1. /\ i \in Ids /\ held[w] # NoReceipt
      /\ jobs' = jobs /\ nextId' = nextId
      /\ held' = [held EXCEPT ![w] = NoReceipt]
      /\ orphans' = orphans \cup {i}
  BY HeldIds DEF Crash
<1>2. /\ \A v \in Workers : v # w => held'[v] = held[v] /\ held[v].id # i
      /\ held'[w] = NoReceipt
  BY <1>1 DEF Ledger, DeliveredOnce
<1>3. i < nextId /\ jobs[i].status \in {"absent", "in_flight"}
  BY <1>1 DEF Ledger, IssuedIds, ReceiptHonest, Absent, Ids
<1>4. NoReceipt.id = 0 /\ 0 \notin Ids
  BY DEF NoReceipt, Ids
<1> HIDE DEF i
<1>5. FreshIdsAbsent' /\ RowShape'
  BY <1>1 DEF Ledger, FreshIdsAbsent, RowShape
<1>6. IssuedIds'
  BY <1>1, <1>2, <1>3 DEF Ledger, IssuedIds
<1>7. DeliveredOnce'
  <2>1. \A v \in Workers : held'[v].id \notin orphans'
    BY <1>1, <1>2, <1>4 DEF Ledger, DeliveredOnce
  <2>2. ASSUME NEW v \in Workers, NEW u \in Workers, v # u, held'[v] # NoReceipt
        PROVE  held'[u].id # held'[v].id
    <3>1. held'[v] = held[v] /\ held[v] # NoReceipt /\ held[v].id \in Ids
      BY <2>2, <1>2, HeldIds
    <3>2. QED BY <3>1, <2>2, <1>2, <1>4 DEF Ledger, DeliveredOnce
  <2>3. QED BY <2>1, <2>2, <1>1 DEF Ledger, DeliveredOnce
<1>8. ReceiptHonest'
  BY <1>1, <1>2 DEF Ledger, ReceiptHonest
<1>9. InFlightAccounted'
  BY <1>1, <1>2 DEF Ledger, InFlightAccounted, i
<1>10. QED BY <1>5, <1>6, <1>7, <1>8, <1>9 DEF Ledger

-----------------------------------------------------------------------------
LEMMA LedgerCorrect == Spec => []IndInv
<1>1. Init => Ledger
  BY LedgerInit
<1>2. IndInv /\ [Next]_vars => Ledger'
  <2> SUFFICES ASSUME IndInv, [Next]_vars PROVE Ledger'
    OBVIOUS
  <2>1. CASE UNCHANGED vars
    BY <2>1 DEF IndInv, vars, Ledger, FreshIdsAbsent, IssuedIds, RowShape,
                DeliveredOnce, ReceiptHonest, InFlightAccounted
  <2>2. QED
    BY <2>1, EnqueueKeepsLedger, ClaimKeepsLedger, CompleteKeepsLedger,
       DeleteKeepsLedger, CrashKeepsLedger DEF Next
<1>3. QED BY <1>1, <1>2, TypeCorrect, PTL DEF Spec, IndInv

(* No job is ever processed twice (Queue.claim).                           *)
THEOREM JobsDeliveredOnce == Spec => []DeliveredOnce
<1>1. IndInv => DeliveredOnce
  BY DEF IndInv, Ledger
<1>2. QED BY <1>1, LedgerCorrect, PTL

(* A receipt describes its row, or the row was deleted with its tenant.    *)
THEOREM ReceiptsHonest == Spec => []ReceiptHonest
<1>1. IndInv => ReceiptHonest
  BY DEF IndInv, Ledger
<1>2. QED BY <1>1, LedgerCorrect, PTL

(* complete() settles only jobs that ran, even late ones.                  *)
THEOREM SettledJobsWereClaimed == Spec => []SettledWasClaimed
<1>1. IndInv => SettledWasClaimed
  BY DEF IndInv, Ledger, RowShape, SettledWasClaimed
<1>2. QED BY <1>1, LedgerCorrect, PTL

(* An in-flight row always has a worker, alive or dead, to answer for it.  *)
THEOREM InFlightJobsAccounted == Spec => []InFlightAccounted
<1>1. IndInv => InFlightAccounted
  BY DEF IndInv, Ledger
<1>2. QED BY <1>1, LedgerCorrect, PTL
=============================================================================
