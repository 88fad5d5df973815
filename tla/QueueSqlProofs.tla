--------------------------- MODULE QueueSqlProofs ---------------------------
(***************************************************************************)
(* For every value of the constants: the transactions of Queue never       *)
(* overlap, what a claim reads is what it commits, and the SQL level       *)
(* implements the atomic queue, whose promises JobQueueProofs proves.      *)
(***************************************************************************)
EXTENDS QueueSql, TLAPS

(* Faithful receipts while working: what complete() is called with.        *)
WorkingHasRow == \A w \in Workers : pc[w] = "working" => row[w].id \in Ids

IndInv == TypeOK /\ OneWriter /\ SelectionStable /\ WorkingHasRow

LEMMA RowTypes ==
    /\ Absent \in Row
    /\ NoReceipt \in Receipt
    /\ \A tp \in Topics, tn \in Tenants : Inserted(tp, tn) \in Row
    /\ \A r \in Row : Claimed(r) \in Row
    /\ \A r \in Row, st \in {"done", "failed"} : Settled(r, st) \in Row
    /\ \A i \in Ids, r \in Row : ReceiptOf(i, r) \in Receipt
    /\ \A i \in Ids, r \in Row : ReceiptOf(i, r).id = i
<1>1. Absent \in Row
  BY DEF Absent, Row, Status
<1>2. NoReceipt \in Receipt
  BY DEF Receipt
<1>3. \A tp \in Topics, tn \in Tenants : Inserted(tp, tn) \in Row
  BY DEF Inserted, Row, Status
<1>4. \A r \in Row : Claimed(r) \in Row
  BY DEF Claimed, Row, Status
<1>5. \A r \in Row, st \in {"done", "failed"} : Settled(r, st) \in Row
  BY DEF Settled, Row, Status
<1>6. \A i \in Ids, r \in Row : ReceiptOf(i, r) \in Receipt /\ ReceiptOf(i, r).id = i
  BY DEF ReceiptOf, Receipt, Row
<1>7. QED BY <1>1, <1>2, <1>3, <1>4, <1>5, <1>6

LEMMA InitHolds == Init => IndInv
BY RowTypes, TableAssumption, SqlAssumption
   DEF Init, IndInv, TypeOK, OneWriter, SelectionStable, WorkingHasRow, PC,
       InTransaction, Ids

LEMMA StepHolds == IndInv /\ [Next]_vars => IndInv'
<1> SUFFICES ASSUME IndInv, [Next]_vars PROVE IndInv'
  OBVIOUS
<1> USE SqlAssumption DEF IndInv, TypeOK, PC, InTransaction
<1>1. ASSUME NEW tp \in Topics, NEW tn \in Tenants, Enqueue(tp, tn) PROVE IndInv'
  <2> USE <1>1 DEF Enqueue
  <2>1. TypeOK'
    BY RowTypes, TableAssumption DEF Ids
  <2>2. \A w \in Workers : pc[w] \notin {"begun", "selected", "updated"}
    BY DEF OneWriter
  <2>3. QED BY <2>1, <2>2 DEF OneWriter, SelectionStable, WorkingHasRow
<1>2. ASSUME NEW w \in Workers, BeginImmediate(w) PROVE IndInv'
  BY <1>2 DEF BeginImmediate, OneWriter, SelectionStable, WorkingHasRow
<1>3. ASSUME NEW w \in Workers, Select(w) PROVE IndInv'
  <2>1. PICK i \in Ids : /\ IsOldest(jobs, Poll[w], i)
                         /\ row' = [row EXCEPT ![w] = ReceiptOf(i, jobs[i])]
    BY <1>3 DEF Select
  <2>2. row'[w] = ReceiptOf(i, jobs[i]) /\ row'[w].id = i /\ row'[w] \in Receipt
    BY <2>1, RowTypes
  <2>3. /\ lock = w /\ jobs' = jobs /\ lock' = lock /\ nextId' = nextId
        /\ pc' = [pc EXCEPT ![w] = "selected"] /\ pc[w] = "begun"
        /\ doomed' = doomed /\ orphans' = orphans /\ crashes' = crashes
    BY <1>3 DEF Select, OneWriter
  <2>4. TypeOK'
    BY <2>1, <2>2, <2>3
  <2>5. \A v \in Workers : v # w => pc'[v] = pc[v] /\ row'[v] = row[v]
    BY <2>1, <2>3
  <2>6. SelectionStable'
    BY <2>1, <2>2, <2>3, <2>5 DEF SelectionStable
  <2>7. OneWriter' /\ WorkingHasRow'
    BY <2>3, <2>5 DEF OneWriter, WorkingHasRow
  <2>8. QED BY <2>4, <2>6, <2>7
<1>4. ASSUME NEW w \in Workers, Rollback(w) PROVE IndInv'
  BY <1>4 DEF Rollback, OneWriter, SelectionStable, WorkingHasRow
<1>5. ASSUME NEW w \in Workers, Update(w) PROVE IndInv'
  BY <1>5 DEF Update, OneWriter, SelectionStable, WorkingHasRow
<1>6. ASSUME NEW w \in Workers, Commit(w) PROVE IndInv'
  <2>1. lock = w /\ row[w].id \in Ids
    BY <1>6 DEF Commit, SelectionStable
  <2>2. TypeOK'
    BY <1>6, <2>1, RowTypes DEF Commit
  <2>3. \A v \in Workers : v # w => pc[v] \notin {"begun", "selected", "updated"}
    BY <2>1 DEF OneWriter
  <2>4. OneWriter'
    BY <1>6, <2>1, <2>3 DEF Commit, OneWriter
  <2>5. SelectionStable' /\ WorkingHasRow'
    BY <1>6, <2>1, <2>3 DEF Commit, SelectionStable, WorkingHasRow
  <2>6. QED BY <2>2, <2>4, <2>5
<1>7. ASSUME NEW w \in Workers, NEW st \in {"done", "failed"}, Complete(w, st) PROVE IndInv'
  <2>1. row[w].id \in Ids /\ lock = Nobody
    BY <1>7 DEF Complete, WorkingHasRow
  <2>2. TypeOK'
    BY <1>7, <2>1, RowTypes DEF Complete
  <2>3. \A v \in Workers : pc[v] \notin {"begun", "selected", "updated"}
    BY <2>1 DEF OneWriter
  <2>4. QED
    BY <1>7, <2>2, <2>3 DEF Complete, OneWriter, SelectionStable, WorkingHasRow
<1>8. ASSUME NEW tn \in Tenants, DeleteBegin(tn) PROVE IndInv'
  BY <1>8, TableAssumption DEF DeleteBegin, OneWriter, SelectionStable, WorkingHasRow
<1>9. ASSUME DeleteCommit PROVE IndInv'
  <2>1. \A v \in Workers : pc[v] \notin {"begun", "selected", "updated"}
    BY <1>9 DEF DeleteCommit, OneWriter
  <2>2. TypeOK'
    BY <1>9, RowTypes DEF DeleteCommit, Purged
  <2>3. QED
    BY <1>9, <2>1, <2>2 DEF DeleteCommit, OneWriter, SelectionStable, WorkingHasRow
<1>10. ASSUME NEW w \in Workers, Crash(w) PROVE IndInv'
  <2>1. TypeOK'
    BY <1>10, RowTypes DEF Crash, WorkingHasRow
  <2>2. OneWriter'
    BY <1>10 DEF Crash, OneWriter
  <2>3. SelectionStable' /\ WorkingHasRow'
    BY <1>10 DEF Crash, OneWriter, SelectionStable, WorkingHasRow
  <2>4. QED BY <2>1, <2>2, <2>3
<1>11. ASSUME AdminCrash PROVE IndInv'
  BY <1>11 DEF AdminCrash, OneWriter, SelectionStable, WorkingHasRow
<1>12. CASE UNCHANGED vars
  BY <1>12 DEF vars, OneWriter, SelectionStable, WorkingHasRow
<1>13. QED
  BY <1>1, <1>2, <1>3, <1>4, <1>5, <1>6, <1>7, <1>8, <1>9, <1>10, <1>11, <1>12
     DEF Next, ClaimStep, CompleteStep

LEMMA InvariantHolds == Spec => []IndInv
BY InitHolds, StepHolds, PTL DEF Spec

(* The variables keep their types.                                         *)
THEOREM TypeCorrect == Spec => []TypeOK
<1>1. IndInv => TypeOK
  BY DEF IndInv
<1>2. QED BY <1>1, InvariantHolds, PTL

(* BEGIN IMMEDIATE and the single-statement writes exclude each other.     *)
THEOREM WritersExclude == Spec => []OneWriter
<1>1. IndInv => OneWriter
  BY DEF IndInv
<1>2. QED BY <1>1, InvariantHolds, PTL

(* The row a claim SELECTed is still the oldest match when it commits.     *)
THEOREM SelectionsStable == Spec => []SelectionStable
<1>1. IndInv => SelectionStable
  BY DEF IndInv
<1>2. QED BY <1>1, InvariantHolds, PTL

(* FIFO within what the worker asks for.                                   *)
THEOREM ClaimsOldestFirst == Spec => OldestFirst
<1>1. ASSUME IndInv, IndInv', [Next]_vars, NEW w \in Workers, pc[w] # "working",
             pc'[w] = "working"
      PROVE  \A j \in Ids : j < row[w].id => ~ Matches(Poll[w], jobs[j])
  <2>1. pc[w] = "updated"
    <3> USE <1>1 DEF IndInv, TypeOK
    <3>1. CASE UNCHANGED vars
      BY <3>1 DEF vars
    <3>2. CASE \E tp \in Topics, tn \in Tenants : Enqueue(tp, tn)
      BY <3>2 DEF Enqueue
    <3>3. ASSUME NEW v \in Workers, BeginImmediate(v) \/ Select(v) \/ Rollback(v) \/ Update(v)
          PROVE  FALSE
      BY <3>3 DEF BeginImmediate, Select, Rollback, Update
    <3>4. ASSUME NEW v \in Workers, Commit(v) PROVE pc[w] = "updated"
      BY <3>4 DEF Commit
    <3>5. ASSUME NEW v \in Workers, CompleteStep(v) \/ Crash(v) PROVE FALSE
      BY <3>5 DEF CompleteStep, Complete, Crash
    <3>6. CASE (\E tn \in Tenants : DeleteBegin(tn)) \/ DeleteCommit \/ AdminCrash
      BY <3>6 DEF DeleteBegin, DeleteCommit, AdminCrash
    <3>7. QED BY <3>1, <3>2, <3>3, <3>4, <3>5, <3>6 DEF Next, ClaimStep
  <2>2. IsOldest(jobs, Poll[w], row[w].id) /\ row[w].id \in Ids
    BY <1>1, <2>1 DEF IndInv, SelectionStable
  <2>3. QED BY <2>2, TableAssumption DEF IsOldest, Ids
<1>2. IndInv /\ IndInv' /\ [Next]_vars =>
        [\A w \in Workers : pc[w] # "working" /\ pc'[w] = "working" =>
            \A j \in Ids : j < row[w].id => ~ Matches(Poll[w], jobs[j])]_vars
  BY <1>1
<1>3. QED BY <1>2, InvariantHolds, PTL DEF Spec, OldestFirst

-----------------------------------------------------------------------------
LEMMA AbstractTable ==
    /\ Abstract!Ids = Ids
    /\ Abstract!Absent = Absent
    /\ Abstract!NoReceipt = NoReceipt
    /\ \A tp, tn : Abstract!Inserted(tp, tn) = Inserted(tp, tn)
    /\ \A t, f, i : Abstract!IsOldest(t, f, i) <=> IsOldest(t, f, i)
    /\ \A r : Abstract!Claimed(r) = Claimed(r)
    /\ \A r, st : Abstract!Settled(r, st) = Settled(r, st)
    /\ \A t, tn : Abstract!Purged(t, tn) = Purged(t, tn)
    /\ \A i, r : Abstract!ReceiptOf(i, r) = ReceiptOf(i, r)
BY DEF Abstract!Ids, Ids, Abstract!Absent, Absent, Abstract!NoReceipt, NoReceipt,
       Abstract!Inserted, Inserted, Abstract!IsOldest, IsOldest, Abstract!Matches,
       Matches, Abstract!Claimed, Claimed, Abstract!Settled, Settled,
       Abstract!Purged, Purged, Abstract!ReceiptOf, ReceiptOf

LEMMA InitRefines == Init => Abstract!Init
BY AbstractTable DEF Init, Abstract!Init, HeldBar

LEMMA StepRefines == IndInv /\ [Next]_vars => [Abstract!Next]_(Abstract!vars)
<1> SUFFICES ASSUME IndInv, [Next]_vars PROVE Abstract!Next \/ UNCHANGED Abstract!vars
  OBVIOUS
<1> USE SqlAssumption DEF IndInv, TypeOK
<1> DEFINE Hidden == UNCHANGED <<jobs, nextId, orphans>> /\ HeldBar' = HeldBar
<1>0. Hidden => UNCHANGED Abstract!vars
  BY DEF Abstract!vars
<1>1. ASSUME NEW tp \in Topics, NEW tn \in Tenants, Enqueue(tp, tn) PROVE Abstract!Next
  <2>1. Abstract!Enqueue(tp, tn)
    BY <1>1, AbstractTable DEF Enqueue, Abstract!Enqueue, HeldBar
  <2>2. QED BY <2>1 DEF Abstract!Next
<1>2. ASSUME NEW w \in Workers, BeginImmediate(w) \/ Rollback(w) \/ Update(w) \/ Select(w)
      PROVE  Hidden
  BY <1>2 DEF BeginImmediate, Rollback, Update, Select, HeldBar
(* The only visible statement of a claim.                                  *)
<1>3. ASSUME NEW w \in Workers, Commit(w) PROVE Abstract!Next
  <2> DEFINE i == row[w].id
  <2>1. /\ i \in Ids /\ IsOldest(jobs, Poll[w], i)
        /\ row[w] = ReceiptOf(i, jobs[i])
        /\ jobs' = [jobs EXCEPT ![i] = Claimed(jobs[i])]
        /\ nextId' = nextId /\ orphans' = orphans
    BY <1>3 DEF Commit, SelectionStable
  <2>2. HeldBar[w] = NoReceipt /\ HeldBar' = [HeldBar EXCEPT ![w] = row[w]]
    BY <1>3 DEF Commit, HeldBar
  <2> HIDE DEF i
  <2>3. Abstract!Claim(w)
    BY <2>1, <2>2, AbstractTable DEF Abstract!Claim
  <2>4. QED BY <2>3 DEF Abstract!Next
<1>4. ASSUME NEW w \in Workers, NEW st \in {"done", "failed"}, Complete(w, st)
      PROVE  Abstract!Next
  <2>1. HeldBar[w] = row[w] /\ HeldBar' = [HeldBar EXCEPT ![w] = NoReceipt]
    BY <1>4 DEF Complete, HeldBar
  <2>2. row[w] # NoReceipt
    BY <1>4 DEF Complete, WorkingHasRow, NoReceipt, Ids
  <2>3. Abstract!Complete(w, st)
    BY <1>4, <2>1, <2>2, AbstractTable DEF Complete, Abstract!Complete
  <2>4. QED BY <2>3 DEF Abstract!Next
<1>5. ASSUME NEW tn \in Tenants, DeleteBegin(tn) PROVE Hidden
  BY <1>5 DEF DeleteBegin, HeldBar
<1>6. ASSUME DeleteCommit PROVE Abstract!Next
  <2>1. doomed \in Tenants
    BY <1>6 DEF DeleteCommit, OneWriter
  <2>2. Abstract!DeleteTenant(doomed)
    BY <1>6, AbstractTable DEF DeleteCommit, Abstract!DeleteTenant, HeldBar
  <2>3. QED BY <2>1, <2>2 DEF Abstract!Next
<1>7. ASSUME NEW w \in Workers, Crash(w) PROVE Abstract!Next \/ Hidden
  <2>1. CASE pc[w] = "working"
    <3>1. HeldBar[w] = row[w] /\ HeldBar' = [HeldBar EXCEPT ![w] = NoReceipt]
      BY <1>7, <2>1 DEF Crash, HeldBar
    <3>2. row[w] # NoReceipt
      BY <2>1 DEF WorkingHasRow, NoReceipt, Ids
    <3>3. Abstract!Crash(w)
      BY <1>7, <2>1, <3>1, <3>2, AbstractTable DEF Crash, Abstract!Crash
    <3>4. QED BY <3>3 DEF Abstract!Next
  <2>2. CASE pc[w] # "working"
    BY <1>7, <2>2 DEF Crash, HeldBar
  <2>3. QED BY <2>1, <2>2
<1>8. ASSUME AdminCrash PROVE Hidden
  BY <1>8 DEF AdminCrash, HeldBar
<1>9. CASE UNCHANGED vars
  BY <1>9, <1>0 DEF vars, HeldBar
<1>10. QED
  BY <1>0, <1>1, <1>2, <1>3, <1>4, <1>5, <1>6, <1>7, <1>8, <1>9
     DEF Next, ClaimStep, CompleteStep

(* The SQL level implements the atomic queue.                              *)
THEOREM SqlImplementsQueue == Spec => ImplementsJobQueue
BY InitRefines, StepRefines, InvariantHolds, PTL DEF Spec, ImplementsJobQueue, Abstract!Spec

-----------------------------------------------------------------------------
(* What isolates tenants: ids are handed out in order, and the row a       *)
(* worker works on, if it is still there, is of the tenant the worker      *)
(* polls for; no other row can get its id.                                 *)
IdsIssued == \A i \in Ids : jobs[i].status # "absent" => i < nextId

OwnTenant(w) ==
    LET i == row[w].id IN
    /\ i < nextId
    /\ jobs[i].status # "absent" => Poll[w].tenant \in {None, jobs[i].tenant}

WorksForTenant == \A w \in Workers : pc[w] = "working" => OwnTenant(w)

TenantInv == IndInv /\ IdsIssued /\ WorksForTenant

LEMMA StatusKept ==
    /\ Absent.status = "absent"
    /\ \A tp, tn : Inserted(tp, tn).status # "absent"
    /\ \A r \in Row : Claimed(r).tenant = r.tenant
    /\ \A r \in Row, st \in {"done", "failed"} :
         Settled(r, st).tenant = r.tenant /\
         (Settled(r, st).status = "absent" <=> r.status = "absent")
BY DEF Absent, Inserted, Claimed, Settled, Row

(* A worker keeps its row's tenant when no row changes its tenant.         *)
LEMMA TenantsKept ==
    ASSUME TenantInv, TypeOK', nextId' = nextId,
           \A i \in Ids : jobs'[i].status # "absent" =>
             jobs[i].status # "absent" /\ jobs'[i].tenant = jobs[i].tenant,
           \A w \in Workers : pc'[w] = "working" => pc[w] = "working" /\ row'[w] = row[w]
    PROVE  IdsIssued' /\ WorksForTenant'
<1>1. IdsIssued'
  BY DEF TenantInv, IdsIssued
<1>2. ASSUME NEW w \in Workers, pc'[w] = "working" PROVE OwnTenant(w)'
  <2>1. row'[w] = row[w] /\ row[w].id \in Ids /\ OwnTenant(w)
    BY <1>2 DEF TenantInv, IndInv, WorkingHasRow, WorksForTenant
  <2>2. QED BY <2>1 DEF OwnTenant
<1>3. QED BY <1>1, <1>2 DEF WorksForTenant

LEMMA TenantInitial == Init => TenantInv
BY InitHolds, StatusKept DEF Init, TenantInv, IdsIssued, WorksForTenant, Ids

LEMMA TenantStepKeeps == TenantInv /\ [Next]_vars => TenantInv'
<1> SUFFICES ASSUME TenantInv, [Next]_vars PROVE TenantInv'
  OBVIOUS
<1>0. IndInv /\ IndInv' /\ TypeOK /\ TypeOK'
  BY StepHolds DEF TenantInv, IndInv
<1>a. nextId \in Nat /\ Ids \subseteq Nat /\ \A i \in Ids : jobs[i] \in Row
  BY <1>0, TableAssumption DEF TypeOK, Ids
<1> SUFFICES IdsIssued' /\ WorksForTenant'
  BY <1>0 DEF TenantInv
<1>1. ASSUME NEW tp \in Topics, NEW tn \in Tenants, Enqueue(tp, tn)
      PROVE  IdsIssued' /\ WorksForTenant'
  <2>1. /\ nextId \in Ids /\ nextId' = nextId + 1 /\ pc' = pc /\ row' = row
        /\ jobs' = [jobs EXCEPT ![nextId] = Inserted(tp, tn)]
    BY <1>1 DEF Enqueue
  <2>2. \A i \in Ids : i # nextId => jobs'[i] = jobs[i]
    BY <2>1, <1>0 DEF TypeOK
  <2>3. IdsIssued'
    BY <2>1, <2>2, <1>a DEF TenantInv, IdsIssued
  <2>4. ASSUME NEW w \in Workers, pc'[w] = "working" PROVE OwnTenant(w)'
    <3>1. OwnTenant(w) /\ row[w].id \in Ids
      BY <2>4, <2>1, <1>0 DEF TenantInv, WorksForTenant, IndInv, WorkingHasRow
    <3>2. row[w].id # nextId
      BY <3>1, <1>a DEF OwnTenant
    <3>3. row'[w] = row[w] /\ jobs'[row[w].id] = jobs[row[w].id]
      BY <3>1, <3>2, <2>1, <2>2
    <3>4. row[w].id < nextId'
      <4>1. row[w].id < nextId
        BY <3>1 DEF OwnTenant
      <4>2. row[w].id \in Nat
        BY <3>1, <1>a
      <4>3. QED BY <4>1, <4>2, <2>1, <1>a
    <3>5. QED BY <3>1, <3>3, <3>4 DEF OwnTenant
  <2>5. QED BY <2>3, <2>4 DEF WorksForTenant
<1>2. ASSUME NEW w \in Workers, BeginImmediate(w) \/ Select(w) \/ Rollback(w) \/ Update(w)
      PROVE  IdsIssued' /\ WorksForTenant'
  <2>1. jobs' = jobs /\ nextId' = nextId
    BY <1>2 DEF BeginImmediate, Select, Rollback, Update
  <2>2. \A v \in Workers : pc'[v] = "working" => pc[v] = "working" /\ row'[v] = row[v]
    BY <1>2, <1>0 DEF TypeOK, BeginImmediate, Select, Rollback, Update
  <2>3. QED BY <2>1, <2>2, <1>0, TenantsKept
<1>3. ASSUME NEW w \in Workers, Commit(w) PROVE IdsIssued' /\ WorksForTenant'
  <2> DEFINE i == row[w].id
  <2>1. /\ i \in Ids /\ Matches(Poll[w], jobs[i])
        /\ jobs' = [jobs EXCEPT ![i] = Claimed(jobs[i])]
        /\ nextId' = nextId /\ row' = row
    BY <1>3, <1>0 DEF Commit, IndInv, SelectionStable, IsOldest
  <2>2. jobs[i].status = "pending" /\ Poll[w].tenant \in {None, jobs[i].tenant}
    BY <2>1 DEF Matches
  <2>3. i < nextId
    BY <2>1, <2>2 DEF TenantInv, IdsIssued
  <2>4. \A k \in Ids : jobs'[k].tenant = jobs[k].tenant /\ (k # i => jobs'[k] = jobs[k])
    BY <2>1, <1>a, <1>0, StatusKept DEF TypeOK
  <2>5. IdsIssued'
    BY <2>1, <2>3, <2>4 DEF TenantInv, IdsIssued
  <2>6. OwnTenant(w)'
    BY <2>1, <2>2, <2>3, <2>4 DEF OwnTenant
  <2>7. ASSUME NEW v \in Workers, v # w, pc'[v] = "working" PROVE OwnTenant(v)'
    <3>1. pc[v] = "working"
      BY <2>7, <1>3, <1>0 DEF Commit, TypeOK
    <3>2. OwnTenant(v) /\ row[v].id \in Ids
      BY <3>1, <1>0 DEF TenantInv, WorksForTenant, IndInv, WorkingHasRow
    <3>3. jobs[i].status # "absent"
      BY <2>2
    <3>4. QED BY <3>2, <3>3, <2>1, <2>4 DEF OwnTenant
  <2>8. QED BY <2>5, <2>6, <2>7 DEF WorksForTenant
<1>4. ASSUME NEW w \in Workers, NEW st \in {"done", "failed"}, Complete(w, st)
      PROVE  IdsIssued' /\ WorksForTenant'
  <2>1. /\ row[w].id \in Ids /\ nextId' = nextId
        /\ jobs' = [jobs EXCEPT ![row[w].id] = Settled(jobs[row[w].id], st)]
    BY <1>4, <1>0 DEF Complete, IndInv, WorkingHasRow
  <2>2. \A k \in Ids : jobs'[k].status # "absent" =>
          jobs[k].status # "absent" /\ jobs'[k].tenant = jobs[k].tenant
    BY <2>1, <1>a, <1>0, StatusKept DEF TypeOK
  <2>3. \A v \in Workers : pc'[v] = "working" => pc[v] = "working" /\ row'[v] = row[v]
    BY <1>4, <1>0 DEF Complete, TypeOK
  <2>4. QED BY <2>1, <2>2, <2>3, <1>0, TenantsKept
<1>5. ASSUME NEW tn \in Tenants, DeleteBegin(tn) PROVE IdsIssued' /\ WorksForTenant'
  BY <1>5, <1>0, TenantsKept DEF DeleteBegin
<1>6. ASSUME DeleteCommit PROVE IdsIssued' /\ WorksForTenant'
  <2>1. \A k \in Ids : jobs'[k].status # "absent" => jobs'[k] = jobs[k]
    BY <1>6, StatusKept DEF DeleteCommit, Purged
  <2>2. nextId' = nextId /\ pc' = pc /\ row' = row
    BY <1>6 DEF DeleteCommit
  <2>3. QED BY <2>1, <2>2, <1>0, TenantsKept
<1>7. ASSUME NEW w \in Workers, Crash(w) PROVE IdsIssued' /\ WorksForTenant'
  <2>1. jobs' = jobs /\ nextId' = nextId
    BY <1>7 DEF Crash
  <2>2. \A v \in Workers : pc'[v] = "working" => pc[v] = "working" /\ row'[v] = row[v]
    BY <1>7, <1>0 DEF TypeOK, Crash
  <2>3. QED BY <2>1, <2>2, <1>0, TenantsKept
<1>8. CASE AdminCrash \/ UNCHANGED vars
  BY <1>8, <1>0, TenantsKept DEF AdminCrash, vars
<1>9. QED
  BY <1>1, <1>2, <1>3, <1>4, <1>5, <1>6, <1>7, <1>8 DEF Next, ClaimStep, CompleteStep

(* What keeps a job from being handed out twice: an id that was handed out *)
(* is issued, and its row is never pending again; a pending row was never  *)
(* claimed.                                                                *)
GivenOut(i) == i < nextId /\ jobs[i].status # "pending"

HandedOut ==
    /\ \A w \in Workers : pc[w] = "working" => GivenOut(row[w].id)
    /\ \A i \in orphans : GivenOut(i)
    /\ \A i \in Ids : jobs[i].status = "pending" => jobs[i].attempts = 0

OnceInv == TenantInv /\ HandedOut /\ DeliveredOnce

LEMMA AttemptsKept ==
    /\ Absent.attempts = 0
    /\ Absent.status # "pending"
    /\ \A tp \in Topics, tn \in Tenants : Inserted(tp, tn).attempts = 0
    /\ \A r \in Row : Claimed(r).status # "pending"
    /\ \A r \in Row : r.attempts = 0 => Claimed(r).attempts = 1
    /\ \A r \in Row, st \in {"done", "failed"} : Settled(r, st).status # "pending"
    /\ \A r \in Row, st \in {"done", "failed"} : Settled(r, st).attempts = r.attempts
BY DEF Absent, Inserted, Claimed, Settled, Row

(* Steps that make no row pending, hand none out and forget no worker's.   *)
LEMMA NothingHandedOut ==
    ASSUME OnceInv, TypeOK', nextId' = nextId,
           \A i \in Ids : /\ jobs'[i].status = "pending" => jobs'[i] = jobs[i]
                          /\ jobs'[i].attempts <= 1,
           \A w \in Workers : pc'[w] = "working" => /\ pc[w] = "working"
                                                   /\ row'[w] = row[w]
                                                   /\ row[w].id \notin orphans',
           \A i \in orphans' : i \in orphans \/ GivenOut(i)
    PROVE  HandedOut' /\ DeliveredOnce'
<1>1. \A i \in Ids : GivenOut(i) => GivenOut(i)'
  BY DEF GivenOut
<1>2. \A w \in Workers : pc'[w] = "working" => row[w].id \in Ids /\ GivenOut(row[w].id)
  BY DEF OnceInv, HandedOut, TenantInv, IndInv, WorkingHasRow
<1>3. \A w \in Workers : pc'[w] = "working" => GivenOut(row[w].id)'
  BY <1>1, <1>2 DEF GivenOut
<1>4. \A i \in orphans' : i \in Ids /\ GivenOut(i)
  BY DEF OnceInv, HandedOut, TypeOK
<1>5. HandedOut'
  <2>1. \A i \in orphans' : GivenOut(i)'
    BY <1>1, <1>4
  <2>2. \A i \in Ids : jobs'[i].status = "pending" => jobs'[i].attempts = 0
    BY DEF OnceInv, HandedOut
  <2>3. QED BY <1>2, <1>3, <2>1, <2>2 DEF HandedOut, GivenOut
<1>6. DeliveredOnce'
  BY DEF OnceInv, DeliveredOnce
<1>7. QED BY <1>5, <1>6

LEMMA OnceInitial == Init => OnceInv
BY TenantInitial, AttemptsKept
   DEF Init, OnceInv, HandedOut, DeliveredOnce, Absent, Ids

LEMMA CommitHandsOutOnce ==
    ASSUME OnceInv, NEW w \in Workers, Commit(w)
    PROVE  HandedOut' /\ DeliveredOnce'
<1>0. TypeOK /\ IndInv /\ IdsIssued
  BY DEF OnceInv, TenantInv, IndInv
<1>i. PICK i \in Ids : i = row[w].id
  BY <1>0 DEF Commit, IndInv, SelectionStable
<1>1. /\ Matches(Poll[w], jobs[i])
      /\ jobs' = [jobs EXCEPT ![i] = Claimed(jobs[i])]
      /\ nextId' = nextId /\ row' = row /\ orphans' = orphans
      /\ pc' = [pc EXCEPT ![w] = "working"]
  BY <1>0, <1>i DEF Commit, IndInv, SelectionStable, IsOldest
<1>2. jobs[i].status = "pending" /\ jobs[i].attempts = 0 /\ jobs[i] \in Row
  BY <1>0, <1>1 DEF Matches, OnceInv, HandedOut, TypeOK
<1>3. /\ jobs'[i].status # "pending" /\ jobs'[i].attempts = 1
      /\ \A j \in Ids : j # i => jobs'[j] = jobs[j]
  BY <1>0, <1>1, <1>2, AttemptsKept DEF TypeOK
<1>4. i < nextId
  BY <1>1, <1>2, <1>0 DEF IdsIssued
<1>5. \A j \in Ids : GivenOut(j) => GivenOut(j)' /\ j # i
  BY <1>1, <1>2, <1>3 DEF GivenOut
<1>6. \A v \in Workers : v # w /\ pc'[v] = "working" =>
        row[v].id \in Ids /\ GivenOut(row[v].id) /\ pc[v] = "working"
  BY <1>0, <1>1 DEF TypeOK, OnceInv, HandedOut, IndInv, WorkingHasRow
<1>7. \A j \in orphans : j \in Ids /\ GivenOut(j)
  BY <1>0 DEF TypeOK, OnceInv, HandedOut
<1>8. GivenOut(i)'
  BY <1>1, <1>3, <1>4 DEF GivenOut
<1>9. HandedOut'
  <2>1. ASSUME NEW v \in Workers, pc'[v] = "working" PROVE GivenOut(row[v].id)'
    <3>1. CASE v = w
      BY <1>i, <1>1, <1>8, <3>1 DEF GivenOut
    <3>2. CASE v # w
      BY <1>1, <1>5, <1>6, <2>1, <3>2 DEF GivenOut
    <3>3. QED BY <3>1, <3>2
  <2>2. \A j \in orphans' : GivenOut(j)'
    BY <1>1, <1>5, <1>7
  <2>3. \A j \in Ids : jobs'[j].status = "pending" => jobs'[j].attempts = 0
    BY <1>3 DEF OnceInv, HandedOut
  <2>4. QED BY <2>1, <2>2, <2>3 DEF HandedOut, GivenOut
<1>10. DeliveredOnce'
  <2>1. ASSUME NEW u \in Workers, NEW v \in Workers, u # v,
               pc'[u] = "working", pc'[v] = "working"
        PROVE  row'[u].id # row'[v].id
    <3>1. CASE u = w
      BY <1>1, <1>5, <1>6, <2>1, <3>1, <1>i
    <3>2. CASE v = w
      BY <1>1, <1>5, <1>6, <2>1, <3>2, <1>i
    <3>3. CASE u # w /\ v # w
      BY <1>1, <1>6, <2>1, <3>3 DEF OnceInv, DeliveredOnce
    <3>4. QED BY <3>1, <3>2, <3>3
  <2>2. ASSUME NEW v \in Workers, pc'[v] = "working" PROVE row'[v].id \notin orphans'
    <3>1. CASE v = w
      BY <1>1, <1>5, <1>7, <3>1, <1>i
    <3>2. CASE v # w
      BY <1>1, <1>6, <2>2, <3>2 DEF OnceInv, DeliveredOnce
    <3>3. QED BY <3>1, <3>2
  <2>3. \A j \in Ids : jobs'[j].attempts <= 1
    BY <1>3 DEF OnceInv, DeliveredOnce
  <2>4. QED BY <2>1, <2>2, <2>3 DEF DeliveredOnce
<1>11. QED BY <1>9, <1>10

LEMMA OnceStepKeeps == OnceInv /\ [Next]_vars => OnceInv'
<1> SUFFICES ASSUME OnceInv, [Next]_vars PROVE OnceInv'
  OBVIOUS
<1>0. TenantInv /\ TenantInv' /\ IndInv /\ TypeOK /\ TypeOK'
  BY TenantStepKeeps DEF OnceInv, TenantInv, IndInv
<1>a. nextId \in Nat /\ Ids \subseteq Nat /\ \A i \in Ids : jobs[i] \in Row
  BY <1>0, TableAssumption DEF TypeOK, Ids
<1>b. /\ \A w \in Workers : pc[w] = "working" => /\ row[w].id \in Ids
                                                /\ GivenOut(row[w].id)
                                                /\ row[w].id \notin orphans
      /\ \A i \in orphans : i \in Ids /\ GivenOut(i)
      /\ \A i \in Ids : jobs[i].attempts <= 1
  BY <1>0 DEF OnceInv, HandedOut, DeliveredOnce, IndInv, WorkingHasRow, TypeOK
<1> SUFFICES HandedOut' /\ DeliveredOnce'
  BY <1>0 DEF OnceInv
<1>1. ASSUME NEW tp \in Topics, NEW tn \in Tenants, Enqueue(tp, tn)
      PROVE  HandedOut' /\ DeliveredOnce'
  <2>1. /\ nextId \in Ids /\ nextId' = nextId + 1 /\ pc' = pc /\ row' = row
        /\ orphans' = orphans
        /\ jobs' = [jobs EXCEPT ![nextId] = Inserted(tp, tn)]
    BY <1>1 DEF Enqueue
  <2>2. /\ \A i \in Ids : i # nextId => jobs'[i] = jobs[i]
        /\ jobs'[nextId].attempts = 0
    BY <2>1, <1>0, AttemptsKept DEF TypeOK
  <2>3. \A i \in Ids : GivenOut(i) => GivenOut(i)'
    BY <2>1, <2>2, <1>a DEF GivenOut
  <2>4. ASSUME NEW w \in Workers, pc'[w] = "working" PROVE GivenOut(row[w].id)'
    <3>1. PICK i \in Ids : i = row[w].id /\ i = row'[w].id /\ GivenOut(i)
      BY <2>1, <2>4, <1>b
    <3>2. GivenOut(i)'
      BY <2>3, <3>1
    <3>3. QED BY <3>1, <3>2 DEF GivenOut
  <2>5. \A i \in orphans' : GivenOut(i)'
    BY <2>1, <2>3, <1>b
  <2>6. \A i \in Ids : jobs'[i].status = "pending" => jobs'[i].attempts = 0
    BY <2>2 DEF OnceInv, HandedOut
  <2>7. HandedOut'
    BY <2>4, <2>5, <2>6 DEF HandedOut, GivenOut
  <2>8. DeliveredOnce'
    BY <2>1, <2>2 DEF OnceInv, DeliveredOnce
  <2>9. QED BY <2>7, <2>8
<1>2. ASSUME NEW w \in Workers, BeginImmediate(w) \/ Select(w) \/ Rollback(w) \/ Update(w)
      PROVE  HandedOut' /\ DeliveredOnce'
  <2>1. jobs' = jobs /\ nextId' = nextId /\ orphans' = orphans
    BY <1>2 DEF BeginImmediate, Select, Rollback, Update
  <2>2. \A v \in Workers : pc'[v] = "working" => pc[v] = "working" /\ row'[v] = row[v]
    BY <1>2, <1>0 DEF TypeOK, BeginImmediate, Select, Rollback, Update
  <2>3. QED BY <2>1, <2>2, <1>0, <1>b, NothingHandedOut
<1>3. ASSUME NEW w \in Workers, Commit(w) PROVE HandedOut' /\ DeliveredOnce'
  BY <1>3, CommitHandsOutOnce
<1>4. ASSUME NEW w \in Workers, NEW st \in {"done", "failed"}, Complete(w, st)
      PROVE  HandedOut' /\ DeliveredOnce'
  <2>1. /\ row[w].id \in Ids /\ nextId' = nextId /\ orphans' = orphans
        /\ jobs' = [jobs EXCEPT ![row[w].id] = Settled(jobs[row[w].id], st)]
    BY <1>4, <1>0 DEF Complete, IndInv, WorkingHasRow
  <2>2. \A k \in Ids : /\ jobs'[k].status = "pending" => jobs'[k] = jobs[k]
                       /\ jobs'[k].attempts <= 1
    BY <2>1, <1>a, <1>b, <1>0, AttemptsKept DEF TypeOK
  <2>3. \A v \in Workers : pc'[v] = "working" => pc[v] = "working" /\ row'[v] = row[v]
    BY <1>4, <1>0 DEF Complete, TypeOK
  <2>4. QED BY <2>1, <2>2, <2>3, <1>0, <1>b, NothingHandedOut
<1>5. ASSUME NEW tn \in Tenants, DeleteBegin(tn) PROVE HandedOut' /\ DeliveredOnce'
  BY <1>5, <1>0, <1>b, NothingHandedOut DEF DeleteBegin
<1>6. ASSUME DeleteCommit PROVE HandedOut' /\ DeliveredOnce'
  <2>1. \A k \in Ids : /\ jobs'[k].status = "pending" => jobs'[k] = jobs[k]
                       /\ jobs'[k].attempts <= 1
    BY <1>6, <1>b, AttemptsKept DEF DeleteCommit, Purged
  <2>2. nextId' = nextId /\ pc' = pc /\ row' = row /\ orphans' = orphans
    BY <1>6 DEF DeleteCommit
  <2>3. QED BY <2>1, <2>2, <1>0, <1>b, NothingHandedOut
<1>7. ASSUME NEW w \in Workers, Crash(w) PROVE HandedOut' /\ DeliveredOnce'
  <2>1. /\ jobs' = jobs /\ nextId' = nextId
        /\ orphans' = IF pc[w] = "working" THEN orphans \cup {row[w].id} ELSE orphans
    BY <1>7 DEF Crash
  <2>2. \A v \in Workers : pc'[v] = "working" =>
          v # w /\ pc[v] = "working" /\ row'[v] = row[v]
    BY <1>7, <1>0 DEF TypeOK, Crash
  <2>3. \A v \in Workers : pc'[v] = "working" => row[v].id \notin orphans'
    BY <2>1, <2>2, <1>b DEF OnceInv, DeliveredOnce
  <2>4. \A i \in orphans' : i \in orphans \/ GivenOut(i)
    BY <2>1, <1>b
  <2>5. QED BY <2>1, <2>2, <2>3, <2>4, <1>0, <1>b, NothingHandedOut
<1>8. CASE AdminCrash \/ UNCHANGED vars
  <2>1. jobs' = jobs /\ nextId' = nextId /\ pc' = pc /\ row' = row /\ orphans' = orphans
    BY <1>8 DEF AdminCrash, vars
  <2>2. QED BY <2>1, <1>0, <1>b, NothingHandedOut
<1>9. QED
  BY <1>1, <1>2, <1>3, <1>4, <1>5, <1>6, <1>7, <1>8 DEF Next, ClaimStep, CompleteStep

(* However the statements of several claims, of delete_tenant() and of     *)
(* dying processes interleave, no job reaches two workers, and none is     *)
(* handed out again after its worker died (Queue.claim).                   *)
THEOREM JobsReachOneWorker == Spec => []DeliveredOnce
<1>1. OnceInv => DeliveredOnce
  BY DEF OnceInv
<1>2. QED BY <1>1, OnceInitial, OnceStepKeeps, PTL DEF Spec

(* A worker that polls for one tenant changes no row of another, neither   *)
(* by claiming nor by completing, whatever was deleted and enqueued since. *)
THEOREM TenantsIsolated == Spec => TenantIsolation
<1>1. ASSUME TenantInv, [Next]_vars, NEW w \in Workers, NEW i \in Ids,
             pc'[w] # pc[w], Poll[w].tenant # None, jobs'[i] # jobs[i]
      PROVE  jobs[i].tenant = Poll[w].tenant
  <2>0. TypeOK /\ IndInv /\ jobs[i] \in Row
    BY <1>1 DEF TenantInv, IndInv, TypeOK
  <2>1. CASE UNCHANGED vars
    BY <1>1, <2>1 DEF vars
  <2>2. ASSUME NEW tp \in Topics, NEW tn \in Tenants, Enqueue(tp, tn) PROVE FALSE
    BY <1>1, <2>2 DEF Enqueue
  <2>3. ASSUME NEW v \in Workers, BeginImmediate(v) \/ Select(v) \/ Rollback(v) \/ Update(v)
        PROVE  FALSE
    BY <1>1, <2>3 DEF BeginImmediate, Select, Rollback, Update
  <2>4. ASSUME NEW v \in Workers, Commit(v) PROVE jobs[i].tenant = Poll[w].tenant
    <3>1. v = w
      BY <1>1, <2>0, <2>4 DEF Commit, TypeOK
    <3>2. i = row[w].id
      BY <1>1, <2>0, <2>4, <3>1 DEF Commit, TypeOK
    <3>3. Matches(Poll[w], jobs[i])
      BY <2>0, <2>4, <3>1, <3>2 DEF Commit, IndInv, SelectionStable, IsOldest
    <3>4. QED BY <1>1, <3>3 DEF Matches
  <2>5. ASSUME NEW v \in Workers, NEW st \in {"done", "failed"}, Complete(v, st)
        PROVE  jobs[i].tenant = Poll[w].tenant
    <3>1. v = w
      BY <1>1, <2>0, <2>5 DEF Complete, TypeOK
    <3>2. i = row[w].id /\ OwnTenant(w)
      BY <1>1, <2>0, <2>5, <3>1 DEF Complete, TypeOK, TenantInv, WorksForTenant
    <3>3. jobs'[i] = Settled(jobs[i], st)
      BY <2>0, <2>5, <3>1, <3>2 DEF Complete, TypeOK
    <3>4. jobs[i].status # "absent"
      BY <1>1, <3>3 DEF Settled
    <3>5. QED BY <1>1, <3>2, <3>4 DEF OwnTenant
  <2>6. CASE (\E tn \in Tenants : DeleteBegin(tn)) \/ DeleteCommit \/ AdminCrash
    BY <1>1, <2>6 DEF DeleteBegin, DeleteCommit, AdminCrash
  <2>7. ASSUME NEW v \in Workers, Crash(v) PROVE FALSE
    BY <1>1, <2>7 DEF Crash
  <2>8. QED
    BY <1>1, <2>1, <2>2, <2>3, <2>4, <2>5, <2>6, <2>7 DEF Next, ClaimStep, CompleteStep
<1>2. TenantInv /\ [Next]_vars =>
        [\A w \in Workers, i \in Ids :
            (pc'[w] # pc[w] /\ Poll[w].tenant # None /\ jobs'[i] # jobs[i])
                => jobs[i].tenant = Poll[w].tenant]_vars
  BY <1>1
<1>3. QED BY <1>2, TenantInitial, TenantStepKeeps, PTL DEF Spec, TenantIsolation

=============================================================================
