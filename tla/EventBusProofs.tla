--------------------------- MODULE EventBusProofs ---------------------------
(***************************************************************************)
(* For every set of dispatching threads, handlers, workers and topics: the *)
(* verdict on an event that no worker took is earned by its handlers, and  *)
(* no dispatch calls a handler twice.  The queue keeps its own promises    *)
(* under dispatches, which settle jobs without having claimed them.        *)
(***************************************************************************)
EXTENDS EventBus, JobQueueProofs, SequenceTheorems

Active(d) == call[d] # NoCall
Settling == {"done", "failed"}
NoRepeats(s) == \A k, m \in 1 .. Len(s) : s[k] = s[m] => k = m

(* The job table under a bus: complete() may settle a row nobody claimed,  *)
(* so only the number of claims tells what became of a job.                *)
RowStates ==
    \A i \in Ids :
        /\ jobs[i].status = "absent" => jobs[i] = Absent
        /\ jobs[i].status = "pending" => jobs[i].attempts = 0
        /\ jobs[i].status = "in_flight" => jobs[i].attempts = 1
        /\ jobs[i].attempts <= 1

WasClaimed(i) == i < nextId /\ (jobs[i] = Absent \/ jobs[i].attempts = 1)

TakenIds ==
    /\ \A w \in Workers : held[w] # NoReceipt => WasClaimed(held[w].id)
    /\ \A i \in orphans : WasClaimed(i)

UnusedIds ==
    \A i \in Ids : i >= nextId => jobs[i] = Absent /\ log[i] = <<>> /\ audience[i] = <<>>

QueueInv == UnusedIds /\ RowStates /\ TakenIds /\ DeliveredOnce /\ InFlightAccounted

(* A dispatch has a job of its own, which it alone settles unclaimed.      *)
OwnJobs ==
    /\ \A d \in Dispatchers : Active(d) =>
        /\ call[d].job < nextId
        /\ jobs[call[d].job].status \in Settling => jobs[call[d].job].attempts = 1
    /\ \A d, e \in Dispatchers : Active(d) /\ d # e => call[d].job # call[e].job

(* What it has called and what is left to call are its audience.           *)
Halfway(c, called, all) ==
    /\ c.pc = "enqueued" => called = <<>> /\ c.errors = 0
    /\ c.pc = "running" =>
        /\ Len(called) + Len(c.todo) = Len(all)
        /\ \A k \in 1 .. Len(c.todo) : c.todo[k] = all[Len(called) + k]
        /\ c.errors > 0 <=> \E k \in 1 .. Len(called) : ~ called[k].ok

InProgress ==
    \A d \in Dispatchers : Halfway(call[d], log[call[d].job], audience[call[d].job])

Audiences ==
    /\ \A tp \in Topics : NoRepeats(subscribers[tp])
    /\ \A i \in Ids :
        /\ NoRepeats(audience[i])
        /\ Len(log[i]) <= Len(audience[i])
        /\ \A k \in 1 .. Len(log[i]) : log[i][k].handler = audience[i][k]

BusInv ==
    BusTypeOK /\ QueueInv /\ OwnJobs /\ InProgress /\ Audiences /\ VerdictEarned

-----------------------------------------------------------------------------
LEMMA BusTypes ==
    ASSUME BusTypeOK
    PROVE  /\ TypeOK
           /\ \A tp \in Topics : subscribers[tp] \in Seq(Handlers) /\ Len(subscribers[tp]) \in Nat
           /\ \A i \in Ids : /\ audience[i] \in Seq(Handlers) /\ Len(audience[i]) \in Nat
                             /\ log[i] \in Seq(Outcome) /\ Len(log[i]) \in Nat
                             /\ DOMAIN log[i] = 1 .. Len(log[i])
<1>1. /\ \A tp \in Topics : subscribers[tp] \in Seq(Handlers)
      /\ \A i \in Ids : audience[i] \in Seq(Handlers) /\ log[i] \in Seq(Outcome)
  BY DEF BusTypeOK
<1>2. QED BY <1>1, LenProperties DEF BusTypeOK

LEMMA CallShapes ==
    ASSUME BusTypeOK, NEW d \in Dispatchers
    PROVE  /\ call[d].pc \in {"idle", "enqueued", "running"}
           /\ call[d].pc = "idle" <=> call[d] = NoCall
           /\ call[d].todo \in Seq(Handlers) /\ Len(call[d].todo) \in Nat
           /\ call[d].errors \in Nat
           /\ Active(d) => call[d] \in Call /\ call[d].job \in Ids /\ call[d].topic \in Topics
           /\ ~ Active(d) => call[d].job \notin Ids
<1>1. call[d] \in Call \/ call[d] = NoCall
  BY DEF BusTypeOK
<1>2. <<>> \in Seq(Handlers)
  BY EmptySeq
<1>3. CASE call[d] = NoCall
  BY <1>2, <1>3, LenProperties DEF NoCall, Active, Ids
<1>4. CASE call[d] \in Call
  <2>1. /\ call[d].pc \in {"enqueued", "running"} /\ call[d].todo \in Seq(Handlers)
        /\ call[d].errors \in Nat /\ call[d].job \in Ids /\ call[d].topic \in Topics
    BY <1>4 DEF Call
  <2>2. NoCall.pc = "idle"
    BY DEF NoCall
  <2>3. call[d] # NoCall
    BY <2>1, <2>2
  <2>4. QED BY <1>4, <2>1, <2>3, LenProperties DEF Active
<1>5. QED BY <1>1, <1>3, <1>4

LEMMA BusInitHolds == BusInit => BusInv
<1> SUFFICES ASSUME BusInit PROVE BusInv
  OBVIOUS
<1> USE DEF BusInit
<1>1. /\ <<>> \in Seq(Handlers) /\ <<>> \in Seq(Outcome) /\ Len(<<>>) = 0 /\ DOMAIN <<>> = {}
  BY EmptySeq
<1>2. TypeOK
  BY RowTypes, TableAssumption DEF Init, TypeOK, Ids
<1>3. BusTypeOK
  BY <1>1, <1>2 DEF BusTypeOK
<1>4. \A i \in Ids : /\ jobs[i] = Absent /\ log[i] = <<>> /\ audience[i] = <<>>
                     /\ jobs[i].status = "absent" /\ jobs[i].attempts = 0
  BY DEF Init, Absent
<1>5. /\ \A w \in Workers : held[w] = NoReceipt /\ held[w].id = 0
      /\ orphans = {} /\ 0 \notin Ids
  BY DEF Init, NoReceipt, Ids
<1>6. QueueInv
  BY <1>4, <1>5 DEF QueueInv, UnusedIds, RowStates, TakenIds, DeliveredOnce, InFlightAccounted
<1>7. \A d \in Dispatchers : call[d] = NoCall /\ call[d].pc = "idle"
  BY DEF NoCall
<1>8. OwnJobs /\ InProgress
  BY <1>7 DEF OwnJobs, InProgress, Halfway, Active
<1>9. Audiences
  BY <1>1, <1>4 DEF Audiences, NoRepeats
<1>10. VerdictEarned
  BY <1>4 DEF VerdictEarned
<1>11. QED BY <1>3, <1>6, <1>8, <1>9, <1>10 DEF BusInv

-----------------------------------------------------------------------------
(* Lists of subscribers have no repetitions.                               *)
LEMMA AppendOnce ==
    ASSUME NEW s \in Seq(Handlers), NEW h \in Handlers, NoRepeats(s), ~ Contains(s, h)
    PROVE  NoRepeats(Append(s, h)) /\ Append(s, h) \in Seq(Handlers)
<1>1. Len(s) \in Nat /\ \A k \in 1 .. Len(s) : s[k] # h
  BY LenProperties DEF Contains
<1>2. /\ Append(s, h) \in Seq(Handlers) /\ Len(Append(s, h)) = Len(s) + 1
      /\ \A i \in 1 .. Len(s) : Append(s, h)[i] = s[i]
      /\ Append(s, h)[Len(s) + 1] = h
  BY AppendProperties
<1>3. \A k \in 1 .. Len(s) + 1 : k \in 1 .. Len(s) \/ k = Len(s) + 1
  BY <1>1
<1>4. QED BY <1>1, <1>2, <1>3 DEF NoRepeats

LEMMA RemoveOnce ==
    ASSUME NEW s \in Seq(Handlers), NEW k \in 1 .. Len(s), NoRepeats(s)
    PROVE  NoRepeats(RemoveAt(s, k)) /\ RemoveAt(s, k) \in Seq(Handlers)
<1> DEFINE a == SubSeq(s, 1, k - 1)
           b == SubSeq(s, k + 1, Len(s))
<1>1. Len(s) \in Nat /\ k \in Nat /\ k >= 1 /\ k <= Len(s)
  BY LenProperties
<1>2. \A i \in 1 .. Len(s) : s[i] \in Handlers
  BY ElementOfSeq
<1>3. /\ a \in Seq(Handlers) /\ Len(a) = k - 1
      /\ \A i \in 1 .. k - 1 : a[i] = s[i]
  <2>1. 1 \in Int /\ k - 1 \in Int /\ \A i \in 1 .. k - 1 : s[i] \in Handlers
    BY <1>1, <1>2
  <2>2. /\ a \in Seq(Handlers) /\ Len(a) = IF 1 <= k - 1 THEN k - 1 - 1 + 1 ELSE 0
        /\ \A i \in 1 .. k - 1 - 1 + 1 : a[i] = s[1 + i - 1]
    BY <2>1, SubSeqProperties
  <2> HIDE DEF a
  <2>3. k - 1 - 1 + 1 = k - 1 /\ \A i \in 1 .. k - 1 : 1 + i - 1 = i
    BY <1>1
  <2>4. QED BY <1>1, <2>2, <2>3
<1>4. /\ b \in Seq(Handlers) /\ Len(b) = Len(s) - k
      /\ \A i \in 1 .. Len(s) - k : b[i] = s[k + i]
  <2>1. k + 1 \in Int /\ Len(s) \in Int /\ \A i \in k + 1 .. Len(s) : s[i] \in Handlers
    BY <1>1, <1>2
  <2>2. /\ b \in Seq(Handlers)
        /\ Len(b) = IF k + 1 <= Len(s) THEN Len(s) - (k + 1) + 1 ELSE 0
        /\ \A i \in 1 .. Len(s) - (k + 1) + 1 : b[i] = s[k + 1 + i - 1]
    BY <2>1, SubSeqProperties
  <2> HIDE DEF b
  <2>3. Len(s) - (k + 1) + 1 = Len(s) - k /\ \A i \in 1 .. Len(s) - k : k + 1 + i - 1 = k + i
    BY <1>1
  <2>4. Len(b) = Len(s) - k
    <3>1. CASE k + 1 <= Len(s)
      BY <2>2, <2>3, <3>1
    <3>2. CASE ~ (k + 1 <= Len(s))
      <4>1. Len(b) = 0
        BY <2>2, <3>2
      <4>2. Len(s) - k = 0
        BY <1>1, <3>2
      <4>3. QED BY <4>1, <4>2
    <3>3. QED BY <3>1, <3>2
  <2>5. QED BY <2>2, <2>3, <2>4
<1> HIDE DEF a, b
<1>5. RemoveAt(s, k) = a \o b
  BY DEF RemoveAt, a, b
<1>6. /\ a \o b \in Seq(Handlers) /\ Len(a \o b) = (k - 1) + (Len(s) - k)
      /\ \A i \in 1 .. (k - 1) + (Len(s) - k) :
           (a \o b)[i] = IF i <= k - 1 THEN a[i] ELSE b[i - (k - 1)]
  <2>1. /\ a \o b \in Seq(Handlers) /\ Len(a \o b) = Len(a) + Len(b)
        /\ \A i \in 1 .. Len(a) + Len(b) :
             (a \o b)[i] = IF i <= Len(a) THEN a[i] ELSE b[i - Len(a)]
    BY <1>3, <1>4, ConcatProperties
  <2>2. Len(a) = k - 1 /\ Len(b) = Len(s) - k
    BY <1>3, <1>4
  <2>3. QED BY <2>1, <2>2
<1>7. \A i \in 1 .. (k - 1) + (Len(s) - k) :
         (a \o b)[i] = IF i <= k - 1 THEN s[i] ELSE s[i + 1]
  <2>1. SUFFICES ASSUME NEW i \in 1 .. (k - 1) + (Len(s) - k)
                 PROVE  (a \o b)[i] = IF i <= k - 1 THEN s[i] ELSE s[i + 1]
    OBVIOUS
  <2>2. CASE i <= k - 1
    <3>1. i \in 1 .. k - 1
      BY <1>1, <2>2
    <3>2. QED BY <1>3, <1>6, <2>2, <3>1
  <2>3. CASE ~ (i <= k - 1)
    <3>1. i - (k - 1) \in 1 .. Len(s) - k /\ k + (i - (k - 1)) = i + 1
      BY <1>1, <2>3
    <3>2. (a \o b)[i] = b[i - (k - 1)]
      BY <1>6, <2>3
    <3>3. QED BY <1>4, <2>3, <3>1, <3>2
  <2>4. QED BY <2>2, <2>3
<1>8. ASSUME NEW i \in 1 .. (k - 1) + (Len(s) - k), NEW j \in 1 .. (k - 1) + (Len(s) - k),
             (a \o b)[i] = (a \o b)[j]
      PROVE  i = j
  <2> DEFINE at(n) == IF n <= k - 1 THEN n ELSE n + 1
  <2>1. /\ at(i) \in 1 .. Len(s) /\ at(j) \in 1 .. Len(s)
        /\ at(i) = at(j) => i = j
    BY <1>1
  <2>2. (a \o b)[i] = s[at(i)] /\ (a \o b)[j] = s[at(j)]
    BY <1>7
  <2> HIDE DEF at
  <2>3. at(i) = at(j)
    BY <1>8, <2>1, <2>2 DEF NoRepeats
  <2>4. QED BY <2>1, <2>3
<1>9. QED BY <1>5, <1>6, <1>8 DEF NoRepeats

(* Only the subscriber lists change.                                       *)
LEMMA ResubscribeKeeps ==
    ASSUME BusInv, NEW tp \in Topics, NEW s \in Seq(Handlers), NoRepeats(s),
           subscribers' = [subscribers EXCEPT ![tp] = s],
           UNCHANGED <<queueVars, call, audience, log>>
    PROVE  BusInv'
<1> USE DEF BusInv
<1>1. /\ jobs' = jobs /\ nextId' = nextId /\ held' = held /\ orphans' = orphans
      /\ call' = call /\ audience' = audience /\ log' = log
  BY DEF queueVars
<1>2. subscribers' \in [Topics -> Seq(Handlers)]
  BY DEF BusTypeOK
<1>3. BusTypeOK'
  BY <1>1, <1>2 DEF BusTypeOK, TypeOK
<1>4. QueueInv'
  BY <1>1 DEF QueueInv, UnusedIds, RowStates, TakenIds, WasClaimed, DeliveredOnce,
              InFlightAccounted
<1>5. OwnJobs' /\ InProgress'
  BY <1>1 DEF OwnJobs, InProgress, Active
<1>6. Audiences'
  <2>1. \A q \in Topics : subscribers'[q] = IF q = tp THEN s ELSE subscribers[q]
    BY DEF BusTypeOK
  <2>2. \A q \in Topics : NoRepeats(subscribers'[q])
    BY <2>1 DEF Audiences
  <2>3. QED BY <1>1, <2>2 DEF Audiences
<1>7. VerdictEarned'
  BY <1>1 DEF VerdictEarned
<1>8. QED BY <1>3, <1>4, <1>5, <1>6, <1>7

LEMMA SubscribeKeeps ==
    ASSUME BusInv, NEW tp \in Topics, NEW h \in Handlers, Subscribe(tp, h)
    PROVE  BusInv'
<1> DEFINE s == Append(subscribers[tp], h)
<1>1. subscribers[tp] \in Seq(Handlers) /\ NoRepeats(subscribers[tp])
  BY BusTypes DEF BusInv, Audiences
<1>2. s \in Seq(Handlers) /\ NoRepeats(s)
  BY <1>1, AppendOnce DEF Subscribe
<1>3. subscribers' = [subscribers EXCEPT ![tp] = s] /\ UNCHANGED <<queueVars, call, audience, log>>
  BY DEF Subscribe
<1> HIDE DEF s
<1>4. QED BY <1>2, <1>3, ResubscribeKeeps

LEMMA UnsubscribeKeeps ==
    ASSUME BusInv, NEW tp \in Topics, NEW h \in Handlers, Unsubscribe(tp, h)
    PROVE  BusInv'
<1>1. subscribers[tp] \in Seq(Handlers) /\ NoRepeats(subscribers[tp])
  BY BusTypes DEF BusInv, Audiences
<1>2. PICK k \in DOMAIN subscribers[tp] :
        subscribers' = [subscribers EXCEPT ![tp] = RemoveAt(subscribers[tp], k)]
  BY DEF Unsubscribe
<1>3. k \in 1 .. Len(subscribers[tp])
  BY <1>1, LenProperties
<1> DEFINE s == RemoveAt(subscribers[tp], k)
<1>4. s \in Seq(Handlers) /\ NoRepeats(s)
  BY <1>1, <1>3, RemoveOnce
<1>5. subscribers' = [subscribers EXCEPT ![tp] = s] /\ UNCHANGED <<queueVars, call, audience, log>>
  BY <1>2 DEF Unsubscribe
<1> HIDE DEF s
<1>6. QED BY <1>4, <1>5, ResubscribeKeeps

-----------------------------------------------------------------------------
(* A call of its own in which nothing has been called yet, or none.        *)
LEMMA DispatchKeeps ==
    ASSUME BusInv, NEW d \in Dispatchers, NEW tp \in Topics, NEW tn \in Tenants,
           Dispatch(d, tp, tn)
    PROVE  BusInv'
<1> USE DEF BusInv
<1> DEFINE k == [pc |-> "enqueued", job |-> nextId, topic |-> tp, todo |-> <<>>, errors |-> 0]
           r == Inserted(tp, tn)
<1>1. /\ call[d] = NoCall /\ nextId \in Ids
      /\ jobs' = [jobs EXCEPT ![nextId] = r] /\ nextId' = nextId + 1
      /\ held' = held /\ orphans' = orphans
      /\ subscribers' = subscribers /\ audience' = audience /\ log' = log
  BY DEF Dispatch, Enqueue
<1>2. call' = [call EXCEPT ![d] = k]
  BY DEF Dispatch, NoCall
<1>3. TypeOK /\ nextId \in Nat /\ nextId + 1 \in 1 .. MaxJobs + 1
  BY <1>1, TableAssumption DEF BusTypeOK, TypeOK, Ids
<1>4. r \in Row /\ r.status = "pending" /\ r.attempts = 0
  BY RowTypes DEF Inserted
<1>5. k \in Call
  <2>1. <<>> \in Seq(Handlers)
    BY EmptySeq
  <2>2. QED BY <1>1, <2>1 DEF Call
<1>6. /\ k.pc = "enqueued" /\ k.job = nextId /\ k.errors = 0 /\ k # NoCall
  BY DEF NoCall
<1> HIDE DEF k, r
<1>7. jobs'[nextId] = r /\ \A i \in Ids : i # nextId => jobs'[i] = jobs[i]
  BY <1>1, <1>3 DEF TypeOK
<1>8. call'[d] = k /\ \A e \in Dispatchers : e # d => call'[e] = call[e]
  BY <1>2 DEF BusTypeOK
<1>9. BusTypeOK'
  <2>1. TypeOK'
    BY <1>1, <1>3, <1>4 DEF TypeOK
  <2>2. call' \in [Dispatchers -> Call \cup {NoCall}]
    BY <1>2, <1>5 DEF BusTypeOK
  <2>3. QED BY <1>1, <2>1, <2>2 DEF BusTypeOK
<1>10. QueueInv'
  <2>1. \A i \in Ids : i >= nextId' => i >= nextId /\ i # nextId
    BY <1>1, <1>3 DEF Ids
  <2>2. UnusedIds'
    BY <1>1, <1>7, <2>1 DEF QueueInv, UnusedIds
  <2>3. RowStates'
    BY <1>4, <1>7 DEF QueueInv, RowStates
  <2>4. \A i \in Ids : WasClaimed(i) => WasClaimed(i)' /\ i # nextId
    BY <1>1, <1>3, <1>7 DEF WasClaimed, Ids
  <2>5. TakenIds'
    BY <1>1, <1>3, <2>4, HeldIds DEF QueueInv, TakenIds, TypeOK
  <2>6. DeliveredOnce'
    BY <1>1, <1>4, <1>7 DEF QueueInv, DeliveredOnce
  <2>7. InFlightAccounted'
    BY <1>1, <1>4, <1>7 DEF QueueInv, InFlightAccounted
  <2>8. QED BY <2>2, <2>3, <2>5, <2>6, <2>7 DEF QueueInv
<1>11. \A e \in Dispatchers : Active(e) => call[e].job \in Ids /\ call[e].job < nextId
  BY CallShapes DEF OwnJobs
<1>12. OwnJobs'
  <2>1. \A e \in Dispatchers : Active(e)' =>
          /\ call'[e].job < nextId'
          /\ jobs'[call'[e].job].status \in Settling => jobs'[call'[e].job].attempts = 1
    <3>1. SUFFICES ASSUME NEW e \in Dispatchers, Active(e)'
                   PROVE  /\ call'[e].job < nextId'
                          /\ jobs'[call'[e].job].status \in Settling => jobs'[call'[e].job].attempts = 1
      OBVIOUS
    <3>2. CASE e = d
      BY <1>1, <1>3, <1>4, <1>6, <1>7, <1>8, <3>2 DEF Settling
    <3>3. CASE e # d
      <4>1. Active(e) /\ call'[e] = call[e]
        BY <1>8, <3>1, <3>3 DEF Active
      <4>2. call[e].job \in Nat /\ call[e].job # nextId /\ call[e].job < nextId
        BY <1>3, <1>11, <4>1 DEF Ids
      <4>3. jobs'[call[e].job] = jobs[call[e].job]
        BY <1>7, <1>11, <4>1, <4>2
      <4>4. QED BY <1>1, <1>3, <4>1, <4>2, <4>3 DEF OwnJobs
    <3>4. QED BY <3>2, <3>3
  <2>2. \A e, f \in Dispatchers : Active(e)' /\ e # f => call'[e].job # call'[f].job
    <3>1. SUFFICES ASSUME NEW e \in Dispatchers, NEW f \in Dispatchers, Active(e)', e # f
                   PROVE  call'[e].job # call'[f].job
      OBVIOUS
    <3>2. CASE e = d
      <4>1. call'[f] = call[f] /\ call'[e].job = nextId
        BY <1>6, <1>8, <3>1, <3>2
      <4>2. Active(f) => call[f].job < nextId
        BY <1>11
      <4>3. ~ Active(f) => call[f].job \notin Ids
        BY CallShapes
      <4>4. QED BY <1>1, <1>3, <1>11, <4>1, <4>2, <4>3 DEF Ids
    <3>3. CASE f = d
      <4>1. call'[e] = call[e] /\ Active(e) /\ call'[f].job = nextId
        BY <1>6, <1>8, <3>1, <3>3 DEF Active
      <4>2. QED BY <1>3, <1>11, <4>1 DEF Ids
    <3>4. CASE e # d /\ f # d
      BY <1>8, <3>1, <3>4 DEF OwnJobs, Active
    <3>5. QED BY <3>2, <3>3, <3>4
  <2>3. QED BY <2>1, <2>2 DEF OwnJobs
<1>13. InProgress'
  <2>1. log[nextId] = <<>>
    BY <1>1, <1>3 DEF QueueInv, UnusedIds
  <2>2. \A e \in Dispatchers : e # d => call'[e] = call[e]
    BY <1>8
  <2>3. Halfway(call'[d], log'[call'[d].job], audience'[call'[d].job])
    BY <1>1, <1>6, <1>8, <2>1 DEF Halfway
  <2>4. QED BY <1>1, <2>2, <2>3 DEF InProgress
<1>14. Audiences' /\ VerdictEarned'
  <2>1. Audiences'
    BY <1>1 DEF Audiences
  <2>2. ASSUME NEW i \in Ids, jobs'[i].status \in {"done", "failed"}
        PROVE  jobs'[i] = jobs[i]
    BY <1>4, <1>7, <2>2
  <2>3. VerdictEarned'
    BY <1>1, <2>2 DEF VerdictEarned
  <2>4. QED BY <2>1, <2>3
<1>15. QED BY <1>9, <1>10, <1>12, <1>13, <1>14

(* No other call concerns the job of this one.                             *)
LEMMA OthersElsewhere ==
    ASSUME BusInv, NEW d \in Dispatchers, Active(d)
    PROVE  /\ call[d] \in Call /\ call[d].job \in Ids /\ call[d].topic \in Topics
           /\ \A e \in Dispatchers : e # d => call[e].job # call[d].job
           /\ call[d].job < nextId
           /\ jobs[call[d].job].status \in Settling => jobs[call[d].job].attempts = 1
BY CallShapes DEF BusInv, OwnJobs

(* The queue does not change, nor whose the calls' jobs are.               *)
LEMMA QueueSame ==
    ASSUME BusInv, UNCHANGED <<queueVars, subscribers>>,
           \A i \in Ids : i >= nextId => log'[i] = log[i] /\ audience'[i] = audience[i],
           \A d \in Dispatchers : Active(d)' => Active(d) /\ call'[d].job = call[d].job,
           \A d \in Dispatchers : call'[d].job = call[d].job \/ call'[d] = NoCall
    PROVE  QueueInv' /\ OwnJobs'
<1> USE DEF BusInv
<1>1. /\ jobs' = jobs /\ nextId' = nextId /\ held' = held /\ orphans' = orphans
      /\ subscribers' = subscribers
  BY DEF queueVars
<1>2. UnusedIds'
  BY <1>1 DEF QueueInv, UnusedIds
<1>3. RowStates' /\ TakenIds' /\ DeliveredOnce' /\ InFlightAccounted'
  BY <1>1 DEF QueueInv, RowStates, TakenIds, WasClaimed, DeliveredOnce, InFlightAccounted
<1>4. \A d \in Dispatchers : Active(d)' =>
        /\ call'[d].job < nextId'
        /\ jobs'[call'[d].job].status \in Settling => jobs'[call'[d].job].attempts = 1
  BY <1>1 DEF OwnJobs
<1>5. \A d, e \in Dispatchers : Active(d)' /\ d # e => call'[d].job # call'[e].job
  <2>1. SUFFICES ASSUME NEW d \in Dispatchers, NEW e \in Dispatchers, Active(d)', d # e
                 PROVE  call'[d].job # call'[e].job
    OBVIOUS
  <2>2. Active(d) /\ call'[d].job = call[d].job /\ call[d].job \in Ids
    BY <2>1, CallShapes
  <2>3. CASE call'[e].job = call[e].job
    BY <2>1, <2>2, <2>3 DEF OwnJobs
  <2>4. CASE call'[e] = NoCall
    <3>1. NoCall.job \notin Ids
      BY DEF NoCall, Ids
    <3>2. QED BY <2>2, <2>4, <3>1
  <2>5. QED BY <2>3, <2>4
<1>6. QED BY <1>2, <1>3, <1>4, <1>5 DEF QueueInv, OwnJobs

LEMMA SnapshotKeeps ==
    ASSUME BusInv, NEW d \in Dispatchers, Snapshot(d)
    PROVE  BusInv'
<1> USE DEF BusInv
<1> DEFINE i == call[d].job
           s == subscribers[call[d].topic]
           k == [pc |-> "running", job |-> i, topic |-> call[d].topic, todo |-> s,
                 errors |-> call[d].errors]
<1>1. call[d].pc = "enqueued" /\ Active(d)
  BY CallShapes DEF Snapshot, Active
<1>2. /\ call[d] \in Call /\ i \in Ids /\ call[d].topic \in Topics /\ i < nextId
      /\ \A e \in Dispatchers : e # d => call[e].job # i
      /\ jobs[i].status \in Settling => jobs[i].attempts = 1
  BY <1>1, OthersElsewhere
<1>3. s \in Seq(Handlers) /\ Len(s) \in Nat /\ NoRepeats(s)
  BY <1>2, BusTypes DEF Audiences
<1>4. call' = [call EXCEPT ![d] = k]
  <2>1. call' = [call EXCEPT ![d].pc = "running", ![d].todo = s]
    BY DEF Snapshot
  <2> HIDE DEF s
  <2>2. DOMAIN call = Dispatchers
    BY DEF BusTypeOK
  <2>3. call'[d] = k
    BY <1>2, <2>1, <2>2 DEF Call
  <2>4. call' = [call EXCEPT ![d] = call'[d]]
    BY <2>1, <2>2
  <2> HIDE DEF k
  <2>5. QED BY <2>3, <2>4
<1>5. k \in Call /\ k.pc = "running" /\ k.todo = s /\ k.errors = call[d].errors /\ k.job = i
  BY <1>2, <1>3 DEF Call
<1>6. log[i] = <<>> /\ call[d].errors = 0
  BY <1>1 DEF InProgress, Halfway
<1> HIDE DEF k, s, i
<1>7. /\ audience' = [audience EXCEPT ![i] = s] /\ log' = log
      /\ UNCHANGED <<queueVars, subscribers>>
  BY DEF Snapshot, i, s
<1>8. /\ call'[d] = k /\ \A e \in Dispatchers : e # d => call'[e] = call[e]
      /\ audience'[i] = s /\ \A j \in Ids : j # i => audience'[j] = audience[j]
  BY <1>2, <1>4, <1>7 DEF BusTypeOK
<1>9. BusTypeOK'
  <2>1. call' \in [Dispatchers -> Call \cup {NoCall}] /\ audience' \in [Ids -> Seq(Handlers)]
    BY <1>3, <1>4, <1>5, <1>7 DEF BusTypeOK
  <2>2. QED BY <1>7, <2>1 DEF BusTypeOK, TypeOK, queueVars
<1>10. QueueInv' /\ OwnJobs'
  <2>1. \A e \in Dispatchers : call'[e].job = call[e].job
    BY <1>5, <1>8 DEF i
  <2>2. \A e \in Dispatchers : Active(e)' => Active(e)
    BY <1>1, <1>8 DEF Active
  <2>3. \A j \in Ids : j >= nextId => j # i
    BY <1>2 DEF Ids, BusTypeOK, TypeOK
  <2>4. QED BY <1>7, <1>8, <2>1, <2>2, <2>3, QueueSame
<1>11. InProgress'
  <2>1. SUFFICES ASSUME NEW e \in Dispatchers
                 PROVE  Halfway(call'[e], log'[call'[e].job], audience'[call'[e].job])
    BY DEF InProgress
  <2>2. CASE e = d
    <3>1. Len(<<>>) = 0 /\ 0 + Len(s) = Len(s)
      BY <1>3
    <3>2. \A n \in 1 .. Len(s) : s[n] = s[0 + n]
      BY <1>3
    <3>3. 1 .. 0 = {} /\ ~ (0 > 0)
      OBVIOUS
    <3>4. Halfway(k, <<>>, s)
      BY <1>5, <1>6, <3>1, <3>2, <3>3 DEF Halfway
    <3>5. QED BY <1>5, <1>6, <1>7, <1>8, <2>2, <3>4
  <2>3. CASE e # d
    <3>1. Halfway(call[e], log[call[e].job], audience[call[e].job])
      BY DEF InProgress
    <3>2. CASE Active(e)
      <4>1. call[e].job \in Ids /\ call[e].job # i
        BY <1>2, <2>3, <3>2, CallShapes
      <4>2. QED BY <1>7, <1>8, <2>3, <3>1, <4>1
    <3>3. CASE ~ Active(e)
      BY <1>8, <2>3, <3>3, CallShapes DEF Halfway, Active
    <3>4. QED BY <3>2, <3>3
  <2>4. QED BY <2>2, <2>3
<1>12. Audiences'
  <2>1. \A tp \in Topics : NoRepeats(subscribers'[tp])
    BY <1>7 DEF Audiences
  <2>2. SUFFICES ASSUME NEW j \in Ids
                 PROVE  /\ NoRepeats(audience'[j]) /\ Len(log'[j]) <= Len(audience'[j])
                        /\ \A n \in 1 .. Len(log'[j]) : log'[j][n].handler = audience'[j][n]
    BY <2>1 DEF Audiences
  <2>3. CASE j = i
    BY <1>3, <1>6, <1>7, <1>8, <2>3
  <2>4. CASE j # i
    BY <1>7, <1>8, <2>4 DEF Audiences
  <2>5. QED BY <2>3, <2>4
<1>13. VerdictEarned'
  <2>1. \A j \in Ids : jobs[j].status \in {"done", "failed"} /\ jobs[j].attempts = 0 => j # i
    BY <1>2 DEF Settling
  <2>2. QED BY <1>7, <1>8, <2>1 DEF VerdictEarned, queueVars
<1>14. QED BY <1>9, <1>10, <1>11, <1>12, <1>13

(* A handler has been called: its outcome is in the log, and the call goes *)
(* on with the rest of the list, or is over.                               *)
LEMMA HandlerCalledKeeps ==
    ASSUME BusInv, NEW d \in Dispatchers, call[d].pc = "running", call[d].todo # <<>>,
           NEW ok \in BOOLEAN, NEW errors \in Nat,
           errors > 0 <=> call[d].errors > 0 \/ ~ ok,
           log' = Logged(d, ok), UNCHANGED <<queueVars, subscribers, audience>>,
           \/ call' = [call EXCEPT ![d] = NoCall]
           \/ call' = [call EXCEPT ![d] = [pc |-> "running", job |-> call[d].job,
                                           topic |-> call[d].topic,
                                           todo |-> Tail(call[d].todo), errors |-> errors]]
    PROVE  BusInv'
<1> USE DEF BusInv
<1>1. Active(d)
  BY CallShapes DEF Active
<1>2. PICK i \in Ids : i = call[d].job
  BY <1>1, OthersElsewhere
<1>3. /\ call[d] \in Call /\ call[d].topic \in Topics /\ i < nextId
      /\ \A e \in Dispatchers : e # d => call[e].job # i
      /\ jobs[i].status \in Settling => jobs[i].attempts = 1
  BY <1>1, <1>2, OthersElsewhere
<1> DEFINE todo == call[d].todo
           n == Len(log[i])
           o == [handler |-> Head(todo), ok |-> ok]
           new == Append(log[i], o)
           k == [pc |-> "running", job |-> i, topic |-> call[d].topic, todo |-> Tail(todo),
                 errors |-> errors]
<1>4. /\ todo \in Seq(Handlers) /\ todo # <<>> /\ Len(todo) \in Nat \ {0}
      /\ log[i] \in Seq(Outcome) /\ n \in Nat /\ audience[i] \in Seq(Handlers)
      /\ Len(audience[i]) \in Nat
  BY CallShapes, BusTypes, EmptySeq
<1>5. /\ Head(todo) \in Handlers /\ Tail(todo) \in Seq(Handlers) /\ Len(Tail(todo)) = Len(todo) - 1
      /\ \A m \in 1 .. Len(Tail(todo)) : Tail(todo)[m] = todo[m + 1]
      /\ Head(todo) = todo[1]
  BY <1>4, HeadTailProperties
<1>6. o \in Outcome /\ o.handler = todo[1] /\ o.ok = ok
  BY <1>5 DEF Outcome
<1>7. /\ new \in Seq(Outcome) /\ Len(new) = n + 1
      /\ \A m \in 1 .. n : new[m] = log[i][m]
      /\ new[n + 1] = o
  <2> HIDE DEF o
  <2>1. QED BY <1>4, <1>6, AppendProperties
<1>8. /\ n + Len(todo) = Len(audience[i])
      /\ \A m \in 1 .. Len(todo) : todo[m] = audience[i][n + m]
      /\ call[d].errors > 0 <=> \E m \in 1 .. n : ~ log[i][m].ok
  BY <1>2 DEF InProgress, Halfway
<1>9. k \in Call /\ k.pc = "running" /\ k.todo = Tail(todo) /\ k.errors = errors /\ k.job = i
  BY <1>3, <1>5 DEF Call
<1>10. /\ log' = [log EXCEPT ![i] = new] /\ audience' = audience
       /\ UNCHANGED <<queueVars, subscribers>>
  BY <1>2 DEF Logged
<1>11. call' = [call EXCEPT ![d] = NoCall] \/ call' = [call EXCEPT ![d] = k]
  BY <1>2
<1> HIDE DEF k, new, o, n, todo
<1>12. /\ call'[d] = NoCall \/ call'[d] = k
       /\ \A e \in Dispatchers : e # d => call'[e] = call[e]
       /\ call' \in [Dispatchers -> Call \cup {NoCall}]
  BY <1>9, <1>11 DEF BusTypeOK
<1>13. log'[i] = new /\ \A j \in Ids : j # i => log'[j] = log[j]
  BY <1>10 DEF BusTypeOK
<1>14. BusTypeOK'
  <2>1. log' \in [Ids -> Seq(Outcome)]
    BY <1>7, <1>10 DEF BusTypeOK
  <2>2. TypeOK'
    BY <1>10 DEF BusTypeOK, TypeOK, queueVars
  <2>3. subscribers' \in [Topics -> Seq(Handlers)] /\ audience' \in [Ids -> Seq(Handlers)]
    BY <1>10 DEF BusTypeOK
  <2>4. QED BY <1>12, <2>1, <2>2, <2>3 DEF BusTypeOK
<1>15. QueueInv' /\ OwnJobs'
  <2>1. \A e \in Dispatchers : call'[e].job = call[e].job \/ call'[e] = NoCall
    BY <1>2, <1>9, <1>12
  <2>2. \A e \in Dispatchers : Active(e)' => Active(e) /\ call'[e].job = call[e].job
    BY <1>1, <1>2, <1>9, <1>12 DEF Active
  <2>3. \A j \in Ids : j >= nextId => j # i
    BY <1>3 DEF Ids, BusTypeOK, TypeOK
  <2>4. QED BY <1>10, <1>13, <2>1, <2>2, <2>3, QueueSame
<1>16. n + 1 <= Len(audience[i]) /\ todo[1] = audience[i][n + 1]
  <2>1. 1 \in 1 .. Len(todo)
    BY <1>4
  <2>2. QED BY <2>1, <1>4, <1>8
<1>17. InProgress'
  <2>1. SUFFICES ASSUME NEW e \in Dispatchers
                 PROVE  Halfway(call'[e], log'[call'[e].job], audience'[call'[e].job])
    BY DEF InProgress
  <2>2. CASE e = d /\ call'[d] = NoCall
    BY <2>2 DEF Halfway, NoCall
  <2>3. CASE e = d /\ call'[d] = k
    <3>1. Len(new) + Len(Tail(todo)) = Len(audience[i])
      BY <1>4, <1>5, <1>7, <1>8
    <3>2. ASSUME NEW m \in 1 .. Len(Tail(todo))
          PROVE  Tail(todo)[m] = audience[i][Len(new) + m]
      <4>1. m + 1 \in 1 .. Len(todo) /\ n + (m + 1) = (n + 1) + m
        BY <1>4, <1>5
      <4>2. Tail(todo)[m] = audience[i][n + (m + 1)]
        BY <1>5, <1>8, <4>1
      <4>3. QED BY <1>7, <4>1, <4>2
    <3>3. (\E m \in 1 .. Len(new) : ~ new[m].ok) <=> (\E m \in 1 .. n : ~ log[i][m].ok) \/ ~ ok
      <4>1. \A m \in 1 .. n + 1 : m \in 1 .. n \/ m = n + 1
        BY <1>4
      <4>2. n + 1 \in 1 .. n + 1 /\ \A m \in 1 .. n : m \in 1 .. n + 1
        BY <1>4
      <4>3. new[n + 1].ok = ok
        BY <1>6, <1>7
      <4>4. QED BY <1>7, <4>1, <4>2, <4>3
    <3>4. errors > 0 <=> \E m \in 1 .. Len(new) : ~ new[m].ok
      BY <1>8, <3>3
    <3>5. Halfway(k, new, audience[i])
      BY <1>9, <3>1, <3>2, <3>4 DEF Halfway
    <3>6. QED BY <1>9, <1>10, <1>13, <2>3, <3>5
  <2>4. CASE e # d
    <3>1. Halfway(call[e], log[call[e].job], audience[call[e].job])
      BY DEF InProgress
    <3>2. CASE Active(e)
      <4>1. call[e].job \in Ids /\ call[e].job # i
        BY <1>3, <2>4, <3>2, CallShapes
      <4>2. QED BY <1>10, <1>12, <1>13, <2>4, <3>1, <4>1
    <3>3. CASE ~ Active(e)
      BY <1>12, <2>4, <3>3, CallShapes DEF Halfway, Active
    <3>4. QED BY <3>2, <3>3
  <2>5. QED BY <1>12, <2>2, <2>3, <2>4
<1>18. Audiences'
  <2>1. \A tp \in Topics : NoRepeats(subscribers'[tp])
    BY <1>10 DEF Audiences
  <2>2. SUFFICES ASSUME NEW j \in Ids
                 PROVE  /\ NoRepeats(audience'[j]) /\ Len(log'[j]) <= Len(audience'[j])
                        /\ \A m \in 1 .. Len(log'[j]) : log'[j][m].handler = audience'[j][m]
    BY <2>1 DEF Audiences
  <2>3. CASE j = i
    <3>1. ASSUME NEW m \in 1 .. n + 1 PROVE new[m].handler = audience[i][m]
      <4>1. CASE m \in 1 .. n
        BY <1>7, <4>1 DEF Audiences, n
      <4>2. CASE m = n + 1
        BY <1>6, <1>7, <1>16, <4>2
      <4>3. QED BY <1>4, <4>1, <4>2
    <3>2. NoRepeats(audience[i])
      BY DEF Audiences
    <3>3. QED BY <1>7, <1>10, <1>13, <1>16, <2>3, <3>1, <3>2
  <2>4. CASE j # i
    BY <1>10, <1>13, <2>4 DEF Audiences
  <2>5. QED BY <2>3, <2>4
<1>19. VerdictEarned'
  <2>1. \A j \in Ids : jobs[j].status \in {"done", "failed"} /\ jobs[j].attempts = 0 => j # i
    BY <1>3 DEF Settling
  <2>2. QED BY <1>10, <1>13, <2>1 DEF VerdictEarned, queueVars
<1>20. QED BY <1>14, <1>15, <1>17, <1>18, <1>19

LEMMA HandlerStepKeeps ==
    ASSUME BusInv, NEW d \in Dispatchers,
           HandlerReturns(d) \/ HandlerRaises(d) \/ RecordingFails(d)
    PROVE  BusInv'
<1> USE DEF BusInv
<1>1. call[d].pc = "running" /\ call[d].todo # <<>> /\ UNCHANGED <<queueVars, subscribers, audience>>
  BY DEF HandlerReturns, HandlerRaises, RecordingFails
<1>2. call[d] \in Call /\ call[d].errors \in Nat /\ DOMAIN call = Dispatchers
  BY <1>1, CallShapes, OthersElsewhere DEF Active, BusTypeOK
<1> DEFINE k(errors) == [pc |-> "running", job |-> call[d].job, topic |-> call[d].topic,
                         todo |-> Tail(call[d].todo), errors |-> errors]
<1>3. CASE HandlerReturns(d)
  <2>1. log' = Logged(d, TRUE) /\ call' = [call EXCEPT ![d].todo = Tail(call[d].todo)]
    BY <1>3 DEF HandlerReturns
  <2>2. call'[d] = k(call[d].errors) /\ call' = [call EXCEPT ![d] = call'[d]]
    BY <1>1, <1>2, <2>1 DEF Call
  <2>3. call' = [call EXCEPT ![d] = k(call[d].errors)]
    BY <2>2, Zenon
  <2>4. QED BY <1>1, <1>2, <2>1, <2>3, HandlerCalledKeeps
<1>4. CASE HandlerRaises(d)
  <2>1. log' = Logged(d, FALSE) /\ call' = [call EXCEPT ![d].todo = Tail(call[d].todo),
                                                        ![d].errors = call[d].errors + 1]
    BY <1>4 DEF HandlerRaises
  <2>2. call'[d] = k(call[d].errors + 1) /\ call' = [call EXCEPT ![d] = call'[d]]
    BY <1>1, <1>2, <2>1 DEF Call
  <2>3. call' = [call EXCEPT ![d] = k(call[d].errors + 1)]
    BY <2>2, Zenon
  <2>4. call[d].errors + 1 \in Nat /\ call[d].errors + 1 > 0
    BY <1>2
  <2>5. QED BY <1>1, <1>2, <2>1, <2>3, <2>4, HandlerCalledKeeps
<1>5. CASE RecordingFails(d)
  <2>1. log' = Logged(d, FALSE) /\ call' = [call EXCEPT ![d] = NoCall]
    BY <1>5 DEF RecordingFails
  <2>2. 1 \in Nat /\ 1 > 0
    OBVIOUS
  <2>3. QED BY <1>1, <2>1, <2>2, HandlerCalledKeeps
<1>6. QED BY <1>3, <1>4, <1>5

(* A dispatch dies, or returns after nothing but the job has changed.      *)
LEMMA CallEnds ==
    ASSUME BusInv, NEW d \in Dispatchers, call' = [call EXCEPT ![d] = NoCall],
           UNCHANGED <<log, audience, subscribers>>
    PROVE  /\ call' \in [Dispatchers -> Call \cup {NoCall}]
           /\ InProgress' /\ Audiences'
           /\ \A e \in Dispatchers : Active(e)' => Active(e) /\ call'[e].job = call[e].job /\ e # d
           /\ \A e \in Dispatchers : call'[e].job = call[e].job \/ call'[e] = NoCall
<1> USE DEF BusInv
<1>1. /\ call'[d] = NoCall /\ \A e \in Dispatchers : e # d => call'[e] = call[e]
      /\ call' \in [Dispatchers -> Call \cup {NoCall}]
  BY DEF BusTypeOK
<1>2. Audiences'
  BY DEF Audiences
<1>3. InProgress'
  <2>1. SUFFICES ASSUME NEW e \in Dispatchers
                 PROVE  Halfway(call'[e], log'[call'[e].job], audience'[call'[e].job])
    BY DEF InProgress
  <2>2. CASE e = d
    BY <1>1, <2>2 DEF Halfway, NoCall
  <2>3. CASE e # d
    BY <1>1, <2>3 DEF InProgress
  <2>4. QED BY <2>2, <2>3
<1>4. QED BY <1>1, <1>2, <1>3 DEF Active

LEMMA DispatcherCrashKeeps ==
    ASSUME BusInv, NEW d \in Dispatchers, DispatcherCrash(d)
    PROVE  BusInv'
<1> USE DEF BusInv
<1>1. /\ call' = [call EXCEPT ![d] = NoCall]
      /\ UNCHANGED <<queueVars, subscribers, audience, log>>
  BY DEF DispatcherCrash
<1>2. /\ call' \in [Dispatchers -> Call \cup {NoCall}] /\ InProgress' /\ Audiences'
      /\ \A e \in Dispatchers : Active(e)' => Active(e) /\ call'[e].job = call[e].job
      /\ \A e \in Dispatchers : call'[e].job = call[e].job \/ call'[e] = NoCall
  BY <1>1, CallEnds
<1>3. BusTypeOK'
  BY <1>1, <1>2 DEF BusTypeOK, TypeOK, queueVars
<1>4. QueueInv' /\ OwnJobs'
  BY <1>1, <1>2, QueueSame
<1>5. VerdictEarned'
  BY <1>1 DEF VerdictEarned, queueVars
<1>6. QED BY <1>2, <1>3, <1>4, <1>5

(* dispatch() returns: all the handlers of its audience are in the log,    *)
(* and the job becomes failed when one of them raised, done otherwise.     *)
LEMMA FinishKeeps ==
    ASSUME BusInv, NEW d \in Dispatchers, Finish(d)
    PROVE  BusInv'
<1> USE DEF BusInv
<1>1. call[d].pc = "running" /\ call[d].todo = <<>> /\ Active(d)
  BY CallShapes DEF Finish, Active
<1>2. PICK i \in Ids : i = call[d].job
  BY <1>1, OthersElsewhere
<1> DEFINE st == IF call[d].errors > 0 THEN "failed" ELSE "done"
           r == Settled(jobs[i], st)
<1>3. /\ i < nextId /\ \A e \in Dispatchers : e # d => call[e].job # i
      /\ jobs[i] \in Row /\ st \in Settling
  BY <1>1, <1>2, OthersElsewhere DEF BusTypeOK, TypeOK, Settling
<1>4. /\ call' = [call EXCEPT ![d] = NoCall] /\ jobs' = [jobs EXCEPT ![i] = r]
      /\ nextId' = nextId /\ held' = held /\ orphans' = orphans
      /\ subscribers' = subscribers /\ audience' = audience /\ log' = log
  BY <1>2 DEF Finish
<1>5. /\ r \in Row /\ r.attempts = jobs[i].attempts
      /\ \/ r = Absent /\ jobs[i] = Absent
         \/ r.status = st /\ jobs[i].status # "absent"
  <2>1. st \in {"done", "failed"}
    OBVIOUS
  <2>2. CASE jobs[i].status = "absent"
    <3>1. jobs[i] = Absent /\ r = jobs[i]
      BY <2>2 DEF QueueInv, RowStates, Settled
    <3>2. QED BY <1>3, <3>1
  <2>3. CASE jobs[i].status # "absent"
    <3>1. r = [jobs[i] EXCEPT !.status = st]
      BY <2>3 DEF Settled
    <3> HIDE DEF r, st
    <3>2. r.attempts = jobs[i].attempts /\ r.status = st
      BY <1>3, <3>1 DEF Row
    <3>3. r \in Row
      BY <1>3, <2>1, RowTypes DEF r
    <3>4. QED BY <2>3, <3>2, <3>3
  <2>4. QED BY <2>2, <2>3
<1>6. /\ Len(log[i]) = Len(audience[i])
      /\ \A k \in 1 .. Len(log[i]) : log[i][k].handler = audience[i][k]
      /\ st = "failed" <=> \E k \in 1 .. Len(log[i]) : ~ log[i][k].ok
      /\ DOMAIN log[i] = 1 .. Len(log[i])
  <2>1. /\ Len(log[i]) + Len(call[d].todo) = Len(audience[i])
        /\ call[d].errors > 0 <=> \E k \in 1 .. Len(log[i]) : ~ log[i][k].ok
    BY <1>1, <1>2 DEF InProgress, Halfway
  <2>2. Len(call[d].todo) = 0
    BY <1>1
  <2>3. Len(log[i]) \in Nat /\ Len(audience[i]) \in Nat /\ DOMAIN log[i] = 1 .. Len(log[i])
    BY BusTypes
  <2>4. \A k \in 1 .. Len(log[i]) : log[i][k].handler = audience[i][k]
    BY DEF Audiences
  <2>5. st = "failed" <=> call[d].errors > 0
    OBVIOUS
  <2> HIDE DEF st
  <2>6. QED BY <2>1, <2>2, <2>3, <2>4, <2>5
<1> HIDE DEF r, st
<1>7. /\ jobs'[i] = r /\ \A j \in Ids : j # i => jobs'[j] = jobs[j]
      /\ jobs' \in [Ids -> Row]
  BY <1>4, <1>5 DEF BusTypeOK, TypeOK
<1>8. /\ call' \in [Dispatchers -> Call \cup {NoCall}] /\ InProgress' /\ Audiences'
      /\ \A e \in Dispatchers : Active(e)' => Active(e) /\ call'[e].job = call[e].job /\ e # d
      /\ \A e \in Dispatchers : call'[e].job = call[e].job \/ call'[e] = NoCall
  BY <1>4, CallEnds
<1>9. BusTypeOK'
  BY <1>4, <1>7, <1>8 DEF BusTypeOK, TypeOK
<1>10. \A j \in Ids : jobs'[j].attempts = jobs[j].attempts /\ (jobs[j] = Absent => jobs'[j] = Absent)
  <2>1. Absent.status = "absent"
    BY DEF Absent
  <2>2. QED BY <1>5, <1>7, <2>1
<1>11. QueueInv'
  <2>1. UnusedIds'
    BY <1>4, <1>10 DEF QueueInv, UnusedIds
  <2>2. RowStates'
    <3>1. st # "absent" /\ st # "pending" /\ st # "in_flight"
      BY <1>3 DEF Settling
    <3>2. Absent.attempts = 0 /\ Absent.status = "absent"
      BY DEF Absent
    <3>3. QED BY <1>5, <1>7, <3>1, <3>2 DEF QueueInv, RowStates
  <2>3. \A j \in Ids : WasClaimed(j) => WasClaimed(j)'
    BY <1>4, <1>10 DEF WasClaimed
  <2>4. TakenIds'
    BY <1>4, <2>3, HeldIds DEF QueueInv, TakenIds, BusTypeOK, TypeOK
  <2>5. DeliveredOnce'
    BY <1>4, <1>10 DEF QueueInv, DeliveredOnce
  <2>6. InFlightAccounted'
    <3>1. \A j \in Ids : jobs'[j].status = "in_flight" => jobs[j].status = "in_flight"
      BY <1>3, <1>5, <1>7 DEF Settling, Absent
    <3>2. QED BY <1>4, <3>1 DEF QueueInv, InFlightAccounted
  <2>7. QED BY <2>1, <2>2, <2>4, <2>5, <2>6 DEF QueueInv
<1>12. OwnJobs'
  <2>1. ASSUME NEW e \in Dispatchers, Active(e)'
        PROVE  /\ call'[e].job < nextId'
               /\ jobs'[call'[e].job].status \in Settling => jobs'[call'[e].job].attempts = 1
    <3>1. Active(e) /\ call'[e].job = call[e].job /\ e # d /\ call[e].job \in Ids
      BY <1>8, <2>1, CallShapes
    <3>2. jobs'[call[e].job] = jobs[call[e].job]
      BY <1>3, <1>7, <3>1
    <3>3. QED BY <1>4, <3>1, <3>2 DEF OwnJobs
  <2>2. ASSUME NEW e \in Dispatchers, NEW f \in Dispatchers, Active(e)', e # f
        PROVE  call'[e].job # call'[f].job
    <3>1. Active(e) /\ call'[e].job = call[e].job /\ call[e].job \in Ids
      BY <1>8, <2>2, CallShapes
    <3>2. CASE call'[f].job = call[f].job
      BY <2>2, <3>1, <3>2 DEF OwnJobs
    <3>3. CASE call'[f] = NoCall
      <4>1. NoCall.job \notin Ids
        BY DEF NoCall, Ids
      <4>2. QED BY <3>1, <3>3, <4>1
    <3>4. QED BY <1>8, <3>2, <3>3
  <2>3. QED BY <2>1, <2>2 DEF OwnJobs
<1>13. VerdictEarned'
  <2>1. SUFFICES ASSUME NEW j \in Ids, jobs'[j].status \in {"done", "failed"}, jobs'[j].attempts = 0
                 PROVE  /\ Len(log[j]) = Len(audience[j])
                        /\ \A k \in DOMAIN log[j] : log[j][k].handler = audience[j][k]
                        /\ jobs'[j].status = "failed" <=> \E k \in DOMAIN log[j] : ~ log[j][k].ok
    BY <1>4 DEF VerdictEarned
  <2>2. CASE j = i
    <3>1. jobs'[i].status = st
      BY <1>5, <1>7, <2>1, <2>2 DEF Absent
    <3>2. QED BY <1>6, <2>2, <3>1
  <2>3. CASE j # i
    BY <1>7, <2>1, <2>3 DEF VerdictEarned
  <2>4. QED BY <2>2, <2>3
<1>14. QED BY <1>8, <1>9, <1>11, <1>12, <1>13

-----------------------------------------------------------------------------
(* The queue's other users: workers, and delete_tenant().                  *)
LEMMA QueueMoves ==
    ASSUME BusInv, TypeOK', QueueInv', nextId' = nextId,
           UNCHANGED <<subscribers, call, audience, log>>,
           \A i \in Ids : jobs'[i].status \in Settling =>
               jobs'[i].attempts = 1 \/ jobs'[i] = jobs[i]
    PROVE  BusInv'
<1> USE DEF BusInv
<1>1. BusTypeOK'
  BY DEF BusTypeOK
<1>2. InProgress' /\ Audiences'
  BY DEF InProgress, Audiences
<1>3. OwnJobs'
  <2>1. ASSUME NEW d \in Dispatchers, Active(d)
        PROVE  /\ call[d].job < nextId'
               /\ jobs'[call[d].job].status \in Settling => jobs'[call[d].job].attempts = 1
    <3>1. call[d].job \in Ids
      BY <2>1, CallShapes
    <3>2. QED BY <2>1, <3>1 DEF OwnJobs
  <2>2. QED BY <2>1 DEF OwnJobs, Active
<1>4. VerdictEarned'
  <2>1. \A i \in Ids : jobs'[i].status \in {"done", "failed"} /\ jobs'[i].attempts = 0 =>
                         jobs'[i] = jobs[i]
    BY DEF Settling
  <2>2. QED BY <2>1 DEF VerdictEarned
<1>5. QED BY <1>1, <1>2, <1>3, <1>4

LEMMA BusClaimKeeps ==
    ASSUME BusInv, NEW w \in Workers, Claim(w), UNCHANGED <<subscribers, call, audience, log>>
    PROVE  BusInv'
<1> USE DEF BusInv
<1>0. TypeOK /\ TypeOK'
  BY TypesKept DEF BusTypeOK, Next
<1>1. PICK i \in Ids : /\ Matches(Poll[w], jobs[i])
                       /\ jobs' = [jobs EXCEPT ![i] = Claimed(jobs[i])]
                       /\ held' = [held EXCEPT ![w] = ReceiptOf(i, jobs[i])]
  BY DEF Claim, IsOldest
<1>2. nextId' = nextId /\ orphans' = orphans /\ held[w] = NoReceipt
  BY DEF Claim
<1>3. jobs[i].status = "pending" /\ jobs[i].attempts = 0 /\ jobs[i] # Absent
  BY <1>1 DEF Matches, QueueInv, RowStates, Absent
<1>4. /\ jobs'[i].status = "in_flight" /\ jobs'[i].attempts = 1
      /\ held'[w].id = i
      /\ \A j \in Ids : j # i => jobs'[j] = jobs[j]
      /\ \A v \in Workers : v # w => held'[v] = held[v]
  BY <1>0, <1>1, <1>3 DEF Claimed, ReceiptOf, TypeOK
<1>5. i < nextId
  BY <1>0, <1>3 DEF QueueInv, UnusedIds, Ids, TypeOK
(* The row was pending, so nobody holds it and no worker died with it.     *)
<1>6. /\ i \notin orphans
      /\ \A v \in Workers : held[v].id # i
  <2>1. ~ WasClaimed(i)
    BY <1>3 DEF WasClaimed
  <2>2. \A v \in Workers : held[v] = NoReceipt => held[v].id # i
    BY DEF NoReceipt, Ids
  <2>3. QED BY <2>1, <2>2 DEF QueueInv, TakenIds
<1>7. UnusedIds'
  BY <1>0, <1>2, <1>4, <1>5 DEF QueueInv, UnusedIds, Ids, TypeOK
<1>8. RowStates'
  BY <1>4 DEF QueueInv, RowStates
<1>9. \A j \in Ids : WasClaimed(j) => WasClaimed(j)'
  BY <1>2, <1>3, <1>4 DEF WasClaimed
<1>10. WasClaimed(i)'
  BY <1>2, <1>4, <1>5 DEF WasClaimed
<1>11. TakenIds'
  <2>1. ASSUME NEW v \in Workers, held'[v] # NoReceipt PROVE WasClaimed(held[v].id)'
    <3>1. CASE v = w
      BY <1>2, <1>4, <1>5, <3>1 DEF WasClaimed
    <3>2. CASE v # w
      <4>1. held'[v] = held[v] /\ held[v].id \in Ids /\ WasClaimed(held[v].id)
        BY <1>0, <1>4, <2>1, <3>2, HeldIds DEF QueueInv, TakenIds
      <4>2. QED BY <1>2, <1>3, <1>4, <4>1 DEF WasClaimed
    <3>3. QED BY <3>1, <3>2
  <2>2. \A j \in orphans : WasClaimed(j)'
    BY <1>0, <1>9 DEF QueueInv, TakenIds, TypeOK
  <2>3. QED BY <1>2, <2>1, <2>2 DEF TakenIds
<1>12. DeliveredOnce'
  BY <1>2, <1>4, <1>6 DEF QueueInv, DeliveredOnce
<1>13. InFlightAccounted'
  <2> SUFFICES ASSUME NEW j \in Ids, jobs'[j].status = "in_flight", j \notin orphans
               PROVE  \E v \in Workers : held'[v].id = j
    BY <1>2 DEF InFlightAccounted
  <2>1. CASE j = i
    BY <2>1, <1>4
  <2>2. CASE j # i
    <3>1. PICK v \in Workers : held[v].id = j
      BY <2>2, <1>4 DEF QueueInv, InFlightAccounted
    <3>2. v # w
      BY <3>1, <1>2 DEF NoReceipt, Ids
    <3>3. QED BY <3>1, <3>2, <1>4
  <2>3. QED BY <2>1, <2>2
<1>14. QueueInv'
  BY <1>7, <1>8, <1>11, <1>12, <1>13 DEF QueueInv
<1>15. \A j \in Ids : jobs'[j].status \in Settling => jobs'[j].attempts = 1 \/ jobs'[j] = jobs[j]
  BY <1>4
<1>16. QED BY <1>0, <1>2, <1>14, <1>15, QueueMoves

LEMMA BusCompleteKeeps ==
    ASSUME BusInv, NEW w \in Workers, NEW st \in {"done", "failed"}, Complete(w, st),
           UNCHANGED <<subscribers, call, audience, log>>
    PROVE  BusInv'
<1> USE DEF BusInv
<1>0. TypeOK /\ TypeOK'
  BY TypesKept DEF BusTypeOK, Next
<1>1. held[w] # NoReceipt
  BY DEF Complete
<1>2. PICK i \in Ids : i = held[w].id
  BY <1>0, <1>1, HeldIds
<1> DEFINE r == Settled(jobs[i], st)
<1>3. /\ jobs' = [jobs EXCEPT ![i] = r] /\ held' = [held EXCEPT ![w] = NoReceipt]
      /\ nextId' = nextId /\ orphans' = orphans
  BY <1>2 DEF Complete
<1>4. i < nextId /\ i \notin orphans /\ (jobs[i] = Absent \/ jobs[i].attempts = 1)
  BY <1>1, <1>2 DEF QueueInv, TakenIds, WasClaimed, DeliveredOnce
<1>5. \/ r = Absent /\ jobs[i] = Absent
      \/ r.status = st /\ r.attempts = 1 /\ jobs[i].attempts = 1
  <2>1. CASE jobs[i].status = "absent"
    BY <2>1 DEF QueueInv, RowStates, Settled
  <2>2. CASE jobs[i].status # "absent"
    <3>1. jobs[i] # Absent /\ jobs[i] \in Row
      BY <1>0, <2>2 DEF Absent, TypeOK
    <3>2. r = [jobs[i] EXCEPT !.status = st]
      BY <2>2 DEF Settled
    <3> HIDE DEF r
    <3>3. r.status = st /\ r.attempts = jobs[i].attempts
      BY <3>1, <3>2 DEF Row
    <3>4. QED BY <1>4, <3>1, <3>3
  <2>3. QED BY <2>1, <2>2
<1> HIDE DEF r
<1>6. /\ jobs'[i] = r /\ \A j \in Ids : j # i => jobs'[j] = jobs[j]
      /\ held'[w] = NoReceipt /\ \A v \in Workers : v # w => held'[v] = held[v]
  BY <1>0, <1>3 DEF TypeOK
<1>7. Absent.status = "absent" /\ Absent.attempts = 0 /\ NoReceipt.id = 0 /\ 0 \notin Ids
  BY DEF Absent, NoReceipt, Ids
<1>8. UnusedIds'
  BY <1>0, <1>3, <1>4, <1>6 DEF QueueInv, UnusedIds, Ids, TypeOK
<1>9. RowStates'
  BY <1>5, <1>6, <1>7 DEF QueueInv, RowStates
<1>10. \A j \in Ids : WasClaimed(j) => WasClaimed(j)'
  BY <1>3, <1>5, <1>6 DEF WasClaimed
<1>11. TakenIds'
  <2>1. ASSUME NEW v \in Workers, held'[v] # NoReceipt PROVE WasClaimed(held[v].id)'
    <3>1. held'[v] = held[v] /\ held[v].id \in Ids /\ WasClaimed(held[v].id)
      BY <1>0, <1>6, <2>1, HeldIds DEF QueueInv, TakenIds
    <3>2. QED BY <1>3, <1>5, <1>6, <3>1 DEF WasClaimed
  <2>2. \A j \in orphans : WasClaimed(j)'
    BY <1>0, <1>10 DEF QueueInv, TakenIds, TypeOK
  <2>3. QED BY <1>3, <2>1, <2>2 DEF TakenIds
<1>12. DeliveredOnce'
  <2>1. \A j \in Ids : jobs'[j].attempts <= 1
    BY <1>5, <1>6, <1>7 DEF QueueInv, DeliveredOnce
  <2>2. ASSUME NEW v \in Workers, NEW u \in Workers, v # u, held'[v] # NoReceipt
        PROVE  held'[u].id # held'[v].id
    <3>1. held'[v] = held[v] /\ held[v] # NoReceipt /\ held[v].id \in Ids
      BY <1>0, <1>6, <2>2, HeldIds
    <3>2. QED BY <1>6, <1>7, <2>2, <3>1 DEF QueueInv, DeliveredOnce
  <2>3. \A v \in Workers : held'[v].id \notin orphans
    BY <1>0, <1>6, <1>7 DEF QueueInv, DeliveredOnce, TypeOK
  <2>4. QED BY <1>3, <2>1, <2>2, <2>3 DEF DeliveredOnce
<1>13. InFlightAccounted'
  <2> SUFFICES ASSUME NEW j \in Ids, jobs'[j].status = "in_flight", j \notin orphans
               PROVE  \E v \in Workers : held'[v].id = j
    BY <1>3 DEF InFlightAccounted
  <2>1. j # i
    BY <1>5, <1>6, <1>7
  <2>2. PICK v \in Workers : held[v].id = j
    BY <2>1, <1>6 DEF QueueInv, InFlightAccounted
  <2>3. v # w
    BY <1>2, <2>1, <2>2
  <2>4. QED BY <2>2, <2>3, <1>6
<1>14. QueueInv'
  BY <1>8, <1>9, <1>11, <1>12, <1>13 DEF QueueInv
<1>15. \A j \in Ids : jobs'[j].status \in Settling => jobs'[j].attempts = 1 \/ jobs'[j] = jobs[j]
  BY <1>5, <1>6
<1>16. QED BY <1>0, <1>3, <1>14, <1>15, QueueMoves

LEMMA BusCrashKeeps ==
    ASSUME BusInv, NEW w \in Workers, WorkerCrash(w)
    PROVE  BusInv'
<1> USE DEF BusInv
<1>0. TypeOK /\ TypeOK' /\ Crash(w) /\ UNCHANGED <<subscribers, call, audience, log>>
  BY TypesKept DEF BusTypeOK, Next, WorkerCrash
<1>1. PICK i \in Ids : i = held[w].id
  BY <1>0, HeldIds DEF Crash
<1>2. /\ held[w] # NoReceipt /\ jobs' = jobs /\ nextId' = nextId
      /\ held' = [held EXCEPT ![w] = NoReceipt] /\ orphans' = orphans \cup {i}
  BY <1>0, <1>1 DEF Crash
<1>3. held'[w] = NoReceipt /\ \A v \in Workers : v # w => held'[v] = held[v] /\ held[v].id # i
  BY <1>0, <1>1, <1>2 DEF QueueInv, DeliveredOnce, TypeOK
<1>4. NoReceipt.id = 0 /\ 0 \notin Ids
  BY DEF NoReceipt, Ids
<1>5. UnusedIds' /\ RowStates'
  BY <1>0, <1>2 DEF QueueInv, UnusedIds, RowStates
<1>6. TakenIds'
  BY <1>1, <1>2, <1>3 DEF QueueInv, TakenIds, WasClaimed
<1>7. DeliveredOnce'
  <2>1. \A v \in Workers : held'[v].id \notin orphans'
    BY <1>0, <1>2, <1>3, <1>4 DEF QueueInv, DeliveredOnce, TypeOK
  <2>2. ASSUME NEW v \in Workers, NEW u \in Workers, v # u, held'[v] # NoReceipt
        PROVE  held'[u].id # held'[v].id
    <3>1. held'[v] = held[v] /\ held[v] # NoReceipt /\ held[v].id \in Ids
      BY <1>0, <1>3, <2>2, HeldIds
    <3>2. QED BY <1>3, <1>4, <2>2, <3>1 DEF QueueInv, DeliveredOnce
  <2>3. QED BY <1>2, <2>1, <2>2 DEF QueueInv, DeliveredOnce
<1>8. InFlightAccounted'
  BY <1>1, <1>2, <1>3 DEF QueueInv, InFlightAccounted
<1>9. QueueInv'
  BY <1>5, <1>6, <1>7, <1>8 DEF QueueInv
<1>10. QED BY <1>0, <1>2, <1>9, QueueMoves

LEMMA BusDeleteKeeps ==
    ASSUME BusInv, NEW tn \in Tenants, TenantDeleted(tn)
    PROVE  BusInv'
<1> USE DEF BusInv
<1>0. TypeOK /\ TypeOK' /\ DeleteTenant(tn) /\ UNCHANGED <<subscribers, call, audience, log>>
  BY TypesKept DEF BusTypeOK, Next, TenantDeleted
<1>1. /\ \A i \in Ids : jobs'[i] = jobs[i] \/ jobs'[i] = Absent
      /\ nextId' = nextId /\ held' = held /\ orphans' = orphans
  BY <1>0 DEF DeleteTenant, Purged
<1>2. Absent.status = "absent" /\ Absent.attempts = 0
  BY DEF Absent
<1>3. UnusedIds' /\ RowStates'
  BY <1>0, <1>1, <1>2 DEF QueueInv, UnusedIds, RowStates
<1>4. TakenIds'
  <2>1. \A i \in Ids : WasClaimed(i) => WasClaimed(i)'
    BY <1>1 DEF WasClaimed
  <2>2. QED BY <1>0, <1>1, <2>1, HeldIds DEF QueueInv, TakenIds, TypeOK
<1>5. DeliveredOnce' /\ InFlightAccounted'
  BY <1>1, <1>2 DEF QueueInv, DeliveredOnce, InFlightAccounted
<1>6. QueueInv'
  BY <1>3, <1>4, <1>5 DEF QueueInv
<1>7. \A i \in Ids : jobs'[i].status \in Settling => jobs'[i] = jobs[i]
  BY <1>1, <1>2 DEF Settling
<1>8. QED BY <1>0, <1>1, <1>6, <1>7, QueueMoves

LEMMA BusStepKeeps == BusInv /\ [BusNext]_busVars => BusInv'
<1> SUFFICES ASSUME BusInv, [BusNext]_busVars PROVE BusInv'
  OBVIOUS
<1>1. CASE UNCHANGED busVars
  <2>1. /\ jobs' = jobs /\ nextId' = nextId /\ held' = held /\ orphans' = orphans
        /\ subscribers' = subscribers /\ call' = call /\ audience' = audience /\ log' = log
    BY <1>1 DEF busVars
  <2>2. BusTypeOK'
    BY <2>1 DEF BusInv, BusTypeOK, TypeOK
  <2>3. QueueInv' /\ OwnJobs'
    BY <2>1 DEF BusInv, QueueInv, UnusedIds, RowStates, TakenIds, WasClaimed, DeliveredOnce,
                InFlightAccounted, OwnJobs, Active
  <2>4. InProgress' /\ Audiences' /\ VerdictEarned'
    BY <2>1 DEF BusInv, InProgress, Audiences, VerdictEarned
  <2>5. QED BY <2>2, <2>3, <2>4 DEF BusInv
<1>2. ASSUME NEW d \in Dispatchers, DispatchStep(d) PROVE BusInv'
  BY <1>2, SnapshotKeeps, HandlerStepKeeps, FinishKeeps DEF DispatchStep
<1>3. ASSUME NEW w \in Workers, WorkerStep(w) PROVE BusInv'
  BY <1>3, BusClaimKeeps, BusCompleteKeeps DEF WorkerStep
<1>4. QED
  BY <1>1, <1>2, <1>3, SubscribeKeeps, UnsubscribeKeeps, DispatchKeeps, DispatcherCrashKeeps,
     BusCrashKeeps, BusDeleteKeeps DEF BusNext

(* The invariant holds in every reachable state, whatever dispatchers and  *)
(* workers do and whoever dies.                                            *)
THEOREM BusInvariant == BusSpec => []BusInv
BY BusInitHolds, BusStepKeeps, PTL DEF BusSpec

-----------------------------------------------------------------------------
(* Every state of every behaviour of the bus is well typed.                *)
THEOREM BusTypeCorrect == BusSpec => []BusTypeOK
BY BusInvariant, PTL DEF BusInv

(* An event no worker took is done only if all its handlers returned, and  *)
(* failed only if all ran and one raised, whoever died or was deleted.     *)
THEOREM VerdictAlwaysEarned == BusSpec => []VerdictEarned
BY BusInvariant, PTL DEF BusInv

(* No handler is called twice for an event, however the lists change.      *)
THEOREM HandlersCalledOnce == BusSpec => []CalledOnce
<1>1. BusInv => CalledOnce
  <2>1. SUFFICES ASSUME BusInv, NEW i \in Ids, NEW k \in DOMAIN log[i], NEW m \in DOMAIN log[i],
                        log[i][k].handler = log[i][m].handler
                 PROVE  k = m
    BY DEF CalledOnce
  <2>2. k \in 1 .. Len(log[i]) /\ m \in 1 .. Len(log[i])
    BY <2>1, BusTypes DEF BusInv
  <2>3. /\ Len(log[i]) \in Nat /\ Len(audience[i]) \in Nat /\ Len(log[i]) <= Len(audience[i])
        /\ log[i][k].handler = audience[i][k] /\ log[i][m].handler = audience[i][m]
        /\ NoRepeats(audience[i])
    BY <2>1, <2>2, BusTypes DEF BusInv, Audiences
  <2>4. k \in 1 .. Len(audience[i]) /\ m \in 1 .. Len(audience[i])
    BY <2>2, <2>3
  <2>5. audience[i][k] = audience[i][m]
    BY <2>1, <2>3
  <2>6. QED BY <2>3, <2>4, <2>5 DEF NoRepeats
<1>2. QED BY <1>1, BusInvariant, PTL

(* The queue still hands out no job twice when dispatches settle jobs.     *)
THEOREM BusDeliversOnce == BusSpec => []DeliveredOnce
BY BusInvariant, PTL DEF BusInv, QueueInv

(* A job in flight has a worker, alive or dead, under dispatches too.      *)
THEOREM BusInFlightAccounted == BusSpec => []InFlightAccounted
BY BusInvariant, PTL DEF BusInv, QueueInv

=============================================================================
