---------------------------- MODULE RouterProofs ----------------------------
(***************************************************************************)
(* For every registry, every number of threads, every threshold above one  *)
(* and every cool-off: consent, the circuit breaker and the fallback order *)
(* hold in every behaviour of the router, and in those of the fan-out,     *)
(* whose pool threads use it; there each source ends up in the packet or   *)
(* among the errors.                                                       *)
(***************************************************************************)
EXTENDS MultiSource, TLAPS, FiniteSetTheorems, FunctionTheorems, SequenceTheorems

(* What a call has tried and what it has left are its list of candidates;  *)
(* it is past a candidate that answered only when it is over.              *)
FollowsPlan(t) ==
    LET k == call[t] IN
    /\ Len(k.trail) + Len(k.todo) = Len(k.wanted)
    /\ \A i \in 1 .. Len(k.trail) : k.trail[i].conn = k.wanted[i]
    /\ \A i \in 1 .. Len(k.todo) : k.todo[i] = k.wanted[Len(k.trail) + i]
    /\ k.mode = "named" => Len(k.wanted) <= 1
    /\ k.pc \in InCall =>
         k.todo # <<>> /\ \A i \in 1 .. Len(k.trail) : k.trail[i].fate # "ok"

(* A thread past the gate has passed the consent check.                    *)
RunIsPermitted(t) == call[t].pc \in InCall \ {"gate"} => Permits(At(t))

Calling == \A t \in Threads : FollowsPlan(t) /\ RunIsPermitted(t)

(* Who has been let through to c and has not been counted yet, and who of  *)
(* them for the usage log.                                                 *)
BusyPc == {"running", "load", "store"}
BusyAt(t, c) == call[t].pc \in BusyPc /\ At(t) = c
LendingAt(t, c) ==
    /\ BusyAt(t, c)
    /\ call[t].pc = "load" \/ (call[t].pc = "store" /\ charge[t].why = "log")
Busy(c) == {t \in Threads : BusyAt(t, c)}
Lending(c) == {t \in Threads : LendingAt(t, c)}

(* Neither the count of a breaker nor one that a thread is about to write  *)
(* back runs ahead of what was charged; the log's charges are paid for by  *)
(* clearings; a thread let through is in the count, lost, or on its way.   *)
Sum(c) == ledger[c].own + ledger[c].lent
ChainCounted(c) ==
    /\ breakers[c].failures <= Sum(c)
    /\ \A t \in Threads : call[t].pc = "store" /\ At(t) = c => charge[t].saved <= Sum(c)
LogCounted(c) == ledger[c].lent + Cardinality(Lending(c)) <= 1 + ledger[c].met
PassesCounted(c) ==
    ledger[c].passes <= breakers[c].failures + ledger[c].lost + Cardinality(Busy(c))
Bounded(c) == ledger[c].passes <= Threshold + Cardinality(Threads) - 1 + ledger[c].lost

Accounted(c) == ChainCounted(c) /\ LogCounted(c) /\ PassesCounted(c) /\ Bounded(c)
Accounts == \A c \in Names : Accounted(c)

RouterInv ==
    /\ TypeOK /\ Calling /\ Accounts
    /\ ConsentHolds /\ FallbackExhaustive

-----------------------------------------------------------------------------
(* The order of the candidates.                                            *)
LEMMA RegistryTypes ==
    /\ Len(Registry) \in Nat
    /\ DOMAIN Registry = 1 .. Len(Registry)
    /\ \A i \in DOMAIN Registry : Registry[i] \in Manifest /\ Registry[i].preference \in Int
BY RouterAssumption, LenProperties, ElementOfSeq

LEMMA MatchesFinite ==
    ASSUME NEW cap
    PROVE  IsFiniteSet(Matches(cap)) /\ Cardinality(Matches(cap)) \in Nat
<1>1. IsFiniteSet(1 .. Len(Registry))
  BY RegistryTypes, FS_Interval
<1>2. Matches(cap) \in SUBSET (1 .. Len(Registry))
  BY RegistryTypes DEF Matches
<1>3. QED BY <1>1, <1>2, FS_Subset, FS_CardinalityType

(* Before is a strict total order on the positions of the registry.        *)
LEMMA BeforeIsOrder ==
    ASSUME NEW i \in DOMAIN Registry, NEW j \in DOMAIN Registry, NEW k \in DOMAIN Registry
    PROVE  /\ ~ Before(i, i)
           /\ Before(i, j) /\ Before(j, k) => Before(i, k)
           /\ i # j => Before(i, j) \/ Before(j, i)
<1>1. i \in Int /\ j \in Int /\ k \in Int
  BY RegistryTypes
<1>2. QED BY <1>1, RegistryTypes DEF Before

(* An earlier candidate has fewer others ahead of it.                      *)
LEMMA RanksIncrease ==
    ASSUME NEW cap, NEW i \in Matches(cap), NEW j \in Matches(cap), Before(i, j)
    PROVE  Cardinality(Ahead(cap, i)) < Cardinality(Ahead(cap, j))
<1>1. i \in DOMAIN Registry /\ j \in DOMAIN Registry /\ Matches(cap) \subseteq DOMAIN Registry
  BY DEF Matches
<1>2. Ahead(cap, j) \in SUBSET Matches(cap)
  BY DEF Ahead
<1>3. IsFiniteSet(Ahead(cap, j))
  BY <1>2, MatchesFinite, FS_Subset
<1>4. Ahead(cap, i) \in SUBSET Ahead(cap, j)
  BY <1>1, BeforeIsOrder DEF Ahead
<1>5. i \in Ahead(cap, j) /\ i \notin Ahead(cap, i)
  BY <1>1, BeforeIsOrder DEF Ahead
<1>6. /\ Cardinality(Ahead(cap, i)) <= Cardinality(Ahead(cap, j))
      /\ Cardinality(Ahead(cap, j)) # Cardinality(Ahead(cap, i))
  BY <1>3, <1>4, <1>5, FS_Subset
<1>7. Cardinality(Ahead(cap, i)) \in Nat /\ Cardinality(Ahead(cap, j)) \in Nat
  BY <1>3, <1>4, FS_Subset, FS_CardinalityType
<1>8. QED BY <1>6, <1>7

LEMMA RankInRange ==
    ASSUME NEW cap, NEW i \in Matches(cap)
    PROVE  Cardinality(Ahead(cap, i)) \in 0 .. (Cardinality(Matches(cap)) - 1)
<1>1. i \in DOMAIN Registry
  BY DEF Matches
<1>2. Ahead(cap, i) \in SUBSET Matches(cap) /\ i \notin Ahead(cap, i)
  BY <1>1, BeforeIsOrder DEF Ahead
<1>3. /\ IsFiniteSet(Ahead(cap, i))
      /\ Cardinality(Ahead(cap, i)) <= Cardinality(Matches(cap))
      /\ Cardinality(Matches(cap)) # Cardinality(Ahead(cap, i))
  BY <1>2, MatchesFinite, FS_Subset
<1>4. Cardinality(Ahead(cap, i)) \in Nat
  BY <1>3, FS_CardinalityType
<1>5. QED BY <1>3, <1>4, MatchesFinite

(* Every place of the order is taken.                                      *)
LEMMA PositionDefined ==
    ASSUME NEW cap, NEW k \in 1 .. Cardinality(Matches(cap))
    PROVE  /\ Position(cap, k) \in Matches(cap)
           /\ Cardinality(Ahead(cap, Position(cap, k))) = k - 1
<1> DEFINE n == Cardinality(Matches(cap))
           T == 0 .. (n - 1)
           rank == [i \in Matches(cap) |-> Cardinality(Ahead(cap, i))]
<1>1. IsFiniteSet(Matches(cap)) /\ n \in Nat
  BY MatchesFinite
<1>2. rank \in [Matches(cap) -> T]
  BY RankInRange
<1>3. ASSUME NEW i \in Matches(cap), NEW j \in Matches(cap), rank[i] = rank[j]
      PROVE  i = j
  <2>1. i \in DOMAIN Registry /\ j \in DOMAIN Registry
    BY DEF Matches
  <2>2. Cardinality(Ahead(cap, i)) \in Int /\ Cardinality(Ahead(cap, j)) \in Int
    BY <1>1, RankInRange
  <2>3. ~ Before(i, j)
    BY <1>3, <2>2, RanksIncrease
  <2>4. ~ Before(j, i)
    BY <1>3, <2>2, RanksIncrease
  <2>5. QED BY <2>1, <2>3, <2>4, BeforeIsOrder
<1>4. rank \in Injection(Matches(cap), T)
  BY <1>2, <1>3, Fun_IsInj
<1>5. IsFiniteSet(T) /\ Cardinality(T) = n
  <2>1. 0 \in Int /\ n - 1 \in Int
    BY <1>1
  <2> HIDE DEF n
  <2>2. IsFiniteSet(T) /\ Cardinality(T) = IF 0 > n - 1 THEN 0 ELSE n - 1 - 0 + 1
    BY <2>1, FS_Interval
  <2>3. QED BY <1>1, <2>2
<1>6. rank \in Surjection(Matches(cap), T)
  BY <1>4, <1>5, FS_Injection
<1>7. k - 1 \in T
  BY <1>1
<1>8. \E i \in Matches(cap) : rank[i] = k - 1
  <2> HIDE DEF rank, T
  <2>1. \A t \in T : \E i \in Matches(cap) : rank[i] = t
    BY <1>6, Fun_SurjectionProperties
  <2>2. QED BY <1>7, <2>1
<1>9. \E i \in Matches(cap) : Cardinality(Ahead(cap, i)) = k - 1
  BY <1>8
<1>10. QED BY <1>9 DEF Position

(* Registry.for_capability returns every connector of the capability, the  *)
(* preferred ones first, ties in the order they were registered in.        *)
THEOREM CandidatesInOrder ==
    ASSUME NEW cap
    PROVE  /\ ForCapability(cap) \in Seq(Names)
           /\ Len(ForCapability(cap)) = Cardinality(Matches(cap))
           /\ \A i \in Matches(cap) :
                \E k \in DOMAIN ForCapability(cap) : Position(cap, k) = i
           /\ \A k, l \in DOMAIN ForCapability(cap) :
                k < l => Before(Position(cap, k), Position(cap, l))
<1> DEFINE n == Cardinality(Matches(cap))
<1>1. n \in Nat
  BY MatchesFinite
<1>2. \A k \in 1 .. n : Position(cap, k) \in DOMAIN Registry
  BY PositionDefined DEF Matches
<1>3. \A k \in 1 .. n : Registry[Position(cap, k)].name \in Names
  BY <1>2, RegistryTypes DEF Names
<1>4. ForCapability(cap) \in [1 .. n -> Names]
  BY <1>3 DEF ForCapability
<1>5. ForCapability(cap) \in Seq(Names) /\ DOMAIN ForCapability(cap) = 1 .. n
  BY <1>1, <1>4, SeqDef
<1>6. Len(ForCapability(cap)) = n
  BY <1>1, <1>5, LenProperties
<1>7. ASSUME NEW k \in 1 .. n, NEW l \in 1 .. n, k < l
      PROVE  Before(Position(cap, k), Position(cap, l))
  <2>1. /\ Position(cap, k) \in Matches(cap)
        /\ Position(cap, l) \in Matches(cap)
        /\ Cardinality(Ahead(cap, Position(cap, k))) = k - 1
        /\ Cardinality(Ahead(cap, Position(cap, l))) = l - 1
    BY PositionDefined
  <2>2. Position(cap, k) # Position(cap, l)
    BY <1>1, <1>7, <2>1
  <2>3. ~ Before(Position(cap, l), Position(cap, k))
    <3>1. SUFFICES ASSUME Before(Position(cap, l), Position(cap, k)) PROVE FALSE
      OBVIOUS
    <3>2. l - 1 < k - 1
      BY <2>1, <3>1, RanksIncrease
    <3>3. QED BY <1>1, <1>7, <3>2
  <2>4. QED BY <1>2, <2>2, <2>3, BeforeIsOrder
<1>8. ASSUME NEW i \in Matches(cap)
      PROVE  \E k \in 1 .. n : Position(cap, k) = i
  <2> DEFINE k == Cardinality(Ahead(cap, i)) + 1
  <2>1. k \in 1 .. n /\ k - 1 = Cardinality(Ahead(cap, i))
    BY <1>1, RankInRange
  <2>2. /\ Position(cap, k) \in Matches(cap)
        /\ Cardinality(Ahead(cap, Position(cap, k))) = Cardinality(Ahead(cap, i))
    BY <2>1, PositionDefined
  <2>3. i \in DOMAIN Registry /\ Position(cap, k) \in DOMAIN Registry
    BY <1>2, <2>1 DEF Matches
  <2>4. Cardinality(Ahead(cap, i)) \in Int
    BY <1>1, RankInRange
  <2>5. ~ Before(i, Position(cap, k)) /\ ~ Before(Position(cap, k), i)
    BY <2>2, <2>4, RanksIncrease
  <2>6. Position(cap, k) = i
    BY <2>3, <2>5, BeforeIsOrder
  <2>7. QED BY <2>1, <2>6
<1>9. QED BY <1>5, <1>6, <1>7, <1>8

-----------------------------------------------------------------------------
(* What a step does to the call it belongs to.                             *)
LEMMA CallTypes ==
    ASSUME TypeOK, NEW t \in Threads
    PROVE  /\ call[t] \in CallState
           /\ call[t].wanted \in Seq(Names) /\ Len(call[t].wanted) \in Nat
           /\ call[t].todo \in Seq(Names) /\ Len(call[t].todo) \in Nat
           /\ call[t].trail \in Seq(Visit) /\ Len(call[t].trail) \in Nat
           /\ DOMAIN call[t].trail = 1 .. Len(call[t].trail)
<1>1. call[t] \in CallState
  BY DEF TypeOK
<1>2. /\ call[t].wanted \in Seq(Names) /\ call[t].todo \in Seq(Names)
      /\ call[t].trail \in Seq(Visit)
  BY <1>1 DEF CallState
<1>3. QED BY <1>1, <1>2, LenProperties

LEMMA AtIsName ==
    ASSUME TypeOK, NEW t \in Threads, call[t].todo # <<>>
    PROVE  At(t) \in Names /\ At(t) = call[t].todo[1] /\ Len(call[t].todo) >= 1
<1>1. call[t].todo \in Seq(Names) /\ Len(call[t].todo) \in Nat
  BY CallTypes
<1>2. At(t) \in Names
  BY <1>1, HeadTailProperties DEF At
<1>3. Len(call[t].todo) \in Nat \ {0}
  BY <1>1, EmptySeq
<1>4. QED BY <1>1, <1>2, <1>3 DEF At

LEMMA Leaving ==
    ASSUME TypeOK, NEW t \in Threads, FollowsPlan(t), call[t].pc \in InCall,
           NEW fate \in Fates, Leave(t, fate)
    PROVE  /\ call' \in [Threads -> CallState]
           /\ \A u \in Threads : u # t => call'[u] = call[u]
           /\ call'[t].wanted = call[t].wanted /\ call'[t].mode = call[t].mode
           /\ call'[t].todo = Tail(call[t].todo)
           /\ call'[t].trail = Append(call[t].trail, [conn |-> At(t), fate |-> fate])
           /\ call'[t].pc = IF fate = "ok" THEN "returned"
                            ELSE IF fate = "escaped" \/ call[t].mode = "named"
                                    \/ Len(call[t].todo) = 1 THEN "raised"
                            ELSE "gate"
<1> DEFINE visit == [conn |-> At(t), fate |-> fate]
           pc == IF fate = "ok" THEN "returned"
                 ELSE IF fate = "escaped" \/ call[t].mode = "named"
                         \/ Len(call[t].todo) = 1 THEN "raised"
                 ELSE "gate"
<1>1. call[t].todo # <<>>
  BY DEF FollowsPlan
<1>2. visit \in Visit
  BY <1>1, AtIsName DEF Visit
<1>3. Append(call[t].trail, visit) \in Seq(Visit)
  BY <1>2, CallTypes, AppendProperties
<1>4. Tail(call[t].todo) \in Seq(Names)
  BY <1>1, CallTypes, HeadTailProperties
<1>5. pc \in {"idle"} \cup InCall \cup Ended
  BY DEF InCall, Ended
<1>6. call \in [Threads -> CallState] /\ call[t] \in CallState
  BY DEF TypeOK
<1> DEFINE k == [pc |-> pc, mode |-> call[t].mode, wanted |-> call[t].wanted,
                 todo |-> Tail(call[t].todo), trail |-> Append(call[t].trail, visit)]
<1>7. call' = [call EXCEPT ![t].trail = Append(@, visit), ![t].todo = Tail(@), ![t].pc = pc]
  BY DEF Leave
<1> HIDE DEF pc, visit
<1>8. call'[t] = k /\ \A u \in Threads : u # t => call'[u] = call[u]
  BY <1>6, <1>7 DEF CallState
<1>9. k \in CallState
  BY <1>3, <1>4, <1>5, <1>6 DEF CallState
<1>10. call' \in [Threads -> CallState]
  <2>1. DOMAIN call' = Threads /\ call' = [u \in Threads |-> call'[u]]
    BY <1>6, <1>7
  <2>2. \A u \in Threads : call'[u] \in CallState
    BY <1>6, <1>8, <1>9
  <2>3. QED BY <2>1, <2>2
<1>11. /\ call'[t].wanted = call[t].wanted /\ call'[t].mode = call[t].mode
       /\ call'[t].todo = Tail(call[t].todo)
       /\ call'[t].trail = Append(call[t].trail, visit)
       /\ call'[t].pc = pc
  BY <1>8
<1>12. QED BY <1>8, <1>10, <1>11 DEF pc, visit

(* After a candidate is dealt with, the call still follows its plan.       *)
LEMMA PlanKept ==
    ASSUME TypeOK, NEW t \in Threads, FollowsPlan(t), call[t].pc \in InCall,
           NEW fate \in Fates, Leave(t, fate)
    PROVE  FollowsPlan(t)'
<1> DEFINE visit == [conn |-> At(t), fate |-> fate]
           old == call[t]
           new == call'[t]
<1>1. /\ new.wanted = old.wanted /\ new.mode = old.mode
      /\ new.todo = Tail(old.todo) /\ new.trail = Append(old.trail, visit)
      /\ new.pc \in InCall => fate # "ok" /\ Len(old.todo) # 1
  BY Leaving, Zenon DEF InCall
<1>2. /\ old.todo \in Seq(Names) /\ Len(old.todo) \in Nat /\ old.todo # <<>>
      /\ old.trail \in Seq(Visit) /\ Len(old.trail) \in Nat /\ Len(old.wanted) \in Nat
  BY CallTypes DEF FollowsPlan
<1>3. visit \in Visit /\ At(t) = old.todo[1] /\ Len(old.todo) >= 1
  BY <1>2, AtIsName DEF Visit
<1> DEFINE n == Len(old.trail)
<1>4. /\ new.trail \in Seq(Visit) /\ Len(new.trail) = n + 1
      /\ \A i \in 1 .. n : new.trail[i] = old.trail[i]
      /\ new.trail[n + 1] = visit
  BY <1>1, <1>2, <1>3, AppendProperties
<1>5. /\ new.todo \in Seq(Names) /\ Len(new.todo) = Len(old.todo) - 1
      /\ \A i \in 1 .. Len(new.todo) : new.todo[i] = old.todo[i + 1]
  BY <1>1, <1>2, HeadTailProperties
<1>6. /\ n + Len(old.todo) = Len(old.wanted)
      /\ \A i \in 1 .. n : old.trail[i].conn = old.wanted[i]
      /\ \A i \in 1 .. Len(old.todo) : old.todo[i] = old.wanted[n + i]
      /\ old.mode = "named" => Len(old.wanted) <= 1
      /\ \A i \in 1 .. n : old.trail[i].fate # "ok"
  BY DEF FollowsPlan
<1> HIDE DEF new, old, n
<1>7. visit.conn = At(t) /\ visit.fate = fate
  OBVIOUS
<1> HIDE DEF visit
<1>8. n \in Nat
  BY <1>2 DEF n
<1>9. Len(new.trail) + Len(new.todo) = Len(new.wanted)
  <2>1. /\ Len(new.trail) = n + 1 /\ Len(new.todo) = Len(old.todo) - 1
        /\ n + Len(old.todo) = Len(old.wanted)
    BY <1>4, <1>5, <1>6
  <2>2. Len(new.wanted) = Len(old.wanted)
    BY <1>1
  <2>3. Len(old.todo) \in Int
    BY <1>2
  <2>4. (n + 1) + (Len(old.todo) - 1) = n + Len(old.todo)
    <3>1. \A a, b \in Int : (a + 1) + (b - 1) = a + b
      OBVIOUS
    <3>2. n \in Int
      BY <1>8
    <3>3. QED BY <2>3, <3>1, <3>2, Zenon
  <2>5. QED BY <2>1, <2>2, <2>4, Zenon
<1>10. ASSUME NEW i \in 1 .. Len(new.trail) PROVE new.trail[i].conn = new.wanted[i]
  <2>1. CASE i \in 1 .. n
    BY <1>1, <1>4, <1>6, <2>1
  <2>2. CASE i = n + 1
    <3>1. old.todo[1] = old.wanted[n + 1]
      BY <1>2, <1>3, <1>6
    <3>2. QED BY <1>1, <1>3, <1>4, <1>7, <2>2, <3>1
  <2>3. QED BY <1>4, <1>8, <2>1, <2>2
<1>11. ASSUME NEW i \in 1 .. Len(new.todo)
       PROVE  new.todo[i] = new.wanted[Len(new.trail) + i]
  <2>1. i + 1 \in 1 .. Len(old.todo) /\ n + (i + 1) = (n + 1) + i
    BY <1>2, <1>5, <1>8
  <2>2. new.todo[i] = old.wanted[n + (i + 1)]
    BY <1>5, <1>6, <2>1
  <2>3. QED BY <1>1, <1>4, <2>1, <2>2
<1>12. new.pc \in InCall => new.todo # <<>>
  <2>1. SUFFICES ASSUME new.pc \in InCall, new.todo = <<>> PROVE FALSE
    OBVIOUS
  <2>2. Len(new.todo) = 0
    BY <2>1
  <2>3. QED BY <1>1, <1>2, <1>5, <2>1, <2>2
<1>13. new.pc \in InCall => \A i \in 1 .. Len(new.trail) : new.trail[i].fate # "ok"
  <2>1. SUFFICES ASSUME new.pc \in InCall, NEW i \in 1 .. Len(new.trail)
                 PROVE  new.trail[i].fate # "ok"
    OBVIOUS
  <2>2. CASE i \in 1 .. n
    BY <1>4, <1>6, <2>2
  <2>3. CASE i = n + 1
    BY <1>1, <1>4, <1>7, <2>1, <2>3
  <2>4. QED BY <1>4, <1>8, <2>2, <2>3
<1>14. QED BY <1>1, <1>6, <1>9, <1>10, <1>11, <1>12, <1>13 DEF FollowsPlan, new, old

(* The same for the other statements about calls.                          *)
LEMMA CallsKept ==
    ASSUME RouterInv, NEW t \in Threads, call[t].pc \in InCall,
           NEW fate \in Fates, Leave(t, fate), Permits(At(t)) \/ fate = "refused"
    PROVE  /\ Calling'
           /\ ConsentHolds'
           /\ FallbackExhaustive'
<1> DEFINE visit == [conn |-> At(t), fate |-> fate]
           n == Len(call[t].trail)
<1> USE DEF RouterInv
<1>1. /\ \A u \in Threads : u # t => call'[u] = call[u]
      /\ call'[t].wanted = call[t].wanted
      /\ call'[t].trail = Append(call[t].trail, visit)
      /\ call'[t].pc = IF fate = "ok" THEN "returned"
                       ELSE IF fate = "escaped" \/ call[t].mode = "named"
                               \/ Len(call[t].todo) = 1 THEN "raised"
                       ELSE "gate"
      /\ call'[t].mode = call[t].mode
  BY Leaving DEF Calling
<1>2. FollowsPlan(t) /\ FollowsPlan(t)'
  BY PlanKept DEF Calling
<1>3. \A u \in Threads : u # t => FollowsPlan(u)' /\ RunIsPermitted(u)'
  <2>1. SUFFICES ASSUME NEW u \in Threads, u # t
                 PROVE  FollowsPlan(u)' /\ RunIsPermitted(u)'
    OBVIOUS
  <2>2. call'[u] = call[u] /\ FollowsPlan(u) /\ RunIsPermitted(u)
    BY <1>1, <2>1 DEF Calling
  <2>3. FollowsPlan(u)'
    BY <2>2 DEF FollowsPlan
  <2>4. RunIsPermitted(u)'
    BY <2>2 DEF RunIsPermitted, At, Permits
  <2>5. QED BY <2>3, <2>4
<1>4. /\ call[t].trail \in Seq(Visit) /\ n \in Nat /\ visit \in Visit
      /\ Len(call[t].todo) \in Nat /\ call[t].todo # <<>>
  BY <1>2, CallTypes, AtIsName DEF FollowsPlan, Visit
<1>5. /\ Len(call'[t].trail) = n + 1 /\ DOMAIN call'[t].trail = 1 .. (n + 1)
      /\ \A i \in 1 .. n : call'[t].trail[i] = call[t].trail[i]
      /\ call'[t].trail[n + 1] = visit
  <2> HIDE DEF visit
  <2>1. /\ Append(call[t].trail, visit) \in Seq(Visit)
        /\ Len(Append(call[t].trail, visit)) = n + 1
        /\ \A i \in 1 .. n : Append(call[t].trail, visit)[i] = call[t].trail[i]
        /\ Append(call[t].trail, visit)[n + 1] = visit
    BY <1>4, AppendProperties
  <2>2. DOMAIN Append(call[t].trail, visit) = 1 .. (n + 1)
    BY <2>1, LenProperties
  <2>3. QED BY <1>1, <2>1, <2>2
<1>6. visit.conn = At(t) /\ visit.fate = fate
  OBVIOUS
<1>7. DOMAIN call[t].trail = 1 .. n
  BY CallTypes
<1> HIDE DEF visit, n
<1>8. Calling'
  <2>1. call'[t].pc \notin InCall \ {"gate"}
    BY <1>1 DEF InCall
  <2>2. RunIsPermitted(t)'
    BY <2>1 DEF RunIsPermitted
  <2>3. QED BY <1>2, <1>3, <2>2 DEF Calling
<1>9. ConsentHolds'
  <2>1. SUFFICES ASSUME NEW u \in Threads
                 PROVE  /\ (call'[u].pc = "running" /\ Named(At(u)').is_write) => At(u)' \in Granted
                        /\ \A k \in DOMAIN call'[u].trail :
                             LET v == call'[u].trail[k] IN
                             Named(v.conn).is_write /\ v.conn \notin Granted => v.fate = "refused"
    BY DEF ConsentHolds
  <2>2. CASE u # t
    BY <1>1, <2>2 DEF ConsentHolds, At
  <2>3. CASE u = t
    <3>1. call'[t].pc # "running"
      BY <1>1
    <3>2. ASSUME NEW k \in 1 .. (n + 1)
          PROVE  LET v == call'[t].trail[k] IN
                 Named(v.conn).is_write /\ v.conn \notin Granted => v.fate = "refused"
      <4>1. CASE k \in 1 .. n
        <5>1. call'[t].trail[k] = call[t].trail[k]
          BY <1>5, <4>1
        <5>2. QED BY <1>7, <4>1, <5>1 DEF ConsentHolds
      <4>2. CASE k = n + 1
        <5>1. call'[t].trail[k] = visit
          BY <1>5, <4>2
        <5>2. QED BY <1>6, <5>1 DEF Permits
      <4>3. QED BY <1>4, <4>1, <4>2
    <3>3. QED BY <1>5, <2>3, <3>1, <3>2
  <2>4. QED BY <2>2, <2>3
<1>10. FallbackExhaustive'
  <2>1. SUFFICES ASSUME NEW u \in Threads
                 PROVE  LET trail == call'[u].trail IN
                   /\ \A k \in DOMAIN trail :
                        trail[k].conn = call'[u].wanted[k] /\ (trail[k].fate = "ok" => k = Len(trail))
                   /\ call'[u].pc = "raised" =>
                        Len(trail) = Len(call'[u].wanted) \/ trail[Len(trail)].fate = "escaped"
                   /\ call'[u].pc = "returned" => trail[Len(trail)].fate = "ok"
    BY DEF FallbackExhaustive
  <2>2. CASE u # t
    BY <1>1, <2>2 DEF FallbackExhaustive
  <2>3. CASE u = t
    <3>1. ASSUME NEW k \in 1 .. (n + 1)
          PROVE  /\ call'[t].trail[k].conn = call'[t].wanted[k]
                 /\ call'[t].trail[k].fate = "ok" => k = n + 1
      <4>1. call'[t].trail[k].conn = call'[t].wanted[k]
        BY <1>2, <1>5 DEF FollowsPlan
      <4>2. CASE k \in 1 .. n
        <5>1. call[t].trail[k].fate # "ok"
          BY <1>2, <4>2 DEF FollowsPlan, n
        <5>2. QED BY <1>5, <4>1, <4>2, <5>1
      <4>3. QED BY <1>4, <4>1, <4>2
    <3>2. call'[t].pc = "raised" =>
            Len(call'[t].trail) = Len(call'[t].wanted) \/ call'[t].trail[n + 1].fate = "escaped"
      <4>1. SUFFICES ASSUME call'[t].pc = "raised", fate # "escaped"
                     PROVE  n + 1 = Len(call[t].wanted)
        BY <1>1, <1>5, <1>6
      <4>2. n + Len(call[t].todo) = Len(call[t].wanted)
        BY <1>2 DEF FollowsPlan, n
      <4>3. Len(call[t].todo) # 0
        BY <1>4, CallTypes, EmptySeq
      <4>4. CASE Len(call[t].todo) = 1
        BY <4>2, <4>4
      <4>5. CASE call[t].mode = "named"
        <5>1. Len(call[t].wanted) <= 1
          BY <1>2, <4>5 DEF FollowsPlan
        <5>2. Len(call[t].wanted) \in Nat
          BY CallTypes
        <5>3. QED BY <1>4, <4>2, <4>3, <5>1, <5>2
      <4>6. QED BY <1>1, <4>1, <4>4, <4>5
    <3>3. call'[t].pc = "returned" => call'[t].trail[n + 1].fate = "ok"
      BY <1>1, <1>5, <1>6
    <3>4. QED BY <1>5, <2>3, <3>1, <3>2, <3>3
  <2>4. QED BY <2>2, <2>3
<1>11. QED BY <1>8, <1>9, <1>10

-----------------------------------------------------------------------------
(* A call that goes on with its candidate.                                 *)
LEMMA Going ==
    ASSUME TypeOK, NEW t \in Threads, NEW pc \in InCall, Goto(t, pc)
    PROVE  /\ call' \in [Threads -> CallState]
           /\ \A u \in Threads : u # t => call'[u] = call[u]
           /\ call'[t].pc = pc /\ call'[t].mode = call[t].mode
           /\ call'[t].wanted = call[t].wanted /\ call'[t].todo = call[t].todo
           /\ call'[t].trail = call[t].trail
           /\ \A u \in Threads : At(u)' = At(u)
<1>1. call' = [call EXCEPT ![t].pc = pc] /\ call \in [Threads -> CallState]
  BY DEF Goto, TypeOK
<1>2. \A k \in CallState : [k EXCEPT !.pc = pc] \in CallState
  BY DEF CallState
<1>3. call' \in [Threads -> CallState]
  BY <1>1, <1>2
<1>4. \A u \in Threads : u # t => call'[u] = call[u]
  BY <1>1
<1>5. call'[t] = [call[t] EXCEPT !.pc = pc] /\ call[t] \in CallState
  BY <1>1
<1>6. /\ call'[t].pc = pc /\ call'[t].mode = call[t].mode
      /\ call'[t].wanted = call[t].wanted /\ call'[t].todo = call[t].todo
      /\ call'[t].trail = call[t].trail
  BY <1>5 DEF CallState
<1>7. \A u \in Threads : At(u)' = At(u)
  BY <1>4, <1>6 DEF At
<1>8. QED BY <1>3, <1>4, <1>6, <1>7

LEMMA CallsGo ==
    ASSUME RouterInv, NEW t \in Threads, call[t].pc \in InCall, Permits(At(t)),
           NEW pc \in InCall, Goto(t, pc)
    PROVE  Calling' /\ ConsentHolds' /\ FallbackExhaustive'
<1> USE DEF RouterInv
<1>1. /\ \A u \in Threads : u # t => call'[u] = call[u]
      /\ call'[t].pc = pc /\ call'[t].mode = call[t].mode
      /\ call'[t].wanted = call[t].wanted /\ call'[t].todo = call[t].todo
      /\ call'[t].trail = call[t].trail
      /\ \A u \in Threads : At(u)' = At(u)
  BY Going
<1>2. Calling'
  <2>1. SUFFICES ASSUME NEW u \in Threads PROVE FollowsPlan(u)' /\ RunIsPermitted(u)'
    BY DEF Calling
  <2>2. FollowsPlan(u) /\ RunIsPermitted(u)
    BY DEF Calling
  <2>3. CASE u # t
    BY <1>1, <2>2, <2>3 DEF FollowsPlan, RunIsPermitted, At, Permits
  <2>4. CASE u = t
    <3>1. FollowsPlan(t)'
      BY <1>1, <2>2, <2>4 DEF FollowsPlan
    <3>2. RunIsPermitted(t)'
      BY <1>1 DEF RunIsPermitted, At, Permits
    <3>3. QED BY <2>4, <3>1, <3>2
  <2>5. QED BY <2>3, <2>4
<1>3. ConsentHolds'
  <2>1. SUFFICES ASSUME NEW u \in Threads
                 PROVE  /\ (call'[u].pc = "running" /\ Named(At(u)').is_write) => At(u)' \in Granted
                        /\ \A k \in DOMAIN call'[u].trail :
                             LET v == call'[u].trail[k] IN
                             Named(v.conn).is_write /\ v.conn \notin Granted => v.fate = "refused"
    BY DEF ConsentHolds
  <2>2. At(u)' = At(u) /\ call'[u].trail = call[u].trail
    BY <1>1
  <2>3. call'[u].pc = "running" => call[u].pc = "running" \/ Permits(At(u))
    BY <1>1
  <2>4. QED BY <2>2, <2>3 DEF ConsentHolds, Permits
<1>4. FallbackExhaustive'
  <2>1. SUFFICES ASSUME NEW u \in Threads
                 PROVE  LET trail == call'[u].trail IN
                   /\ \A i \in DOMAIN trail :
                        trail[i].conn = call'[u].wanted[i] /\ (trail[i].fate = "ok" => i = Len(trail))
                   /\ call'[u].pc = "raised" =>
                        Len(trail) = Len(call'[u].wanted) \/ trail[Len(trail)].fate = "escaped"
                   /\ call'[u].pc = "returned" => trail[Len(trail)].fate = "ok"
    BY DEF FallbackExhaustive
  <2>2. /\ call'[u].trail = call[u].trail /\ call'[u].wanted = call[u].wanted
        /\ call'[u].pc = call[u].pc \/ call'[u].pc \in InCall
    BY <1>1
  <2>3. call'[u].pc \in {"raised", "returned"} => call'[u].pc = call[u].pc
    BY <2>2 DEF InCall
  <2>4. QED BY <2>2, <2>3 DEF FallbackExhaustive
<1>5. QED BY <1>2, <1>3, <1>4

-----------------------------------------------------------------------------
(* Who is on the way to the count.                                         *)
LEMMA BusyTypes ==
    ASSUME NEW c
    PROVE  /\ IsFiniteSet(Busy(c)) /\ Cardinality(Busy(c)) \in Nat
           /\ IsFiniteSet(Lending(c)) /\ Cardinality(Lending(c)) \in Nat
           /\ Cardinality(Busy(c)) <= Cardinality(Threads) /\ Cardinality(Threads) \in Nat
<1>1. IsFiniteSet(Threads) /\ Busy(c) \in SUBSET Threads /\ Lending(c) \in SUBSET Threads
  BY RouterAssumption DEF Busy, Lending
<1>2. QED BY <1>1, FS_Subset, FS_CardinalityType

(* The counts after a step of t, which moves no other thread.              *)
LEMMA BusyMoves ==
    ASSUME NEW t \in Threads, NEW c,
           \A u \in Threads : u # t => call'[u] = call[u] /\ charge'[u] = charge[u]
    PROVE  /\ (BusyAt(t, c)' <=> BusyAt(t, c)) => Busy(c)' = Busy(c)
           /\ BusyAt(t, c)' /\ ~ BusyAt(t, c) =>
                Cardinality(Busy(c)') = Cardinality(Busy(c)) + 1
           /\ ~ BusyAt(t, c)' /\ BusyAt(t, c) =>
                Cardinality(Busy(c)') = Cardinality(Busy(c)) - 1
           /\ (LendingAt(t, c)' <=> LendingAt(t, c)) => Lending(c)' = Lending(c)
           /\ LendingAt(t, c)' /\ ~ LendingAt(t, c) =>
                Cardinality(Lending(c)') = Cardinality(Lending(c)) + 1
           /\ ~ LendingAt(t, c)' /\ LendingAt(t, c) =>
                Cardinality(Lending(c)') = Cardinality(Lending(c)) - 1
<1>1. ASSUME NEW u \in Threads, u # t
      PROVE  (BusyAt(u, c)' <=> BusyAt(u, c)) /\ (LendingAt(u, c)' <=> LendingAt(u, c))
  <2>1. call'[u] = call[u] /\ charge'[u] = charge[u]
    BY <1>1
  <2>2. BusyAt(u, c)' <=> BusyAt(u, c)
    BY <2>1 DEF BusyAt, At
  <2>3. QED BY <2>1, <2>2 DEF LendingAt
<1>2. IsFiniteSet(Busy(c)) /\ IsFiniteSet(Lending(c))
  BY BusyTypes
<1>3. /\ Busy(c)' = {u \in Threads : BusyAt(u, c)'}
      /\ Lending(c)' = {u \in Threads : LendingAt(u, c)'}
  BY DEF Busy, Lending
<1>4. (BusyAt(t, c)' <=> BusyAt(t, c)) => Busy(c)' = Busy(c)
  BY <1>1, <1>3 DEF Busy
<1>5. (LendingAt(t, c)' <=> LendingAt(t, c)) => Lending(c)' = Lending(c)
  BY <1>1, <1>3 DEF Lending
<1>6. ASSUME BusyAt(t, c)', ~ BusyAt(t, c)
      PROVE  Cardinality(Busy(c)') = Cardinality(Busy(c)) + 1
  <2>1. Busy(c)' = Busy(c) \cup {t} /\ t \notin Busy(c)
    BY <1>1, <1>3, <1>6 DEF Busy
  <2>2. QED BY <1>2, <2>1, FS_AddElement
<1>7. ASSUME ~ BusyAt(t, c)', BusyAt(t, c)
      PROVE  Cardinality(Busy(c)') = Cardinality(Busy(c)) - 1
  <2>1. Busy(c)' = Busy(c) \ {t} /\ t \in Busy(c)
    BY <1>1, <1>3, <1>7 DEF Busy
  <2>2. QED BY <1>2, <2>1, FS_RemoveElement
<1>8. ASSUME LendingAt(t, c)', ~ LendingAt(t, c)
      PROVE  Cardinality(Lending(c)') = Cardinality(Lending(c)) + 1
  <2>1. Lending(c)' = Lending(c) \cup {t} /\ t \notin Lending(c)
    BY <1>1, <1>3, <1>8 DEF Lending
  <2>2. QED BY <1>2, <2>1, FS_AddElement
<1>9. ASSUME ~ LendingAt(t, c)', LendingAt(t, c)
      PROVE  Cardinality(Lending(c)') = Cardinality(Lending(c)) - 1
  <2>1. Lending(c)' = Lending(c) \ {t} /\ t \in Lending(c)
    BY <1>1, <1>3, <1>9 DEF Lending
  <2>2. QED BY <1>2, <2>1, FS_RemoveElement
<1>10. QED BY <1>4, <1>5, <1>6, <1>7, <1>8, <1>9

LEMMA CountsAreNat ==
    ASSUME TypeOK, NEW c \in Names
    PROVE  /\ breakers[c].failures \in Nat /\ ledger[c] \in Ledger
           /\ ledger[c].own \in Nat /\ ledger[c].lent \in Nat /\ ledger[c].met \in Nat
           /\ ledger[c].passes \in Nat /\ ledger[c].lost \in Nat /\ Sum(c) \in Nat
<1>1. breakers[c].failures \in Nat
  BY DEF TypeOK
<1>2. ledger[c] \in Ledger
  BY DEF TypeOK
<1>3. /\ ledger[c].own \in Nat /\ ledger[c].lent \in Nat /\ ledger[c].met \in Nat
      /\ ledger[c].passes \in Nat /\ ledger[c].lost \in Nat
  BY <1>2 DEF Ledger
<1>4. QED BY <1>1, <1>2, <1>3 DEF Sum

(* A connector whose count nothing and nobody has moved.                   *)
LEMMA AccountKept ==
    ASSUME RouterInv, NEW c \in Names,
           ledger'[c] = ledger[c], breakers'[c].failures = breakers[c].failures,
           \A u \in Threads : BusyAt(u, c)' <=> BusyAt(u, c),
           \A u \in Threads : BusyAt(u, c) => call'[u].pc = call[u].pc /\ charge'[u] = charge[u]
    PROVE  Accounted(c)'
<1>1. ChainCounted(c) /\ LogCounted(c) /\ PassesCounted(c) /\ Bounded(c)
  BY DEF RouterInv, Accounts, Accounted
<1>2. Busy(c)' = Busy(c)
  BY DEF Busy
<1>3. \A u \in Threads : LendingAt(u, c)' <=> LendingAt(u, c)
  BY DEF LendingAt
<1>4. Lending(c)' = Lending(c)
  BY <1>3 DEF Lending
<1>5. Sum(c)' = Sum(c)
  BY DEF Sum
<1>6. ASSUME NEW u \in Threads, call'[u].pc = "store", At(u)' = c
      PROVE  charge'[u].saved <= Sum(c)
  <2>1. BusyAt(u, c)'
    BY <1>6 DEF BusyAt, BusyPc
  <2>2. BusyAt(u, c) /\ call[u].pc = "store" /\ charge'[u] = charge[u]
    BY <1>6, <2>1
  <2>3. At(u) = c
    BY <2>2 DEF BusyAt
  <2>4. QED BY <1>1, <2>2, <2>3 DEF ChainCounted
<1>7. ChainCounted(c)'
  BY <1>1, <1>5, <1>6 DEF ChainCounted
<1>8. LogCounted(c)' /\ PassesCounted(c)' /\ Bounded(c)'
  BY <1>1, <1>2, <1>4 DEF LogCounted, PassesCounted, Bounded
<1>9. QED BY <1>7, <1>8 DEF Accounted

(* A step of t outside the way to the count moves no account.              *)
LEMMA QuietStep ==
    ASSUME RouterInv, NEW t \in Threads,
           \A u \in Threads : u # t => call'[u] = call[u] /\ charge'[u] = charge[u],
           call[t].pc \notin BusyPc, call'[t].pc \notin BusyPc,
           \A c \in Names : /\ ledger'[c] = ledger[c]
                            /\ breakers'[c].failures = breakers[c].failures
    PROVE  Accounts'
<1>1. SUFFICES ASSUME NEW c \in Names PROVE Accounted(c)'
  BY DEF Accounts
<1>2. ~ BusyAt(t, c) /\ ~ BusyAt(t, c)'
  BY DEF BusyAt
<1>3. \A u \in Threads : BusyAt(u, c)' <=> BusyAt(u, c)
  BY <1>2 DEF BusyAt, At
<1>4. \A u \in Threads : BusyAt(u, c) => call'[u].pc = call[u].pc /\ charge'[u] = charge[u]
  BY <1>2
<1>5. QED BY <1>3, <1>4, AccountKept

(* A step of t at c leaves the accounts of the others alone.               *)
LEMMA OneAccount ==
    ASSUME RouterInv, NEW t \in Threads, NEW c \in Names, c = At(t),
           \A u \in Threads : u # t => call'[u] = call[u] /\ charge'[u] = charge[u],
           call'[t].pc \in BusyPc => At(t)' = c,
           \A d \in Names : d # c => breakers'[d] = breakers[d] /\ ledger'[d] = ledger[d],
           Accounted(c)'
    PROVE  Accounts'
<1>1. SUFFICES ASSUME NEW d \in Names, d # c PROVE Accounted(d)'
  BY DEF Accounts
<1>2. ~ BusyAt(t, d) /\ ~ BusyAt(t, d)'
  BY <1>1 DEF BusyAt
<1>3. \A u \in Threads : BusyAt(u, d)' <=> BusyAt(u, d)
  BY <1>2 DEF BusyAt, At
<1>4. \A u \in Threads : BusyAt(u, d) => call'[u].pc = call[u].pc /\ charge'[u] = charge[u]
  BY <1>2
<1>5. QED BY <1>1, <1>3, <1>4, AccountKept

-----------------------------------------------------------------------------
(* The steps.                                                              *)
LEMMA InCallFacts ==
    ASSUME RouterInv, NEW t \in Threads, call[t].pc \in InCall
    PROVE  /\ At(t) \in Names /\ TypeOK /\ FollowsPlan(t)
           /\ call[t].pc # "gate" => Permits(At(t))
           /\ breakers[At(t)] \in [failures : Nat, openedAt : 0 .. MaxTime]
           /\ ledger[At(t)] \in Ledger /\ charge[t] \in ChargeState
           /\ now \in 0 .. MaxTime /\ MaxTime \in Nat
<1>1. TypeOK /\ FollowsPlan(t) /\ RunIsPermitted(t)
  BY DEF RouterInv, Calling
<1>2. At(t) \in Names
  BY <1>1, AtIsName DEF FollowsPlan
<1>3. call[t].pc # "gate" => Permits(At(t))
  BY <1>1 DEF RunIsPermitted
<1>4. QED BY <1>1, <1>2, <1>3, RouterAssumption DEF TypeOK

(* Leaving a candidate: the call's part.                                   *)
LEMMA Left ==
    ASSUME RouterInv, NEW t \in Threads, call[t].pc \in InCall,
           NEW fate \in Fates, Leave(t, fate), Permits(At(t)) \/ fate = "refused"
    PROVE  /\ call' \in [Threads -> CallState]
           /\ \A u \in Threads : u # t => call'[u] = call[u]
           /\ call'[t].pc \in {"returned", "raised", "gate"}
           /\ Calling' /\ ConsentHolds' /\ FallbackExhaustive'
<1>1. FollowsPlan(t) /\ TypeOK
  BY InCallFacts
<1>2. /\ call' \in [Threads -> CallState]
      /\ \A u \in Threads : u # t => call'[u] = call[u]
      /\ call'[t].pc = IF fate = "ok" THEN "returned"
                       ELSE IF fate = "escaped" \/ call[t].mode = "named"
                               \/ Len(call[t].todo) = 1 THEN "raised"
                       ELSE "gate"
  BY <1>1, Leaving
<1>3. call'[t].pc \in {"returned", "raised", "gate"}
  BY <1>2
<1>4. Calling' /\ ConsentHolds' /\ FallbackExhaustive'
  BY CallsKept
<1>5. QED BY <1>2, <1>3, <1>4

(* A step that only moves t, between two points off the way to the count.  *)
LEMMA QuietLeave ==
    ASSUME RouterInv, NEW t \in Threads, call[t].pc \in InCall \ BusyPc,
           NEW fate \in Fates, Leave(t, fate), Permits(At(t)) \/ fate = "refused",
           now' = now, calls' = calls, ledger' = ledger,
           charge' \in [Threads -> ChargeState],
           \A u \in Threads : u # t => charge'[u] = charge[u],
           breakers' \in [Names -> [failures : Nat, openedAt : 0 .. MaxTime]],
           \A c \in Names : breakers'[c].failures = breakers[c].failures
    PROVE  RouterInv'
<1>1. /\ call' \in [Threads -> CallState]
      /\ \A u \in Threads : u # t => call'[u] = call[u]
      /\ call'[t].pc \in {"returned", "raised", "gate"}
      /\ Calling' /\ ConsentHolds' /\ FallbackExhaustive'
  BY Left
<1>2. TypeOK'
  BY <1>1 DEF RouterInv, TypeOK
<1>3. call'[t].pc \notin BusyPc
  BY <1>1 DEF BusyPc
<1>4. Accounts'
  BY <1>1, <1>3, QuietStep
<1>5. QED BY <1>1, <1>2, <1>4 DEF RouterInv

LEMMA QuietGo ==
    ASSUME RouterInv, NEW t \in Threads, call[t].pc \in InCall \ BusyPc, Permits(At(t)),
           NEW pc \in InCall \ BusyPc, Goto(t, pc),
           now' = now, calls' = calls, ledger' = ledger, breakers' = breakers,
           charge' \in [Threads -> ChargeState],
           \A u \in Threads : u # t => charge'[u] = charge[u]
    PROVE  RouterInv'
<1>1. /\ call' \in [Threads -> CallState] /\ call'[t].pc = pc
      /\ \A u \in Threads : u # t => call'[u] = call[u]
  BY Going DEF RouterInv
<1>2. Calling' /\ ConsentHolds' /\ FallbackExhaustive'
  BY CallsGo
<1>3. TypeOK'
  BY <1>1 DEF RouterInv, TypeOK
<1>4. Accounts'
  BY <1>1, QuietStep
<1>5. QED BY <1>2, <1>3, <1>4 DEF RouterInv

LEMMA QuietStepsKeep ==
    ASSUME RouterInv, NEW t \in Threads,
           Refuse(t) \/ LookFull(t) \/ StayOpen(t) \/ CoolDown(t)
    PROVE  RouterInv'
<1>1. charge \in [Threads -> ChargeState]
  BY DEF RouterInv, TypeOK
<1>2. breakers \in [Names -> [failures : Nat, openedAt : 0 .. MaxTime]]
  BY DEF RouterInv, TypeOK
<1>3. CASE Refuse(t)
  <2>1. /\ call[t].pc \in InCall \ BusyPc /\ Leave(t, "refused") /\ "refused" \in Fates
        /\ now' = now /\ calls' = calls /\ ledger' = ledger
        /\ breakers' = breakers /\ charge' = charge
    BY <1>3 DEF Refuse, InCall, BusyPc, Fates
  <2>2. QED BY <1>1, <1>2, <2>1, QuietLeave
<1>4. CASE LookFull(t)
  <2>1. /\ call[t].pc \in InCall \ BusyPc /\ Permits(At(t))
        /\ Goto(t, "window") /\ "window" \in InCall \ BusyPc
        /\ now' = now /\ calls' = calls /\ ledger' = ledger
        /\ breakers' = breakers /\ charge' = charge
    BY <1>4 DEF LookFull, InCall, BusyPc
  <2>2. QED BY <1>1, <2>1, QuietGo
<1>5. CASE StayOpen(t)
  <2>1. /\ call[t].pc = "window" /\ Leave(t, "open") /\ "open" \in Fates
        /\ now' = now /\ calls' = calls /\ ledger' = ledger
        /\ breakers' = breakers /\ charge' = charge
    BY <1>5 DEF StayOpen, Fates
  <2>2. call[t].pc \in InCall \ BusyPc
    BY <2>1 DEF InCall, BusyPc
  <2>3. Permits(At(t))
    BY <2>1, <2>2, InCallFacts
  <2>4. QED BY <1>1, <1>2, <2>1, <2>2, <2>3, QuietLeave
<1>6. CASE CoolDown(t)
  <2>1. /\ call[t].pc = "window" /\ Goto(t, "reset") /\ "reset" \in InCall \ BusyPc
        /\ now' = now /\ calls' = calls /\ ledger' = ledger
        /\ breakers' = breakers /\ charge' = charge
    BY <1>6 DEF CoolDown, InCall, BusyPc
  <2>2. call[t].pc \in InCall \ BusyPc
    BY <2>1 DEF InCall, BusyPc
  <2>3. Permits(At(t))
    BY <2>1, <2>2, InCallFacts
  <2>4. QED BY <1>1, <2>1, <2>2, <2>3, QuietGo
<1>7. QED BY <1>3, <1>4, <1>5, <1>6

(* record(False) comes to its end.                                         *)
LEMMA ChargedKeeps ==
    ASSUME RouterInv, NEW t \in Threads, call[t].pc \in {"test", "stamp"}, Charged(t),
           now' = now, calls' = calls, ledger' = ledger,
           breakers' \in [Names -> [failures : Nat, openedAt : 0 .. MaxTime]],
           \A c \in Names : breakers'[c].failures = breakers[c].failures
    PROVE  RouterInv'
<1>1. PICK fate \in {"failed", "escaped"} : Leave(t, fate)
  BY DEF Charged
<1>2. fate \in Fates
  BY DEF Fates
<1>3. call[t].pc \in InCall \ BusyPc /\ call[t].pc # "gate"
  BY DEF InCall, BusyPc
<1>4. Permits(At(t)) /\ MaxTime \in Nat
  BY <1>3, InCallFacts
<1>5. NoCharge \in ChargeState
  BY <1>4 DEF NoCharge, ChargeState
<1>6. /\ charge' \in [Threads -> ChargeState]
      /\ \A u \in Threads : u # t => charge'[u] = charge[u]
  BY <1>5 DEF Charged, RouterInv, TypeOK
<1>7. QED BY <1>1, <1>2, <1>3, <1>4, <1>6, QuietLeave

LEMMA TestsKeep ==
    ASSUME RouterInv, NEW t \in Threads, TestBelow(t) \/ TestFull(t) \/ Stamp(t)
    PROVE  RouterInv'
<1>1. breakers \in [Names -> [failures : Nat, openedAt : 0 .. MaxTime]]
  BY DEF RouterInv, TypeOK
<1>2. CASE TestBelow(t)
  BY <1>1, <1>2, ChargedKeeps DEF TestBelow
<1>3. CASE TestFull(t)
  <2>1. /\ call[t].pc = "test" /\ charge' = [charge EXCEPT ![t].since = now]
        /\ Goto(t, "stamp") /\ now' = now /\ calls' = calls /\ ledger' = ledger
        /\ breakers' = breakers
    BY <1>3 DEF TestFull
  <2>2. /\ call[t].pc \in InCall \ BusyPc /\ "stamp" \in InCall \ BusyPc
        /\ call[t].pc # "gate" /\ call[t].pc \in InCall
    BY <2>1 DEF InCall, BusyPc
  <2>3. Permits(At(t)) /\ now \in 0 .. MaxTime
    BY <2>2, InCallFacts
  <2>4. \A k \in ChargeState : [k EXCEPT !.since = now] \in ChargeState
    BY <2>3 DEF ChargeState
  <2>5. /\ charge' \in [Threads -> ChargeState]
        /\ \A u \in Threads : u # t => charge'[u] = charge[u]
    BY <2>1, <2>4 DEF RouterInv, TypeOK
  <2>6. QED BY <2>1, <2>2, <2>3, <2>5, QuietGo
<1>4. CASE Stamp(t)
  <2>1. /\ call[t].pc = "stamp" /\ Charged(t) /\ now' = now /\ calls' = calls
        /\ ledger' = ledger
    BY <1>4 DEF Stamp
  <2>2. call[t].pc \in InCall
    BY <2>1 DEF InCall
  <2>3. PICK at \in charge[t].since .. now :
           breakers' = [breakers EXCEPT ![At(t)].openedAt = at]
    BY <1>4 DEF Stamp
  <2>4. at \in 0 .. MaxTime
    <3>1. charge[t].since \in 0 .. MaxTime /\ now \in 0 .. MaxTime /\ MaxTime \in Nat
      BY <2>2, InCallFacts DEF ChargeState
    <3>2. QED BY <3>1
  <2>5. \A b \in [failures : Nat, openedAt : 0 .. MaxTime] :
          /\ [b EXCEPT !.openedAt = at] \in [failures : Nat, openedAt : 0 .. MaxTime]
          /\ [b EXCEPT !.openedAt = at].failures = b.failures
    BY <2>4
  <2>6. breakers' \in [Names -> [failures : Nat, openedAt : 0 .. MaxTime]]
    BY <1>1, <2>3, <2>5
  <2>7. \A c \in Names : breakers'[c].failures = breakers[c].failures
    <3>1. SUFFICES ASSUME NEW c \in Names PROVE breakers'[c].failures = breakers[c].failures
      OBVIOUS
    <3>2. CASE c = At(t)
      <4>1. breakers'[c] = [breakers[c] EXCEPT !.openedAt = at]
        BY <1>1, <2>3, <3>2
      <4>2. breakers[c] \in [failures : Nat, openedAt : 0 .. MaxTime]
        BY <1>1
      <4>3. QED BY <2>5, <4>1, <4>2
    <3>3. CASE c # At(t)
      BY <1>1, <2>3, <3>3
    <3>4. QED BY <3>2, <3>3
  <2>8. QED BY <2>1, <2>6, <2>7, ChargedKeeps
<1>5. QED BY <1>2, <1>3, <1>4

(* The breaker is below its threshold: one more fits under the bound.      *)
LEMMA LookClosedKeeps ==
    ASSUME RouterInv, NEW t \in Threads, LookClosed(t)
    PROVE  RouterInv'
<1>1. /\ call[t].pc = "gate" /\ call[t].pc \in InCall \ BusyPc /\ call[t].pc \in InCall
      /\ Permits(At(t)) /\ breakers[At(t)].failures < Threshold
      /\ now' = now /\ breakers' = breakers /\ charge' = charge /\ calls' = calls
      /\ ledger' = [ledger EXCEPT ![At(t)].passes = @ + Passes(At(t))]
      /\ Pass(t)
  BY DEF LookClosed, InCall, BusyPc
<1>2. PICK c \in Names : c = At(t)
  BY <1>1, InCallFacts
<1>3. TypeOK /\ ledger[c] \in Ledger /\ ledger \in [Names -> Ledger]
  BY <1>2 DEF RouterInv, TypeOK
<1>4. CASE ~ Named(c).factory
  <2>1. Leave(t, "no factory") /\ "no factory" \in Fates
    BY <1>1, <1>2, <1>4 DEF Pass, Fates
  <2>2. Passes(c) = 0
    BY <1>4 DEF Passes
  <2>3. \A l \in Ledger : [l EXCEPT !.passes = @ + 0] = l
    BY DEF Ledger
  <2>4. ledger' = ledger
    BY <1>1, <1>2, <1>3, <2>2, <2>3
  <2>5. /\ charge' \in [Threads -> ChargeState]
        /\ breakers' \in [Names -> [failures : Nat, openedAt : 0 .. MaxTime]]
    BY <1>1, <1>3 DEF TypeOK
  <2>6. QED BY <1>1, <2>1, <2>4, <2>5, QuietLeave
<1>5. CASE Named(c).factory
  <2>1. Goto(t, "running") /\ "running" \in InCall /\ "running" \in BusyPc
    BY <1>1, <1>2, <1>5 DEF Pass, InCall, BusyPc
  <2>2. Passes(c) = 1
    BY <1>5 DEF Passes
  <2>3. /\ call' \in [Threads -> CallState] /\ call'[t].pc = "running"
        /\ \A u \in Threads : u # t => call'[u] = call[u]
        /\ \A u \in Threads : At(u)' = At(u)
    BY <1>3, <2>1, Going
  <2>4. Calling' /\ ConsentHolds' /\ FallbackExhaustive'
    BY <1>1, <2>1, CallsGo
  <2>5. /\ ledger'[c] = [ledger[c] EXCEPT !.passes = @ + 1]
        /\ \A d \in Names : d # c => ledger'[d] = ledger[d]
    BY <1>1, <1>2, <1>3, <2>2
  <2>6. /\ ledger'[c].passes = ledger[c].passes + 1 /\ ledger'[c].own = ledger[c].own
        /\ ledger'[c].lent = ledger[c].lent /\ ledger'[c].met = ledger[c].met
        /\ ledger'[c].lost = ledger[c].lost /\ ledger'[c] \in Ledger
    BY <1>3, <2>5 DEF Ledger
  <2>7. ledger' \in [Names -> Ledger]
    BY <1>1, <1>3, <2>5, <2>6
  <2>8. TypeOK'
    BY <1>1, <1>3, <2>3, <2>7 DEF TypeOK
  <2>9. /\ BusyAt(t, c)' /\ ~ BusyAt(t, c) /\ ~ LendingAt(t, c) /\ ~ LendingAt(t, c)'
    BY <1>1, <1>2, <2>1, <2>3 DEF BusyAt, LendingAt, BusyPc
  <2>10. Cardinality(Busy(c)') = Cardinality(Busy(c)) + 1 /\ Lending(c)' = Lending(c)
    BY <1>1, <2>3, <2>9, BusyMoves
  <2>11. /\ ChainCounted(c) /\ LogCounted(c) /\ PassesCounted(c) /\ Bounded(c)
    BY DEF RouterInv, Accounts, Accounted
  <2>12. ChainCounted(c)'
    <3>1. Sum(c)' = Sum(c)
      BY <2>6 DEF Sum
    <3>2. \A u \in Threads : call'[u].pc = "store" => call[u].pc = "store"
      BY <2>3
    <3>3. QED BY <1>1, <2>3, <2>11, <3>1, <3>2 DEF ChainCounted
  <2>13. LogCounted(c)'
    BY <2>6, <2>10, <2>11 DEF LogCounted
  <2>14. /\ breakers[c].failures \in Nat /\ ledger[c].passes \in Nat /\ ledger[c].lost \in Nat
         /\ Cardinality(Busy(c)) \in Nat /\ Threshold \in Nat
    BY <1>3, CountsAreNat, BusyTypes, RouterAssumption
  <2>15. ledger'[c].passes <= breakers[c].failures + ledger[c].lost + Cardinality(Busy(c)')
    BY <2>6, <2>10, <2>11, <2>14 DEF PassesCounted
  <2>16. PassesCounted(c)'
    BY <1>1, <2>6, <2>15 DEF PassesCounted
  <2>17. Bounded(c)'
    <3>1. Cardinality(Busy(c)') <= Cardinality(Threads) /\ Cardinality(Threads) \in Nat
      <4>1. Busy(c)' \in SUBSET Threads /\ IsFiniteSet(Threads)
        BY RouterAssumption DEF Busy
      <4>2. QED BY <4>1, FS_Subset, FS_CardinalityType
    <3>2. Cardinality(Busy(c)') \in Nat
      BY <2>10, <2>14
    <3>3. breakers[c].failures <= Threshold - 1
      BY <1>1, <1>2, <2>14
    <3>4. ledger'[c].passes \in Nat
      BY <2>6, <2>14
    <3>5. ledger'[c].passes <= Threshold + Cardinality(Threads) - 1 + ledger[c].lost
      BY <2>14, <2>15, <3>1, <3>2, <3>3, <3>4
    <3>6. QED BY <2>6, <3>5 DEF Bounded
  <2>18. Accounts'
    <3>1. Accounted(c)'
      BY <2>12, <2>13, <2>16, <2>17 DEF Accounted
    <3>2. At(t)' = c
      BY <1>2, <2>3
    <3>3. QED BY <1>1, <1>2, <2>3, <2>5, <3>1, <3>2, OneAccount
  <2>19. QED BY <2>4, <2>8, <2>18 DEF RouterInv
<1>6. QED BY <1>4, <1>5

(* The count is cleared.  No account but its own changes, and it starts    *)
(* anew unless somebody's charge is under way.                             *)
LEMMA ClearingAccounts ==
    ASSUME RouterInv, NEW t \in Threads, NEW c \in Names, c = At(t),
           call[t].pc \in InCall \ {"load", "store"}, NEW p \in {0, 1}, ClearCount(c, p),
           charge' = charge, \A u \in Threads : u # t => call'[u] = call[u],
           call'[t].pc # "store", call'[t].pc \in BusyPc => At(t)' = c,
           p = 1 => call'[t].pc = "running" /\ call[t].pc # "running"
    PROVE  /\ Accounts' /\ ledger' \in [Names -> Ledger]
           /\ breakers' \in [Names -> [failures : Nat, openedAt : 0 .. MaxTime]]
<1>1. /\ TypeOK /\ ledger[c] \in Ledger /\ ledger \in [Names -> Ledger]
      /\ breakers \in [Names -> [failures : Nat, openedAt : 0 .. MaxTime]]
  BY DEF RouterInv, TypeOK
<1>2. /\ ledger'[c] = Cleared(c, p)
      /\ \A d \in Names : d # c => ledger'[d] = ledger[d] /\ breakers'[d] = breakers[d]
  BY <1>1 DEF ClearCount
<1>3. /\ breakers'[c].failures = 0
      /\ breakers' \in [Names -> [failures : Nat, openedAt : 0 .. MaxTime]]
  <2>1. \A b \in [failures : Nat, openedAt : 0 .. MaxTime] :
          /\ [b EXCEPT !.failures = 0] \in [failures : Nat, openedAt : 0 .. MaxTime]
          /\ [b EXCEPT !.failures = 0].failures = 0
    OBVIOUS
  <2>2. breakers' = [breakers EXCEPT ![c].failures = 0]
    BY DEF ClearCount
  <2>3. breakers'[c] = [breakers[c] EXCEPT !.failures = 0]
    BY <1>1, <2>2
  <2>4. breakers'[c].failures = 0
    BY <1>1, <2>1, <2>3
  <2>5. QED BY <1>1, <2>1, <2>2, <2>4
<1>4. Charging(c) = {} =>
        /\ Cleared(c, p) \in Ledger /\ Cleared(c, p).own = 0 /\ Cleared(c, p).lent = 0
        /\ Cleared(c, p).met = 0 /\ Cleared(c, p).passes = p /\ Cleared(c, p).lost = 0
  <2>1. SUFFICES ASSUME Charging(c) = {}
                 PROVE  /\ Cleared(c, p) \in Ledger /\ Cleared(c, p).own = 0
                        /\ Cleared(c, p).lent = 0 /\ Cleared(c, p).met = 0
                        /\ Cleared(c, p).passes = p /\ Cleared(c, p).lost = 0
    OBVIOUS
  <2>2. Cleared(c, p) = [own |-> 0, lent |-> 0, met |-> 0, passes |-> p, lost |-> 0]
    BY <2>1 DEF Cleared, Clean
  <2>3. QED BY <2>2 DEF Ledger
<1>5. Charging(c) # {} =>
        /\ Cleared(c, p) \in Ledger /\ Cleared(c, p).own = ledger[c].own
        /\ Cleared(c, p).lent = ledger[c].lent /\ Cleared(c, p).met = ledger[c].met + 1
        /\ Cleared(c, p).passes = p /\ Cleared(c, p).lost = 0
  <2>1. SUFFICES ASSUME Charging(c) # {}
                 PROVE  /\ Cleared(c, p) \in Ledger /\ Cleared(c, p).own = ledger[c].own
                        /\ Cleared(c, p).lent = ledger[c].lent
                        /\ Cleared(c, p).met = ledger[c].met + 1
                        /\ Cleared(c, p).passes = p /\ Cleared(c, p).lost = 0
    OBVIOUS
  <2>2. Cleared(c, p) = [own |-> ledger[c].own, lent |-> ledger[c].lent,
                         met |-> ledger[c].met + 1, passes |-> p, lost |-> 0]
    BY <1>1, <2>1 DEF Cleared, Ledger
  <2>3. ledger[c].own \in Nat /\ ledger[c].lent \in Nat /\ ledger[c].met + 1 \in Nat
    BY <1>1 DEF Ledger
  <2>4. QED BY <2>2, <2>3 DEF Ledger
<1>6. ledger' \in [Names -> Ledger]
  <2>1. Cleared(c, p) \in Ledger
    BY <1>4, <1>5
  <2>2. QED BY <1>1, <2>1 DEF ClearCount
<1>7. ChainCounted(c) /\ LogCounted(c) /\ PassesCounted(c) /\ Bounded(c)
  BY DEF RouterInv, Accounts, Accounted
<1>8. ledger[c].lent \in Nat /\ ledger[c].met \in Nat /\ Sum(c) \in Nat
  BY <1>1, CountsAreNat
<1>9. ~ LendingAt(t, c)
  BY DEF LendingAt
<1>10. /\ Cardinality(Lending(c)) \in Nat
       /\ Cardinality(Lending(c)') <= Cardinality(Lending(c)) + 1
       /\ Cardinality(Lending(c)') \in Nat
  <2>1. Cardinality(Lending(c)) \in Nat
    BY BusyTypes
  <2>2. CASE LendingAt(t, c)'
    BY <1>9, <2>1, <2>2, BusyMoves
  <2>3. CASE ~ LendingAt(t, c)'
    <3>1. Lending(c)' = Lending(c)
      BY <1>9, <2>3, BusyMoves
    <3>2. QED BY <2>1, <3>1
  <2>4. QED BY <2>2, <2>3
<1>11. ASSUME NEW u \in Threads, call'[u].pc = "store", At(u)' = c
       PROVE  u \in Charging(c) /\ charge'[u].saved <= Sum(c)
  <2>1. u # t
    BY <1>11
  <2>2. call[u].pc = "store" /\ At(u) = c
    BY <1>11, <2>1 DEF At
  <2>3. QED BY <1>7, <2>2 DEF ChainCounted, Charging
<1>12. ChainCounted(c)'
  <2>1. CASE Charging(c) = {}
    <3>1. Sum(c)' = 0
      BY <1>2, <1>4, <2>1 DEF Sum
    <3>2. QED BY <1>3, <1>11, <2>1, <3>1 DEF ChainCounted
  <2>2. CASE Charging(c) # {}
    <3>1. Sum(c)' = Sum(c)
      BY <1>2, <1>5, <2>2 DEF Sum
    <3>2. QED BY <1>3, <1>8, <1>11, <3>1 DEF ChainCounted
  <2>3. QED BY <2>1, <2>2
<1>13. LogCounted(c)'
  <2>1. CASE Charging(c) = {}
    <3>1. Lending(c) = {}
      BY <2>1 DEF Lending, LendingAt, BusyAt, Charging
    <3>2. Cardinality(Lending(c)) = 0
      BY <3>1, FS_EmptySet
    <3>3. QED BY <1>2, <1>4, <1>10, <2>1, <3>2 DEF LogCounted
  <2>2. CASE Charging(c) # {}
    <3>1. ledger'[c].lent = ledger[c].lent /\ ledger'[c].met = ledger[c].met + 1
      BY <1>2, <1>5, <2>2
    <3>2. QED BY <1>7, <1>8, <1>10, <3>1 DEF LogCounted
  <2>3. QED BY <2>1, <2>2
<1>14. ledger'[c].passes = p /\ ledger'[c].lost = 0
  BY <1>2, <1>4, <1>5
<1>15. Cardinality(Busy(c)') \in Nat /\ p <= Cardinality(Busy(c)')
  <2>1. Busy(c)' \in SUBSET Threads /\ IsFiniteSet(Threads)
    BY RouterAssumption DEF Busy
  <2>2. Cardinality(Busy(c)') \in Nat
    BY <2>1, FS_Subset, FS_CardinalityType
  <2>3. CASE p = 1
    <3>1. call'[t].pc = "running" /\ call[t].pc \notin BusyPc
      BY <2>3 DEF BusyPc
    <3>2. BusyAt(t, c)' /\ ~ BusyAt(t, c)
      BY <3>1 DEF BusyAt, BusyPc
    <3>3. Cardinality(Busy(c)') = Cardinality(Busy(c)) + 1
      BY <3>2, BusyMoves
    <3>4. QED BY <2>2, <2>3, <3>3, BusyTypes
  <2>4. CASE p = 0
    BY <2>2, <2>4
  <2>5. QED BY <2>2, <2>3, <2>4
<1>16. PassesCounted(c)'
  BY <1>3, <1>14, <1>15 DEF PassesCounted
<1>17. Bounded(c)'
  <2>1. Threads # {} /\ IsFiniteSet(Threads)
    BY RouterAssumption
  <2>2. Cardinality(Threads) \in Nat \ {0}
    BY <2>1, FS_CardinalityType, FS_EmptySet
  <2>3. Threshold \in Nat /\ Threshold > 1
    BY RouterAssumption
  <2>4. p <= Threshold + Cardinality(Threads) - 1 + 0
    BY <2>2, <2>3
  <2>5. QED BY <1>14, <2>4 DEF Bounded
<1>18. Accounted(c)'
  BY <1>12, <1>13, <1>16, <1>17 DEF Accounted
<1>19. Accounts'
  BY <1>2, <1>18, OneAccount
<1>20. QED BY <1>3, <1>6, <1>19

LEMMA ResetKeeps ==
    ASSUME RouterInv, NEW t \in Threads, Reset(t)
    PROVE  RouterInv'
<1>1. /\ call[t].pc = "reset" /\ ClearCount(At(t), Passes(At(t))) /\ Pass(t)
      /\ now' = now /\ charge' = charge /\ calls' = calls
  BY DEF Reset
<1>2. /\ call[t].pc \in InCall /\ call[t].pc # "gate" /\ call[t].pc # "running"
      /\ call[t].pc \in InCall \ {"load", "store"}
  BY <1>1 DEF InCall
<1>3. PICK c \in Names : c = At(t)
  BY <1>2, InCallFacts
<1>4. Permits(At(t)) /\ TypeOK
  BY <1>2, InCallFacts
<1>5. CASE ~ Named(c).factory
  <2>1. Leave(t, "no factory") /\ "no factory" \in Fates /\ Passes(c) = 0
    BY <1>1, <1>3, <1>5 DEF Pass, Fates, Passes
  <2>2. /\ call' \in [Threads -> CallState]
        /\ \A u \in Threads : u # t => call'[u] = call[u]
        /\ call'[t].pc \in {"returned", "raised", "gate"}
        /\ Calling' /\ ConsentHolds' /\ FallbackExhaustive'
    BY <1>2, <1>4, <2>1, Left
  <2>3. call'[t].pc # "store" /\ call'[t].pc \notin BusyPc
    BY <2>2 DEF BusyPc
  <2>4. ClearCount(c, 0) /\ 0 \in {0, 1} /\ 0 # 1
    <3>1. ClearCount(c, Passes(c))
      BY <1>1, <1>3, Zenon
    <3>2. ClearCount(c, 0)
      BY <2>1, <3>1, Zenon
    <3>3. 0 \in {0, 1} /\ 0 # 1
      OBVIOUS
    <3>4. QED BY <3>2, <3>3
  <2>5. /\ Accounts' /\ ledger' \in [Names -> Ledger]
        /\ breakers' \in [Names -> [failures : Nat, openedAt : 0 .. MaxTime]]
    BY <1>1, <1>2, <1>3, <2>2, <2>3, <2>4, ClearingAccounts
  <2>6. QED BY <1>1, <1>4, <2>2, <2>5 DEF RouterInv, TypeOK
<1>6. CASE Named(c).factory
  <2>1. Goto(t, "running") /\ "running" \in InCall /\ Passes(c) = 1
    BY <1>1, <1>3, <1>6 DEF Pass, InCall, Passes
  <2>2. /\ call' \in [Threads -> CallState]
        /\ \A u \in Threads : u # t => call'[u] = call[u]
        /\ call'[t].pc = "running" /\ At(t)' = c
    BY <1>3, <1>4, <2>1, Going
  <2>3. Calling' /\ ConsentHolds' /\ FallbackExhaustive'
    BY <1>2, <1>4, <2>1, CallsGo
  <2>4. ClearCount(c, 1) /\ 1 \in {0, 1}
    BY <1>1, <1>3, <2>1
  <2>5. /\ Accounts' /\ ledger' \in [Names -> Ledger]
        /\ breakers' \in [Names -> [failures : Nat, openedAt : 0 .. MaxTime]]
    BY <1>1, <1>2, <1>3, <2>2, <2>4, ClearingAccounts
  <2>6. QED BY <1>1, <1>4, <2>2, <2>3, <2>5 DEF RouterInv, TypeOK
<1>7. QED BY <1>5, <1>6

LEMMA RunOkKeeps ==
    ASSUME RouterInv, NEW t \in Threads, RunOk(t) \/ RunOkMeterFails(t)
    PROVE  RouterInv'
<1>1. /\ call[t].pc = "running" /\ ClearCount(At(t), 0)
      /\ now' = now /\ charge' = charge /\ calls' = calls
  BY DEF RunOk, RunOkMeterFails
<1>2. /\ call[t].pc \in InCall /\ call[t].pc # "gate"
      /\ call[t].pc \in InCall \ {"load", "store"}
  BY <1>1 DEF InCall
<1>3. PICK c \in Names : c = At(t)
  BY <1>2, InCallFacts
<1>4. Permits(At(t)) /\ TypeOK
  BY <1>2, InCallFacts
<1>5. ClearCount(c, 0) /\ 0 \in {0, 1} /\ 0 # 1
  BY <1>1, <1>3
<1>6. CASE RunOk(t)
  <2>1. Leave(t, "ok") /\ "ok" \in Fates
    BY <1>6 DEF RunOk, Fates
  <2>2. /\ call' \in [Threads -> CallState]
        /\ \A u \in Threads : u # t => call'[u] = call[u]
        /\ call'[t].pc \in {"returned", "raised", "gate"}
        /\ Calling' /\ ConsentHolds' /\ FallbackExhaustive'
    BY <1>2, <1>4, <2>1, Left
  <2>3. call'[t].pc # "store" /\ call'[t].pc \notin BusyPc
    BY <2>2 DEF BusyPc
  <2>4. /\ Accounts' /\ ledger' \in [Names -> Ledger]
        /\ breakers' \in [Names -> [failures : Nat, openedAt : 0 .. MaxTime]]
    BY <1>1, <1>2, <1>3, <1>5, <2>2, <2>3, ClearingAccounts
  <2>5. QED BY <1>1, <1>4, <2>2, <2>4 DEF RouterInv, TypeOK
<1>7. CASE RunOkMeterFails(t)
  <2>1. Goto(t, "load") /\ "load" \in InCall
    BY <1>7 DEF RunOkMeterFails, InCall
  <2>2. /\ call' \in [Threads -> CallState]
        /\ \A u \in Threads : u # t => call'[u] = call[u]
        /\ call'[t].pc = "load" /\ At(t)' = c
    BY <1>3, <1>4, <2>1, Going
  <2>3. Calling' /\ ConsentHolds' /\ FallbackExhaustive'
    BY <1>2, <1>4, <2>1, CallsGo
  <2>4. /\ Accounts' /\ ledger' \in [Names -> Ledger]
        /\ breakers' \in [Names -> [failures : Nat, openedAt : 0 .. MaxTime]]
    BY <1>1, <1>2, <1>3, <1>5, <2>2, ClearingAccounts
  <2>5. QED BY <1>1, <1>4, <2>2, <2>3, <2>4 DEF RouterInv, TypeOK
<1>8. QED BY <1>6, <1>7

(* The count is read: what was read is what was charged, at most.          *)
LEMMA LoadKeeps ==
    ASSUME RouterInv, NEW t \in Threads, LoadForLog(t) \/ Fail(t)
    PROVE  RouterInv'
<1>1. PICK why \in {"log", "failed"} :
         /\ Load(t, why)
         /\ (call[t].pc = "load" /\ why = "log") \/ (call[t].pc = "running" /\ why = "failed")
  BY DEF LoadForLog, Fail
<1>2. call[t].pc \in InCall /\ call[t].pc # "gate" /\ call[t].pc \in BusyPc
  BY <1>1 DEF InCall, BusyPc
<1>3. PICK c \in Names : c = At(t)
  BY <1>2, InCallFacts
<1>4. Permits(At(t)) /\ TypeOK
  BY <1>2, InCallFacts
<1> DEFINE n == breakers[c].failures
<1>5. n \in Nat /\ Sum(c) \in Nat
  BY <1>4, CountsAreNat
<1>6. /\ charge' = [charge EXCEPT ![t].why = why, ![t].saved = n]
      /\ Goto(t, "store") /\ "store" \in InCall
      /\ now' = now /\ breakers' = breakers /\ calls' = calls /\ ledger' = ledger
  BY <1>1, <1>3 DEF Load, InCall
<1> HIDE DEF n
<1>7. /\ call' \in [Threads -> CallState]
      /\ \A u \in Threads : u # t => call'[u] = call[u]
      /\ call'[t].pc = "store" /\ At(t)' = c
      /\ \A u \in Threads : At(u)' = At(u)
  BY <1>3, <1>4, <1>6, Going
<1>8. Calling' /\ ConsentHolds' /\ FallbackExhaustive'
  BY <1>2, <1>4, <1>6, CallsGo
<1>9. \A k \in ChargeState :
        /\ [k EXCEPT !.why = why, !.saved = n] \in ChargeState
        /\ [k EXCEPT !.why = why, !.saved = n].why = why
        /\ [k EXCEPT !.why = why, !.saved = n].saved = n
  BY <1>5 DEF ChargeState
<1>10. charge \in [Threads -> ChargeState]
  BY <1>4 DEF TypeOK
<1>11. charge'[t] = [charge[t] EXCEPT !.why = why, !.saved = n]
  BY <1>6, <1>10
<1>12. /\ charge' \in [Threads -> ChargeState] /\ charge'[t].why = why /\ charge'[t].saved = n
       /\ \A u \in Threads : u # t => charge'[u] = charge[u]
  BY <1>6, <1>9, <1>10, <1>11
<1>13. TypeOK'
  BY <1>4, <1>6, <1>7, <1>12 DEF TypeOK
<1>14. ChainCounted(c) /\ LogCounted(c) /\ PassesCounted(c) /\ Bounded(c)
  BY DEF RouterInv, Accounts, Accounted
<1>15. BusyAt(t, c) /\ BusyAt(t, c)'
  BY <1>2, <1>3, <1>7 DEF BusyAt, BusyPc
<1>16. LendingAt(t, c)' <=> LendingAt(t, c)
  BY <1>1, <1>7, <1>12, <1>15 DEF LendingAt
<1>17. Busy(c)' = Busy(c) /\ Lending(c)' = Lending(c)
  BY <1>7, <1>12, <1>15, <1>16, BusyMoves
<1>18. ChainCounted(c)'
  <2>1. Sum(c)' = Sum(c) /\ n <= Sum(c)
    BY <1>6, <1>14 DEF Sum, ChainCounted, n
  <2>2. ASSUME NEW u \in Threads, call'[u].pc = "store", At(u)' = c
        PROVE  charge'[u].saved <= Sum(c)
    <3>1. CASE u = t
      BY <1>12, <2>1, <3>1
    <3>2. CASE u # t
      <4>1. call[u].pc = "store" /\ At(u) = c /\ charge'[u] = charge[u]
        BY <1>7, <1>12, <2>2, <3>2
      <4>2. QED BY <1>14, <4>1 DEF ChainCounted
    <3>3. QED BY <3>1, <3>2
  <2>3. QED BY <1>6, <2>1, <2>2 DEF ChainCounted, n
<1>19. LogCounted(c)' /\ PassesCounted(c)' /\ Bounded(c)'
  BY <1>6, <1>14, <1>17 DEF LogCounted, PassesCounted, Bounded
<1>20. Accounted(c)'
  BY <1>18, <1>19 DEF Accounted
<1>21. Accounts'
  BY <1>3, <1>6, <1>7, <1>12, <1>20, OneAccount
<1>22. QED BY <1>8, <1>13, <1>21 DEF RouterInv

(* One more is written, over what others wrote since the count was read.   *)
LEMMA StoreKeeps ==
    ASSUME RouterInv, NEW t \in Threads, Store(t)
    PROVE  RouterInv'
<1>1. call[t].pc = "store"
  BY DEF Store
<1>2. call[t].pc \in InCall /\ call[t].pc # "gate" /\ "test" \in InCall
  BY <1>1 DEF InCall
<1>3. PICK c \in Names : c = At(t)
  BY <1>2, InCallFacts
<1>4. Permits(At(t)) /\ TypeOK /\ charge[t] \in ChargeState
  BY <1>2, InCallFacts
<1> DEFINE n == breakers[c].failures
           k == charge[t].saved
           log == charge[t].why = "log"
           own == IF log THEN ledger[c].own ELSE ledger[c].own + 1
           lent == IF log THEN ledger[c].lent + 1 ELSE ledger[c].lent
           lost == IF n > k THEN ledger[c].lost + (n - k) ELSE ledger[c].lost
           new == Stored(t)
<1>5. /\ breakers' = [breakers EXCEPT ![c].failures = k + 1]
      /\ ledger' = [ledger EXCEPT ![c] = new]
      /\ Goto(t, "test") /\ now' = now /\ charge' = charge /\ calls' = calls
  BY <1>3 DEF Store
<1>6. /\ n \in Nat /\ k \in Nat /\ ledger[c] \in Ledger /\ ledger \in [Names -> Ledger]
      /\ ledger[c].own \in Nat /\ ledger[c].lent \in Nat /\ ledger[c].met \in Nat
      /\ ledger[c].passes \in Nat /\ ledger[c].lost \in Nat /\ Sum(c) \in Nat
      /\ Sum(c) = ledger[c].own + ledger[c].lent
  BY <1>4, CountsAreNat DEF ChargeState, TypeOK, Sum
<1>7. new = [ledger[c] EXCEPT !.own = own, !.lent = lent, !.lost = lost]
  BY <1>3 DEF Stored
<1> HIDE DEF n, k, log, new
<1>8. /\ own \in Nat /\ lent \in Nat /\ lost \in Nat /\ own + lent = Sum(c) + 1
      /\ lost >= ledger[c].lost /\ n + ledger[c].lost <= (k + 1) + lost - 1
  <2>1. own \in Nat /\ lent \in Nat /\ own + lent = Sum(c) + 1
    BY <1>6
  <2>2. /\ lost \in Nat /\ lost >= ledger[c].lost
        /\ n + ledger[c].lost <= (k + 1) + lost - 1
    <3>1. CASE n > k
      <4>1. lost = ledger[c].lost + (n - k)
        BY <3>1
      <4>2. QED BY <1>6, <3>1, <4>1
    <3>2. CASE ~ (n > k)
      <4>1. lost = ledger[c].lost
        BY <3>2
      <4>2. QED BY <1>6, <3>2, <4>1
    <3>3. QED BY <3>1, <3>2
  <2>3. QED BY <2>1, <2>2
<1> HIDE DEF own, lent, lost
<1>9. /\ new \in Ledger /\ new.own = own /\ new.lent = lent /\ new.lost = lost
      /\ new.met = ledger[c].met /\ new.passes = ledger[c].passes
  <2>1. PICK l : l = ledger[c]
    OBVIOUS
  <2>2. new = [l EXCEPT !.own = own, !.lent = lent, !.lost = lost]
    BY <1>7, <2>1
  <2>3. l \in Ledger /\ own \in Nat /\ lent \in Nat /\ lost \in Nat
    BY <1>6, <1>8, <2>1
  <2>4. /\ new \in Ledger /\ new.own = own /\ new.lent = lent /\ new.lost = lost
        /\ new.met = l.met /\ new.passes = l.passes
    BY <2>2, <2>3 DEF Ledger
  <2>5. QED BY <2>1, <2>4
<1>10. /\ ledger' \in [Names -> Ledger] /\ ledger'[c] = new
       /\ \A d \in Names : d # c => ledger'[d] = ledger[d]
  BY <1>5, <1>6, <1>9
<1>11. /\ breakers' \in [Names -> [failures : Nat, openedAt : 0 .. MaxTime]]
       /\ breakers'[c].failures = k + 1
       /\ \A d \in Names : d # c => breakers'[d] = breakers[d]
  <2>1. \A b \in [failures : Nat, openedAt : 0 .. MaxTime] :
          /\ [b EXCEPT !.failures = k + 1] \in [failures : Nat, openedAt : 0 .. MaxTime]
          /\ [b EXCEPT !.failures = k + 1].failures = k + 1
    BY <1>6
  <2>2. breakers \in [Names -> [failures : Nat, openedAt : 0 .. MaxTime]]
    BY <1>4 DEF TypeOK
  <2>3. breakers'[c] = [breakers[c] EXCEPT !.failures = k + 1]
    BY <1>5, <2>2
  <2>4. QED BY <1>5, <2>1, <2>2, <2>3
<1>12. /\ call' \in [Threads -> CallState]
       /\ \A u \in Threads : u # t => call'[u] = call[u]
       /\ call'[t].pc = "test" /\ At(t)' = c
       /\ \A u \in Threads : At(u)' = At(u)
  BY <1>2, <1>3, <1>4, <1>5, Going
<1>13. Calling' /\ ConsentHolds' /\ FallbackExhaustive'
  BY <1>2, <1>4, <1>5, CallsGo
<1>14. TypeOK'
  BY <1>4, <1>5, <1>10, <1>11, <1>12 DEF TypeOK
<1>15. ChainCounted(c) /\ LogCounted(c) /\ PassesCounted(c) /\ Bounded(c)
  BY DEF RouterInv, Accounts, Accounted
<1>16. BusyAt(t, c) /\ ~ BusyAt(t, c)' /\ ~ LendingAt(t, c)' /\ (LendingAt(t, c) <=> log)
  BY <1>1, <1>3, <1>12 DEF BusyAt, BusyPc, LendingAt, log
<1>17. Cardinality(Busy(c)) \in Nat /\ Cardinality(Lending(c)) \in Nat
       /\ Cardinality(Threads) \in Nat
  BY BusyTypes
<1>18. Cardinality(Busy(c)') = Cardinality(Busy(c)) - 1
  BY <1>5, <1>12, <1>16, BusyMoves
<1>19. Cardinality(Lending(c)') = IF log THEN Cardinality(Lending(c)) - 1
                                  ELSE Cardinality(Lending(c))
  <2>1. CASE log
    BY <1>5, <1>12, <1>16, <2>1, BusyMoves
  <2>2. CASE ~ log
    <3>1. Lending(c)' = Lending(c)
      BY <1>5, <1>12, <1>16, <2>2, BusyMoves
    <3>2. QED BY <2>2, <3>1
  <2>3. QED BY <2>1, <2>2
<1>20. ChainCounted(c)'
  <2>1. Sum(c)' = Sum(c) + 1
    BY <1>8, <1>9, <1>10 DEF Sum
  <2>2. k <= Sum(c)
    BY <1>1, <1>3, <1>15 DEF ChainCounted, k
  <2>3. ASSUME NEW u \in Threads, call'[u].pc = "store", At(u)' = c
        PROVE  charge'[u].saved <= Sum(c) + 1
    <3>1. u # t
      BY <1>12, <2>3
    <3>2. call[u].pc = "store" /\ At(u) = c /\ charge'[u] = charge[u]
      BY <1>5, <1>12, <2>3, <3>1
    <3>3. charge[u].saved <= Sum(c)
      BY <1>15, <3>2 DEF ChainCounted
    <3>4. charge[u].saved \in Nat
      BY <1>4 DEF TypeOK, ChargeState
    <3>5. QED BY <1>6, <3>2, <3>3, <3>4
  <2>4. k + 1 <= Sum(c) + 1
    BY <1>6, <2>2
  <2>5. QED BY <1>11, <2>1, <2>3, <2>4 DEF ChainCounted
<1>21. LogCounted(c)'
  <2>1. ledger'[c].lent + Cardinality(Lending(c)') = ledger[c].lent + Cardinality(Lending(c))
    BY <1>6, <1>9, <1>10, <1>17, <1>19 DEF lent
  <2>2. QED BY <1>9, <1>10, <1>15, <2>1 DEF LogCounted
<1>22. PassesCounted(c)'
  <2>1. ledger[c].passes <= n + ledger[c].lost + Cardinality(Busy(c))
    BY <1>15 DEF PassesCounted, n
  <2>2. ledger[c].passes <= (k + 1) + lost + (Cardinality(Busy(c)) - 1)
    BY <1>6, <1>8, <1>17, <2>1
  <2>3. QED BY <1>9, <1>10, <1>11, <1>18, <2>2 DEF PassesCounted
<1>23. Bounded(c)'
  <2>1. ledger[c].passes <= Threshold + Cardinality(Threads) - 1 + ledger[c].lost
    BY <1>15 DEF Bounded
  <2>2. Threshold \in Nat
    BY RouterAssumption
  <2>3. ledger[c].passes <= Threshold + Cardinality(Threads) - 1 + lost
    BY <1>6, <1>8, <1>17, <2>1, <2>2
  <2>4. QED BY <1>9, <1>10, <2>3 DEF Bounded
<1>24. Accounted(c)'
  BY <1>20, <1>21, <1>22, <1>23 DEF Accounted
<1>25. Accounts'
  BY <1>3, <1>5, <1>10, <1>11, <1>12, <1>24, OneAccount
<1>26. QED BY <1>13, <1>14, <1>25 DEF RouterInv

-----------------------------------------------------------------------------
(* A thread that is in no call takes one up, or puts one down.             *)
LEMMA RenewedKeeps ==
    ASSUME RouterInv, NEW t \in Threads, call[t].pc \notin InCall,
           NEW k \in CallState, k.pc \in {"idle", "gate"}, k.trail = <<>>, k.todo = k.wanted,
           k.pc = "gate" => k.todo # <<>>, k.mode = "named" => Len(k.wanted) <= 1,
           call' = [call EXCEPT ![t] = k], calls' \in [Threads -> 0 .. MaxCalls],
           UNCHANGED <<now, breakers, charge, ledger>>
    PROVE  RouterInv'
<1>1. /\ call' \in [Threads -> CallState] /\ call'[t] = k
      /\ \A u \in Threads : u # t => call'[u] = call[u]
  BY DEF RouterInv, TypeOK
<1>2. now' = now /\ breakers' = breakers /\ charge' = charge /\ ledger' = ledger
  OBVIOUS
<1>3. TypeOK'
  BY <1>1, <1>2 DEF RouterInv, TypeOK
<1>4. Len(k.trail) = 0 /\ Len(k.wanted) \in Nat
  BY LenProperties, EmptySeq DEF CallState
<1>5. k.pc \notin InCall \ {"gate"} /\ k.pc \notin BusyPc /\ k.pc # "running"
  BY DEF InCall, BusyPc
<1>6. Calling'
  <2>1. SUFFICES ASSUME NEW u \in Threads PROVE FollowsPlan(u)' /\ RunIsPermitted(u)'
    BY DEF Calling
  <2>2. FollowsPlan(u) /\ RunIsPermitted(u)
    BY DEF RouterInv, Calling
  <2>3. CASE u # t
    BY <1>1, <2>2, <2>3 DEF FollowsPlan, RunIsPermitted, At, Permits
  <2>4. CASE u = t
    <3>1. FollowsPlan(t)'
      <4>1. Len(k.trail) + Len(k.todo) = Len(k.wanted)
        BY <1>4
      <4>2. \A i \in 1 .. Len(k.todo) : k.todo[i] = k.wanted[Len(k.trail) + i]
        BY <1>4
      <4>3. 1 .. Len(k.trail) = {}
        BY <1>4
      <4>4. k.pc \in InCall => k.todo # <<>>
        BY DEF InCall
      <4>5. QED BY <1>1, <4>1, <4>2, <4>3, <4>4 DEF FollowsPlan
    <3>2. RunIsPermitted(t)'
      BY <1>1, <1>5 DEF RunIsPermitted
    <3>3. QED BY <2>4, <3>1, <3>2
  <2>5. QED BY <2>3, <2>4
<1>7. DOMAIN k.trail = {}
  BY <1>4, LenProperties DEF CallState
<1>8. ConsentHolds'
  <2>1. \A u \in Threads : u # t => At(u)' = At(u)
    BY <1>1 DEF At
  <2>2. call'[t].pc # "running" /\ DOMAIN call'[t].trail = {}
    BY <1>1, <1>5, <1>7
  <2>3. QED BY <1>1, <2>1, <2>2 DEF RouterInv, ConsentHolds
<1>9. FallbackExhaustive'
  <2>1. SUFFICES ASSUME NEW u \in Threads
                 PROVE  LET trail == call'[u].trail IN
                   /\ \A i \in DOMAIN trail :
                        trail[i].conn = call'[u].wanted[i] /\ (trail[i].fate = "ok" => i = Len(trail))
                   /\ call'[u].pc = "raised" =>
                        Len(trail) = Len(call'[u].wanted) \/ trail[Len(trail)].fate = "escaped"
                   /\ call'[u].pc = "returned" => trail[Len(trail)].fate = "ok"
    BY DEF FallbackExhaustive
  <2>2. CASE u # t
    BY <1>1, <2>2 DEF RouterInv, FallbackExhaustive
  <2>3. CASE u = t
    BY <1>1, <1>7, <2>3
  <2>4. QED BY <2>2, <2>3
<1>10. call[t].pc \notin BusyPc
  BY DEF InCall, BusyPc
<1>11. Accounts'
  BY <1>1, <1>2, <1>5, <1>10, QuietStep
<1>12. QED BY <1>3, <1>6, <1>8, <1>9, <1>11 DEF RouterInv

LEMMA BeginKeeps ==
    ASSUME RouterInv, NEW t \in Threads, NEW mode \in {"route", "named"},
           NEW wanted \in Seq(Names), mode = "named" => Len(wanted) <= 1,
           Begin(t, mode, wanted)
    PROVE  RouterInv'
<1> DEFINE k == [pc |-> "gate", mode |-> mode, wanted |-> wanted, todo |-> wanted,
                 trail |-> <<>>]
<1>1. <<>> \in Seq(Visit)
  BY EmptySeq
<1>2. "gate" \in InCall
  BY DEF InCall
<1>3. k \in CallState /\ k.pc = "gate" /\ k.trail = <<>> /\ k.todo = wanted /\ k.wanted = wanted
      /\ k.mode = mode
  BY <1>1, <1>2 DEF CallState
<1>4. call' = [call EXCEPT ![t] = k] /\ call[t].pc \notin InCall
  BY DEF Begin
<1>5. calls' \in [Threads -> 0 .. MaxCalls]
  <2>1. calls[t] + 1 \in 0 .. MaxCalls
    <3>1. calls[t] \in 0 .. MaxCalls /\ calls[t] < MaxCalls
      BY DEF Begin, RouterInv, TypeOK
    <3>2. MaxCalls \in Nat
      BY RouterAssumption
    <3>3. QED BY <3>1, <3>2
  <2>2. QED BY <2>1 DEF Begin, RouterInv, TypeOK
<1>6. wanted # <<>> /\ UNCHANGED <<now, breakers, charge, ledger>>
  BY DEF Begin
<1> HIDE DEF k
<1>7. QED BY <1>3, <1>4, <1>5, <1>6, RenewedKeeps

LEMMA HandOverKeeps ==
    ASSUME RouterInv, NEW t \in Threads, HandOver(t)
    PROVE  RouterInv'
<1>1. <<>> \in Seq(Visit) /\ <<>> \in Seq(Names) /\ Len(<<>>) = 0
  BY EmptySeq
<1>2. NoCall \in CallState /\ NoCall.pc = "idle" /\ NoCall.trail = <<>> /\ NoCall.todo = NoCall.wanted
      /\ NoCall.mode = "route"
  BY <1>1 DEF CallState, NoCall
<1>3. call[t].pc \notin InCall /\ call' = [call EXCEPT ![t] = NoCall]
  BY DEF HandOver, Ended, InCall
<1>4. calls' \in [Threads -> 0 .. MaxCalls] /\ UNCHANGED <<now, breakers, charge, ledger>>
  BY DEF HandOver, RouterInv, TypeOK
<1>5. QED BY <1>2, <1>3, <1>4, RenewedKeeps

(* Nothing but the clock moves.                                            *)
LEMMA IdleKeeps ==
    ASSUME RouterInv, now' \in 0 .. MaxTime, breakers' = breakers, call' = call,
           charge' = charge, calls' = calls, ledger' = ledger
    PROVE  RouterInv'
<1>1. TypeOK'
  BY DEF RouterInv, TypeOK
<1>2. Calling'
  BY DEF RouterInv, Calling, FollowsPlan, RunIsPermitted, At, Permits
<1>3. ConsentHolds' /\ FallbackExhaustive'
  BY DEF RouterInv, ConsentHolds, FallbackExhaustive, At
<1>4. Accounts'
  <2>1. SUFFICES ASSUME NEW c \in Names PROVE Accounted(c)'
    BY DEF Accounts
  <2>2. \A u \in Threads : BusyAt(u, c)' <=> BusyAt(u, c)
    BY DEF BusyAt, At
  <2>3. QED BY <2>2, AccountKept
<1>5. QED BY <1>1, <1>2, <1>3, <1>4 DEF RouterInv

LEMMA TickKeeps == RouterInv /\ Tick => RouterInv'
<1> SUFFICES ASSUME RouterInv, Tick PROVE RouterInv'
  OBVIOUS
<1>1. /\ now' = now + 1 /\ now < MaxTime /\ breakers' = breakers /\ call' = call
      /\ charge' = charge /\ calls' = calls /\ ledger' = ledger
  BY DEF Tick
<1>2. now' \in 0 .. MaxTime
  BY <1>1, RouterAssumption DEF RouterInv, TypeOK
<1>3. QED BY <1>1, <1>2, IdleKeeps

LEMMA InitHolds == Init => RouterInv
<1> SUFFICES ASSUME Init PROVE RouterInv
  OBVIOUS
<1> USE DEF Init
<1>1. <<>> \in Seq(Visit) /\ <<>> \in Seq(Names) /\ Len(<<>>) = 0
  BY EmptySeq
<1>2. NoCall \in CallState
  BY <1>1 DEF CallState, NoCall
<1>3. \A t \in Threads : /\ call[t].pc = "idle" /\ call[t].mode = "route" /\ call[t].trail = <<>>
                         /\ call[t].todo = <<>> /\ call[t].wanted = <<>>
  BY DEF NoCall
<1>4. /\ Threshold \in Nat /\ MaxTime \in Nat /\ MaxCalls \in Nat /\ Threshold > 1
      /\ Cardinality(Threads) \in Nat \ {0}
  BY RouterAssumption, FS_CardinalityType, FS_EmptySet
<1>5. NoCharge \in ChargeState
  BY <1>4 DEF NoCharge, ChargeState
<1>6. Clean \in Ledger
  BY DEF Clean, Ledger
<1>7. TypeOK
  BY <1>2, <1>4, <1>5, <1>6 DEF TypeOK
<1>8. Calling
  <2>1. SUFFICES ASSUME NEW t \in Threads PROVE FollowsPlan(t) /\ RunIsPermitted(t)
    BY DEF Calling
  <2>2. /\ Len(call[t].trail) = 0 /\ Len(call[t].todo) = 0 /\ Len(call[t].wanted) = 0
        /\ call[t].pc = "idle" /\ call[t].mode = "route"
    BY <1>1, <1>3
  <2>3. 1 .. 0 = {} /\ 0 + 0 = 0
    OBVIOUS
  <2>4. FollowsPlan(t)
    BY <2>2, <2>3 DEF FollowsPlan, InCall
  <2>5. RunIsPermitted(t)
    BY <2>2 DEF RunIsPermitted, InCall
  <2>6. QED BY <2>4, <2>5
<1>9. ConsentHolds /\ FallbackExhaustive
  BY <1>1, <1>3 DEF ConsentHolds, FallbackExhaustive
<1>10. ASSUME NEW c \in Names PROVE Accounted(c)
  <2>1. Busy(c) = {} /\ Lending(c) = {}
    BY <1>3 DEF Busy, Lending, LendingAt, BusyAt, BusyPc
  <2>2. Cardinality(Busy(c)) = 0 /\ Cardinality(Lending(c)) = 0
    BY <2>1, FS_EmptySet
  <2>3. /\ breakers[c].failures = 0 /\ ledger[c].own = 0 /\ ledger[c].lent = 0
        /\ ledger[c].met = 0 /\ ledger[c].passes = 0 /\ ledger[c].lost = 0
    BY DEF Clean
  <2>4. ChainCounted(c)
    BY <1>3, <2>3 DEF ChainCounted, Sum
  <2>5. LogCounted(c) /\ PassesCounted(c) /\ Bounded(c)
    BY <1>4, <2>2, <2>3 DEF LogCounted, PassesCounted, Bounded
  <2>6. QED BY <2>4, <2>5 DEF Accounted
<1>11. QED BY <1>7, <1>8, <1>9, <1>10 DEF RouterInv, Accounts

(* A step of a call is one of a call under way, and moves it along.        *)
LEMMA StepInCall ==
    ASSUME NEW t \in Threads, Step(t)
    PROVE  call[t].pc \in InCall
BY DEF Step, Refuse, LookClosed, LookFull, StayOpen, CoolDown, Reset, RunOk, RunOkMeterFails,
       LoadForLog, Fail, Store, TestBelow, TestFull, Stamp, InCall

LEMMA StepMovesCall ==
    ASSUME NEW t \in Threads, Step(t)
    PROVE  \/ \E pc \in InCall : Goto(t, pc)
           \/ \E fate \in Fates : Leave(t, fate)
<1>1. {"window", "reset", "running", "load", "store", "test", "stamp"} \subseteq InCall
  BY DEF InCall
<1>2. {"refused", "open", "no factory", "failed", "ok", "escaped"} \subseteq Fates
  BY DEF Fates
<1>3. CASE Refuse(t) \/ LookFull(t) \/ StayOpen(t) \/ CoolDown(t)
  BY <1>1, <1>2, <1>3 DEF Refuse, LookFull, StayOpen, CoolDown
<1>4. CASE LookClosed(t) \/ Reset(t)
  BY <1>1, <1>2, <1>4 DEF LookClosed, Reset, Pass
<1>5. CASE RunOk(t) \/ RunOkMeterFails(t) \/ LoadForLog(t) \/ Fail(t) \/ Store(t)
  BY <1>1, <1>2, <1>5 DEF RunOk, RunOkMeterFails, LoadForLog, Fail, Load, Store
<1>6. CASE TestBelow(t) \/ TestFull(t) \/ Stamp(t)
  BY <1>1, <1>2, <1>6 DEF TestBelow, TestFull, Stamp, Charged
<1>7. QED BY <1>3, <1>4, <1>5, <1>6 DEF Step

LEMMA StepKeeps == RouterInv /\ [Next]_vars => RouterInv'
<1> SUFFICES ASSUME RouterInv, [Next]_vars PROVE RouterInv'
  OBVIOUS
<1>1. ASSUME NEW t \in Threads, NEW cap \in Capabilities, Route(t, cap) PROVE RouterInv'
  BY <1>1, CandidatesInOrder, BeginKeeps DEF Route
<1>2. ASSUME NEW t \in Threads, NEW c \in Asked, RouteNamed(t, c) PROVE RouterInv'
  <2>1. <<c>> \in Seq(Names) /\ Len(<<c>>) <= 1
    BY RouterAssumption
  <2>2. QED BY <1>2, <2>1, BeginKeeps DEF RouteNamed
<1>3. ASSUME NEW t \in Threads, Step(t) PROVE RouterInv'
  BY <1>3, QuietStepsKeep, LookClosedKeeps, ResetKeeps, RunOkKeeps, LoadKeeps, StoreKeeps,
     TestsKeep DEF Step
<1>4. CASE UNCHANGED vars
  <2>1. /\ now' = now /\ breakers' = breakers /\ call' = call /\ charge' = charge
        /\ calls' = calls /\ ledger' = ledger
    BY <1>4 DEF vars
  <2>2. now' \in 0 .. MaxTime
    BY <2>1 DEF RouterInv, TypeOK
  <2>3. QED BY <2>1, <2>2, IdleKeeps
<1>5. QED BY <1>1, <1>2, <1>3, <1>4, TickKeeps DEF Next

(* The invariant holds in every reachable state, for every registry, every *)
(* number of threads, calls and instants.                                  *)
THEOREM RouterInvariant == Spec => []RouterInv
BY InitHolds, StepKeeps, PTL DEF Spec

-----------------------------------------------------------------------------
(* Every state of every behaviour is well typed.                           *)
THEOREM RouterTypeCorrect == Spec => []TypeOK
BY RouterInvariant, PTL DEF RouterInv

(* No thread ever probes or runs a writing connector without a grant: what *)
(* was permitted at the gate is what runs, and everything but a refusal    *)
(* in a trail was permitted.                                               *)
THEOREM ConsentAlwaysHolds == Spec => []ConsentHolds
BY RouterInvariant, PTL DEF RouterInv

(* Whatever the threads interleave, a full breaker stands for Threshold    *)
(* charges, and those of the usage log are one more at most than the       *)
(* clearings that met another thread's charge.                             *)
THEOREM OpenAlwaysAccounted == Spec => []OpenIsAccounted
<1>1. RouterInv => OpenIsAccounted
  <2>1. SUFFICES ASSUME RouterInv, NEW c \in Names, breakers[c].failures >= Threshold
                 PROVE  /\ ledger[c].own + ledger[c].lent >= Threshold
                        /\ ledger[c].lent <= 1 + ledger[c].met
    BY DEF OpenIsAccounted
  <2>2. ChainCounted(c) /\ LogCounted(c)
    BY <2>1 DEF RouterInv, Accounts, Accounted
  <2>3. /\ breakers[c].failures \in Nat /\ Threshold \in Nat
        /\ ledger[c].own \in Nat /\ ledger[c].lent \in Nat /\ ledger[c].met \in Nat
        /\ Cardinality(Lending(c)) \in Nat
    BY <2>1, CountsAreNat, BusyTypes, RouterAssumption DEF RouterInv
  <2>4. ledger[c].own + ledger[c].lent >= Threshold
    BY <2>1, <2>2, <2>3 DEF ChainCounted, Sum
  <2>5. QED BY <2>2, <2>3, <2>4 DEF LogCounted
<1>2. QED BY <1>1, RouterInvariant, PTL

(* A backend that only fails is let through at most Threshold times, plus  *)
(* once for every other thread and once for every lost increment, between  *)
(* two clearings of its count.                                             *)
THEOREM HammeringAlwaysBounded == Spec => []HammeringBounded
<1>1. RouterInv => HammeringBounded
  BY DEF RouterInv, Accounts, Accounted, Bounded, HammeringBounded
<1>2. QED BY <1>1, RouterInvariant, PTL

(* A call tries its candidates in order, skipping none, and gives up only  *)
(* after the last of them.                                                 *)
THEOREM FallbackAlwaysExhaustive == Spec => []FallbackExhaustive
BY RouterInvariant, PTL DEF RouterInv

-----------------------------------------------------------------------------
(* The fan-out.  Its threads make calls of the router and nothing else, so *)
(* all of the above holds of them too; besides, each copy of a source is   *)
(* waiting, being asked, in the packet, or lost to the error dict.         *)
Waiting(c) == {m \in queue : m.name = c}
Asking(c) == {t \in Threads : call[t].wanted = <<c>>}
Found(c) == envelopes[c] + Cardinality(Waiting(c)) + Cardinality(Asking(c))

AsksOne == \A t \in Threads : call[t] # NoCall => \E c \in Names : call[t].wanted = <<c>>
SourceAccounted(c) == IF c \in errors THEN Found(c) < Times(c) ELSE Found(c) = Times(c)

FanInv ==
    /\ RouterInv /\ FanTypeOK
    /\ AsksOne /\ \A c \in Names : SourceAccounted(c)

LEMMA CandidateTypes ==
    /\ IsFiniteSet(Candidates)
    /\ \A m \in Candidates : m.name \in Names
<1>1. IsFiniteSet(DOMAIN Wanted) /\ IsFiniteSet(DOMAIN Registry)
  <2>1. Len(Wanted) \in Nat /\ DOMAIN Wanted = 1 .. Len(Wanted)
    BY FanAssumption, LenProperties
  <2>2. QED BY <2>1, RegistryTypes, FS_Interval
<1>2. IsFiniteSet((DOMAIN Wanted) \X (DOMAIN Registry))
  BY <1>1, FS_Product
<1>3. IsFiniteSet(Places)
  BY <1>2, FS_Subset DEF Places
<1>4. IsFiniteSet({Offer(p) : p \in Places})
  <2> DEFINE T == {Offer(p) : p \in Places}
             f == [p \in Places |-> Offer(p)]
  <2>1. f \in [Places -> T] /\ \A y \in T : \E p \in Places : f[p] = y
    OBVIOUS
  <2> HIDE DEF T, f
  <2>2. f \in Surjection(Places, T)
    BY <2>1, Fun_IsSurj
  <2>3. IsFiniteSet(T)
    BY <1>3, <2>2, FS_Surjection
  <2>4. QED BY <2>3 DEF T
<1>5. IsFiniteSet(Candidates)
  BY <1>4, FS_Subset DEF Candidates
<1>6. ASSUME NEW p \in Places PROVE Offer(p).name \in Names
  <2> DEFINE list == ForCapability(Wanted[p[1]])
  <2>1. list \in Seq(Names)
    BY CandidatesInOrder
  <2>2. p[2] \in DOMAIN Registry /\ p[2] <= Len(list)
    BY DEF Places
  <2>3. p[2] \in 1 .. Len(list)
    BY <2>1, <2>2, RegistryTypes, LenProperties
  <2>4. list[p[2]] \in Names
    BY <2>1, <2>3, ElementOfSeq
  <2>5. QED BY <2>4 DEF Offer
<1>7. QED BY <1>5, <1>6 DEF Candidates

LEMMA CountTypes ==
    ASSUME queue \subseteq Candidates, envelopes \in [Names -> Nat], NEW c \in Names
    PROVE  /\ IsFiniteSet(Waiting(c)) /\ Cardinality(Waiting(c)) \in Nat
           /\ IsFiniteSet(Asking(c)) /\ Cardinality(Asking(c)) \in Nat
           /\ envelopes[c] \in Nat /\ Found(c) \in Nat /\ Times(c) \in Nat
<1>1. Waiting(c) \in SUBSET Candidates /\ Asking(c) \in SUBSET Threads
  BY DEF Waiting, Asking
<1>2. {m \in Candidates : m.name = c} \in SUBSET Candidates
  OBVIOUS
<1>3. IsFiniteSet(Candidates) /\ IsFiniteSet(Threads)
  BY CandidateTypes, RouterAssumption
<1>4. /\ IsFiniteSet(Waiting(c)) /\ IsFiniteSet(Asking(c))
      /\ IsFiniteSet({m \in Candidates : m.name = c})
  BY <1>1, <1>2, <1>3, FS_Subset
<1>5. Cardinality(Waiting(c)) \in Nat /\ Cardinality(Asking(c)) \in Nat /\ Times(c) \in Nat
  BY <1>4, FS_CardinalityType DEF Times
<1>6. QED BY <1>4, <1>5 DEF Found

LEMMA UsedLedger ==
    ASSUME NEW n \in Nat, NEW l,
           l = [own |-> n, lent |-> 0, met |-> 0, passes |-> n, lost |-> 0]
    PROVE  /\ l \in Ledger /\ l.own = n /\ l.lent = 0 /\ l.met = 0
           /\ l.passes = n /\ l.lost = 0
BY DEF Ledger

LEMMA FanInitial == FanInit => FanInv
<1> SUFFICES ASSUME FanInit PROVE FanInv
  OBVIOUS
<1>1. <<>> \in Seq(Visit) /\ <<>> \in Seq(Names) /\ Len(<<>>) = 0
  BY EmptySeq
<1>2. NoCall \in CallState
  BY <1>1 DEF CallState, NoCall
<1>3. \A t \in Threads :
        /\ call[t] = NoCall /\ call[t].pc = "idle" /\ call[t].mode = "route"
        /\ call[t].trail = <<>> /\ call[t].todo = <<>> /\ call[t].wanted = <<>>
  BY DEF NoCall, FanInit
<1>4. /\ Threshold \in Nat /\ MaxTime \in Nat /\ MaxCalls \in Nat /\ Threshold > 1
      /\ Cardinality(Threads) \in Nat \ {0}
  BY RouterAssumption, FanAssumption, FS_CardinalityType, FS_EmptySet
<1>5. PICK past \in [Names -> 0 .. Threshold] :
        /\ breakers = [c \in Names |-> [failures |-> past[c], openedAt |-> 0]]
        /\ ledger = [c \in Names |-> [own |-> past[c], lent |-> 0, met |-> 0,
                                      passes |-> past[c], lost |-> 0]]
  BY DEF FanInit
<1>6. \A c \in Names :
        /\ past[c] \in 0 .. Threshold /\ past[c] \in Nat
        /\ breakers[c] = [failures |-> past[c], openedAt |-> 0]
        /\ ledger[c] = [own |-> past[c], lent |-> 0, met |-> 0, passes |-> past[c], lost |-> 0]
  BY <1>4, <1>5
<1>7. TypeOK
  <2>1. breakers \in [Names -> [failures : Nat, openedAt : 0 .. MaxTime]]
    BY <1>4, <1>5, <1>6
  <2>2. ledger \in [Names -> Ledger]
    <3>1. \A c \in Names : ledger[c] \in Ledger
      <4>1. SUFFICES ASSUME NEW c \in Names PROVE ledger[c] \in Ledger
        OBVIOUS
      <4>2. PICK n \in Nat : n = past[c]
        BY <1>6
      <4>3. ledger[c] = [own |-> n, lent |-> 0, met |-> 0, passes |-> n, lost |-> 0]
        BY <1>6, <4>2
      <4>4. QED BY <4>3, UsedLedger
    <3>2. QED BY <1>5, <3>1
  <2>3. /\ now \in 0 .. MaxTime /\ calls \in [Threads -> 0 .. MaxCalls]
        /\ call \in [Threads -> CallState]
    <3>1. now \in 0 .. MaxTime
      BY <1>4 DEF FanInit
    <3>2. calls \in [Threads -> 0 .. MaxCalls]
      BY <1>4 DEF FanInit
    <3>3. call \in [Threads -> CallState]
      BY <1>2 DEF FanInit
    <3>4. QED BY <3>1, <3>2, <3>3
  <2>4. charge \in [Threads -> ChargeState]
    BY <1>4 DEF FanInit, NoCharge, ChargeState
  <2>5. QED BY <2>1, <2>2, <2>3, <2>4 DEF TypeOK
<1>8. Calling
  <2>1. SUFFICES ASSUME NEW t \in Threads PROVE FollowsPlan(t) /\ RunIsPermitted(t)
    BY DEF Calling
  <2>2. /\ Len(call[t].trail) = 0 /\ Len(call[t].todo) = 0 /\ Len(call[t].wanted) = 0
        /\ call[t].pc = "idle" /\ call[t].mode = "route"
    BY <1>1, <1>3
  <2>3. 1 .. 0 = {} /\ 0 + 0 = 0
    OBVIOUS
  <2>4. FollowsPlan(t)
    BY <2>2, <2>3 DEF FollowsPlan, InCall
  <2>5. RunIsPermitted(t)
    BY <2>2 DEF RunIsPermitted, InCall
  <2>6. QED BY <2>4, <2>5
<1>9. ConsentHolds /\ FallbackExhaustive
  BY <1>1, <1>3 DEF ConsentHolds, FallbackExhaustive
<1>10. ASSUME NEW c \in Names PROVE Accounted(c)
  <2>1. Busy(c) = {} /\ Lending(c) = {}
    BY <1>3 DEF Busy, Lending, LendingAt, BusyAt, BusyPc
  <2>2. Cardinality(Busy(c)) = 0 /\ Cardinality(Lending(c)) = 0
    BY <2>1, FS_EmptySet
  <2>3. /\ breakers[c].failures = past[c] /\ ledger[c].own = past[c] /\ ledger[c].lent = 0
        /\ ledger[c].met = 0 /\ ledger[c].passes = past[c] /\ ledger[c].lost = 0
        /\ past[c] \in 0 .. Threshold
    <3>1. /\ breakers[c] = [failures |-> past[c], openedAt |-> 0]
          /\ past[c] \in 0 .. Threshold /\ past[c] \in Nat
          /\ ledger[c] = [own |-> past[c], lent |-> 0, met |-> 0, passes |-> past[c], lost |-> 0]
      BY <1>6
    <3>2. breakers[c].failures = past[c]
      BY <3>1
    <3>3. QED BY <3>1, <3>2, UsedLedger
  <2>4. ChainCounted(c)
    BY <1>3, <1>4, <2>3 DEF ChainCounted, Sum
  <2>5. LogCounted(c) /\ PassesCounted(c) /\ Bounded(c)
    BY <1>4, <2>2, <2>3 DEF LogCounted, PassesCounted, Bounded
  <2>6. QED BY <2>4, <2>5 DEF Accounted
<1>11. Accounts
  BY <1>10 DEF Accounts
<1>12. FanTypeOK
  BY <1>7 DEF FanTypeOK, FanInit
<1>13. AsksOne
  BY <1>3 DEF AsksOne
<1>14. ASSUME NEW c \in Names PROVE SourceAccounted(c)
  <2>1. Asking(c) = {}
    BY <1>1, <1>3 DEF Asking
  <2>2. Cardinality(Asking(c)) = 0
    BY <2>1, FS_EmptySet
  <2>3. Waiting(c) = {m \in Candidates : m.name = c}
    BY DEF FanInit, Waiting
  <2>4. envelopes[c] = 0 /\ c \notin errors
    BY DEF FanInit
  <2>5. Times(c) \in Nat
    BY <1>12, CountTypes DEF FanTypeOK
  <2>6. QED BY <2>2, <2>3, <2>4, <2>5 DEF SourceAccounted, Found, Times
<1>15. QED BY <1>7, <1>8, <1>9, <1>10, <1>11, <1>12, <1>13, <1>14 DEF FanInv, RouterInv

(* Every step of the fan-out is one of the router, or puts a call down.    *)
LEMMA FanStepRoutes ==
    ASSUME FanInv, [FanNext]_fanVars
    PROVE  RouterInv'
<1>1. ASSUME NEW t \in Threads, Take(t) PROVE RouterInv'
  <2>1. PICK m \in queue : RouteNamed(t, m.name)
    BY <1>1 DEF Take
  <2>2. m.name \in Names
    BY CandidateTypes DEF FanInv, FanTypeOK
  <2>3. <<m.name>> \in Seq(Names) /\ Len(<<m.name>>) <= 1
    BY <2>2
  <2>4. QED BY <2>1, <2>3, BeginKeeps DEF RouteNamed, FanInv
<1>2. ASSUME NEW t \in Threads, Work(t) PROVE RouterInv'
  BY <1>2, StepKeeps DEF Work, Next, FanInv
<1>3. ASSUME NEW t \in Threads, Collect(t) PROVE RouterInv'
  BY <1>3, HandOverKeeps DEF Collect, FanInv
<1>4. CASE FanTick
  BY <1>4, TickKeeps DEF FanTick, FanInv
<1>5. CASE UNCHANGED fanVars
  <2>1. UNCHANGED vars
    BY <1>5 DEF fanVars, vars
  <2>2. QED BY <2>1, StepKeeps DEF FanInv
<1>6. QED BY <1>1, <1>2, <1>3, <1>4, <1>5 DEF FanNext

(* A routed call ends, or goes on to ask for the same source.              *)
LEMMA StepAsksSame ==
    ASSUME TypeOK, NEW t \in Threads, Step(t), NEW u \in Threads
    PROVE  call'[u].wanted = call[u].wanted /\ (call'[u] # NoCall => call[u] # NoCall)
<1>1. call \in [Threads -> CallState] /\ call[t] \in CallState /\ call[u] \in CallState
  BY DEF TypeOK
<1>2. call[t].pc \in InCall
  BY StepInCall
<1>3. call[t] # NoCall
  BY <1>2 DEF NoCall, InCall
<1>4. \/ \E pc \in InCall : Goto(t, pc)
      \/ \E fate \in Fates : Leave(t, fate)
  BY StepMovesCall
<1>5. call'[u].wanted = call[u].wanted /\ (u # t => call'[u] = call[u])
  <2>1. ASSUME NEW pc \in InCall, Goto(t, pc)
        PROVE  call'[u].wanted = call[u].wanted /\ (u # t => call'[u] = call[u])
    BY <1>1, <2>1 DEF Goto, CallState
  <2>2. ASSUME NEW fate \in Fates, Leave(t, fate)
        PROVE  call'[u].wanted = call[u].wanted /\ (u # t => call'[u] = call[u])
    BY <1>1, <2>2 DEF Leave, CallState
  <2>3. QED BY <1>4, <2>1, <2>2
<1>6. QED BY <1>3, <1>5

LEMMA TakeAccounts ==
    ASSUME FanInv, NEW t \in Threads, Take(t)
    PROVE  AsksOne' /\ (\A c \in Names : SourceAccounted(c)') /\ queue' \subseteq Candidates
<1>1. PICK m \in queue : RouteNamed(t, m.name) /\ queue' = queue \ {m}
  BY DEF Take
<1>2. envelopes' = envelopes /\ errors' = errors
  BY DEF Take
<1>3. queue \subseteq Candidates /\ m.name \in Names
  BY CandidateTypes DEF FanInv, FanTypeOK
<1> DEFINE new == [pc |-> "gate", mode |-> "named", wanted |-> <<m.name>>,
                   todo |-> <<m.name>>, trail |-> <<>>]
<1>4. call[t] = NoCall /\ call' = [call EXCEPT ![t] = new]
  BY <1>1 DEF Take, RouteNamed, Begin
<1>5. call \in [Threads -> CallState]
  BY DEF FanInv, FanTypeOK, TypeOK
<1>6. call'[t].wanted = <<m.name>> /\ \A u \in Threads : u # t => call'[u] = call[u]
  BY <1>4, <1>5
<1>7. AsksOne'
  BY <1>3, <1>6 DEF AsksOne, FanInv
<1>8. call[t].wanted = <<>>
  BY <1>4 DEF NoCall
<1>9. ASSUME NEW c \in Names PROVE SourceAccounted(c)'
  <2>0. /\ IsFiniteSet(Waiting(c)) /\ Cardinality(Waiting(c)) \in Nat
        /\ IsFiniteSet(Asking(c)) /\ Cardinality(Asking(c)) \in Nat /\ envelopes[c] \in Nat
    BY CountTypes DEF FanInv, FanTypeOK
  <2>1. CASE c = m.name
    <3>1. Waiting(c)' = Waiting(c) \ {m} /\ m \in Waiting(c)
      BY <1>1, <2>1 DEF Waiting
    <3>2. Asking(c)' = Asking(c) \cup {t} /\ t \notin Asking(c)
      BY <1>6, <1>8, <2>1 DEF Asking
    <3>3. Cardinality(Waiting(c)') = Cardinality(Waiting(c)) - 1
      BY <2>0, <3>1, FS_RemoveElement
    <3>4. Cardinality(Asking(c)') = Cardinality(Asking(c)) + 1
      BY <2>0, <3>2, FS_AddElement
    <3>5. Found(c)' = Found(c)
      BY <1>2, <2>0, <3>3, <3>4 DEF Found
    <3>6. QED BY <1>2, <3>5 DEF FanInv, SourceAccounted, Times
  <2>2. CASE c # m.name
    <3>1. Waiting(c)' = Waiting(c)
      BY <1>1, <2>2 DEF Waiting
    <3>2. <<m.name>> # <<c>>
      BY <2>2
    <3>3. Asking(c)' = Asking(c)
      BY <1>6, <1>8, <3>2 DEF Asking
    <3>4. Found(c)' = Found(c)
      BY <1>2, <3>1, <3>3 DEF Found
    <3>5. QED BY <1>2, <3>4 DEF FanInv, SourceAccounted, Times
  <2>3. QED BY <2>1, <2>2
<1>10. QED BY <1>1, <1>3, <1>7, <1>9

LEMMA CollectAccounts ==
    ASSUME FanInv, NEW t \in Threads, Collect(t)
    PROVE  /\ AsksOne' /\ \A c \in Names : SourceAccounted(c)'
           /\ envelopes' \in [Names -> Nat] /\ errors' \subseteq Names
<1>1. /\ call[t].pc \in Ended /\ call' = [call EXCEPT ![t] = NoCall] /\ queue' = queue
  BY DEF Collect, HandOver
<1>2. call[t] # NoCall
  BY <1>1 DEF Ended, NoCall
<1>3. PICK d \in Names : call[t].wanted = <<d>>
  BY <1>2 DEF FanInv, AsksOne
<1>4. d = call[t].wanted[1]
  BY <1>3
<1>5. /\ call \in [Threads -> CallState] /\ envelopes \in [Names -> Nat]
      /\ errors \subseteq Names
  BY DEF FanInv, FanTypeOK, TypeOK
<1>6. call'[t] = NoCall /\ \A u \in Threads : u # t => call'[u] = call[u]
  BY <1>1, <1>5
<1>7. AsksOne'
  BY <1>6 DEF AsksOne, FanInv
<1>8. \/ envelopes' = [envelopes EXCEPT ![d] = @ + 1] /\ errors' = errors
      \/ errors' = errors \cup {d} /\ envelopes' = envelopes
  BY <1>4 DEF Collect
<1>9. envelopes' \in [Names -> Nat] /\ errors' \subseteq Names
  BY <1>5, <1>8
<1>10. call'[t].wanted = <<>>
  BY <1>6 DEF NoCall
<1>11. ASSUME NEW c \in Names PROVE SourceAccounted(c)'
  <2>0. /\ IsFiniteSet(Asking(c)) /\ Cardinality(Asking(c)) \in Nat /\ envelopes[c] \in Nat
        /\ Cardinality(Waiting(c)) \in Nat /\ Times(c) \in Nat
    BY CountTypes DEF FanInv, FanTypeOK
  <2>1. Waiting(c)' = Waiting(c) /\ Times(c)' = Times(c) /\ SourceAccounted(c)
    BY <1>1 DEF Waiting, Times, FanInv
  <2>2. CASE c = d
    <3>1. Asking(c)' = Asking(c) \ {t} /\ t \in Asking(c)
      BY <1>3, <1>6, <1>10, <2>2 DEF Asking
    <3>2. Cardinality(Asking(c)') = Cardinality(Asking(c)) - 1
      BY <2>0, <3>1, FS_RemoveElement
    <3>3. CASE envelopes' = [envelopes EXCEPT ![d] = @ + 1] /\ errors' = errors
      <4>1. envelopes'[c] = envelopes[c] + 1
        BY <1>5, <2>2, <3>3
      <4>2. Found(c)' = Found(c)
        BY <2>0, <2>1, <3>2, <4>1 DEF Found
      <4>3. QED BY <2>1, <3>3, <4>2 DEF SourceAccounted
    <3>4. CASE errors' = errors \cup {d} /\ envelopes' = envelopes
      <4>1. Found(c)' = Found(c) - 1 /\ Found(c) \in Nat
        BY <2>0, <2>1, <3>2, <3>4 DEF Found
      <4>2. Found(c) <= Times(c)
        BY <2>0, <2>1, <4>1 DEF SourceAccounted
      <4>3. c \in errors' /\ Found(c)' < Times(c)
        BY <2>0, <2>2, <3>4, <4>1, <4>2
      <4>4. QED BY <2>1, <4>3 DEF SourceAccounted
    <3>5. QED BY <1>8, <3>3, <3>4
  <2>3. CASE c # d
    <3>1. <<c>> # <<d>> /\ <<c>> # <<>>
      BY <2>3
    <3>2. Asking(c)' = Asking(c)
      BY <1>3, <1>6, <1>10, <3>1 DEF Asking
    <3>3. envelopes'[c] = envelopes[c] /\ (c \in errors' <=> c \in errors)
      BY <1>5, <1>8, <2>3
    <3>4. QED BY <2>1, <3>2, <3>3 DEF SourceAccounted, Found
  <2>4. QED BY <2>2, <2>3
<1>12. QED BY <1>7, <1>9, <1>11

LEMMA FanStepKeeps == FanInv /\ [FanNext]_fanVars => FanInv'
<1> SUFFICES ASSUME FanInv, [FanNext]_fanVars PROVE FanInv'
  OBVIOUS
<1>1. RouterInv' /\ TypeOK' /\ TypeOK
  BY FanStepRoutes DEF RouterInv, FanInv
<1>2. /\ queue \subseteq Candidates /\ envelopes \in [Names -> Nat] /\ errors \subseteq Names
      /\ AsksOne /\ \A c \in Names : SourceAccounted(c)
  BY DEF FanInv, FanTypeOK
<1>3. ASSUME NEW t \in Threads, Take(t) PROVE FanInv'
  <2>1. envelopes' = envelopes /\ errors' = errors
    BY <1>3 DEF Take
  <2>2. QED BY <1>1, <1>2, <1>3, <2>1, TakeAccounts DEF FanInv, FanTypeOK
<1>4. ASSUME NEW t \in Threads, Collect(t) PROVE FanInv'
  <2>1. queue' = queue
    BY <1>4 DEF Collect
  <2>2. QED BY <1>1, <1>2, <1>4, <2>1, CollectAccounts DEF FanInv, FanTypeOK
<1>5. ASSUME queue' = queue, envelopes' = envelopes, errors' = errors,
             \A u \in Threads : call'[u].wanted = call[u].wanted
                                /\ (call'[u] # NoCall => call[u] # NoCall)
      PROVE  FanInv'
  <2>1. AsksOne'
    BY <1>2, <1>5 DEF AsksOne
  <2>2. ASSUME NEW c \in Names PROVE SourceAccounted(c)'
    <3>1. Waiting(c)' = Waiting(c) /\ Asking(c)' = Asking(c)
      BY <1>5 DEF Waiting, Asking
    <3>2. QED BY <1>2, <1>5, <3>1 DEF SourceAccounted, Found, Times
  <2>3. QED BY <1>1, <1>2, <1>5, <2>1, <2>2 DEF FanInv, FanTypeOK
<1>6. ASSUME NEW t \in Threads, Work(t) PROVE FanInv'
  BY <1>1, <1>5, <1>6, StepAsksSame DEF Work
<1>7. CASE FanTick \/ UNCHANGED fanVars
  BY <1>5, <1>7 DEF FanTick, Tick, fanVars
<1>8. QED BY <1>3, <1>4, <1>6, <1>7 DEF FanNext

(* The invariant holds in every reachable state, for every registry, every *)
(* list of capabilities and every number of threads.                       *)
THEOREM FanInvariant == FanSpec => []FanInv
BY FanInitial, FanStepKeeps, PTL DEF FanSpec

(* The pool's threads are users of the router like any other: consent and  *)
(* breakers hold for them, whatever earlier searches left behind.          *)
THEOREM FanOutRoutes == FanSpec => []RouterInv
BY FanInvariant, PTL DEF FanInv

(* When all futures are collected, every candidate is in the packet or in  *)
(* the error dict, and nothing else is.                                    *)
THEOREM SourcesAccounted == FanSpec => []EverySourceAccounted
<1>1. FanInv => EverySourceAccounted
  <2>1. SUFFICES ASSUME FanInv, AllCollected, NEW c \in Names
                 PROVE  /\ c \in errors => envelopes[c] < Times(c)
                        /\ c \notin errors => envelopes[c] = Times(c)
    BY ZenonT(30) DEF EverySourceAccounted
  <2>2. Waiting(c) = {}
    BY <2>1 DEF AllCollected, Waiting
  <2>3. \A t \in Threads : call[t].wanted = <<>>
    BY <2>1 DEF AllCollected, NoCall
  <2>4. Asking(c) = {}
    <3>1. <<>> # <<c>>
      OBVIOUS
    <3>2. \A t \in Threads : call[t].wanted # <<c>>
      BY <2>3, <3>1
    <3>3. QED BY <3>2 DEF Asking
  <2>5. Cardinality(Waiting(c)) = 0 /\ Cardinality(Asking(c)) = 0
    BY <2>2, <2>4, FS_EmptySet
  <2>6. envelopes[c] \in Nat
    BY <2>1 DEF FanInv, FanTypeOK
  <2>7. Found(c) = envelopes[c]
    BY <2>5, <2>6 DEF Found
  <2>8. QED BY <2>1, <2>7 DEF FanInv, SourceAccounted
<1>2. QED BY <1>1, FanInvariant, PTL

=============================================================================
