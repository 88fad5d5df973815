------------------------------- MODULE Router -------------------------------
(***************************************************************************)
(* deye.core.router.Router: threads that share one router call route() or  *)
(* route_named().  The breakers have no lock, so each read and each write  *)
(* of a breaker's field is a step of its own.  What touches no breaker     *)
(* (consent, factory, the usage log, and health(), whose answer is fixed   *)
(* for each of the built-in connectors) is part of a neighbouring step.    *)
(* run() talks to the network.                                             *)
(***************************************************************************)
EXTENDS Integers, FiniteSets, Sequences, SequencesExt

CONSTANTS
    Threads,        \* threads sharing the router
    Registry,       \* the manifests in registration order
    Capabilities,   \* capabilities callers route by
    Asked,          \* connectors callers ask for by name
    Granted,        \* connectors with allow_write and an explicit grant
    Threshold,      \* _Breaker.threshold
    CoolOff,        \* _Breaker.cool_off, in ticks
    MaxTime,        \* bound: the clock stops here
    MaxCalls,       \* bound: calls per thread
    Metering,       \* the router has a UsageMeter (DEYE_USAGE_LOG)
    MeterMayFail    \* appending to the usage log may raise (disk full)

Manifest == Range(Registry)
Names == {m.name : m \in Manifest}

ASSUME RouterAssumption ==
    /\ IsFiniteSet(Threads) /\ Threads # {}
    /\ Asked \subseteq Names
    /\ Registry \in Seq(Manifest) /\ \A m \in Manifest : m.preference \in Int
    /\ Threshold \in Nat /\ Threshold > 1
    /\ CoolOff \in Nat /\ MaxTime \in Nat /\ MaxCalls \in Nat
    /\ Metering \in BOOLEAN /\ MeterMayFail \in BOOLEAN
    /\ \A m, n \in Manifest : m.name = n.name => m = n

Named(c) == CHOOSE m \in Manifest : m.name = c

Matches(cap) == {i \in DOMAIN Registry : Registry[i].capability = cap}
Before(i, j) == \/ Registry[i].preference < Registry[j].preference
                \/ Registry[i].preference = Registry[j].preference /\ i < j

(* Registry.for_capability: a stable sort by preference.  The k-th of the  *)
(* manifests is the one that k - 1 others come before.                     *)
Ahead(cap, i) == {j \in Matches(cap) : Before(j, i)}
Position(cap, k) == CHOOSE i \in Matches(cap) : Cardinality(Ahead(cap, i)) = k - 1
ForCapability(cap) ==
    [k \in 1..Cardinality(Matches(cap)) |-> Registry[Position(cap, k)].name]

VARIABLES
    now,        \* time.monotonic()
    breakers,   \* breakers[c]: the connector's _Breaker
    call,       \* call[t]: the call thread t is in
    charge,     \* charge[t]: the record(False) thread t is in
    calls,      \* calls[t]: how many calls it has made
    ledger      \* history: ledger[c]: what has happened to c and its breaker

vars == <<now, breakers, call, charge, calls, ledger>>

Fates == {"refused", "open", "no factory", "failed", "ok", "escaped"}
Visit == [conn : Names, fate : Fates]
NoCall == [pc |-> "idle", mode |-> "route", wanted |-> <<>>, todo |-> <<>>, trail |-> <<>>]
InCall == {"gate", "window", "reset", "running", "load", "store", "test", "stamp"}
Ended == {"returned", "raised"}
CallState == [pc : {"idle"} \cup InCall \cup Ended, mode : {"route", "named"},
              wanted : Seq(Names), todo : Seq(Names), trail : Seq(Visit)]

(* What the failure is, the count record() has read, and when it found the *)
(* count at the threshold.                                                 *)
NoCharge == [why |-> "none", saved |-> 0, since |-> 0]
ChargeState == [why : {"none", "failed", "log"}, saved : Nat, since : 0..MaxTime]

(* Since the count of c was last cleared with no charge under way: what it *)
(* was charged with, failures of its own (own) and of the usage log (lent),*)
(* and how often it was cleared while a charge was under way (met).  Since *)
(* it was last cleared: times the breaker let a thread through (passes),   *)
(* and increments that were overwritten (lost).                            *)
Clean == [own |-> 0, lent |-> 0, met |-> 0, passes |-> 0, lost |-> 0]
Ledger == [own : Nat, lent : Nat, met : Nat, passes : Nat, lost : Nat]

TypeOK ==
    /\ now \in 0..MaxTime
    /\ breakers \in [Names -> [failures : Nat, openedAt : 0..MaxTime]]
    /\ calls \in [Threads -> 0..MaxCalls]
    /\ call \in [Threads -> CallState]
    /\ charge \in [Threads -> ChargeState]
    /\ ledger \in [Names -> Ledger]

Init ==
    /\ now = 0
    /\ breakers = [c \in Names |-> [failures |-> 0, openedAt |-> 0]]
    /\ call = [t \in Threads |-> NoCall]
    /\ charge = [t \in Threads |-> NoCharge]
    /\ calls = [t \in Threads |-> 0]
    /\ ledger = [c \in Names |-> Clean]

-----------------------------------------------------------------------------
At(t) == Head(call[t].todo)

(* Faulty variant: `break` where the loop says `continue`.                 *)
LeaveOnFailure(t, fate) ==
    LET visit == [conn |-> At(t), fate |-> fate]
    IN  call' = [call EXCEPT ![t].trail = Append(@, visit),
                             ![t].todo = Tail(@),
                             ![t].pc = IF fate = "ok" THEN "returned" ELSE "raised"]

(* The candidate is dealt with.  route() returns a result, lets an         *)
(* exception escape, or goes on; route_named() returns or raises.          *)
Leave(t, fate) ==
    LET visit == [conn |-> At(t), fate |-> fate]
        last == call[t].mode = "named" \/ Len(call[t].todo) = 1
    IN  call' = [call EXCEPT ![t].trail = Append(@, visit),
                             ![t].todo = Tail(@),
                             ![t].pc = IF fate = "ok" THEN "returned"
                                       ELSE IF fate = "escaped" \/ last THEN "raised"
                                       ELSE "gate"]

Begin(t, mode, wanted) ==
    /\ call[t].pc \notin InCall
    /\ calls[t] < MaxCalls
    /\ wanted # <<>>
    /\ calls' = [calls EXCEPT ![t] = @ + 1]
    /\ call' = [call EXCEPT ![t] = [pc |-> "gate", mode |-> mode, wanted |-> wanted,
                                    todo |-> wanted, trail |-> <<>>]]
    /\ UNCHANGED <<now, breakers, charge, ledger>>

Route(t, cap) == Begin(t, "route", ForCapability(cap))
RouteNamed(t, c) == Begin(t, "named", <<c>>)

(* Faulty variant: allow_write alone counts as consent.                    *)
PermitsAnyWrite(c) == TRUE

(* ConsentPolicy.permits                                                   *)
Permits(c) == ~ Named(c).is_write \/ c \in Granted

Refuse(t) ==
    /\ call[t].pc = "gate"
    /\ ~ Permits(At(t))
    /\ Leave(t, "refused")
    /\ UNCHANGED <<now, breakers, charge, calls, ledger>>

-----------------------------------------------------------------------------
Goto(t, pc) == call' = [call EXCEPT ![t].pc = pc]

(* The breaker lets t through: there is no factory, or the connector is    *)
(* made and asked.  (route_named() looks at the factory first; a breaker   *)
(* without factory is never charged.)                                      *)
Pass(t) ==
    \/ ~ Named(At(t)).factory /\ Leave(t, "no factory")
    \/ Named(At(t)).factory /\ Goto(t, "running")

Passes(c) == IF Named(c).factory THEN 1 ELSE 0

(* failures = 0.  A thread that is about to write the count it has read,   *)
(* or to read it, may undo that.                                           *)
Charging(c) == {t \in Threads : call[t].pc \in {"load", "store"} /\ At(t) = c}
Cleared(c, passes) ==
    IF Charging(c) = {}
    THEN [Clean EXCEPT !.passes = passes]
    ELSE [ledger[c] EXCEPT !.met = @ + 1, !.passes = passes, !.lost = 0]
ClearCount(c, passes) ==
    /\ breakers' = [breakers EXCEPT ![c].failures = 0]
    /\ ledger' = [ledger EXCEPT ![c] = Cleared(c, passes)]

(* Faulty variant: route_named() without its circuit breaker check.        *)
LookClosedByRoute(t) ==
    /\ call[t].pc = "gate"
    /\ Permits(At(t))
    /\ call[t].mode = "named" \/ breakers[At(t)].failures < Threshold
    /\ Pass(t)
    /\ ledger' = [ledger EXCEPT ![At(t)].passes = @ + Passes(At(t))]
    /\ UNCHANGED <<now, breakers, charge, calls>>

(* is_open(), line 26: the count is below the threshold; ...               *)
LookClosed(t) ==
    /\ call[t].pc = "gate"
    /\ Permits(At(t))
    /\ breakers[At(t)].failures < Threshold
    /\ Pass(t)
    /\ ledger' = [ledger EXCEPT ![At(t)].passes = @ + Passes(At(t))]
    /\ UNCHANGED <<now, breakers, charge, calls>>

(* ... or it is not, ...                                                   *)
LookFull(t) ==
    /\ call[t].pc = "gate"
    /\ Permits(At(t))
    /\ breakers[At(t)].failures >= Threshold
    /\ Goto(t, "window")
    /\ UNCHANGED <<now, breakers, charge, calls, ledger>>

(* ... and opened_at, read after it, is within the cool-off or is not, ... *)
StayOpen(t) ==
    /\ call[t].pc = "window"
    /\ now - breakers[At(t)].openedAt <= CoolOff
    /\ Leave(t, "open")
    /\ UNCHANGED <<now, breakers, charge, calls, ledger>>

CoolDown(t) ==
    /\ call[t].pc = "window"
    /\ now - breakers[At(t)].openedAt > CoolOff
    /\ Goto(t, "reset")
    /\ UNCHANGED <<now, breakers, charge, calls, ledger>>

(* ... whereupon the count is cleared and the retry allowed.               *)
Reset(t) ==
    /\ call[t].pc = "reset"
    /\ ClearCount(At(t), Passes(At(t)))
    /\ Pass(t)
    /\ UNCHANGED <<now, charge, calls>>

-----------------------------------------------------------------------------
(* Faulty variant: a success does not clear the failure count.             *)
RunOkSticky(t) ==
    /\ call[t].pc = "running" /\ Named(At(t)).usable
    /\ ledger' = [ledger EXCEPT ![At(t)] = Cleared(At(t), 0)]
    /\ Leave(t, "ok")
    /\ UNCHANGED <<now, breakers, charge, calls>>

(* run() returns an envelope: record(True), and metering it works.         *)
RunOk(t) ==
    /\ call[t].pc = "running" /\ Named(At(t)).usable
    /\ ClearCount(At(t), 0)
    /\ Leave(t, "ok")
    /\ UNCHANGED <<now, charge, calls>>

(* run() returns an envelope and meter.record() raises after record(True). *)
(* It is called inside the try, so the envelope is dropped and a failure   *)
(* charged; before that, other threads move.                               *)
RunOkMeterFails(t) ==
    /\ call[t].pc = "running" /\ Named(At(t)).usable
    /\ Metering /\ MeterMayFail
    /\ ClearCount(At(t), 0)
    /\ Goto(t, "load")
    /\ UNCHANGED <<now, charge, calls>>

(* failures += 1, without a lock: the count is read, ...                   *)
Load(t, why) ==
    /\ charge' = [charge EXCEPT ![t].why = why, ![t].saved = breakers[At(t)].failures]
    /\ Goto(t, "store")
    /\ UNCHANGED <<now, breakers, calls, ledger>>

LoadForLog(t) == call[t].pc = "load" /\ Load(t, "log")

(* health() says that the connector is unusable, or run() raises.          *)
Fail(t) == call[t].pc = "running" /\ Load(t, "failed")

(* ... and one more is written, over whatever was written meanwhile.       *)
Stored(t) ==
    LET l == ledger[At(t)]
        n == breakers[At(t)].failures
        k == charge[t].saved
    IN  [l EXCEPT !.own = IF charge[t].why = "log" THEN @ ELSE @ + 1,
                  !.lent = IF charge[t].why = "log" THEN @ + 1 ELSE @,
                  !.lost = IF n > k THEN @ + (n - k) ELSE @]
Store(t) ==
    /\ call[t].pc = "store"
    /\ breakers' = [breakers EXCEPT ![At(t)].failures = charge[t].saved + 1]
    /\ ledger' = [ledger EXCEPT ![At(t)] = Stored(t)]
    /\ Goto(t, "test")
    /\ UNCHANGED <<now, charge, calls>>

(* The failure is charged.  That run() failed (not: that the connector is  *)
(* unusable) is metered too, which may raise (again).                      *)
Charged(t) ==
    /\ charge' = [charge EXCEPT ![t] = NoCharge]
    /\ \/ Leave(t, "failed")
       \/ Named(At(t)).usable /\ Metering /\ MeterMayFail /\ Leave(t, "escaped")

(* The count is read again; at the threshold, the clock is read and the    *)
(* breaker stamped with what it said.                                      *)
TestBelow(t) ==
    /\ call[t].pc = "test"
    /\ breakers[At(t)].failures < Threshold
    /\ Charged(t)
    /\ UNCHANGED <<now, breakers, calls, ledger>>

TestFull(t) ==
    /\ call[t].pc = "test"
    /\ breakers[At(t)].failures >= Threshold
    /\ charge' = [charge EXCEPT ![t].since = now]
    /\ Goto(t, "stamp")
    /\ UNCHANGED <<now, breakers, calls, ledger>>

Stamp(t) ==
    /\ call[t].pc = "stamp"
    /\ \E at \in charge[t].since .. now :
         breakers' = [breakers EXCEPT ![At(t)].openedAt = at]
    /\ Charged(t)
    /\ UNCHANGED <<now, calls, ledger>>

Tick ==
    /\ now < MaxTime
    /\ now' = now + 1
    /\ UNCHANGED <<breakers, call, charge, calls, ledger>>

Step(t) ==
    \/ Refuse(t) \/ LookClosed(t) \/ LookFull(t) \/ StayOpen(t) \/ CoolDown(t) \/ Reset(t)
    \/ RunOk(t) \/ RunOkMeterFails(t) \/ LoadForLog(t) \/ Fail(t)
    \/ Store(t) \/ TestBelow(t) \/ TestFull(t) \/ Stamp(t)

Next ==
    \/ \E t \in Threads, cap \in Capabilities : Route(t, cap)
    \/ \E t \in Threads, c \in Asked : RouteNamed(t, c)
    \/ \E t \in Threads : Step(t)
    \/ Tick

Spec == Init /\ [][Next]_vars
-----------------------------------------------------------------------------
(* A side-effecting connector is never probed or run without an explicit   *)
(* grant, on either path ("inheriting the same consent gate").             *)
ConsentHolds ==
    \A t \in Threads :
        /\ (call[t].pc = "running" /\ Named(At(t)).is_write) => At(t) \in Granted
        /\ \A k \in DOMAIN call[t].trail :
            LET v == call[t].trail[k] IN
            Named(v.conn).is_write /\ v.conn \notin Granted => v.fate = "refused"

(* A breaker is full only after Threshold calls were charged since its     *)
(* count was last cleared with no charge under way ("a repeatedly-failing  *)
(* backend is skipped", router.py:3): no interleaving of the unlocked      *)
(* reads and writes opens the breaker of a backend that works.  A usage    *)
(* log that raises stands for at most one of these charges, and for one    *)
(* more with each clearing that met the charge of another thread.          *)
OpenIsAccounted ==
    \A c \in Names : breakers[c].failures >= Threshold =>
        /\ ledger[c].own + ledger[c].lent >= Threshold
        /\ ledger[c].lent <= 1 + ledger[c].met

(* A backend that only fails is not hammered: between two clearings of its *)
(* count it is probed or run at most Threshold times, plus once for every  *)
(* other thread that is past the gate by then, plus once for every         *)
(* increment that two threads lost to each other.                          *)
HammeringBounded ==
    \A c \in Names :
        ledger[c].passes <= Threshold + Cardinality(Threads) - 1 + ledger[c].lost

(* route() goes through its candidates in preference order, returns the    *)
(* first that answers, and gives up only when every one was refused,       *)
(* skipped, unusable or failed, or the usage log raised twice.             *)
FallbackExhaustive ==
    \A t \in Threads : LET trail == call[t].trail IN
        /\ \A k \in DOMAIN trail :
            trail[k].conn = call[t].wanted[k] /\ (trail[k].fate = "ok" => k = Len(trail))
        /\ call[t].pc = "raised" =>
            Len(trail) = Len(call[t].wanted) \/ trail[Len(trail)].fate = "escaped"
        /\ call[t].pc = "returned" => trail[Len(trail)].fate = "ok"
=============================================================================
