---------------------------- MODULE MultiSource -----------------------------
(***************************************************************************)
(* deye.research.multi_source.multi_source_search: the query is fanned out *)
(* over a thread pool to every connector of the requested capabilities,    *)
(* each through Router.route_named on the one shared router, and the       *)
(* results are merged in the order in which the futures complete.  The     *)
(* pool's threads are the Router's Threads (max_workers).                  *)
(***************************************************************************)
EXTENDS Router

CONSTANTS
    Wanted,         \* the `capabilities` argument, a sequence
    MaybeFailed     \* connectors that earlier searches may have seen fail

ASSUME FanAssumption ==
    /\ Wanted \in Seq(Range(Wanted))
    /\ MaybeFailed \subseteq Names

VARIABLES
    queue,          \* submitted candidates that no thread has taken yet
    envelopes,      \* envelopes[c]: envelopes of c in the packet
    errors          \* keys of the per-source error dict

fanVars == <<now, breakers, call, charge, calls, ledger, queue, envelopes, errors>>

(* Every connector of the wanted capabilities that has a factory: the     *)
(* k-th in the list of the i-th capability.  They are submitted in order.  *)
Places ==
    {p \in (DOMAIN Wanted) \X (DOMAIN Registry) : p[2] <= Len(ForCapability(Wanted[p[1]]))}
Offer(p) == [cap |-> p[1], rank |-> p[2], name |-> ForCapability(Wanted[p[1]])[p[2]]]
Candidates == {m \in {Offer(p) : p \in Places} : Named(m.name).factory}
Earlier(m, n) == m.cap < n.cap \/ (m.cap = n.cap /\ m.rank < n.rank)

FanTypeOK ==
    /\ TypeOK
    /\ queue \subseteq Candidates
    /\ envelopes \in [Names -> Nat]
    /\ errors \subseteq Names

(* The router may have been used before.                                   *)
FanInit ==
    /\ now = 0
    /\ call = [t \in Threads |-> NoCall]
    /\ calls = [t \in Threads |-> 0]
    /\ \E past \in [Names -> 0..Threshold] :
        /\ \A c \in Names \ MaybeFailed : past[c] = 0
        /\ breakers = [c \in Names |-> [failures |-> past[c], openedAt |-> 0]]
        /\ ledger = [c \in Names |-> [own |-> past[c], lent |-> 0, met |-> 0,
                                      passes |-> past[c], lost |-> 0]]
    /\ charge = [t \in Threads |-> NoCharge]
    /\ queue = Candidates
    /\ envelopes = [c \in Names |-> 0]
    /\ errors = {}

(* An idle pool thread runs _one() for the next candidate.                 *)
Take(t) ==
    /\ call[t] = NoCall
    /\ \E m \in queue :
        /\ \A n \in queue : ~ Earlier(n, m)
        /\ RouteNamed(t, m.name)
        /\ queue' = queue \ {m}
    /\ UNCHANGED <<envelopes, errors>>

Work(t) == Step(t) /\ UNCHANGED <<queue, envelopes, errors>>

(* The pool hands over what the call left, and the thread is idle.         *)
HandOver(t) ==
    /\ call[t].pc \in Ended
    /\ call' = [call EXCEPT ![t] = NoCall]
    /\ UNCHANGED <<now, breakers, charge, calls, ledger>>

(* Faulty variant: an error ends the fan-out, the way an exception that    *)
(* _one() does not catch leaves fut.result().                              *)
CollectOrRaise(t) ==
    /\ HandOver(t)
    /\ LET c == call[t].wanted[1] IN
        IF call[t].pc = "returned"
        THEN envelopes' = [envelopes EXCEPT ![c] = @ + 1] /\ UNCHANGED <<queue, errors>>
        ELSE queue' = {} /\ errors' = errors \cup {c} /\ UNCHANGED envelopes

(* Faulty variant: a future that failed is waited for once more.           *)
CollectResultsOnly(t) ==
    /\ call[t].pc = "returned"
    /\ HandOver(t)
    /\ envelopes' = [envelopes EXCEPT ![call[t].wanted[1]] = @ + 1]
    /\ UNCHANGED <<queue, errors>>

(* as_completed yields the thread's future: _one() returned the envelope,  *)
(* or the text of whatever exception left route_named().                   *)
Collect(t) ==
    /\ HandOver(t)
    /\ LET c == call[t].wanted[1] IN
        IF call[t].pc = "returned"
        THEN envelopes' = [envelopes EXCEPT ![c] = @ + 1] /\ UNCHANGED errors
        ELSE errors' = errors \cup {c} /\ UNCHANGED envelopes
    /\ UNCHANGED queue

FanTick == Tick /\ UNCHANGED <<queue, envelopes, errors>>

FanNext ==
    \/ \E t \in Threads : Take(t) \/ Work(t) \/ Collect(t)
    \/ FanTick

(* Threads run; run() itself ends because its network calls time out.      *)
FanSpec ==
    /\ FanInit /\ [][FanNext]_fanVars
    /\ \A t \in Threads : WF_fanVars(Take(t) \/ Work(t) \/ Collect(t))

AllCollected == queue = {} /\ \A t \in Threads : call[t] = NoCall
-----------------------------------------------------------------------------
(* "Errors from individual connectors are captured (not raised) so one bad *)
(* source does not kill the aggregate": in the end every candidate is in   *)
(* the packet or in the error dict, once and not in both, and nothing else *)
(* is.  A connector that is a candidate twice (a capability asked for      *)
(* twice) and failed is in the packet less often than it was asked.        *)
Times(c) == Cardinality({m \in Candidates : m.name = c})

EverySourceAccounted ==
    AllCollected =>
        \A c \in Names : IF c \in errors THEN envelopes[c] < Times(c)
                                         ELSE envelopes[c] = Times(c)

(* The search ends: the pool does not wait for a source forever.           *)
FanOutEnds == <>[]AllCollected
=============================================================================
