------------------------------ MODULE SafeFetch ------------------------------
(***************************************************************************)
(* The one path every connector reaches the network by                     *)
(* (deye/connectors/base.py), behind the URL policy (deye/core/policy.py). *)
(*                                                                         *)
(* A call vets the URL, resolving its host once; connects to the vetted    *)
(* addresses, in order, until one answers; and follows redirects, each     *)
(* vetted anew.  The other actor is the name service: what a host resolves *)
(* to changes between any two steps of the call (Rebind), and the servers  *)
(* answer what they like.                                                  *)
(*                                                                         *)
(* A URL is represented by what the policy looks at: a host name, a        *)
(* literal address, or Refused, which stands for every URL turned down     *)
(* without a lookup (scheme, userinfo, no host, malformed authority, a     *)
(* metadata host name, a host outside the caller's allowlist).  Addresses  *)
(* are numbers in the order in which the code sorts them.                  *)
(***************************************************************************)
EXTENDS Naturals, Sequences, FiniteSets, SequencesExt

CONSTANTS
    Hosts,         \* host names
    Addresses,     \* every address a lookup may return
    Public,        \* those _ip_is_public accepts
    Refused,       \* a URL refused before any lookup
    MaxRedirects,  \* Limits.max_redirects
    MaxBytes,      \* Limits.max_bytes
    MaxWire,       \* bound: length of what a server sends
    MaxRebinds     \* bound: changes of the name service

ASSUME FetchAssumption ==
    /\ Addresses \subseteq Nat /\ IsFiniteSet(Addresses)
    /\ Public \subseteq Addresses
    /\ MaxRedirects \in Nat /\ MaxBytes \in Nat /\ MaxRebinds \in Nat
    /\ MaxWire \in Nat /\ MaxWire > MaxBytes

VARIABLES
    dns,        \* host -> the addresses a lookup returns now
    rebinds,    \* how often the name service changed
    stage,      \* "idle" | "vet" | "connect" | "answered" | "done"
    method,     \* "GET" (safe_get) or "POST" (safe_post)
    current,    \* the URL of this hop
    hop,        \* 0 for the caller's URL, then one per redirect followed
    untried,    \* vetted addresses of this hop not yet attempted
    notes,      \* the warnings returned with the body
    outcome,    \* what the call returned or raised
    attempts    \* every connection the call opened, in order

netVars == <<dns, rebinds>>
callVars == <<stage, method, current, hop, untried, notes, outcome>>
fetchVars == <<netVars, callVars, attempts>>

Targets == Hosts \union Addresses \union {Refused}

FetchInit ==
    /\ dns \in [Hosts -> {{a} : a \in Public}]
    /\ rebinds = 0
    /\ stage = "idle" /\ method = "GET" /\ current = Refused /\ hop = 0
    /\ untried = {} /\ notes = {} /\ outcome = [kind |-> "none"]
    /\ attempts = <<>>

(* socket.getaddrinfo: an address literal is its own answer. *)
Lookup(target) == IF target \in Hosts THEN dns[target] ELSE {target}

(* evaluate_url and resolve_public_ips: one address that is not public, or *)
(* an empty answer, refuses the whole host.                                *)
Vetted(target) ==
    IF target = Refused \/ ~ (Lookup(target) \subseteq Public)
      THEN {}
      ELSE Lookup(target)

Finish(result) == stage' = "done" /\ outcome' = result

(* The name service answers differently from now on. *)
Rebind(h, answer) ==
    /\ rebinds < MaxRebinds /\ answer # dns[h]
    /\ dns' = [dns EXCEPT ![h] = answer]
    /\ rebinds' = rebinds + 1
    /\ UNCHANGED <<callVars, attempts>>

Call(verb, url) ==
    /\ stage = "idle"
    /\ stage' = "vet" /\ method' = verb /\ current' = url
    /\ UNCHANGED <<netVars, hop, untried, notes, outcome, attempts>>

(* _one_hop up to the connection: the policy decision of this hop. *)
Vet ==
    /\ stage = "vet"
    /\ IF Vetted(current) = {}
         THEN Finish([kind |-> "blocked"]) /\ UNCHANGED untried
         ELSE stage' = "connect" /\ untried' = Vetted(current) /\ UNCHANGED outcome
    /\ UNCHANGED <<netVars, method, current, hop, notes, attempts>>

Least(S) == CHOOSE a \in S : \A b \in S : a <= b

Outcomes == {"unreached", "lost", "answered"}

(* Connect, had it left the hostname to the socket. *)
ConnectByName(end) ==
    /\ stage = "connect"
    /\ \E addr \in Lookup(current) :
         attempts' = Append(attempts, [hop |-> hop, to |-> addr, end |-> end])
    /\ untried' = untried \ {Least(untried)}
    /\ CASE end = "answered" -> stage' = "answered" /\ UNCHANGED outcome
         [] untried' = {}    -> Finish([kind |-> "failed"])
         [] OTHER            -> UNCHANGED <<stage, outcome>>
    /\ UNCHANGED <<netVars, method, current, hop, notes>>

(* One turn of _one_hop's loop.  "unreached" is a failure before the       *)
(* request went out (refused, TLS), "lost" one after it (reset, timeout):  *)
(* the code does not tell them apart and takes the next address.           *)
Connect(end) ==
    /\ stage = "connect"
    /\ LET addr == Least(untried)
       IN  /\ attempts' = Append(attempts, [hop |-> hop, to |-> addr, end |-> end])
           /\ untried' = untried \ {addr}
    /\ CASE end = "answered" -> stage' = "answered" /\ UNCHANGED outcome
         [] untried' = {}    -> Finish([kind |-> "failed"])
         [] OTHER            -> UNCHANGED <<stage, outcome>>
    /\ UNCHANGED <<netVars, method, current, hop, notes>>

(* RedirectTo, had the loop's bound been tested after the next hop. *)
RedirectToLate(location) ==
    /\ stage = "answered" /\ method = "GET"
    /\ current' = location
    /\ notes' = notes \union {"redirect"}
    /\ hop' = hop + 1
    /\ IF hop <= MaxRedirects
         THEN stage' = "vet" /\ UNCHANGED outcome
         ELSE Finish([kind |-> "too many redirects"])
    /\ UNCHANGED <<netVars, method, untried, attempts>>

(* A redirect status.  The GET loop runs max_redirects + 1 times. *)
RedirectTo(location) ==
    /\ stage = "answered" /\ method = "GET"
    /\ current' = location
    /\ notes' = notes \union {"redirect"}
    /\ hop' = hop + 1
    /\ IF hop < MaxRedirects
         THEN stage' = "vet" /\ UNCHANGED outcome
         ELSE Finish([kind |-> "too many redirects"])
    /\ UNCHANGED <<netVars, method, untried, attempts>>

(* A redirect without a Location, or any redirect of a POST. *)
RedirectRefused ==
    /\ stage = "answered"
    /\ Finish([kind |-> "redirect refused"])
    /\ UNCHANGED <<netVars, method, current, hop, untried, notes, attempts>>

(* ReadLimit, had the read stopped at the cap. *)
ReadLimitExact == MaxBytes

(* The argument of resp.read. *)
ReadLimit == MaxBytes + 1

Least2(m, n) == IF m <= n THEN m ELSE n

(* The read, the raw cap, then the decompressed cap.  wire is the length   *)
(* the server sent; an "inflated" body of that length holds full bytes, of *)
(* which a truncated stream yields only some.                              *)
Body(wire, coding, full) ==
    LET raw     == Least2(wire, ReadLimit)
        capped  == raw > MaxBytes
        kept    == Least2(raw, MaxBytes)
        yield   == IF kept < wire THEN 0 .. full ELSE {full}
        told(s) == s \union IF capped THEN {"truncated"} ELSE {}
    IN  CASE coding = "plain"  -> {[size |-> kept, notes |-> told({})]}
          [] coding = "broken" -> {[size |-> kept, notes |-> told({"not decompressed"})]}
          [] OTHER -> {[size  |-> Least2(n, MaxBytes),
                        notes |-> told(IF n > MaxBytes THEN {"bomb guard"} ELSE {})]
                          : n \in yield}

(* The whole of the content a server sent, in bytes of the returned body. *)
ContentLength(wire, coding, full) == IF coding = "inflated" THEN full ELSE wire

Deliver(wire, coding, full) ==
    /\ stage = "answered"
    /\ \E b \in Body(wire, coding, full) :
         /\ notes' = notes \union b.notes
         /\ Finish([kind |-> "body", size |-> b.size,
                    lacks |-> ContentLength(wire, coding, full) - b.size])
    /\ UNCHANGED <<netVars, method, current, hop, untried, attempts>>

CallerNext ==
    \/ \E verb \in {"GET", "POST"}, url \in Targets : Call(verb, url)
    \/ Vet
    \/ \E end \in Outcomes : Connect(end)
    \/ \E location \in Targets : RedirectTo(location)
    \/ RedirectRefused
    \/ \E wire, full \in 0 .. MaxWire, coding \in {"plain", "broken", "inflated"} :
         Deliver(wire, coding, full)

FetchNext ==
    \/ CallerNext
    \/ \E h \in Hosts, answer \in SUBSET Addresses : Rebind(h, answer)

FetchSpec == FetchInit /\ [][FetchNext]_fetchVars

-----------------------------------------------------------------------------

FetchTypeOK ==
    /\ dns \in [Hosts -> SUBSET Addresses]
    /\ rebinds \in 0 .. MaxRebinds
    /\ stage \in {"idle", "vet", "connect", "answered", "done"}
    /\ method \in {"GET", "POST"}
    /\ current \in Targets
    /\ hop \in 0 .. MaxRedirects + 1
    /\ untried \subseteq Addresses
    /\ attempts \in Seq([hop : Nat, to : Addresses, end : Outcomes])

(* No connection is ever opened to an address that is not public, however  *)
(* the name service changes its answers between the check and the connect, *)
(* at whichever hop (base.py's "cannot rebind between check and connect"). *)
OnlyVettedAddresses ==
    \A i \in DOMAIN attempts : attempts[i].to \in Public

(* How much traffic one call can cause: at most max_redirects + 1 hops,    *)
(* one of them for a POST; each address once per hop, in order, and none   *)
(* after the one that answered.  A request may reach several addresses,    *)
(* but only after the connection before it failed.                         *)
AttemptsBounded ==
    /\ \A i \in DOMAIN attempts :
         attempts[i].hop <= (IF method = "GET" THEN MaxRedirects ELSE 0)
    /\ \A i, j \in DOMAIN attempts :
         i < j => \/ /\ attempts[i].hop = attempts[j].hop
                     /\ attempts[i].to < attempts[j].to
                     /\ attempts[i].end # "answered"
                  \/ attempts[i].hop < attempts[j].hop

(* A body is never longer than the limit, and one that lacks part of what  *)
(* the server sent says so in its warnings: cut at the raw cap, cut at the *)
(* decompressed cap, or returned as it came because it did not inflate.    *)
TruncationIsTold ==
    outcome.kind = "body" =>
      /\ outcome.size <= MaxBytes
      /\ outcome.lacks > 0 => notes \intersect {"truncated", "bomb guard", "not decompressed"} # {}

=============================================================================
