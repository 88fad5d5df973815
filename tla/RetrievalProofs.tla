-------------------------- MODULE RetrievalProofs --------------------------
(***************************************************************************)
(* The way of a page from the network to an answer: the safe fetch, the    *)
(* caption routes, the deduplication and the research tools.  For every    *)
(* set of hosts, policy and limit a fetch connects to public addresses     *)
(* only, in a bounded number of attempts, and does not pass a shortened    *)
(* body for a whole one; captions are those the list offered; a duplicate  *)
(* is represented by a row that is kept; and a research accounts for every *)
(* page it picked.  The components share no variable, so each theorem      *)
(* rests on the invariant of its own.                                      *)
(***************************************************************************)
EXTENDS SafeFetch, Transcript, Dedup, Research, TLAPS,
        WellFoundedInduction, SequenceTheorems, FiniteSetTheorems

Attempt == [hop : Nat, to : Addresses, end : Outcomes]

(* What is still to be tried was vetted, and connect() has something left. *)
UntriedVetted ==
    /\ untried \subseteq Public
    /\ stage = "connect" => untried # {}

(* Where the call is in the redirect chain.                                *)
HopCounts ==
    /\ stage = "idle" => hop = 0 /\ attempts = <<>>
    /\ stage # "done" => hop <= MaxRedirects /\ outcome.kind # "body"
    /\ method = "POST" => hop = 0

(* The attempts so far lie before the ones to come.                        *)
AttemptsBehind ==
    \A i \in DOMAIN attempts :
      /\ attempts[i].hop <= hop
      /\ stage = "vet" => attempts[i].hop < hop
      /\ stage = "connect" /\ attempts[i].hop = hop =>
           /\ attempts[i].end # "answered"
           /\ \A addr \in untried : attempts[i].to < addr

FetchInv ==
    /\ FetchTypeOK /\ UntriedVetted /\ HopCounts /\ AttemptsBehind
    /\ OnlyVettedAddresses /\ AttemptsBounded /\ TruncationIsTold

-----------------------------------------------------------------------------
(* sorted() starts with the least address.                                 *)
LEMMA LeastProperties ==
    ASSUME NEW S \in SUBSET Nat, S # {}
    PROVE  Least(S) \in S /\ \A b \in S : Least(S) <= b
<1>1. \E a \in S : \A b \in S : ~ (<<b, a>> \in OpToRel(<, Nat))
  BY NatLessThanWellFounded, WFMin, Zenon
<1>2. \E a \in S : \A b \in S : a <= b
  <2>1. PICK a \in S : \A b \in S : ~ (<<b, a>> \in OpToRel(<, Nat))
    BY <1>1
  <2>2. \A b \in S : ~ (b < a)
    BY <2>1 DEF OpToRel
  <2>3. QED BY <2>2
<1>3. QED BY <1>2 DEF Least

(* A vetted answer consists of addresses the policy accepts.               *)
LEMMA VettedIsPublic == \A target : Vetted(target) \subseteq Public
BY DEF Vetted

(* What becomes of a body of any length: it is within the cap, and the     *)
(* reader is told when it is less than the server sent.                    *)
LEMMA BodyIsHonest ==
    ASSUME NEW wire \in Nat, NEW full \in Nat,
           NEW coding \in {"plain", "broken", "inflated"}, NEW b \in Body(wire, coding, full)
    PROVE  /\ b.size \in Nat /\ b.size <= MaxBytes
           /\ ContentLength(wire, coding, full) > b.size
                => b.notes \intersect {"truncated", "bomb guard", "not decompressed"} # {}
<1> USE FetchAssumption DEF ContentLength, ReadLimit, Least2
<1> DEFINE raw == Least2(wire, ReadLimit)
           kept == Least2(raw, MaxBytes)
           told(s) == s \union IF raw > MaxBytes THEN {"truncated"} ELSE {}
<1>1. /\ raw \in Nat /\ kept \in Nat /\ kept <= MaxBytes
      /\ kept < wire => raw > MaxBytes
      /\ ~ (kept < wire) => kept = wire
  OBVIOUS
<1>2. CASE coding = "plain"
  <2>1. b = [size |-> kept, notes |-> told({})]
    BY <1>2 DEF Body
  <2>2. QED BY <1>1, <1>2, <2>1
<1>3. CASE coding = "broken"
  <2>1. b = [size |-> kept, notes |-> told({"not decompressed"})]
    BY <1>3 DEF Body
  <2>2. QED BY <1>1, <1>3, <2>1
<1>4. CASE coding = "inflated"
  <2>1. PICK n \in IF kept < wire THEN 0 .. full ELSE {full} :
          b = [size |-> Least2(n, MaxBytes),
               notes |-> told(IF n > MaxBytes THEN {"bomb guard"} ELSE {})]
    BY <1>4 DEF Body
  <2> HIDE DEF kept, raw
  <2>2. n \in 0 .. full /\ (~ (kept < wire) => n = full)
    <3>1. CASE kept < wire
      BY <2>1, <3>1
    <3>2. CASE ~ (kept < wire)
      <4>1. n \in {full}
        BY <2>1, <3>2, Zenon
      <4>2. QED BY <4>1, <3>2
    <3>3. QED BY <3>1, <3>2
  <2>3. b.size = Least2(n, MaxBytes) /\ b.size \in Nat /\ b.size <= MaxBytes
    <3>1. b.size = Least2(n, MaxBytes)
      BY <2>1, Zenon
    <3>2. QED BY <2>2, <3>1
  <2>4. ContentLength(wire, coding, full) = full
    BY <1>4
  <2>5. kept < wire => "truncated" \in b.notes
    BY <1>1, <2>1
  <2>6. n > MaxBytes => "bomb guard" \in b.notes
    BY <2>1
  <2>7. full > b.size => kept < wire \/ n > MaxBytes
    BY <2>2, <2>3
  <2>8. QED BY <2>3, <2>4, <2>5, <2>6, <2>7
<1>5. QED BY <1>2, <1>3, <1>4

-----------------------------------------------------------------------------
LEMMA AttemptTypes ==
    FetchTypeOK => \A i \in DOMAIN attempts : attempts[i] \in Attempt /\ attempts[i].hop \in Nat
<1>1. FetchTypeOK => attempts \in Seq(Attempt)
  BY DEF FetchTypeOK, Attempt
<1>2. attempts \in Seq(Attempt) => \A i \in DOMAIN attempts : attempts[i] \in Attempt
  BY LenProperties, ElementOfSeq
<1>3. QED BY <1>1, <1>2 DEF Attempt

LEMMA Difference == \A m, n \in Nat : m - n > 0 => m > n
OBVIOUS

LEMMA InitHolds == FetchInit => FetchInv
<1> SUFFICES ASSUME FetchInit PROVE FetchInv
  OBVIOUS
<1>1. FetchTypeOK
  BY FetchAssumption DEF FetchInit, FetchTypeOK, Targets
<1>2. QED
  BY <1>1, FetchAssumption
     DEF FetchInit, FetchInv, UntriedVetted, HopCounts, AttemptsBehind,
         OnlyVettedAddresses, AttemptsBounded, TruncationIsTold

LEMMA ConnectHolds ==
    ASSUME FetchInv, NEW end \in Outcomes, Connect(end)
    PROVE  FetchInv'
<1> USE FetchAssumption DEF FetchInv
<1> DEFINE addr == Least(untried)
           try == [hop |-> hop, to |-> addr, end |-> end]
           n == Len(attempts)
<1>1. /\ addr \in untried /\ \A b \in untried : addr <= b
      /\ addr \in Public /\ addr \in Addresses
  BY LeastProperties DEF Connect, UntriedVetted, FetchTypeOK
<1>2. /\ stage = "connect" /\ attempts' = Append(attempts, try) /\ untried' = untried \ {addr}
      /\ UNCHANGED <<dns, rebinds, method, current, hop, notes>>
      /\ stage' \in {"answered", "done", "connect"}
      /\ stage' = "connect" => untried' # {} /\ end # "answered" /\ outcome' = outcome
      /\ stage' = "answered" => outcome' = outcome
      /\ stage' = "done" => outcome'.kind # "body"
  BY DEF Connect, Finish, netVars
<1> HIDE DEF addr
<1>3. try \in Attempt /\ attempts \in Seq(Attempt) /\ hop \in Nat
  BY <1>1 DEF Attempt, FetchTypeOK, Outcomes
<1>4. /\ attempts' \in Seq(Attempt)
      /\ n \in Nat /\ DOMAIN attempts = 1 .. n /\ DOMAIN attempts' = 1 .. (n + 1)
      /\ \A i \in 1 .. n : attempts'[i] = attempts[i]
      /\ attempts'[n + 1] = try
      /\ \A i \in 1 .. n : attempts[i] \in Attempt
  BY <1>2, <1>3, AppendProperties, LenProperties, ElementOfSeq
<1>5. FetchTypeOK'
  BY <1>2, <1>4 DEF FetchTypeOK, Attempt
<1>6. UntriedVetted' /\ HopCounts'
  BY <1>2 DEF UntriedVetted, HopCounts
<1>7. AttemptsBehind'
  <2>1. \A i \in 1 .. n : attempts[i].hop <= hop
    BY <1>4 DEF AttemptsBehind
  <2>2. \A i \in 1 .. n : attempts[i].hop = hop =>
           attempts[i].end # "answered" /\ \A b \in untried : attempts[i].to < b
    BY <1>2, <1>4 DEF AttemptsBehind
  <2>3. \A b \in untried' : addr < b
    BY <1>1, <1>2 DEF FetchTypeOK
  <2>4. \A i \in 1 .. n : attempts'[i].hop <= hop /\ (attempts'[i].hop = hop =>
           attempts'[i].end # "answered" /\ \A b \in untried' : attempts'[i].to < b)
    BY <1>2, <1>4, <2>1, <2>2
  <2>5. attempts'[n + 1].hop <= hop /\ attempts'[n + 1].end = end
           /\ \A b \in untried' : attempts'[n + 1].to < b
    BY <1>3, <1>4, <2>3
  <2>6. QED BY <1>2, <1>4, <2>4, <2>5 DEF AttemptsBehind
<1>8. OnlyVettedAddresses'
  BY <1>1, <1>4 DEF OnlyVettedAddresses
<1>9. AttemptsBounded'
  <2>1. \A i \in DOMAIN attempts' :
          attempts'[i].hop <= IF method' = "GET" THEN MaxRedirects ELSE 0
    BY <1>2, <1>3, <1>4 DEF AttemptsBounded, HopCounts, FetchTypeOK
  <2>2. ASSUME NEW i \in DOMAIN attempts', NEW j \in DOMAIN attempts', i < j
        PROVE  \/ /\ attempts'[i].hop = attempts'[j].hop
                  /\ attempts'[i].to < attempts'[j].to
                  /\ attempts'[i].end # "answered"
               \/ attempts'[i].hop < attempts'[j].hop
    <3>1. CASE j \in 1 .. n
      BY <1>4, <2>2, <3>1 DEF AttemptsBounded
    <3>2. CASE j = n + 1
      <4>1. i \in 1 .. n
        BY <1>4, <2>2, <3>2
      <4>2. attempts[i].hop <= hop /\ attempts[i].hop \in Nat
        BY <1>4, <4>1 DEF AttemptsBehind, Attempt
      <4>3. attempts[i].hop = hop => attempts[i].end # "answered" /\ attempts[i].to < addr
        BY <1>1, <1>2, <1>4, <4>1 DEF AttemptsBehind
      <4>4. QED BY <1>3, <1>4, <3>2, <4>1, <4>2, <4>3
    <3>3. QED BY <1>4, <3>1, <3>2
  <2>3. QED BY <2>1, <2>2 DEF AttemptsBounded
<1>10. TruncationIsTold'
  BY <1>2 DEF TruncationIsTold, HopCounts
<1>11. QED BY <1>5, <1>6, <1>7, <1>8, <1>9, <1>10

LEMMA StepHolds == FetchInv /\ [FetchNext]_fetchVars => FetchInv'
<1> SUFFICES ASSUME FetchInv, [FetchNext]_fetchVars PROVE FetchInv'
  OBVIOUS
<1> USE FetchAssumption DEF FetchInv
<1>0. \A i \in DOMAIN attempts : attempts[i].hop \in Nat
  BY AttemptTypes
<1>1. ASSUME NEW verb \in {"GET", "POST"}, NEW url \in Targets, Call(verb, url) PROVE FetchInv'
  <2>1. attempts = <<>> /\ attempts' = <<>> /\ hop = 0 /\ hop' = 0 /\ outcome' = outcome
        /\ stage = "idle" /\ stage' = "vet"
    BY <1>1 DEF Call, HopCounts
  <2>2. FetchTypeOK' /\ UntriedVetted' /\ HopCounts' /\ TruncationIsTold'
    BY <1>1, <2>1 DEF Call, netVars, FetchTypeOK, UntriedVetted, HopCounts, TruncationIsTold
  <2>3. DOMAIN attempts' = {}
    BY <2>1
  <2>4. QED
    BY <2>2, <2>3 DEF AttemptsBehind, OnlyVettedAddresses, AttemptsBounded
<1>2. ASSUME Vet PROVE FetchInv'
  <2>1. /\ stage = "vet" /\ stage' \in {"connect", "done"}
        /\ stage' = "connect" => untried' # {} /\ untried' \subseteq Public
        /\ stage' = "done" => outcome'.kind # "body" /\ untried' = untried
        /\ stage' = "connect" => outcome' = outcome
        /\ UNCHANGED <<dns, rebinds, method, current, hop, notes, attempts>>
    BY <1>2, VettedIsPublic DEF Vet, Finish, netVars
  <2>2. FetchTypeOK'
    BY <2>1 DEF FetchTypeOK, UntriedVetted
  <2>3. AttemptsBehind'
    BY <1>0, <2>1 DEF AttemptsBehind, FetchTypeOK
  <2>4. UntriedVetted' /\ HopCounts' /\ TruncationIsTold'
    BY <2>1 DEF UntriedVetted, HopCounts, TruncationIsTold
  <2>5. OnlyVettedAddresses' /\ AttemptsBounded'
    BY <2>1 DEF OnlyVettedAddresses, AttemptsBounded
  <2>6. QED BY <2>2, <2>3, <2>4, <2>5
<1>3. ASSUME NEW end \in Outcomes, Connect(end) PROVE FetchInv'
  BY <1>3, ConnectHolds
<1>4. ASSUME NEW location \in Targets, RedirectTo(location) PROVE FetchInv'
  <2>1. /\ stage = "answered" /\ method = "GET" /\ hop' = hop + 1 /\ current' \in Targets
        /\ stage' = "vet" => hop < MaxRedirects /\ outcome' = outcome
        /\ stage' = "done" => outcome'.kind # "body"
        /\ stage' \in {"vet", "done"}
        /\ UNCHANGED <<dns, rebinds, method, untried, attempts>>
    <3>1. /\ stage = "answered" /\ method = "GET" /\ hop' = hop + 1 /\ current' \in Targets
          /\ UNCHANGED <<dns, rebinds, method, untried, attempts>>
      BY <1>4 DEF RedirectTo, netVars
    <3>2. CASE hop < MaxRedirects
      BY <1>4, <3>1, <3>2 DEF RedirectTo
    <3>3. CASE ~ (hop < MaxRedirects)
      <4>1. stage' = "done" /\ outcome' = [kind |-> "too many redirects"]
        BY <1>4, <3>3 DEF RedirectTo, Finish
      <4>2. outcome'.kind = "too many redirects"
        BY <4>1
      <4>3. QED BY <3>1, <4>1, <4>2
    <3>4. QED BY <3>2, <3>3
  <2>2. FetchTypeOK'
    BY <2>1 DEF FetchTypeOK, HopCounts
  <2>3. AttemptsBehind'
    BY <1>0, <2>1 DEF AttemptsBehind, FetchTypeOK
  <2>4. UntriedVetted' /\ HopCounts' /\ TruncationIsTold'
    <3>1. UntriedVetted' /\ TruncationIsTold'
      BY <2>1 DEF UntriedVetted, TruncationIsTold, HopCounts
    <3>2. HopCounts'
      BY <2>1 DEF HopCounts, FetchTypeOK
    <3>3. QED BY <3>1, <3>2
  <2>5. OnlyVettedAddresses' /\ AttemptsBounded'
    BY <2>1 DEF OnlyVettedAddresses, AttemptsBounded
  <2>6. QED BY <2>2, <2>3, <2>4, <2>5
<1>5. ASSUME RedirectRefused PROVE FetchInv'
  BY <1>5 DEF RedirectRefused, Finish, netVars, FetchTypeOK, UntriedVetted, HopCounts,
              AttemptsBehind, OnlyVettedAddresses, AttemptsBounded, TruncationIsTold
<1>6. ASSUME NEW wire \in 0 .. MaxWire, NEW full \in 0 .. MaxWire,
             NEW coding \in {"plain", "broken", "inflated"}, Deliver(wire, coding, full)
      PROVE  FetchInv'
  <2>1. PICK b \in Body(wire, coding, full) :
          /\ notes' = notes \union b.notes
          /\ outcome' = [kind |-> "body", size |-> b.size,
                         lacks |-> ContentLength(wire, coding, full) - b.size]
    BY <1>6 DEF Deliver, Finish
  <2>2. /\ stage' = "done"
        /\ UNCHANGED <<dns, rebinds, method, current, hop, untried, attempts>>
    BY <1>6 DEF Deliver, Finish, netVars
  <2>3. TruncationIsTold'
    <3>1. /\ b.size \in Nat /\ b.size <= MaxBytes
          /\ ContentLength(wire, coding, full) > b.size
               => b.notes \intersect {"truncated", "bomb guard", "not decompressed"} # {}
      <4>1. wire \in Nat /\ full \in Nat
        OBVIOUS
      <4>2. QED BY <4>1, BodyIsHonest
    <3>2. ContentLength(wire, coding, full) \in Nat
      BY DEF ContentLength
    <3>3. outcome'.lacks > 0 => ContentLength(wire, coding, full) > b.size
      <4>1. outcome'.lacks = ContentLength(wire, coding, full) - b.size
        BY <2>1
      <4>2. QED BY <3>1, <3>2, <4>1, Difference
    <3>4. QED BY <2>1, <3>1, <3>3 DEF TruncationIsTold
  <2>4. QED
    BY <2>2, <2>3 DEF FetchTypeOK, UntriedVetted, HopCounts, AttemptsBehind,
                      OnlyVettedAddresses, AttemptsBounded
<1>7. ASSUME NEW h \in Hosts, NEW answer \in SUBSET Addresses, Rebind(h, answer) PROVE FetchInv'
  <2>1. UNCHANGED <<stage, method, current, hop, untried, notes, outcome, attempts>>
    BY <1>7 DEF Rebind, callVars
  <2>2. FetchTypeOK'
    BY <1>7, <2>1 DEF Rebind, FetchTypeOK
  <2>3. QED
    BY <2>1, <2>2 DEF UntriedVetted, HopCounts, AttemptsBehind, OnlyVettedAddresses,
                      AttemptsBounded, TruncationIsTold
<1>8. CASE UNCHANGED fetchVars
  BY <1>8 DEF fetchVars, netVars, callVars, FetchTypeOK, UntriedVetted, HopCounts,
              AttemptsBehind, OnlyVettedAddresses, AttemptsBounded, TruncationIsTold
<1>9. QED
  BY <1>1, <1>2, <1>3, <1>4, <1>5, <1>6, <1>7, <1>8 DEF FetchNext, CallerNext

LEMMA InvariantHolds == FetchSpec => []FetchInv
BY InitHolds, StepHolds, PTL DEF FetchSpec

(* The variables keep their types.                                         *)
THEOREM FetchTypeCorrect == FetchSpec => []FetchTypeOK
<1>1. FetchInv => FetchTypeOK
  BY DEF FetchInv
<1>2. QED BY <1>1, InvariantHolds, PTL

(* No connection is opened to an address that is not public, whatever the  *)
(* name service answers between the check and the connect.                 *)
THEOREM NoRebindingPastTheCheck == FetchSpec => []OnlyVettedAddresses
<1>1. FetchInv => OnlyVettedAddresses
  BY DEF FetchInv
<1>2. QED BY <1>1, InvariantHolds, PTL

(* The traffic of one call: its hops, and the order of attempts on a hop.  *)
THEOREM TrafficBounded == FetchSpec => []AttemptsBounded
<1>1. FetchInv => AttemptsBounded
  BY DEF FetchInv
<1>2. QED BY <1>1, InvariantHolds, PTL

(* A body cut short carries a warning, for bodies of any length.           *)
THEOREM TruncationTold == FetchSpec => []TruncationIsTold
<1>1. FetchInv => TruncationIsTold
  BY DEF FetchInv
<1>2. QED BY <1>1, InvariantHolds, PTL

-----------------------------------------------------------------------------
(* FiniteSetsExt's Min of a set of numbers is one of them, and the least.  *)
LEMMA MinProperties ==
    ASSUME NEW S \in SUBSET Nat, S # {}
    PROVE  Min(S) \in S /\ \A b \in S : Min(S) <= b
<1>1. \E a \in S : \A b \in S : ~ (<<b, a>> \in OpToRel(<, Nat))
  BY NatLessThanWellFounded, WFMin, Zenon
<1>2. \E a \in S : \A b \in S : a <= b
  <2>1. PICK a \in S : \A b \in S : ~ (<<b, a>> \in OpToRel(<, Nat))
    BY <1>1
  <2>2. \A b \in S : ~ (b < a)
    BY <2>1 DEF OpToRel
  <2>3. QED BY <2>2
<1>3. QED BY <1>2 DEF Min

-----------------------------------------------------------------------------
(* youtube.py: the captions of a video.                                    *)

(* What each route came to before the next one began.                      *)
RoutesInOrder ==
    /\ at \in {"page", "text2"} => routes["list"] \in {"empty", "raised"}
    /\ at \in {"text1", "text2"} => tracks # <<>>
    /\ at # "returned" => given = NoCaptions

TranscriptInv == TranscriptTypeOK /\ RoutesInOrder /\ TranscriptHonest

(* The track chosen from a list is one of the list, in the wanted language *)
(* if any is, else in English if any is.                                   *)
LEMMA ChoiceHonours ==
    ASSUME TranscriptAssumption, NEW list \in TrackLists, list # <<>>
    PROVE  /\ ChooseTrack(list) \in Range(list)
           /\ (\E t \in Range(list) : IsWanted(t)) => IsWanted(ChooseTrack(list))
           /\ (/\ \A t \in Range(list) : ~ IsWanted(t)
               /\ \E t \in Range(list) : IsEnglish(t)) => IsEnglish(ChooseTrack(list))
<1>1. PICK n \in Nat : list \in [1 .. n -> Tracks]
  BY DEF TrackLists, TranscriptAssumption
<1>2. DOMAIN list = 1 .. n /\ DOMAIN list \subseteq Nat
  BY <1>1
<1>3. DOMAIN list # {}
  <2>1. CASE n = 0
    BY <2>1, <1>1
  <2>2. CASE n # 0
    BY <2>2, <1>2
  <2>3. QED BY <2>1, <2>2
<1>4. ASSUME NEW S \in SUBSET DOMAIN list, S # {}
      PROVE  Min(S) \in S /\ Min(S) \in DOMAIN list
  BY <1>2, <1>4, MinProperties
<1>5. \A S \in SUBSET DOMAIN list : S # {} => Min(S) \in S
  BY <1>4
<1> DEFINE preferred == {i \in DOMAIN list : IsWanted(list[i])}
           human == {i \in DOMAIN list : IsHumanEnglish(list[i])}
           english == {i \in DOMAIN list : IsEnglish(list[i])}
<1>6. CASE preferred # {}
  <2>1. Min(preferred) \in preferred
    BY <1>5, <1>6
  <2>2. ChooseTrack(list) = list[Min(preferred)]
    BY <1>6 DEF ChooseTrack
  <2>3. QED BY <2>1, <2>2 DEF Range
<1>7. CASE preferred = {} /\ english # {}
  <2>1. Min(english) \in english
    BY <1>5, <1>7
  <2>2. human # {} => Min(human) \in human
    BY <1>5
  <2>3. human \subseteq english
    BY DEF IsHumanEnglish
  <2>4. ChooseTrack(list) = list[IF human # {} THEN Min(human) ELSE Min(english)]
    BY <1>7 DEF ChooseTrack, PickTrack
  <2>5. PICK k \in english : ChooseTrack(list) = list[k]
    BY <2>1, <2>2, <2>3, <2>4
  <2>6. QED BY <2>5, <1>7 DEF Range
<1>8. CASE preferred = {} /\ english = {}
  <2>1. human = {}
    BY <1>8 DEF IsHumanEnglish
  <2>2. ChooseTrack(list) = list[Min(DOMAIN list)]
    BY <1>8, <2>1 DEF ChooseTrack, PickTrack
  <2>3. Min(DOMAIN list) \in DOMAIN list
    BY <1>5, <1>3
  <2>4. QED BY <2>2, <2>3, <1>8 DEF Range
<1>9. QED BY <1>6, <1>7, <1>8

LEMMA TranscriptInitInv == TranscriptAssumption /\ TranscriptInit => TranscriptInv
<1> SUFFICES ASSUME TranscriptAssumption, TranscriptInit PROVE TranscriptInv
  OBVIOUS
<1>1. tracks \in TrackLists
  BY DEF TranscriptInit, TrackLists, TranscriptAssumption
<1>2. given \in [available : BOOLEAN, lang : Languages \union {Unset}, segments : Nat]
  BY DEF TranscriptInit, NoCaptions
<1>3. QED BY <1>1, <1>2 DEF TranscriptInit, TranscriptInv, TranscriptTypeOK, RoutesInOrder,
    TranscriptHonest, Stages, Route1

LEMMA ReadTracksInv ==
    ASSUME TranscriptAssumption, TranscriptInv, NEW list \in TrackLists, ReadTracks(list)
    PROVE  TranscriptInv'
<1> USE DEF TranscriptInv, TranscriptTypeOK, RoutesInOrder, ReadTracks, Stages, Route1,
        ThisRoute, AfterRoute
<1>1. CASE list = <<>>
  BY <1>1 DEF TranscriptHonest, NoCaptions
<1>2. CASE list # <<>>
  BY <1>2 DEF TranscriptHonest, NoCaptions
<1>3. QED BY <1>1, <1>2

LEMMA RouteRaisesInv ==
    ASSUME TranscriptAssumption, TranscriptInv, RouteRaises
    PROVE  TranscriptInv'
BY DEF TranscriptInv, TranscriptTypeOK, RoutesInOrder, RouteRaises, Stages, Route1,
       ThisRoute, AfterRoute, TranscriptHonest, NoCaptions

LEMMA ReadTextInv ==
    ASSUME TranscriptAssumption, TranscriptInv, NEW count \in 0 .. 1, ReadText(count)
    PROVE  TranscriptInv'
<1> USE DEF TranscriptInv
<1>1. CASE count > 0
  <2> DEFINE t == ChooseTrack(tracks)
  <2>1. at \in {"text1", "text2"} /\ tracks # <<>> /\ tracks \in TrackLists
    BY DEF ReadText, RoutesInOrder, TranscriptTypeOK
  <2>2. /\ t \in Range(tracks)
        /\ (\E u \in Range(tracks) : IsWanted(u)) => IsWanted(t)
        /\ (/\ \A u \in Range(tracks) : ~ IsWanted(u)
            /\ \E u \in Range(tracks) : IsEnglish(u)) => IsEnglish(t)
    BY <2>1, ChoiceHonours
  <2>3. t.lang \in Languages
    BY <2>1, <2>2 DEF TrackLists, Tracks, Range
  <2>4. /\ at' = "returned" /\ wanted' = wanted /\ tracks' = tracks
        /\ routes' = [routes EXCEPT ![ThisRoute] = "served"]
        /\ given' = [available |-> TRUE, lang |-> t.lang, segments |-> count]
    BY <1>1 DEF ReadText
  <2> HIDE DEF t
  <2>5. TranscriptTypeOK'
    BY <2>3, <2>4 DEF TranscriptTypeOK, ThisRoute, Stages, Route1
  <2>6. RoutesInOrder'
    BY <2>4 DEF RoutesInOrder
  <2>7. TranscriptHonest'
    BY <2>2, <2>4, <1>1 DEF TranscriptHonest, IsWanted, IsEnglish
  <2>8. QED BY <2>5, <2>6, <2>7
<1>2. CASE ~ (count > 0)
  BY <1>2 DEF TranscriptTypeOK, RoutesInOrder, ReadText, Stages, Route1,
       ThisRoute, AfterRoute, TranscriptHonest, NoCaptions
<1>3. QED BY <1>1, <1>2

(* youtube.py: "degrades cleanly (available=False)".  Whatever the routes  *)
(* bring back and whichever fetch raises, run() reports no captions only   *)
(* after both routes came to nothing, and captions only with text, in the  *)
(* best language the list offered.                                         *)
THEOREM TranscriptsHonest == TranscriptSpec => []TranscriptHonest
<1>1. TranscriptInit => TranscriptInv
  BY TranscriptInitInv, TranscriptAssumption
<1>2. TranscriptInv /\ [TranscriptNext]_captionVars => TranscriptInv'
  <2> SUFFICES ASSUME TranscriptInv, [TranscriptNext]_captionVars PROVE TranscriptInv'
    OBVIOUS
  <2>1. CASE \E list \in TrackLists : ReadTracks(list)
    BY <2>1, ReadTracksInv, TranscriptAssumption
  <2>2. CASE \E count \in 0 .. 1 : ReadText(count)
    BY <2>2, ReadTextInv, TranscriptAssumption
  <2>3. CASE RouteRaises
    BY <2>3, RouteRaisesInv, TranscriptAssumption
  <2>4. CASE UNCHANGED captionVars
    BY <2>4 DEF TranscriptInv, TranscriptTypeOK, RoutesInOrder, TranscriptHonest,
       captionVars, IsWanted, IsEnglish
  <2>5. QED BY <2>1, <2>2, <2>3, <2>4 DEF TranscriptNext
<1>3. TranscriptInv => TranscriptHonest
  BY DEF TranscriptInv
<1>4. QED BY <1>1, <1>2, <1>3, PTL DEF TranscriptSpec

-----------------------------------------------------------------------------
(* quality.py: deduplicate.                                                *)

(* The rows a cluster drops: all but the one it heads.                     *)
Drops(c) == c.members \ {Min(c.members)}

ListFits ==
    /\ \E n \in Nat : rows \in [1 .. n -> Row]
    /\ pass \in {"exact_url", "content_hash", "shingle_overlap", "done", "raised"}
    /\ turn \in Nat /\ represented \subseteq Rows
    /\ pass = "exact_url" => represented = {}
    /\ pass \in {"exact_url", "content_hash"} => turn = 1
    /\ pass = "done" => turn > Len(rows)

(* Each dropped row is dropped by one cluster, and every cluster drops its *)
(* rows.                                                                   *)
DroppedOnce ==
    /\ \A i \in represented : \E c \in clusters : i \in Drops(c)
    /\ \A c \in clusters : Drops(c) \subseteq represented
    /\ \A c, d \in clusters : Drops(c) \intersect Drops(d) # {} => c = d

(* What the passes so far have settled about the rows still kept.          *)
KeptApart ==
    \A i, j \in Survivors : i < j =>
      /\ pass \in {"content_hash", "shingle_overlap", "done"} => ~ SameUrl(i, j)
      /\ pass \in {"shingle_overlap", "done"} => ~ SameHash(i, j)
      /\ pass \in {"shingle_overlap", "done"} /\ i < turn => ~ Similar(i, j)

DedupInv == ListFits /\ DroppedOnce /\ KeptApart

(* A finite set with two elements has more than one.                       *)
LEMMA TwoInSet ==
    ASSUME NEW S, IsFiniteSet(S), NEW a \in S, NEW b \in S, a # b
    PROVE  Cardinality(S) > 1
<1>1. IsFiniteSet({a}) /\ Cardinality({a}) = 1
  BY FS_Singleton
<1>2. Cardinality({a} \union {b}) = 2
  BY <1>1, FS_AddElement
<1>3. Cardinality({a} \union {b}) <= Cardinality(S) /\ Cardinality(S) \in Nat
  BY FS_Subset, FS_CardinalityType
<1>4. QED BY <1>2, <1>3

(* Groups to report: disjoint parts of what is grouped.                    *)
AreGroups(groups, from) ==
    /\ \A g \in groups : g \subseteq from /\ g # {}
    /\ \A g, h \in groups : g \intersect h # {} => g = h

(* Grouping by a key yields such groups, and any two rows that share the   *)
(* key are in one of them.                                                 *)
LEMMA GroupedProperties ==
    ASSUME NEW from, IsFiniteSet(from), NEW key
    PROVE  /\ AreGroups(Grouped(from, key), from)
           /\ \A i, j \in from : i # j /\ key[i] = key[j] /\ key[i] # Blank =>
                \E g \in Grouped(from, key) : i \in g /\ j \in g
<1> DEFINE keys == {key[i] : i \in from} \ {Blank}
           Under(k) == {i \in from : key[i] = k}
<1>1. Grouped(from, key) = {g \in {Under(k) : k \in keys} : Cardinality(g) > 1}
  BY DEF Grouped
<1>2. \A k \in keys : Under(k) \subseteq from /\ Under(k) # {}
  OBVIOUS
<1>3. \A k, l \in keys : Under(k) \intersect Under(l) # {} => k = l
  OBVIOUS
<1>4. ASSUME NEW i \in from, NEW j \in from, i # j, key[i] = key[j], key[i] # Blank
      PROVE  \E g \in Grouped(from, key) : i \in g /\ j \in g
  <2>1. i \in Under(key[i]) /\ j \in Under(key[i]) /\ key[i] \in keys
    BY <1>4
  <2>2. IsFiniteSet(Under(key[i]))
    BY FS_Subset
  <2>3. Cardinality(Under(key[i])) > 1
    BY <2>1, <2>2, <1>4, TwoInSet
  <2>4. Under(key[i]) \in Grouped(from, key)
    BY <2>1, <2>3, <1>1
  <2>5. QED BY <2>1, <2>4
<1> HIDE DEF Under, keys
<1>5. AreGroups(Grouped(from, key), from)
  BY <1>1, <1>2, <1>3 DEF AreGroups
<1>6. QED BY <1>4, <1>5

(* Reporting disjoint groups of kept rows drops each of their rows once,   *)
(* and of two rows of a group at most one is kept.                         *)
LEMMA ReportKeeps ==
    ASSUME ListFits, DroppedOnce, NEW groups, NEW why, Report(groups, why),
           AreGroups(groups, Survivors)
    PROVE  /\ DroppedOnce' /\ represented' \subseteq Rows /\ represented \subseteq represented'
           /\ \A g \in groups : \A i, j \in g : i < j => j \in represented'
<1> DEFINE new == {[members |-> g, reason |-> why] : g \in groups}
           drop(g) == g \ {Min(g)}
<1>1. clusters' = clusters \union new
      /\ represented' = represented \union UNION {drop(g) : g \in groups}
  BY DEF Report
<1>2. Rows \subseteq Nat
  BY DEF ListFits, Rows
<1>3. \A g \in groups : g \subseteq Survivors /\ g \subseteq Nat /\ g # {}
  BY <1>2 DEF AreGroups, Survivors
<1>4. \A g \in groups : Min(g) \in g /\ \A k \in g : Min(g) <= k
  BY <1>3, MinProperties
<1>5. \A c \in new : \E g \in groups : c = [members |-> g, reason |-> why] /\ Drops(c) = drop(g)
  BY DEF Drops
<1>6. \A g \in groups : \E c \in new : Drops(c) = drop(g)
  <2> TAKE g \in groups
  <2> DEFINE c == [members |-> g, reason |-> why]
  <2>1. c \in new /\ c.members = g
    OBVIOUS
  <2>2. Drops(c) = drop(g)
    BY <2>1 DEF Drops
  <2>3. QED BY <2>1, <2>2
<1>7. \A g \in groups : drop(g) \subseteq Survivors
  BY <1>3
<1>8. \A g \in groups : \A i, j \in g : i < j => j \in drop(g)
  <2> TAKE g \in groups
  <2> TAKE i, j \in g
  <2> HAVE i < j
  <2>1. i \in Nat /\ j \in Nat /\ Min(g) \in Nat /\ Min(g) <= i
    BY <1>3, <1>4
  <2>2. QED BY <2>1
<1>9. \A g, h \in groups : drop(g) \intersect drop(h) # {} => g = h
  BY DEF AreGroups
<1> HIDE DEF new, drop
<1>10. \A i \in represented' : \E c \in clusters' : i \in Drops(c)
  <2> TAKE i \in represented'
  <2>1. CASE i \in represented
    BY <2>1, <1>1 DEF DroppedOnce
  <2>2. CASE i \notin represented
    <3>1. PICK g \in groups : i \in drop(g)
      BY <2>2, <1>1
    <3>2. QED BY <3>1, <1>1, <1>6
  <2>3. QED BY <2>1, <2>2
<1>11. \A c \in clusters' : Drops(c) \subseteq represented'
  BY <1>1, <1>5 DEF DroppedOnce
<1>12. \A c, d \in clusters' : Drops(c) \intersect Drops(d) # {} => c = d
  <2> TAKE c, d \in clusters'
  <2> HAVE Drops(c) \intersect Drops(d) # {}
  <2>1. CASE c \in clusters /\ d \in clusters
    BY <2>1 DEF DroppedOnce
  <2>2. \A b \in clusters : Drops(b) \subseteq represented
    BY DEF DroppedOnce
  <2>3. \A b \in new : Drops(b) \intersect represented = {}
    BY <1>5, <1>7 DEF Survivors
  <2>4. CASE c \in new /\ d \in new
    BY <2>4, <1>5, <1>9
  <2>5. QED BY <1>1, <2>1, <2>2, <2>3, <2>4
<1>13. represented' \subseteq Rows
  BY <1>1, <1>7 DEF ListFits, Survivors
<1>14. \A g \in groups : \A i, j \in g : i < j => j \in represented'
  BY <1>1, <1>8
<1>15. QED BY <1>1, <1>10, <1>11, <1>12, <1>13, <1>14 DEF DroppedOnce
LEMMA RowsAreFinite ==
    ASSUME ListFits
    PROVE  /\ Rows \subseteq Nat /\ IsFiniteSet(Rows) /\ IsFiniteSet(Survivors)
           /\ Survivors \subseteq Rows /\ Len(rows) \in Nat /\ Rows = 1 .. Len(rows)
<1>1. PICK n \in Nat : rows \in [1 .. n -> Row]
  BY DEF ListFits
<1>2. IsFiniteSet(1 .. n) /\ Rows = 1 .. n
  BY <1>1, FS_Interval DEF Rows
<1>3. rows \in Seq(Row) /\ Len(rows) = n
  BY <1>1, SeqDef, LenProperties, <1>2 DEF Rows
<1>4. Survivors \subseteq Rows
  BY DEF Survivors
<1>5. IsFiniteSet(Survivors)
  BY <1>2, <1>4, FS_Subset
<1>6. QED BY <1>2, <1>3, <1>4, <1>5

(* The rows do not change, and so neither do the criteria.                 *)
LEMMA CriteriaFixed ==
    ASSUME rows' = rows
    PROVE  \A i, j : /\ SameUrl(i, j)' = SameUrl(i, j) /\ SameHash(i, j)' = SameHash(i, j)
                     /\ Similar(i, j)' = Similar(i, j)
BY DEF SameUrl, SameHash, Similar

LEMMA DedupInitInv == DedupInit => DedupInv
<1> SUFFICES ASSUME DedupInit PROVE DedupInv
  OBVIOUS
<1>1. PICK n \in 0 .. MaxRows : rows \in [1 .. n -> Row]
  BY DEF DedupInit
<1>2. n \in Nat
  BY DedupAssumption
<1>3. ListFits
  BY <1>1, <1>2 DEF DedupInit, ListFits
<1>4. DroppedOnce
  BY DEF DedupInit, DroppedOnce
<1>5. KeptApart
  BY RowsAreFinite, <1>3 DEF DedupInit, KeptApart
<1>6. QED BY <1>3, <1>4, <1>5 DEF DedupInv

LEMMA ByUrlInv ==
    ASSUME DedupInv, ByUrl
    PROVE  DedupInv'
<1> DEFINE groups == Grouped(Rows, Norm)
<1>1. /\ pass = "exact_url" /\ pass' = "content_hash" /\ Report(groups, "exact_url")
      /\ rows' = rows /\ turn' = turn
  BY DEF ByUrl
<1>2. /\ Rows \subseteq Nat /\ IsFiniteSet(Rows) /\ Survivors = Rows
  BY <1>1, RowsAreFinite DEF DedupInv, ListFits, Survivors
<1>3. AreGroups(groups, Survivors)
  BY <1>2, GroupedProperties
<1>4. \A i, j \in Rows : i # j /\ Norm[i] = Norm[j] /\ Norm[i] # Blank =>
        \E g \in groups : i \in g /\ j \in g
  BY <1>2, GroupedProperties
<1> HIDE DEF groups
<1>5. /\ DroppedOnce' /\ represented' \subseteq Rows /\ represented \subseteq represented'
      /\ \A g \in groups : \A i, j \in g : i < j => j \in represented'
  BY <1>1, <1>3, ReportKeeps DEF DedupInv
<1>6. ListFits'
  BY <1>1, <1>5 DEF DedupInv, ListFits, Rows
<1>7. Survivors' = Rows \ represented'
  BY <1>1 DEF Survivors, Rows
<1>8. ASSUME NEW i \in Survivors', NEW j \in Survivors', i < j
      PROVE  ~ SameUrl(i, j)'
  <2> SUFFICES ASSUME SameUrl(i, j)' PROVE FALSE
    OBVIOUS
  <2>1. i \in Rows /\ j \in Rows /\ i # j /\ j \notin represented'
    BY <1>2, <1>7, <1>8
  <2>2. Norm[i] = Norm[j] /\ Norm[i] # Blank
    BY <1>1, <2>1 DEF SameUrl, Norm
  <2>3. QED BY <2>1, <2>2, <1>4, <1>5, <1>8
<1>9. KeptApart'
  BY <1>1, <1>8 DEF KeptApart
<1>10. QED BY <1>5, <1>6, <1>9 DEF DedupInv

LEMMA ByHashInv ==
    ASSUME DedupInv, ByHash
    PROVE  DedupInv'
<1> DEFINE groups == Grouped(Survivors, Hash)
<1>1. /\ pass = "content_hash" /\ pass' = "shingle_overlap" /\ Report(groups, "content_hash")
      /\ rows' = rows /\ turn' = turn /\ turn = 1
  BY DEF ByHash, DedupInv, ListFits
<1>2. Rows \subseteq Nat /\ IsFiniteSet(Survivors)
  BY RowsAreFinite DEF DedupInv
<1>3. AreGroups(groups, Survivors)
  BY <1>2, GroupedProperties
<1>4. \A i, j \in Survivors : i # j /\ Hash[i] = Hash[j] /\ Hash[i] # Blank =>
        \E g \in groups : i \in g /\ j \in g
  BY <1>2, GroupedProperties
<1> HIDE DEF groups
<1>5. /\ DroppedOnce' /\ represented' \subseteq Rows /\ represented \subseteq represented'
      /\ \A g \in groups : \A i, j \in g : i < j => j \in represented'
  BY <1>1, <1>3, ReportKeeps DEF DedupInv
<1>6. ListFits'
  BY <1>1, <1>5 DEF DedupInv, ListFits, Rows
<1>7. Survivors' = Rows \ represented' /\ Survivors' \subseteq Survivors
  BY <1>1, <1>5 DEF Survivors, Rows
<1>8. ASSUME NEW i \in Survivors', NEW j \in Survivors', i < j
      PROVE  ~ SameUrl(i, j)' /\ ~ SameHash(i, j)' /\ ~ (i < turn')
  <2>1. i \in Rows /\ j \in Rows /\ i # j /\ j \notin represented' /\ i \in Survivors /\ j \in Survivors
    BY <1>2, <1>7, <1>8
  <2>2. ~ SameUrl(i, j)
    BY <2>1, <1>1, <1>8 DEF DedupInv, KeptApart
  <2>3. ~ SameUrl(i, j)'
    BY <2>2, <1>1 DEF SameUrl
  <2>4. ASSUME SameHash(i, j)' PROVE FALSE
    <3>1. Hash[i] = Hash[j] /\ Hash[i] # Blank
      BY <1>1, <2>1, <2>4 DEF SameHash, Hash
    <3>2. QED BY <2>1, <3>1, <1>4, <1>5, <1>8
  <2>5. i >= 1
    BY <2>1, RowsAreFinite DEF DedupInv
  <2>6. i \in Nat
    BY <2>1, <1>2
  <2>7. QED BY <2>3, <2>4, <2>5, <2>6, <1>1
<1>9. KeptApart'
  BY <1>1, <1>8 DEF KeptApart
<1>10. QED BY <1>5, <1>6, <1>9 DEF DedupInv

LEMMA ByShinglesInv ==
    ASSUME DedupInv, ByShingles
    PROVE  DedupInv'
<1> DEFINE cluster == {turn} \union {j \in Survivors : j > turn /\ Similar(turn, j)}
           groups == IF turn \in Survivors /\ Cardinality(cluster) > 1 THEN {cluster} ELSE {}
<1>1. /\ pass = "shingle_overlap" /\ pass' = pass /\ Report(groups, "shingle_overlap")
      /\ rows' = rows /\ turn' = turn + 1 /\ turn \in Nat
  BY DEF ByShingles, DedupInv, ListFits
<1>2. Rows \subseteq Nat /\ IsFiniteSet(Survivors) /\ Survivors \subseteq Rows
  BY RowsAreFinite DEF DedupInv
<1>3. AreGroups(groups, Survivors)
  BY DEF AreGroups
<1>4. ASSUME NEW j \in Survivors, turn \in Survivors, turn < j, Similar(turn, j)
      PROVE  \E g \in groups : turn \in g /\ j \in g
  <2>1. cluster \subseteq Survivors
    BY <1>4
  <2>2. IsFiniteSet(cluster)
    BY <2>1, <1>2, FS_Subset
  <2>3. turn \in cluster /\ j \in cluster /\ turn # j
    BY <1>1, <1>2, <1>4
  <2>4. Cardinality(cluster) > 1
    BY <2>2, <2>3, TwoInSet
  <2>5. QED BY <2>3, <2>4, <1>4
<1> HIDE DEF groups, cluster
<1>5. /\ DroppedOnce' /\ represented' \subseteq Rows /\ represented \subseteq represented'
      /\ \A g \in groups : \A i, j \in g : i < j => j \in represented'
  BY <1>1, <1>3, ReportKeeps DEF DedupInv
<1>6. ListFits'
  BY <1>1, <1>5 DEF DedupInv, ListFits, Rows
<1>7. Survivors' = Rows \ represented' /\ Survivors' \subseteq Survivors
  BY <1>1, <1>5 DEF Survivors, Rows
<1>8. ASSUME NEW i \in Survivors', NEW j \in Survivors', i < j
      PROVE  ~ SameUrl(i, j)' /\ ~ SameHash(i, j)' /\ (i < turn' => ~ Similar(i, j)')
  <2>1. i \in Nat /\ j \in Nat /\ j \notin represented' /\ i \in Survivors /\ j \in Survivors
    BY <1>2, <1>7, <1>8
  <2>2. ~ SameUrl(i, j) /\ ~ SameHash(i, j) /\ (i < turn => ~ Similar(i, j))
    BY <2>1, <1>1, <1>8 DEF DedupInv, KeptApart
  <2>3. i = turn => ~ Similar(i, j)
    BY <2>1, <1>4, <1>5, <1>8
  <2>4. i < turn + 1 => i < turn \/ i = turn
    BY <2>1, <1>1
  <2>5. i < turn' => ~ Similar(i, j)
    BY <2>2, <2>3, <2>4, <1>1
  <2>6. (SameUrl(i, j)' <=> SameUrl(i, j)) /\ (SameHash(i, j)' <=> SameHash(i, j))
    BY <1>1 DEF SameUrl, SameHash
  <2>7. Similar(i, j)' <=> Similar(i, j)
    BY <1>1 DEF Similar
  <2>8. QED BY <2>2, <2>5, <2>6, <2>7
<1>9. KeptApart'
  BY <1>8 DEF KeptApart
<1>10. QED BY <1>5, <1>6, <1>9 DEF DedupInv

LEMMA DedupEndsInv ==
    ASSUME DedupInv, DedupEnds
    PROVE  DedupInv'
<1>1. /\ pass = "shingle_overlap" /\ pass' = "done" /\ turn > Len(rows) /\ rows' = rows
      /\ turn' = turn /\ represented' = represented /\ clusters' = clusters
  BY DEF DedupEnds
<1>2. ListFits'
  BY <1>1 DEF DedupInv, ListFits, Rows
<1>3. DroppedOnce'
  BY <1>1 DEF DedupInv, DroppedOnce
<1>4. KeptApart'
  <2>1. Survivors' = Survivors
    BY <1>1 DEF Survivors, Rows
  <2>2. QED BY <2>1, <1>1, CriteriaFixed DEF DedupInv, KeptApart
<1>5. QED BY <1>2, <1>3, <1>4 DEF DedupInv

LEMMA UrlRaisesInv ==
    ASSUME DedupInv, UrlRaises
    PROVE  DedupInv'
<1>1. /\ pass = "exact_url" /\ pass' = "raised" /\ rows' = rows
      /\ turn' = turn /\ represented' = represented /\ clusters' = clusters
  BY DEF UrlRaises
<1>2. ListFits'
  BY <1>1 DEF DedupInv, ListFits, Rows
<1>3. DroppedOnce'
  BY <1>1 DEF DedupInv, DroppedOnce
<1>4. KeptApart'
  BY <1>1 DEF KeptApart
<1>5. QED BY <1>2, <1>3, <1>4 DEF DedupInv

(* Likeness has no direction.                                              *)
LEMMA AlikeIsSymmetric == \A i, j : Alike(i, j) => Alike(j, i)
<1> TAKE i, j
<1>1. SameUrl(i, j) => SameUrl(j, i)
  BY DEF SameUrl
<1>2. SameHash(i, j) => SameHash(j, i)
  BY DEF SameHash
<1>3. Similar(i, j) => Similar(j, i)
  <2> DEFINE a == rows[i].grams  b == rows[j].grams
  <2>1. a \intersect b = b \intersect a /\ a \union b = b \union a
    OBVIOUS
  <2>2. QED BY <2>1 DEF Similar
<1>4. QED BY <1>1, <1>2, <1>3 DEF Alike

LEMMA DedupInvImplies == DedupInv => DuplicatesRepresented
<1> SUFFICES ASSUME DedupInv, pass = "done" PROVE DuplicatesRepresented
  BY DEF DuplicatesRepresented
<1>1. ASSUME NEW i \in represented
      PROVE  Cardinality({c \in clusters : i \in c.members /\ i # Min(c.members)}) = 1
  <2> DEFINE by == {c \in clusters : i \in c.members /\ i # Min(c.members)}
  <2>1. \A c \in clusters : c \in by <=> i \in Drops(c)
    BY DEF Drops
  <2>2. PICK c \in clusters : i \in Drops(c)
    BY DEF DedupInv, DroppedOnce
  <2>3. \A d \in clusters : i \in Drops(d) => d = c
    BY <2>2 DEF DedupInv, DroppedOnce
  <2>4. by = {c}
    BY <2>1, <2>2, <2>3
  <2>5. QED BY <2>4, FS_Singleton
<1>2. ASSUME NEW i \in Survivors, NEW j \in Survivors, i < j
      PROVE  ~ Alike(i, j)
  <2>1. i <= Len(rows) /\ Len(rows) \in Nat /\ i \in Nat /\ turn \in Nat /\ turn > Len(rows)
    BY RowsAreFinite DEF DedupInv, ListFits
  <2>2. i < turn
    BY <2>1
  <2>3. QED BY <2>2, <1>2 DEF DedupInv, KeptApart, Alike
<1>3. \A i, j \in Survivors : i # j => i < j \/ j < i
  BY RowsAreFinite DEF DedupInv
<1>4. \A i, j \in Survivors : i # j => ~ Alike(i, j)
  BY <1>2, <1>3, AlikeIsSymmetric
<1>5. QED BY <1>1, <1>4 DEF DuplicatesRepresented

(* quality.py, deduplicate: for every list of rows and every threshold, a  *)
(* dropped row is reported in exactly one cluster that it does not head,   *)
(* and no two rows that are kept are alike by any of the three criteria,   *)
(* though likeness of excerpts is not transitive and each pass sees only   *)
(* what the one before it left.                                            *)
THEOREM DuplicatesAccounted == DedupSpec => []DuplicatesRepresented
<1>1. DedupInit => DedupInv
  BY DedupInitInv
<1>2. DedupInv /\ [DedupNext]_dedupVars => DedupInv'
  <2> SUFFICES ASSUME DedupInv, [DedupNext]_dedupVars PROVE DedupInv'
    OBVIOUS
  <2>1. CASE ByUrl
    BY <2>1, ByUrlInv
  <2>2. CASE ByHash
    BY <2>2, ByHashInv
  <2>3. CASE ByShingles
    BY <2>3, ByShinglesInv
  <2>4. CASE DedupEnds
    BY <2>4, DedupEndsInv
  <2>5. CASE UNCHANGED dedupVars
    <3>1. /\ rows' = rows /\ pass' = pass /\ turn' = turn /\ represented' = represented
          /\ clusters' = clusters
      BY <2>5 DEF dedupVars
    <3>2. Survivors' = Survivors
      BY <3>1 DEF Survivors, Rows
    <3>3. KeptApart'
      BY <3>1, <3>2, CriteriaFixed DEF DedupInv, KeptApart
    <3>4. ListFits' /\ DroppedOnce'
      BY <3>1 DEF DedupInv, ListFits, DroppedOnce, Rows
    <3>5. QED BY <3>3, <3>4 DEF DedupInv
  <2>6. CASE UrlRaises
    BY <2>6, UrlRaisesInv
  <2>7. QED BY <2>1, <2>2, <2>3, <2>4, <2>5, <2>6 DEF DedupNext
<1>3. DedupInv => DuplicatesRepresented
  BY DedupInvImplies
<1>4. QED BY <1>1, <1>2, <1>3, PTL DEF DedupSpec

-----------------------------------------------------------------------------
(* app.research and the tools around it.                                   *)

(* The packet of a research that fetches: the search, then the pages of    *)
(* the ranks it is past, in their order, but for those it skipped.         *)
Collected(t) ==
    LET past == DOMAIN t.picked \ t.todo
    IN  /\ \A r, s \in DOMAIN t.picked : t.picked[r] = t.picked[s] => r = s
        /\ t.todo \subseteq DOMAIN t.picked
        /\ \A r \in past, s \in t.todo : r < s
        /\ Len(t.packet) >= 1 /\ t.packet[1] = Engine
        /\ t.skipped \subseteq {t.picked[r] : r \in past}
        /\ \A k \in 2 .. Len(t.packet) :
             \E r \in past : t.packet[k] = t.picked[r] /\ t.picked[r] \notin t.skipped
        /\ \A r \in past : t.picked[r] \notin t.skipped =>
             \E k \in 2 .. Len(t.packet) : t.packet[k] = t.picked[r]
        /\ \A k, l \in 2 .. Len(t.packet) : \A r, s \in past :
             k < l /\ t.packet[k] = t.picked[r] /\ t.packet[l] = t.picked[s] => r < s

Stored(c) == [by |-> c, call |-> task[c].call, of |-> task[c].packet]

(* What is in the store of a client's research: nothing before its end,    *)
(* and then its packet, or the warning that it is missing.                 *)
Settled(c) ==
    /\ task[c].stage \in {"fetch", "returned"} => Collected(task[c])
    /\ task[c].stage = "search" => task[c].skipped = {}
    /\ task[c].stage \in {"search", "fetch"} =>
         \A e \in evidence : e.by = c => e.call # task[c].call
    /\ task[c].stage \in {"search", "fetch", "returned"} => task[c].call <= tools[c]
    /\ task[c].stage = "returned" =>
         /\ task[c].todo = {}
         /\ \A e \in evidence : e.by = c /\ e.call = task[c].call => e = Stored(c)
         /\ task[c].persist => (Stored(c) \in evidence) # task[c].unstored

EvidenceDated ==
    \A e \in evidence : e.by \in Clients /\ e.call \in Nat /\ e.call <= tools[e.by]

ResearchInv == ResearchTypeOK /\ EvidenceDated /\ \A c \in Clients : Settled(c)

(* A packet that has been collected to the end is the one promised.        *)
LEMMA CollectedHolds ==
    ASSUME ResearchAssumption, NEW t \in Task, Collected(t), t.todo = {}
    PROVE  HoldsPicked(t)
<1> DEFINE past == DOMAIN t.picked
<1>1. /\ \A r, s \in past : t.picked[r] = t.picked[s] => r = s
      /\ Len(t.packet) >= 1 /\ t.packet[1] = Engine
      /\ t.skipped \subseteq {t.picked[r] : r \in past}
      /\ \A k \in 2 .. Len(t.packet) :
           \E r \in past : t.packet[k] = t.picked[r] /\ t.picked[r] \notin t.skipped
      /\ \A r \in past : t.picked[r] \notin t.skipped =>
           \E k \in 2 .. Len(t.packet) : t.packet[k] = t.picked[r]
      /\ \A k, l \in 2 .. Len(t.packet) : \A r, s \in past :
           k < l /\ t.packet[k] = t.picked[r] /\ t.packet[l] = t.picked[s] => r < s
  BY DEF Collected
<1>2. /\ t.packet \in Seq(Pages \union {Engine}) /\ t.picked \in Picks
  BY DEF Task
<1>3. DOMAIN t.packet = 1 .. Len(t.packet) /\ Len(t.packet) \in Nat
  BY <1>2, LenProperties
<1>4. \A r \in past : r \in Nat /\ t.picked[r] \in Pages /\ t.picked[r] # Engine
  <2>1. PICK ranks \in SUBSET (1 .. MaxResults) : t.picked \in [ranks -> Pages]
    BY <1>2 DEF Picks
  <2>2. past = ranks /\ ranks \subseteq Nat
    BY <2>1
  <2>3. QED BY <2>1, <2>2 DEF ResearchAssumption
<1> HIDE DEF past
<1>5. t.packet # <<>>
  BY <1>1, <1>2, EmptySeq
<1>6. Range(t.packet) = {Engine} \union {t.picked[r] : r \in {s \in past : t.picked[s] \notin t.skipped}}
  <2>1. ASSUME NEW k \in DOMAIN t.packet
        PROVE  t.packet[k] \in {Engine} \union
                 {t.picked[r] : r \in {s \in past : t.picked[s] \notin t.skipped}}
    <3>1. k = 1 \/ k \in 2 .. Len(t.packet)
      BY <1>3
    <3>2. QED BY <3>1, <1>1
  <2>2. Engine \in Range(t.packet)
    BY <1>1, <1>3 DEF Range
  <2>3. ASSUME NEW r \in past, t.picked[r] \notin t.skipped
        PROVE  t.picked[r] \in Range(t.packet)
    <3>1. PICK k \in 2 .. Len(t.packet) : t.packet[k] = t.picked[r]
      BY <1>1, <2>3
    <3>2. k \in DOMAIN t.packet
      BY <1>3
    <3>3. QED BY <3>1, <3>2 DEF Range
  <2>4. QED BY <2>1, <2>2, <2>3 DEF Range
<1>7. {t.picked[r] : r \in {s \in past : t.picked[s] \notin t.skipped}} = Range(t.picked) \ t.skipped
  BY DEF Range, past
<1>8. ASSUME NEW k \in DOMAIN t.packet, NEW l \in DOMAIN t.packet, k < l
      PROVE  t.packet[k] # t.packet[l]
  <2>1. l \in 2 .. Len(t.packet) /\ (k = 1 \/ k \in 2 .. Len(t.packet))
    BY <1>3, <1>8
  <2>2. PICK s \in past : t.packet[l] = t.picked[s]
    BY <1>1, <2>1
  <2>3. CASE k = 1
    BY <2>3, <2>2, <1>1, <1>4
  <2>4. CASE k \in 2 .. Len(t.packet)
    <3>1. PICK r \in past : t.packet[k] = t.picked[r]
      BY <1>1, <2>4
    <3>2. r < s
      BY <1>1, <1>8, <2>1, <2>2, <2>4, <3>1
    <3>3. r # s
      BY <3>2, <1>4
    <3>4. QED BY <3>1, <3>3, <2>2, <1>1
  <2>5. QED BY <2>1, <2>3, <2>4
<1>9. IsInjective(t.packet)
  BY <1>3, <1>8 DEF IsInjective
<1>10. ASSUME NEW k \in DOMAIN t.packet, NEW l \in DOMAIN t.packet, NEW r \in past, NEW s \in past,
              t.packet[k] = t.picked[r], t.packet[l] = t.picked[s]
       PROVE  k < l <=> r < s
  <2>1. k # 1 /\ l # 1
    BY <1>1, <1>4, <1>10
  <2>2. k \in 2 .. Len(t.packet) /\ l \in 2 .. Len(t.packet)
    BY <1>3, <2>1
  <2>3. k < l => r < s
    BY <1>1, <1>10, <2>2
  <2>4. l < k => s < r
    BY <1>1, <1>10, <2>2
  <2>5. k = l => r = s
    BY <1>1, <1>10
  <2>6. k \in Nat /\ l \in Nat /\ r \in Nat /\ s \in Nat
    BY <1>4, <2>2
  <2>7. QED BY <2>3, <2>4, <2>5, <2>6
<1>11. QED BY <1>1, <1>5, <1>6, <1>7, <1>9, <1>10 DEF HoldsPicked, past

(* The pages picked from a list of results are distinct.                   *)
LEMMA PickProperties ==
    ASSUME ResearchAssumption, NEW results \in ResultLists
    PROVE  /\ Pick(results) \in Picks
           /\ \A r, s \in DOMAIN Pick(results) : Pick(results)[r] = Pick(results)[s] => r = s
<1> DEFINE urls == Distinct(results)
           top == {r \in urls : Cardinality({s \in urls : s <= r}) <= MaxSources}
<1>1. PICK n \in 0 .. MaxResults : results \in [1 .. n -> Pages \union {NoPage}]
  BY DEF ResultLists
<1>2. Pick(results) = [r \in top |-> results[r]]
  BY DEF Pick
<1>3. top \subseteq urls
  OBVIOUS
<1> HIDE DEF top
<1>4. \A r \in urls : r \in 1 .. n /\ results[r] \in Pages /\ \A s \in 1 .. r - 1 : results[s] # results[r]
  BY <1>1 DEF Distinct
<1>5. 1 .. n \subseteq 1 .. MaxResults
  BY <1>1 DEF ResearchAssumption
<1>6. Pick(results) \in [top -> Pages] /\ top \in SUBSET (1 .. MaxResults)
  BY <1>2, <1>3, <1>4, <1>5
<1>7. Pick(results) \in Picks
  BY <1>6 DEF Picks
<1>8. ASSUME NEW r \in top, NEW s \in top, r < s
      PROVE  results[r] # results[s]
  <2>1. r \in 1 .. s - 1
    BY <1>3, <1>4, <1>8
  <2>2. QED BY <2>1, <1>3, <1>4
<1>9. \A r, s \in top : r # s => r < s \/ s < r
  BY <1>3, <1>4
<1>10. QED BY <1>2, <1>7, <1>8, <1>9

(* What one client does disturbs no other client's research.               *)
LEMMA OthersKept ==
    ASSUME ResearchInv, NEW c \in Clients, ResearchTypeOK',
           \A d \in Clients \ {c} : task'[d] = task[d] /\ tools'[d] = tools[d],
           evidence \subseteq evidence',
           \A e \in evidence' \ evidence : e.by = c /\ e.call \in Nat /\ e.call <= tools'[c],
           tools[c] <= tools'[c], Settled(c)'
    PROVE  ResearchInv'
<1>1. \A d \in Clients : tools[d] \in Nat /\ tools'[d] \in Nat /\ tools[d] <= tools'[d]
  BY ResearchAssumption DEF ResearchInv, ResearchTypeOK
<1>2. EvidenceDated'
  <2> SUFFICES ASSUME NEW e \in evidence' PROVE e.by \in Clients /\ e.call \in Nat /\ e.call <= tools'[e.by]
    BY DEF EvidenceDated
  <2>1. CASE e \in evidence
    <3>1. e.by \in Clients /\ e.call \in Nat /\ e.call <= tools[e.by]
      BY <2>1 DEF ResearchInv, EvidenceDated
    <3>2. QED BY <3>1, <1>1
  <2>2. CASE e \notin evidence
    BY <2>2
  <2>3. QED BY <2>1, <2>2
<1>3. ASSUME NEW d \in Clients, d # c
      PROVE  Settled(d)'
  <2>1. task'[d] = task[d] /\ tools'[d] = tools[d] /\ Settled(d)
    BY <1>3 DEF ResearchInv
  <2>2. \A e \in evidence' : e.by = d => e \in evidence
    BY <1>3
  <2>3. Stored(d)' = Stored(d) /\ Stored(d).by = d
    BY <2>1 DEF Stored
  <2>4. Stored(d)' \in evidence' <=> Stored(d) \in evidence
    BY <2>2, <2>3
  <2>5. QED BY <2>1, <2>2, <2>3, <2>4 DEF Settled
<1>4. QED BY <1>2, <1>3 DEF ResearchInv

(* The loop of research(): the page of its turn is fetched, or skipped.    *)
LEMMA TurnProperties ==
    ASSUME NEW t \in Task, Collected(t), NEW r \in t.todo, \A s \in t.todo : r <= s
    PROVE  LET past == DOMAIN t.picked \ t.todo
           IN  /\ DOMAIN t.picked \ (t.todo \ {r}) = past \union {r}
               /\ \A q \in past \union {r}, s \in t.todo \ {r} : q < s
               /\ \A q \in past : q < r /\ t.picked[q] # t.picked[r]
               /\ t.picked[r] \in Pages /\ t.picked[r] \notin t.skipped
<1> DEFINE past == DOMAIN t.picked \ t.todo
<1>1. /\ \A q, s \in DOMAIN t.picked : t.picked[q] = t.picked[s] => q = s
      /\ t.todo \subseteq DOMAIN t.picked
      /\ \A q \in past, s \in t.todo : q < s
      /\ t.skipped \subseteq {t.picked[q] : q \in past}
  BY DEF Collected
<1>2. t.picked \in Picks
  BY DEF Task
<1>3. PICK ranks \in SUBSET (1 .. MaxResults) : t.picked \in [ranks -> Pages]
  BY <1>2 DEF Picks
<1>4. DOMAIN t.picked \subseteq Nat /\ t.picked[r] \in Pages
  <2>1. DOMAIN t.picked = ranks /\ r \in ranks
    BY <1>1, <1>3
  <2>2. QED BY <2>1, <1>3
<1>5. \A s \in t.todo \ {r} : r < s
  BY <1>1, <1>4
<1>6. QED BY <1>1, <1>4, <1>5

LEMMA FetchCollects ==
    ASSUME NEW t \in Task, Collected(t), NEW r \in t.todo, \A s \in t.todo : r <= s,
           NEW u \in Task, u.picked = t.picked, u.skipped = t.skipped,
           u.packet = Append(t.packet, t.picked[r]), u.todo = t.todo \ {r}
    PROVE  Collected(u)
<1> DEFINE past == DOMAIN t.picked \ t.todo  len == Len(t.packet)
<1>1. /\ \A q, s \in DOMAIN t.picked : t.picked[q] = t.picked[s] => q = s
      /\ t.todo \subseteq DOMAIN t.picked
      /\ len >= 1 /\ t.packet[1] = Engine
      /\ t.skipped \subseteq {t.picked[q] : q \in past}
      /\ \A k \in 2 .. len :
           \E q \in past : t.packet[k] = t.picked[q] /\ t.picked[q] \notin t.skipped
      /\ \A q \in past : t.picked[q] \notin t.skipped =>
           \E k \in 2 .. len : t.packet[k] = t.picked[q]
      /\ \A k, l \in 2 .. len : \A q, s \in past :
           k < l /\ t.packet[k] = t.picked[q] /\ t.packet[l] = t.picked[s] => q < s
  BY DEF Collected
<1>2. /\ DOMAIN t.picked \ (t.todo \ {r}) = past \union {r}
      /\ \A q \in past \union {r}, s \in t.todo \ {r} : q < s
      /\ \A q \in past : q < r /\ t.picked[q] # t.picked[r]
      /\ t.picked[r] \in Pages /\ t.picked[r] \notin t.skipped
  BY TurnProperties
<1>3. t.packet \in Seq(Pages \union {Engine}) /\ t.picked[r] \in Pages \union {Engine}
  BY <1>2 DEF Task
<1>4. len \in Nat /\ DOMAIN t.packet = 1 .. len
  BY <1>3, LenProperties
<1>5. /\ Len(u.packet) = len + 1
      /\ \A k \in 1 .. len : u.packet[k] = t.packet[k]
      /\ u.packet[len + 1] = t.picked[r]
  BY <1>3, <1>4, AppendProperties
<1> HIDE DEF past, len
<1>6. u.packet[1] = Engine /\ Len(u.packet) >= 1
  BY <1>1, <1>4, <1>5
<1>7. \A k \in 2 .. Len(u.packet) : k \in 2 .. len \/ k = len + 1
  BY <1>4, <1>5
<1>8. \A k \in 2 .. len : k \in 1 .. len /\ k \in 2 .. Len(u.packet)
  BY <1>4, <1>5
<1>9. ASSUME NEW k \in 2 .. Len(u.packet)
      PROVE  \E q \in past \union {r} : u.packet[k] = t.picked[q] /\ t.picked[q] \notin t.skipped
  <2>1. CASE k \in 2 .. len
    BY <2>1, <1>1, <1>5, <1>8
  <2>2. CASE k = len + 1
    BY <2>2, <1>2, <1>5
  <2>3. QED BY <2>1, <2>2, <1>7
<1>10. ASSUME NEW q \in past \union {r}, t.picked[q] \notin t.skipped
       PROVE  \E k \in 2 .. Len(u.packet) : u.packet[k] = t.picked[q]
  <2>1. CASE q \in past
    BY <2>1, <1>1, <1>5, <1>8, <1>10
  <2>2. CASE q = r
    <3>1. len + 1 \in 2 .. Len(u.packet)
      BY <1>1, <1>4, <1>5
    <3>2. QED BY <3>1, <2>2, <1>5
  <2>3. QED BY <2>1, <2>2
<1>11. \A k \in 2 .. len : u.packet[k] # t.picked[r]
  <2> TAKE k \in 2 .. len
  <2>1. PICK q \in past : t.packet[k] = t.picked[q]
    BY <1>1
  <2>2. QED BY <2>1, <1>2, <1>5, <1>8
<1>12. ASSUME NEW k \in 2 .. Len(u.packet), NEW l \in 2 .. Len(u.packet),
              NEW q \in past \union {r}, NEW s \in past \union {r},
              k < l, u.packet[k] = t.picked[q], u.packet[l] = t.picked[s]
       PROVE  q < s
  <2>1. k \in 2 .. len
    BY <1>4, <1>5, <1>12
  <2>2. q \in past
    BY <2>1, <1>11, <1>12
  <2>3. CASE l \in 2 .. len
    <3>1. s \in past
      BY <2>3, <1>11, <1>12
    <3>2. t.packet[k] = t.picked[q] /\ t.packet[l] = t.picked[s]
      BY <2>1, <2>3, <1>5, <1>8, <1>12
    <3>3. \A e, f \in past :
             t.packet[k] = t.picked[e] /\ t.packet[l] = t.picked[f] => e < f
      BY <2>1, <2>3, <1>1, <1>12
    <3>4. QED BY <2>2, <3>1, <3>2, <3>3
  <2>4. CASE l = len + 1
    <3>1. s = r
      BY <2>4, <1>2, <1>5, <1>12
    <3>2. QED BY <3>1, <2>2, <1>2
  <2>5. QED BY <2>3, <2>4, <1>7
<1>13. DOMAIN u.picked \ u.todo = past \union {r}
  BY <1>2
<1>14. u.skipped \subseteq {u.picked[q] : q \in past \union {r}}
  BY <1>1
<1>15. u.todo \subseteq DOMAIN u.picked
  BY <1>1
<1>16. \A q \in past \union {r}, s \in u.todo : q < s
  BY <1>2
<1>17. \A q, s \in DOMAIN u.picked : u.picked[q] = u.picked[s] => q = s
  BY <1>1
<1>18. \A k \in 2 .. Len(u.packet) :
         \E q \in past \union {r} : u.packet[k] = u.picked[q] /\ u.picked[q] \notin u.skipped
  BY <1>9
<1>19. \A q \in past \union {r} : u.picked[q] \notin u.skipped =>
         \E k \in 2 .. Len(u.packet) : u.packet[k] = u.picked[q]
  BY <1>10
<1>20. \A k, l \in 2 .. Len(u.packet) : \A q, s \in past \union {r} :
         k < l /\ u.packet[k] = u.picked[q] /\ u.packet[l] = u.picked[s] => q < s
  BY <1>12
<1>21. QED BY <1>6, <1>13, <1>14, <1>15, <1>16, <1>17, <1>18, <1>19, <1>20 DEF Collected

LEMMA SkipCollects ==
    ASSUME NEW t \in Task, Collected(t), NEW r \in t.todo, \A s \in t.todo : r <= s,
           NEW u \in Task, u.picked = t.picked, u.skipped = t.skipped \union {t.picked[r]},
           u.packet = t.packet, u.todo = t.todo \ {r}
    PROVE  Collected(u)
<1> DEFINE past == DOMAIN t.picked \ t.todo  len == Len(t.packet)
<1>1. /\ \A q, s \in DOMAIN t.picked : t.picked[q] = t.picked[s] => q = s
      /\ t.todo \subseteq DOMAIN t.picked
      /\ len >= 1 /\ t.packet[1] = Engine
      /\ t.skipped \subseteq {t.picked[q] : q \in past}
      /\ \A k \in 2 .. len :
           \E q \in past : t.packet[k] = t.picked[q] /\ t.picked[q] \notin t.skipped
      /\ \A q \in past : t.picked[q] \notin t.skipped =>
           \E k \in 2 .. len : t.packet[k] = t.picked[q]
      /\ \A k, l \in 2 .. len : \A q, s \in past :
           k < l /\ t.packet[k] = t.picked[q] /\ t.packet[l] = t.picked[s] => q < s
  BY DEF Collected
<1>2. /\ DOMAIN t.picked \ (t.todo \ {r}) = past \union {r}
      /\ \A q \in past \union {r}, s \in t.todo \ {r} : q < s
      /\ \A q \in past : q < r /\ t.picked[q] # t.picked[r]
      /\ t.picked[r] \in Pages /\ t.picked[r] \notin t.skipped
  BY TurnProperties
<1> HIDE DEF past, len
<1>3. \A k \in 2 .. len : t.packet[k] # t.picked[r]
  <2> TAKE k \in 2 .. len
  <2>1. PICK q \in past : t.packet[k] = t.picked[q]
    BY <1>1
  <2>2. QED BY <2>1, <1>2
<1>4. \A k \in 2 .. len :
        \E q \in past \union {r} : u.packet[k] = u.picked[q] /\ u.picked[q] \notin u.skipped
  BY <1>1, <1>2
<1>5. \A q \in past \union {r} : u.picked[q] \notin u.skipped =>
        \E k \in 2 .. len : u.packet[k] = u.picked[q]
  BY <1>1
<1>6. \A k, l \in 2 .. len : \A q, s \in past \union {r} :
        k < l /\ u.packet[k] = u.picked[q] /\ u.packet[l] = u.picked[s] => q < s
  BY <1>1, <1>3
<1>7. u.skipped \subseteq {u.picked[q] : q \in past \union {r}}
  BY <1>1
<1>8. DOMAIN u.picked \ u.todo = past \union {r}
  BY <1>2
<1>9. QED BY <1>1, <1>2, <1>4, <1>5, <1>6, <1>7, <1>8 DEF Collected, len

LEMMA NoTaskType == NoTask \in Task
<1>1. NoTask.picked \in [{} -> Pages] /\ {} \in SUBSET (1 .. MaxResults)
  BY DEF NoTask
<1>2. NoTask.picked \in Picks
  BY <1>1 DEF Picks
<1>3. <<>> \in Seq(Pages \union {Engine})
  OBVIOUS
<1>4. QED BY <1>2, <1>3 DEF NoTask, Task

LEMMA ResearchInitInv == ResearchInit => ResearchInv
<1> SUFFICES ASSUME ResearchInit PROVE ResearchInv
  OBVIOUS
<1>1. ResearchTypeOK
  BY NoTaskType, ResearchAssumption DEF ResearchInit, ResearchTypeOK
<1>2. EvidenceDated
  BY DEF ResearchInit, EvidenceDated
<1>3. \A c \in Clients : task[c].stage = "idle"
  BY DEF ResearchInit, NoTask
<1>4. QED BY <1>1, <1>2, <1>3 DEF ResearchInv, Settled

LEMMA StartInv ==
    ASSUME ResearchInv, NEW c \in Clients, NEW persist \in BOOLEAN, Start(c, persist)
    PROVE  ResearchInv'
<1> DEFINE u == [NoTask EXCEPT !.stage = "search", !.persist = persist, !.call = tools[c] + 1]
<1>1. /\ task' = [task EXCEPT ![c] = u] /\ tools' = [tools EXCEPT ![c] = @ + 1]
      /\ tools[c] < MaxTools /\ evidence' = evidence /\ seen' = seen
  BY DEF Start, BeginTool, Free
<1>2. /\ task \in [Clients -> Task] /\ tools \in [Clients -> 0 .. MaxTools] /\ MaxTools \in Nat
      /\ tools[c] \in Nat
  BY ResearchAssumption DEF ResearchInv, ResearchTypeOK
<1>3. u \in Task
  <2> DEFINE fresh == NoTask
  <2>1. fresh \in Task /\ tools[c] + 1 \in Nat
    BY NoTaskType, <1>2
  <2> HIDE DEF fresh
  <2>2. [fresh EXCEPT !.stage = "search", !.persist = persist, !.call = tools[c] + 1] \in Task
    BY <2>1 DEF Task
  <2>3. QED BY <2>2 DEF fresh
<1>4. u.stage = "search" /\ u.skipped = {} /\ u.call = tools[c] + 1
  BY DEF NoTask
<1> HIDE DEF u
<1>5. task' \in [Clients -> Task] /\ tools' \in [Clients -> 0 .. MaxTools]
  BY <1>1, <1>2, <1>3
<1>6. ResearchTypeOK'
  BY <1>1, <1>5 DEF ResearchInv, ResearchTypeOK
<1>7. task'[c] = u /\ tools'[c] = tools[c] + 1
  BY <1>1, <1>2
<1>8. \A e \in evidence : e.by = c => e.call \in Nat /\ e.call <= tools[c]
  BY DEF ResearchInv, EvidenceDated
<1>9. \A e \in evidence : e.by = c => e.call # u.call
  BY <1>2, <1>4, <1>8
<1>10. Settled(c)'
  BY <1>1, <1>2, <1>4, <1>7, <1>9 DEF Settled
<1>11. \A d \in Clients \ {c} : task'[d] = task[d] /\ tools'[d] = tools[d]
  BY <1>1, <1>2
<1>12. tools[c] <= tools'[c]
  BY <1>2, <1>7
<1>13. QED BY <1>1, <1>6, <1>10, <1>11, <1>12, OthersKept

(* A step of a client's research that leaves the store and the counters.   *)
LEMMA TaskStepInv ==
    ASSUME ResearchInv, NEW c \in Clients, NEW u \in Task, task' = [task EXCEPT ![c] = u],
           UNCHANGED <<evidence, seen, tools>>, u.call = task[c].call,
           task[c].stage \in {"search", "fetch"}, u.stage \in {"fetch", "raised"},
           u.stage = "fetch" => Collected(u)
    PROVE  ResearchInv'
<1>1. evidence' = evidence /\ seen' = seen /\ tools' = tools
  OBVIOUS
<1>2. task \in [Clients -> Task] /\ tools \in [Clients -> 0 .. MaxTools] /\ Settled(c)
  BY DEF ResearchInv, ResearchTypeOK
<1>3. task'[c] = u /\ task' \in [Clients -> Task]
  BY <1>2
<1>4. ResearchTypeOK'
  BY <1>1, <1>3 DEF ResearchInv, ResearchTypeOK
<1>5. /\ \A e \in evidence : e.by = c => e.call # u.call
      /\ u.call <= tools[c]
  BY <1>2 DEF Settled
<1>6. Settled(c)'
  BY <1>1, <1>3, <1>5 DEF Settled
<1>7. \A d \in Clients \ {c} : task'[d] = task[d] /\ tools'[d] = tools[d]
  BY <1>1, <1>2
<1>8. tools[c] <= tools'[c]
  BY <1>1, <1>2, ResearchAssumption
<1>9. QED BY <1>1, <1>4, <1>6, <1>7, <1>8, OthersKept

LEMMA SearchAnswersInv ==
    ASSUME ResearchInv, NEW c \in Clients, NEW results \in ResultLists, NEW fallback \in BOOLEAN,
           SearchAnswers(c, results, fallback)
    PROVE  ResearchInv'
<1> DEFINE picked == IF fallback THEN NoTask.picked ELSE Pick(results)
           u == [task[c] EXCEPT !.stage = "fetch", !.packet = <<Engine>>, !.picked = picked,
                                !.todo = DOMAIN picked]
<1>1. task \in [Clients -> Task] /\ Settled(c) /\ task[c].stage = "search"
  BY DEF ResearchInv, ResearchTypeOK, SearchAnswers
<1>2. task[c] \in Task
  BY <1>1
<1>3. /\ picked \in Picks
      /\ \A r, s \in DOMAIN picked : picked[r] = picked[s] => r = s
  <2>1. CASE fallback
    <3>1. NoTask.picked \in Picks /\ DOMAIN NoTask.picked = {}
      BY NoTaskType DEF Task, NoTask
    <3>2. QED BY <3>1, <2>1
  <2>2. CASE ~ fallback
    BY <2>2, PickProperties, ResearchAssumption
  <2>3. QED BY <2>1, <2>2
<1>4. task' = [task EXCEPT ![c] = u] /\ UNCHANGED <<evidence, seen, tools>>
  BY <1>1 DEF SearchAnswers
<1> HIDE DEF picked
<1>5. <<Engine>> \in Seq(Pages \union {Engine}) /\ Len(<<Engine>>) = 1 /\ <<Engine>>[1] = Engine
  OBVIOUS
<1>6. DOMAIN picked \in SUBSET (1 .. MaxResults)
  BY <1>3 DEF Picks
<1>7. u \in Task
  BY <1>2, <1>3, <1>5, <1>6 DEF Task
<1>8. /\ u.stage = "fetch" /\ u.packet = <<Engine>> /\ u.picked = picked
      /\ u.todo = DOMAIN picked /\ u.skipped = {} /\ u.call = task[c].call
  BY <1>1, <1>2 DEF Task, Settled
<1> HIDE DEF u
<1>9. Collected(u)
  BY <1>3, <1>5, <1>8 DEF Collected
<1>10. QED BY <1>1, <1>4, <1>7, <1>8, <1>9, TaskStepInv

LEMMA SearchRaisesInv ==
    ASSUME ResearchInv, NEW c \in Clients, SearchRaises(c)
    PROVE  ResearchInv'
<1> DEFINE u == [task[c] EXCEPT !.stage = "raised"]
<1>1. task \in [Clients -> Task] /\ task[c] \in Task /\ task[c].stage = "search"
  BY DEF ResearchInv, ResearchTypeOK, SearchRaises
<1>2. task' = [task EXCEPT ![c] = u] /\ UNCHANGED <<evidence, seen, tools>>
  BY <1>1 DEF SearchRaises
<1>3. u \in Task /\ u.call = task[c].call /\ u.stage = "raised"
  BY <1>1 DEF Task
<1>4. QED BY <1>1, <1>2, <1>3, TaskStepInv

LEMMA FetchTurnInv ==
    ASSUME ResearchInv, NEW c \in Clients, NEW r, FetchAnswers(c, r) \/ FetchRaises(c, r)
    PROVE  ResearchInv'
<1> DEFINE t == task[c]
           fetched == [t EXCEPT !.packet = Append(@, t.picked[r]), !.todo = @ \ {r}]
           passed == [t EXCEPT !.skipped = @ \union {t.picked[r]}, !.todo = @ \ {r}]
<1>1. /\ task \in [Clients -> Task] /\ t \in Task /\ t.stage = "fetch" /\ Collected(t)
      /\ r \in t.todo /\ \A s \in t.todo : r <= s
  BY DEF ResearchInv, ResearchTypeOK, Settled, FetchAnswers, FetchRaises, Turn
<1>2. t.picked[r] \in Pages
  BY <1>1, TurnProperties
<1>3. CASE FetchAnswers(c, r)
  <2>1. task' = [task EXCEPT ![c] = fetched] /\ UNCHANGED <<evidence, seen, tools>>
    BY <1>1, <1>3 DEF FetchAnswers
  <2>2. Append(t.packet, t.picked[r]) \in Seq(Pages \union {Engine})
    BY <1>1, <1>2, AppendProperties DEF Task
  <2>3. fetched \in Task
    BY <1>1, <2>2 DEF Task
  <2>4. /\ fetched.stage = "fetch" /\ fetched.call = t.call /\ fetched.picked = t.picked
        /\ fetched.packet = Append(t.packet, t.picked[r]) /\ fetched.todo = t.todo \ {r}
        /\ fetched.skipped = t.skipped
    BY <1>1 DEF Task
  <2> HIDE DEF t, fetched
  <2>5. Collected(fetched)
    BY <1>1, <2>3, <2>4, FetchCollects
  <2>6. QED BY <1>1, <2>1, <2>3, <2>4, <2>5, TaskStepInv DEF t
<1>4. CASE FetchRaises(c, r)
  <2>1. task' = [task EXCEPT ![c] = passed] /\ UNCHANGED <<evidence, seen, tools>>
    BY <1>1, <1>4 DEF FetchRaises
  <2>2. passed \in Task
    BY <1>1, <1>2 DEF Task
  <2>3. /\ passed.stage = "fetch" /\ passed.call = t.call /\ passed.picked = t.picked
        /\ passed.packet = t.packet /\ passed.todo = t.todo \ {r}
        /\ passed.skipped = t.skipped \union {t.picked[r]}
    BY <1>1 DEF Task
  <2> HIDE DEF t, passed
  <2>4. Collected(passed)
    BY <1>1, <2>2, <2>3, SkipCollects
  <2>5. QED BY <1>1, <2>1, <2>2, <2>3, <2>4, TaskStepInv DEF t
<1>5. QED BY <1>3, <1>4

LEMMA RecordInv ==
    ASSUME ResearchInv, NEW c \in Clients, NEW works \in BOOLEAN, Record(c, works)
    PROVE  ResearchInv'
<1> DEFINE t == task[c]
           u == [t EXCEPT !.stage = "returned", !.unstored = t.persist /\ ~ works]
           e0 == [by |-> c, call |-> t.call, of |-> t.packet]
<1>1. /\ task \in [Clients -> Task] /\ t \in Task /\ t.stage = "fetch" /\ t.todo = {}
      /\ Collected(t) /\ Settled(c) /\ tools \in [Clients -> 0 .. MaxTools]
  BY DEF ResearchInv, ResearchTypeOK, Settled, Record
<1>2. /\ task' = [task EXCEPT ![c] = u] /\ seen' = seen /\ tools' = tools
      /\ evidence' = IF t.persist /\ works THEN evidence \union {e0} ELSE evidence
  BY <1>1 DEF Record
<1>3. t.persist \in BOOLEAN /\ t.call \in Nat
  BY <1>1 DEF Task
<1>4. u \in Task
  BY <1>1, <1>3 DEF Task
<1>5. /\ u.stage = "returned" /\ u.call = t.call /\ u.persist = t.persist /\ u.todo = {}
      /\ u.picked = t.picked /\ u.skipped = t.skipped /\ u.packet = t.packet
      /\ u.unstored = (t.persist /\ ~ works)
  BY <1>1 DEF Task
<1> HIDE DEF u
<1>6. task'[c] = u /\ task' \in [Clients -> Task]
  BY <1>1, <1>2, <1>4
<1>7. ResearchTypeOK'
  BY <1>2, <1>6 DEF ResearchInv, ResearchTypeOK
<1>8. /\ \A e \in evidence : e.by = c => e.call # t.call
      /\ t.call <= tools[c]
  BY <1>1 DEF Settled
<1>9. Stored(c)' = e0 /\ e0.by = c /\ e0.call = t.call
  BY <1>5, <1>6 DEF Stored
<1> HIDE DEF e0
<1>10. e0 \notin evidence
  BY <1>8, <1>9
<1>11. Collected(u)
  BY <1>1, <1>5 DEF Collected
<1>12. \A e \in evidence' : e.by = c /\ e.call = t.call => e = e0
  BY <1>2, <1>8
<1>13. t.persist => (e0 \in evidence') # u.unstored
  BY <1>2, <1>3, <1>5, <1>10
<1>14. Settled(c)'
  BY <1>2, <1>5, <1>6, <1>8, <1>9, <1>11, <1>12, <1>13 DEF Settled
<1>15. \A d \in Clients \ {c} : task'[d] = task[d] /\ tools'[d] = tools[d]
  BY <1>1, <1>2
<1>16. evidence \subseteq evidence' /\ \A e \in evidence' \ evidence : e = e0
  BY <1>2
<1>17. tools[c] <= tools'[c]
  BY <1>1, <1>2, ResearchAssumption
<1>18. QED BY <1>2, <1>3, <1>7, <1>8, <1>9, <1>14, <1>15, <1>16, <1>17, OthersKept

LEMMA ToolInv ==
    ASSUME ResearchInv, NEW c \in Clients, NEW page \in Pages,
           FetchTool(c, page) \/ QueryEvidence(c, page)
    PROVE  ResearchInv'
<1>1. /\ tools[c] < MaxTools /\ tools' = [tools EXCEPT ![c] = @ + 1]
      /\ task' = task /\ evidence' = evidence
      /\ task[c].stage \in {"idle", "returned", "raised"}
  BY DEF FetchTool, QueryEvidence, BeginTool, Free
<1>2. /\ tools \in [Clients -> 0 .. MaxTools] /\ MaxTools \in Nat /\ tools[c] \in Nat
      /\ seen \in [Clients -> SUBSET Pages] /\ Settled(c) /\ task \in [Clients -> Task]
  BY ResearchAssumption DEF ResearchInv, ResearchTypeOK
<1>3. seen' \in [Clients -> SUBSET Pages]
  BY <1>2 DEF FetchTool, QueryEvidence
<1>4. tools' \in [Clients -> 0 .. MaxTools] /\ tools'[c] = tools[c] + 1
  BY <1>1, <1>2
<1>5. ResearchTypeOK'
  BY <1>1, <1>2, <1>3, <1>4 DEF ResearchTypeOK
<1>6. task[c].call \in Nat
  BY <1>2 DEF Task
<1>7. Stored(c)' = Stored(c)
  BY <1>1 DEF Stored
<1>8. task[c].stage = "returned" => task[c].call <= tools'[c]
  BY <1>2, <1>4, <1>6 DEF Settled
<1>9. Settled(c)'
  BY <1>1, <1>2, <1>7, <1>8 DEF Settled
<1>10. \A d \in Clients \ {c} : task'[d] = task[d] /\ tools'[d] = tools[d]
  BY <1>1, <1>2
<1>11. QED BY <1>1, <1>2, <1>4, <1>5, <1>9, <1>10, OthersKept

(* mcp_server.py and app.research: whatever the searches find, whichever   *)
(* fetches raise and whether or not the store works, a research that       *)
(* returns accounts for every page it picked, in the packet or among the   *)
(* warnings, and the store holds that packet or the result says it does    *)
(* not.                                                                    *)
THEOREM PacketsAccounted == ResearchSpec => []PacketAccounted
<1>1. ResearchInit => ResearchInv
  BY ResearchInitInv
<1>2. ResearchInv /\ [ResearchNext]_researchVars => ResearchInv'
  <2> SUFFICES ASSUME ResearchInv, [ResearchNext]_researchVars PROVE ResearchInv'
    OBVIOUS
  <2>1. ASSUME NEW c \in Clients, \E persist \in BOOLEAN : Start(c, persist) PROVE ResearchInv'
    BY <2>1, StartInv
  <2>2. ASSUME NEW c \in Clients,
               \E results \in ResultLists, fallback \in BOOLEAN : SearchAnswers(c, results, fallback)
        PROVE  ResearchInv'
    BY <2>2, SearchAnswersInv
  <2>3. ASSUME NEW c \in Clients, SearchRaises(c) PROVE ResearchInv'
    BY <2>3, SearchRaisesInv
  <2>4. ASSUME NEW c \in Clients, \E r \in task[c].todo : FetchAnswers(c, r) \/ FetchRaises(c, r)
        PROVE  ResearchInv'
    BY <2>4, FetchTurnInv
  <2>5. ASSUME NEW c \in Clients, \E works \in BOOLEAN : Record(c, works) PROVE ResearchInv'
    BY <2>5, RecordInv
  <2>6. ASSUME NEW c \in Clients, \E page \in Pages : FetchTool(c, page) \/ QueryEvidence(c, page)
        PROVE  ResearchInv'
    BY <2>6, ToolInv
  <2>7. CASE UNCHANGED researchVars
    <3>1. task' = task /\ evidence' = evidence /\ seen' = seen /\ tools' = tools
      BY <2>7 DEF researchVars
    <3>2. QED BY <3>1 DEF ResearchInv, ResearchTypeOK, EvidenceDated, Settled, Stored
  <2>8. QED BY <2>1, <2>2, <2>3, <2>4, <2>5, <2>6, <2>7 DEF ResearchNext
<1>3. ResearchInv => PacketAccounted
  <2> SUFFICES ASSUME ResearchInv, NEW c \in Clients, task[c].stage = "returned"
               PROVE  LET t == task[c]
                          stored == [by |-> c, call |-> t.call, of |-> t.packet]
                      IN  /\ HoldsPicked(t)
                          /\ \A e \in evidence : e.by = c /\ e.call = t.call => e = stored
                          /\ t.persist => (stored \in evidence) # t.unstored
    BY DEF PacketAccounted
  <2>1. Settled(c) /\ task[c] \in Task
    BY DEF ResearchInv, ResearchTypeOK
  <2>2. HoldsPicked(task[c])
    BY <2>1, CollectedHolds, ResearchAssumption DEF Settled
  <2>3. QED BY <2>1, <2>2 DEF Settled, Stored
<1>4. QED BY <1>1, <1>2, <1>3, PTL DEF ResearchSpec

=============================================================================
