------------------------------ MODULE Catalogue ------------------------------
(***************************************************************************)
(* The built-in connectors behind the router: what app.build_registry      *)
(* registers, which request each connector's run() takes, and what it      *)
(* makes of the answers of the service behind it.  Router.tla shows the    *)
(* gate in front of any registry; here the registry is the real one, one   *)
(* caller routes requests of every documented shape, and a breaker is its  *)
(* count of failures.                                                      *)
(*                                                                         *)
(* A request names one thing under one key (a page under "url", a topic    *)
(* under "topic_id", ...); site is where its URL points.  A capability     *)
(* request falls through the candidates, so most of them see requests made *)
(* for another: run() then raises before any network access, or reads the  *)
(* request as its own.                                                     *)
(***************************************************************************)
EXTENDS Naturals, Sequences, FiniteSets, SequencesExt

CONSTANTS
    BreakAfter,     \* _Breaker.threshold, a positive number
    MaxRequests     \* bound: requests of a run

VARIABLES
    fails,      \* breaker of each connector: failures in a row, up to BreakAfter
    faults,     \* history: the same, counting only failures of its service
    request,    \* the request being routed
    line,       \* candidates not yet tried, by their place in BuiltIn
    state,      \* "idle" | "routing" | "answered" | "raised"
    requests    \* how many requests were routed

catalogueVars == <<fails, faults, request, line, state, requests>>

(* Registration order, with the manifest's capability and preference. *)
BuiltIn == <<
    <<"web_fetch", "fetch", 10>>, <<"search_duckduckgo", "search", 10>>,
    <<"rss", "feed", 10>>, <<"github_repo", "repo.inspect", 10>>,
    <<"reddit_search", "search", 40>>, <<"reddit_fetch", "fetch", 40>>,
    <<"youtube_fetch", "fetch", 40>>, <<"youtube_channel_feed", "feed", 40>>,
    <<"youtube_transcript", "transcript", 40>>,
    <<"v2ex_feed", "feed", 40>>, <<"v2ex_fetch", "fetch", 40>>,
    <<"xueqiu_fetch", "fetch", 45>>, <<"xiaoyuzhou_fetch", "fetch", 45>>,
    <<"bilibili_video_info", "video.info", 40>>,
    <<"twitter_x", "search", 999>>, <<"linkedin", "search", 999>>,
    <<"facebook", "search", 999>>, <<"instagram", "search", 999>>,
    <<"bilibili_search", "search", 999>>, <<"xiaohongshu", "search", 999>> >>

Connectors == {m[1] : m \in Range(BuiltIn)}
Stubs == {"twitter_x", "linkedin", "facebook", "instagram", "bilibili_search", "xiaohongshu"}

(* Registry.for_capability: by preference, then by registration.           *)
HasCapability(cap) == {i \in DOMAIN BuiltIn : BuiltIn[i][2] = cap}
Preferred(i, j) == \/ BuiltIn[i][3] < BuiltIn[j][3]
                   \/ BuiltIn[i][3] = BuiltIn[j][3] /\ i < j

(* The documented request shapes of every capability, and a "feed" request *)
(* that names nothing.                                                     *)
Requests ==
    {<<"fetch", "url", site>> : site \in {"page", "reddit", "youtube"}} \union
    {<<"feed", "url", "page">>, <<"transcript", "url", "youtube">>,
     <<"video.info", "url", "bilibili">>, <<"repo.inspect", "url", "github">>} \union
    {<<c[1], c[2], "none">> : c \in
       {<<"fetch", "topic_id">>, <<"fetch", "symbol">>, <<"fetch", "episode_id">>,
        <<"feed", "channel_id">>, <<"feed", "mode">>, <<"feed", "nothing">>,
        <<"search", "query">>, <<"repo.inspect", "repo">>}}

Capability(r) == r[1]
Key(r) == r[2]
Site(r) == r[3]

(* What a service may send back: what was asked for, its own empty result, *)
(* its own error object, or something that is not its format.  safe_get    *)
(* does not look at the status, so an error page counts as an answer.      *)
Replies == {"content", "empty", "not found", "garbled", "down"}

(* One connector's run(): the requests it takes to the network instead of  *)
(* raising on their shape, and the replies it turns into an exception.     *)
WebFetch == [takes |-> {r \in Requests : Key(r) = "url"}, raises |-> {"down"}]
DuckDuckGoSearch == [takes |-> {r \in Requests : Key(r) = "query"}, raises |-> {"down"}]
(* A garbled feed is a warning on an envelope without items. *)
RSSConnector == [takes |-> {r \in Requests : Key(r) = "url"}, raises |-> {"down"}]
GitHubRepo ==
    [takes |-> {r \in Requests : Key(r) \in {"repo", "query"} \/ Site(r) = "github"},
     raises |-> {"down", "garbled", "not found"}]
RedditSearch ==
    [takes |-> {r \in Requests : Key(r) = "query"}, raises |-> {"down", "garbled"}]
RedditFetch == [takes |-> {r \in Requests : Site(r) = "reddit"}, raises |-> {"down"}]
YouTubeFetch ==
    [takes |-> {r \in Requests : Key(r) = "url"}, raises |-> {"down", "garbled"}]
YouTubeChannelFeed ==
    [takes |-> {r \in Requests : Key(r) = "channel_id"}, raises |-> {"down"}]
(* Transcript.tla: every failure behind it becomes "not available". *)
YouTubeTranscript == [takes |-> {r \in Requests : Site(r) = "youtube"}, raises |-> {}]
(* A request without a mode is one for the hot topics; slicing the error   *)
(* object raises.                                                          *)
V2exFeed == [takes |-> Requests, raises |-> {"down", "garbled", "not found"}]

(* Only an empty payload is "not found or private": the error object is    *)
(* read as a topic without a title.                                        *)
V2exFetch ==
    [takes |-> {r \in Requests : Key(r) = "topic_id"}, raises |-> {"down", "garbled", "empty"}]
XueqiuFetch == [takes |-> {r \in Requests : Key(r) = "symbol"}, raises |-> {"down"}]
XiaoyuzhouFetch == [takes |-> {r \in Requests : Key(r) = "episode_id"}, raises |-> {"down"}]
(* An unknown video is an envelope with available=False. *)
BilibiliVideoInfo ==
    [takes |-> {r \in Requests : Site(r) = "bilibili"}, raises |-> {"down", "garbled"}]

(* Every connector but the stubs, which are never run. *)
RunOf ==
    [web_fetch |-> WebFetch, search_duckduckgo |-> DuckDuckGoSearch, rss |-> RSSConnector,
     github_repo |-> GitHubRepo, reddit_search |-> RedditSearch,
     reddit_fetch |-> RedditFetch, youtube_fetch |-> YouTubeFetch,
     youtube_channel_feed |-> YouTubeChannelFeed, youtube_transcript |-> YouTubeTranscript,
     v2ex_feed |-> V2exFeed, v2ex_fetch |-> V2exFetch, xueqiu_fetch |-> XueqiuFetch,
     xiaoyuzhou_fetch |-> XiaoyuzhouFetch, bilibili_video_info |-> BilibiliVideoInfo]

CatalogueInit ==
    /\ fails = [c \in Connectors |-> 0] /\ faults = [c \in Connectors |-> 0]
    /\ request = <<"none", "none", "none">> /\ line = {}
    /\ state = "idle" /\ requests = 0

Ask(r) ==
    /\ state # "routing" /\ requests < MaxRequests
    /\ state' = "routing" /\ request' = r /\ line' = HasCapability(Capability(r))
    /\ requests' = requests + 1
    /\ UNCHANGED <<fails, faults>>

Up(n) == IF n < BreakAfter THEN n + 1 ELSE n

Charged(c) == fails' = [fails EXCEPT ![c] = Up(@)]

(* The loop over the candidates is at connector c.                         *)
IsUp(c) ==
    /\ state = "routing"
    /\ \E i \in line : BuiltIn[i][1] = c /\ \A j \in line : ~ Preferred(j, i)

MovesOn(c) == line' = {i \in line : BuiltIn[i][1] # c}

(* The breaker is open: the candidate is passed over.                      *)
SkipTripped(c) ==
    /\ IsUp(c) /\ fails[c] = BreakAfter
    /\ MovesOn(c)
    /\ UNCHANGED <<fails, faults, request, state, requests>>

(* The cool-off of an open breaker is over when it is next consulted.      *)
CoolsOff(c) ==
    /\ IsUp(c) /\ fails[c] = BreakAfter
    /\ fails' = [fails EXCEPT ![c] = 0]
    /\ UNCHANGED <<faults, request, line, state, requests>>

Trying(c) ==
    /\ IsUp(c) /\ fails[c] < BreakAfter
    /\ UNCHANGED <<request, requests>>

(* health() of a platform stub reports "missing": never run. *)
SkipStub(c) ==
    /\ Trying(c) /\ c \in Stubs
    /\ Charged(c) /\ MovesOn(c)
    /\ UNCHANGED <<faults, state>>

(* run() raises on the request itself. *)
TurnDown(c) ==
    /\ Trying(c) /\ c \notin Stubs /\ request \notin RunOf[c].takes
    /\ Charged(c) /\ MovesOn(c)
    /\ UNCHANGED <<faults, state>>

(* run() reaches the service and raises on its reply. *)
ServiceFails(c, answer) ==
    /\ Trying(c) /\ c \notin Stubs /\ request \in RunOf[c].takes
    /\ answer \in RunOf[c].raises
    /\ Charged(c) /\ faults' = [faults EXCEPT ![c] = Up(@)]
    /\ MovesOn(c)
    /\ UNCHANGED <<state>>

(* run() returns an envelope. *)
Answer(c, answer) ==
    /\ Trying(c) /\ c \notin Stubs /\ request \in RunOf[c].takes
    /\ answer \notin RunOf[c].raises
    /\ fails' = [fails EXCEPT ![c] = 0] /\ faults' = [faults EXCEPT ![c] = 0]
    /\ state' = "answered" /\ line' = {}

(* Every candidate was passed over or failed: RouterError. *)
Exhausted ==
    /\ state = "routing" /\ line = {}
    /\ state' = "raised"
    /\ UNCHANGED <<fails, faults, request, line, requests>>

CatalogueNext ==
    \/ \E r \in Requests : Ask(r)
    \/ \E c \in Connectors : SkipTripped(c) \/ CoolsOff(c) \/ SkipStub(c) \/ TurnDown(c)
    \/ \E c \in Connectors, answer \in Replies : ServiceFails(c, answer) \/ Answer(c, answer)
    \/ Exhausted

CatalogueSpec == CatalogueInit /\ [][CatalogueNext]_catalogueVars

-----------------------------------------------------------------------------

(* The module docstring of router.py: "a simple circuit breaker so a       *)
(* repeatedly-failing backend is skipped".  A connector with an open       *)
(* breaker has a service that failed that often, or cannot be used at all. *)
OnlyFailingBackendsSkipped ==
    \A c \in Connectors \ Stubs : fails[c] = BreakAfter => faults[c] = BreakAfter

=============================================================================
