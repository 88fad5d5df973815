------------------------------ MODULE Research ------------------------------
(***************************************************************************)
(* app.research and the tools of the MCP facade that use it: clients of    *)
(* one server (or several processes over one home) search, fetch the best  *)
(* results into a packet, record the packet in the evidence store and look *)
(* the evidence up.  Every routed request may fail (RouterError), and so   *)
(* may the store.  The router is Router.tla, its connectors Catalogue.tla, *)
(* the store's transaction EvidenceStore.tla; here they are their results. *)
(***************************************************************************)
EXTENDS Naturals, Sequences, FiniteSets, SequencesExt

CONSTANTS
    Clients,        \* callers of handle() / research()
    Pages,          \* URLs of results
    NoPage,         \* a result without a URL
    Engine,         \* stands for the search itself in a packet
    MaxSources,     \* max_sources
    MaxResults,     \* bound: results of a search
    MaxTools        \* bound: tool calls of a client

ASSUME ResearchAssumption ==
    /\ NoPage \notin Pages /\ Engine \notin Pages /\ Engine # NoPage
    /\ MaxSources \in Nat /\ MaxResults \in Nat /\ MaxTools \in Nat

VARIABLES
    task,       \* task[c]: the research client c runs
    evidence,   \* the packets recorded in the store, by client and call
    seen,       \* seen[c]: the pages the fetch tool returned to c
    looked,     \* looked[c]: the page c last looked up, and whether it was found
    tools       \* tools[c]: tool calls begun

researchVars == <<task, evidence, seen, looked, tools>>

(* The pages to fetch, by their rank among the results.                    *)
Picks == UNION {[ranks -> Pages] : ranks \in SUBSET (1 .. MaxResults)}

Task == [stage : {"idle", "search", "fetch", "returned", "raised"},
         persist : BOOLEAN, call : Nat, picked : Picks, todo : SUBSET (1 .. MaxResults),
         packet : Seq(Pages \union {Engine}), skipped : SUBSET Pages, unstored : BOOLEAN]

NoTask == [stage |-> "idle", persist |-> FALSE, call |-> 0, picked |-> [r \in {} |-> NoPage],
           todo |-> {}, packet |-> <<>>, skipped |-> {}, unstored |-> FALSE]

ResearchInit ==
    /\ task = [c \in Clients |-> NoTask]
    /\ evidence = {}
    /\ seen = [c \in Clients |-> {}]
    /\ looked = [c \in Clients |-> [page |-> NoPage, found |-> TRUE]]
    /\ tools = [c \in Clients |-> 0]

Free(c) == task[c].stage \in {"idle", "returned", "raised"} /\ tools[c] < MaxTools

BeginTool(c) == Free(c) /\ tools' = [tools EXCEPT ![c] = @ + 1]

(* export_research_packet, or deye research with or without --no-persist. *)
Start(c, persist) ==
    /\ BeginTool(c)
    /\ task' = [task EXCEPT ![c] = [NoTask EXCEPT !.stage = "search", !.persist = persist,
                                               !.call = tools[c] + 1]]
    /\ UNCHANGED <<evidence, seen, looked>>

(* The result URLs, each once, in rank order; then the first max_sources.  *)
Distinct(results) ==
    {r \in DOMAIN results : results[r] # NoPage /\ \A s \in 1 .. r - 1 : results[s] # results[r]}

Pick(results) ==
    LET urls == Distinct(results)
        top == {r \in urls : Cardinality({s \in urls : s <= r}) <= MaxSources}
    IN  [r \in top |-> results[r]]

(* search() answered.  Only an artifact of type "search_results" is read:  *)
(* the fallback's "reddit_search" artifact offers no URL to fetch.         *)
SearchAnswers(c, results, fallback) ==
    /\ task[c].stage = "search"
    /\ LET picked == IF fallback THEN NoTask.picked ELSE Pick(results)
       IN  task' = [task EXCEPT ![c].stage = "fetch", ![c].packet = <<Engine>>,
                                ![c].picked = picked, ![c].todo = DOMAIN picked]
    /\ UNCHANGED <<evidence, seen, looked, tools>>

(* search() raised: so does research(), with nothing recorded. *)
SearchRaises(c) ==
    /\ task[c].stage = "search"
    /\ task' = [task EXCEPT ![c].stage = "raised"]
    /\ UNCHANGED <<evidence, seen, looked, tools>>

(* The loop over the picked URLs is at rank r.                             *)
Turn(c, r) ==
    /\ task[c].stage = "fetch" /\ r \in task[c].todo
    /\ \A s \in task[c].todo : r <= s

FetchAnswers(c, r) ==
    /\ Turn(c, r)
    /\ task' = [task EXCEPT ![c].packet = Append(@, task[c].picked[r]),
                            ![c].todo = @ \ {r}]
    /\ UNCHANGED <<evidence, seen, looked, tools>>

(* FetchRaises, had the exception ended the loop.                          *)
FetchRaisesLast(c, r) ==
    /\ Turn(c, r)
    /\ task' = [task EXCEPT ![c].skipped = @ \union {task[c].picked[r]}, ![c].todo = {}]
    /\ UNCHANGED <<evidence, seen, looked, tools>>

(* Recorded as a warning on the search's envelope; the next URL goes on.   *)
FetchRaises(c, r) ==
    /\ Turn(c, r)
    /\ task' = [task EXCEPT ![c].skipped = @ \union {task[c].picked[r]},
                            ![c].todo = @ \ {r}]
    /\ UNCHANGED <<evidence, seen, looked, tools>>

(* record_packet, one transaction, best effort. *)
Record(c, works) ==
    /\ task[c].stage = "fetch" /\ task[c].todo = {}
    /\ task' = [task EXCEPT ![c].stage = "returned",
                            ![c].unstored = task[c].persist /\ ~ works]
    /\ evidence' = IF task[c].persist /\ works
                     THEN evidence \union {[by |-> c, call |-> task[c].call, of |-> task[c].packet]}
                     ELSE evidence
    /\ UNCHANGED <<seen, looked, tools>>

(* The fetch tool: one routed fetch, handed to the client. *)
FetchTool(c, page) ==
    /\ BeginTool(c)
    /\ seen' = [seen EXCEPT ![c] = @ \union {page}]
    /\ UNCHANGED <<task, evidence, looked>>

(* The query_evidence tool, asked for the URL of a page. *)
QueryEvidence(c, page) ==
    /\ BeginTool(c)
    /\ looked' = [looked EXCEPT ![c] =
                    [page |-> page, found |-> \E e \in evidence : page \in Range(e.of)]]
    /\ UNCHANGED <<task, evidence, seen>>

ResultLists == UNION {[1 .. n -> Pages \union {NoPage}] : n \in 0 .. MaxResults}

ResearchNext ==
    \E c \in Clients :
      \/ \E persist \in BOOLEAN : Start(c, persist)
      \/ \E results \in ResultLists, fallback \in BOOLEAN : SearchAnswers(c, results, fallback)
      \/ SearchRaises(c)
      \/ \E r \in task[c].todo : FetchAnswers(c, r) \/ FetchRaises(c, r)
      \/ \E works \in BOOLEAN : Record(c, works)
      \/ \E page \in Pages : FetchTool(c, page) \/ QueryEvidence(c, page)

ResearchSpec == ResearchInit /\ [][ResearchNext]_researchVars

-----------------------------------------------------------------------------

ResearchTypeOK ==
    /\ task \in [Clients -> Task]
    /\ seen \in [Clients -> SUBSET Pages]
    /\ tools \in [Clients -> 0 .. MaxTools]

(* The packet has the search first, then each picked page that no warning  *)
(* names, once, in rank order.                                             *)
HoldsPicked(t) ==
    /\ t.packet # <<>> /\ t.packet[1] = Engine
    /\ Range(t.packet) = {Engine} \union (Range(t.picked) \ t.skipped)
    /\ IsInjective(t.packet)
    /\ \A k, l \in DOMAIN t.packet, r, s \in DOMAIN t.picked :
         t.packet[k] = t.picked[r] /\ t.packet[l] = t.picked[s] => (k < l <=> r < s)

(* A finished research accounts for every page it picked: each is in the   *)
(* packet or among the warnings; what is recorded of it is the whole       *)
(* packet, and a packet that should have been recorded and was not carries *)
(* the warning.                                                            *)
PacketAccounted ==
    \A c \in Clients : task[c].stage = "returned" =>
      LET t == task[c]
          stored == [by |-> c, call |-> t.call, of |-> t.packet]
      IN  /\ HoldsPicked(t)
          /\ \A e \in evidence : e.by = c /\ e.call = t.call => e = stored
          /\ t.persist => (stored \in evidence) # t.unstored

(* plugin/d-eye/skills/web_discovery/SKILL.md, the example: after          *)
(* fetch(url), "the URL appears in subsequent query_evidence results".     *)
FetchedIsQueryable ==
    \A c \in Clients : looked[c].page \in seen[c] => looked[c].found

=============================================================================
