------------------------------- MODULE Answers -------------------------------
(***************************************************************************)
(* Answers from the local corpus: skills.offline_research (fast, deep and  *)
(* answer mode) and app.semantic_answer, over the rows of the evidence     *)
(* store.  A question reads the store twice, once to build a fresh         *)
(* full-text index over all tenants' rows and once for the rows of its own *)
(* tenant; packets are recorded and tenants deleted in between.            *)
(*                                                                         *)
(* A row is its page, its tenant, the terms its title and excerpt hold,    *)
(* none when both are empty, and those its URL, connector and content hash *)
(* hold, which the index searches as well.  The full-text match wants      *)
(* every term of the question, a snippet any of them from the text alone.  *)
(* Every read stops at a number of rows, the youngest first.  How rows     *)
(* rank (bm25, score_source, cosine) is left open.                         *)
(***************************************************************************)
EXTENDS Naturals, Sequences, FiniteSets, SequencesExt, FiniteSetsExt

CONSTANTS
    Sites,          \* URLs of rows
    Owners,         \* tenants
    Everyone,       \* tenant=None: rows of every tenant
    Terms,          \* words
    Texts,          \* sets of terms a row's title and excerpt may hold
    Labels,         \* sets of terms its URL, connector and hash may hold
    IndexRows,      \* rows an index is built from (5000)
    ReadRows,       \* rows the second read returns (200)
    HitLimit,       \* limit of a search, k of a semantic one
    TopRows,        \* rows extractive_answer looks at (5)
    MaxSnippets,    \* max_snippets
    MaxCorpus       \* bound: rows ever recorded

ASSUME AnswersAssumption ==
    /\ Everyone \notin Owners /\ IsFiniteSet(Terms)
    /\ Texts \subseteq SUBSET Terms /\ Labels \subseteq SUBSET Terms
    /\ {IndexRows, ReadRows, HitLimit, TopRows, MaxCorpus} \subseteq Nat /\ MaxSnippets \in Nat \ {0}

VARIABLES
    corpus,         \* the stored rows
    nextRow,        \* AUTOINCREMENT id of the next one
    ask,            \* the question that is being answered
    evicted         \* history: tenants deleted since the question was asked

answerVars == <<corpus, nextRow, ask, evicted>>

CorpusRow == [id : 1..MaxCorpus, site : Sites, owner : Owners, text : Texts, label : Labels]
Modes == {"fast", "deep", "answer", "semantic"}
Asked == [at : {"idle", "query", "extract", "answered"}, mode : Modes, terms : SUBSET Terms,
          owner : Owners \cup {Everyone}, hits : SUBSET CorpusRow, rows : SUBSET CorpusRow,
          citations : SUBSET CorpusRow]
NoQuestion == [at |-> "idle", mode |-> "fast", terms |-> {}, owner |-> Everyone,
               hits |-> {}, rows |-> {}, citations |-> {}]

AnswersInit ==
    /\ corpus = {}
    /\ nextRow = 1
    /\ ask = NoQuestion
    /\ evicted = {}

(* EvidenceStore.record_packet, delete_tenant.                             *)
AddEvidence(site, owner, text, label) ==
    /\ nextRow <= MaxCorpus
    /\ nextRow' = nextRow + 1
    /\ corpus' = corpus \cup {[id |-> nextRow, site |-> site, owner |-> owner,
                              text |-> text, label |-> label]}
    /\ UNCHANGED <<ask, evicted>>
Evict(owner) ==
    /\ \E r \in corpus : r.owner = owner
    /\ corpus' = {r \in corpus : r.owner # owner}
    /\ evicted' = IF ask.at = "idle" THEN {} ELSE evicted \cup {owner}
    /\ UNCHANGED <<nextRow, ask>>

(* Subsets of S with as many members as LIMIT n leaves.                    *)
Limited(S, n) == kSubset(IF Cardinality(S) < n THEN Cardinality(S) ELSE n, S)

(* ORDER BY id DESC LIMIT n                                                *)
Youngest(S, n) == {r \in S : Cardinality({q \in S : q.id > r.id}) < n}

(* FTSIndex.search: no terms, no hits.  deep_search asks for four times as *)
(* many and keeps `limit` after its re-ranking.                            *)
Matching(rows, terms) ==
    {r \in rows : terms # {} /\ terms \subseteq r.text \cup r.label}
Found(mode, terms) ==
    LET matching == Matching(Youngest(corpus, IndexRows), terms)
    IN  IF mode = "deep"
        THEN UNION {Limited(S, HitLimit) : S \in Limited(matching, 4 * HitLimit)}
        ELSE Limited(matching, HitLimit)

(* build_index and the search of it; a semantic question has no index.     *)
Question(mode, terms, owner) ==
    /\ ask.at = "idle"
    /\ \E S \in IF mode = "semantic" THEN {{}} ELSE Found(mode, terms) :
         ask' = [at |-> IF mode \in {"fast", "deep"} THEN "answered" ELSE "query",
                 mode |-> mode, terms |-> terms, owner |-> owner,
                 hits |-> S, rows |-> {}, citations |-> {}]
    /\ evicted' = {}
    /\ UNCHANGED <<corpus, nextRow>>

Scoped(owner) == Youngest({r \in corpus : owner = Everyone \/ r.owner = owner}, ReadRows)
HitSites == {h.site : h \in ask.hits}

(* Faulty variant: the hits are answered from as they are.                 *)
QueryHits ==
    /\ ask.at = "query"
    /\ ask' = [ask EXCEPT !.at = "extract",
                          !.rows = IF ask.hits = {} THEN Scoped(ask.owner) ELSE ask.hits]
    /\ UNCHANGED <<corpus, nextRow, evicted>>

(* Answer mode keeps the rows it read of the pages that were hit, or all   *)
(* it read when there are none of these.                                   *)
AnswerRows ==
    LET hit == {r \in Scoped(ask.owner) : r.site \in HitSites}
    IN  IF hit # {} THEN hit ELSE Scoped(ask.owner)

(* semantic_search: the k rows closest to the question, of every tenant.   *)
SemanticRows == Limited(Scoped(Everyone), HitLimit)

(* The second read.                                                        *)
QueryRows ==
    /\ ask.at = "query"
    /\ \E S \in IF ask.mode = "semantic" THEN SemanticRows ELSE {AnswerRows} :
         ask' = [ask EXCEPT !.at = "extract", !.rows = S]
    /\ UNCHANGED <<corpus, nextRow, evicted>>

(* extractive_answer: the top rows, those of them that offer a snippet     *)
(* (any row with a text, when the question has no terms), the first few.   *)
Quotable(r) == r.text # {} /\ (ask.terms = {} \/ ask.terms \cap r.text # {})
Extract ==
    /\ ask.at = "extract"
    /\ \E top \in Limited(ask.rows, TopRows) :
        \E cited \in Limited({r \in top : Quotable(r)}, MaxSnippets) :
          ask' = [ask EXCEPT !.at = "answered", !.citations = cited]
    /\ UNCHANGED <<corpus, nextRow, evicted>>

Answered ==
    /\ ask.at = "answered"
    /\ ask' = NoQuestion
    /\ evicted' = {}
    /\ UNCHANGED <<corpus, nextRow>>

AnswersNext ==
    \/ \E site \in Sites, owner \in Owners, text \in Texts, label \in Labels :
         AddEvidence(site, owner, text, label)
    \/ \E owner \in Owners : Evict(owner)
    \/ \E mode \in Modes, terms \in SUBSET Terms, owner \in Owners \cup {Everyone} :
         Question(mode, terms, IF mode = "semantic" THEN Everyone ELSE owner)
    \/ QueryRows \/ Extract \/ Answered

AnswersSpec == AnswersInit /\ [][AnswersNext]_answerVars

-----------------------------------------------------------------------------
AnswersTypeOK ==
    /\ corpus \subseteq CorpusRow /\ nextRow \in 1..(MaxCorpus + 1)
    /\ ask \in Asked /\ evicted \subseteq Owners

(* Every citation of an answer is a row of the caller's tenant whose text  *)
(* holds a term of the question, whatever pages the index, which knows all *)
(* tenants and matches URLs and hashes as well, proposed; and an answer    *)
(* without citations means that none of the rows it looked at held one: it *)
(* is not "no evidence" when all the rows it had fit into what it looks at *)
(* and one of them could be quoted.  (With more rows than that it may be:  *)
(* rows are picked by their score, not by the question.)                   *)
AnswerGrounded ==
    ask.at = "answered" /\ ask.mode \in {"answer", "semantic"} =>
      /\ \A r \in ask.citations :
           /\ ask.owner \in {Everyone, r.owner}
           /\ Quotable(r)
           /\ r.owner \in evicted \/ r \in corpus
      /\ Cardinality(ask.citations) <= MaxSnippets
      /\ ask.citations = {} /\ ask.terms # {} /\ Cardinality(ask.rows) <= TopRows
           => \A r \in ask.rows : ~ Quotable(r)

=============================================================================
