-------------------------------- MODULE Dedup --------------------------------
(***************************************************************************)
(* deduplicate (deye/core/quality.py): three clustering passes over a list *)
(* of evidence rows, each over what the passes before it left.  A row is   *)
(* what the passes compare: its normalised URL, its content hash and the   *)
(* shingles of its excerpt.  Similarity is not transitive, so the outcome  *)
(* of the third pass depends on the order of its loop, which is kept.      *)
(***************************************************************************)
EXTENDS Naturals, Sequences, FiniteSets, FiniteSetsExt

CONSTANTS
    Norms,          \* normalised URLs
    ContentHashes,         \* content hashes
    Blank,          \* no URL, no hash
    BadPort,        \* a URL whose port is no number below 65536
    Grams,          \* shingles
    Part, Whole,    \* shingle_threshold, as the fraction Part / Whole
    MaxRows         \* bound: rows of the list

ASSUME DedupAssumption ==
    /\ Blank \notin Norms /\ Blank \notin ContentHashes /\ IsFiniteSet(Grams)
    /\ BadPort \notin Norms \union {Blank}
    /\ Part \in Nat \ {0} /\ Whole \in Nat \ {0} /\ Part <= Whole /\ MaxRows \in Nat

VARIABLES
    rows,           \* the input
    pass,           \* "exact_url" | "content_hash" | "shingle_overlap" | "done" | "raised"
    turn,           \* the row the third pass is at
    represented,    \* rows dropped so far
    clusters        \* clusters reported so far

dedupVars == <<rows, pass, turn, represented, clusters>>

Row == [norm : Norms \union {Blank, BadPort}, hash : ContentHashes \union {Blank},
        grams : SUBSET Grams]
Rows == DOMAIN rows

DedupInit ==
    /\ rows \in UNION {[1 .. n -> Row] : n \in 0 .. MaxRows}
    /\ pass = "exact_url" /\ turn = 1 /\ represented = {} /\ clusters = {}

Survivors == Rows \ represented

(* _normalise_url of url A and url B is one and the same string. *)
SameUrl(i, j) == rows[i].norm = rows[j].norm /\ rows[i].norm # Blank
SameHash(i, j) == rows[i].hash = rows[j].hash /\ rows[i].hash # Blank

(* _jaccard at or over the threshold; rows without words are like nothing. *)
Similar(i, j) ==
    LET a == rows[i].grams  b == rows[j].grams
    IN  /\ a # {} /\ b # {}
        /\ Cardinality(a \intersect b) * Whole >= Part * Cardinality(a \union b)

(* One pass that groups by a key: the groups of more than one row, of      *)
(* which all but the first are dropped.  A row without the key is in none. *)
Norm == [i \in Rows |-> rows[i].norm]
Hash == [i \in Rows |-> rows[i].hash]

Grouped(from, key) ==
    {g \in {{i \in from : key[i] = k} : k \in {key[i] : i \in from} \ {Blank}} :
       Cardinality(g) > 1}

Report(groups, why) ==
    /\ clusters' = clusters \union {[members |-> g, reason |-> why] : g \in groups}
    /\ represented' = represented \union UNION {g \ {Min(g)} : g \in groups}

(* parts.port raises a ValueError outside _normalise_url's try: one such   *)
(* row and the call returns nothing, before any row was looked at twice.   *)
UrlRaises ==
    /\ pass = "exact_url" /\ \E i \in Rows : rows[i].norm = BadPort
    /\ pass' = "raised"
    /\ UNCHANGED <<rows, turn, represented, clusters>>

ByUrl ==
    /\ pass = "exact_url" /\ pass' = "content_hash"
    /\ \A i \in Rows : rows[i].norm # BadPort
    /\ Report(Grouped(Rows, Norm), "exact_url")
    /\ UNCHANGED <<rows, turn>>

(* ByHash, had it grouped the rows the first pass dropped as well. *)
ByHashOfAll ==
    /\ pass = "content_hash" /\ pass' = "shingle_overlap"
    /\ Report(Grouped(Rows, Hash), "content_hash")
    /\ UNCHANGED <<rows, turn>>

ByHash ==
    /\ pass = "content_hash" /\ pass' = "shingle_overlap"
    /\ Report(Grouped(Survivors, Hash), "content_hash")
    /\ UNCHANGED <<rows, turn>>

(* One turn of the third pass's loop: row i, unless already in a cluster,  *)
(* takes the later rows like it that no cluster has taken.                 *)
ByShingles ==
    /\ pass = "shingle_overlap" /\ turn <= Len(rows)
    /\ turn' = turn + 1
    /\ LET cluster == {turn} \union {j \in Survivors : j > turn /\ Similar(turn, j)}
       IN  Report(IF turn \in Survivors /\ Cardinality(cluster) > 1 THEN {cluster} ELSE {},
                  "shingle_overlap")
    /\ UNCHANGED <<rows, pass>>

DedupEnds ==
    /\ pass = "shingle_overlap" /\ turn > Len(rows)
    /\ pass' = "done"
    /\ UNCHANGED <<rows, turn, represented, clusters>>

DedupNext == UrlRaises \/ ByUrl \/ ByHash \/ ByShingles \/ DedupEnds

DedupSpec == DedupInit /\ [][DedupNext]_dedupVars

-----------------------------------------------------------------------------

DedupTypeOK ==
    /\ rows \in Seq(Row)
    /\ pass \in {"exact_url", "content_hash", "shingle_overlap", "done", "raised"}
    /\ turn \in 1 .. Len(rows) + 1
    /\ represented \subseteq Rows
    /\ \A c \in clusters : c.members \subseteq Rows

Alike(i, j) == SameUrl(i, j) \/ SameHash(i, j) \/ Similar(i, j)

(* Nothing is lost and nothing is doubled: a dropped row is reported in    *)
(* exactly one cluster besides the ones it heads, so that a chain of       *)
(* clusters leads from it to a kept row; and no two kept rows are alike by *)
(* any of the three criteria, although later passes see only survivors.    *)
DuplicatesRepresented ==
    pass = "done" =>
      /\ \A i \in represented :
           Cardinality({c \in clusters : i \in c.members /\ i # Min(c.members)}) = 1
      /\ \A i, j \in Survivors : i # j => ~ Alike(i, j)

=============================================================================
