--------------------------- MODULE EvidenceStore ----------------------------
(***************************************************************************)
(* deye.core.evidence.EvidenceStore: packets and their sources in SQLite.  *)
(* record_packet() and delete_tenant() are transactions of several         *)
(* statements, visible to others at COMMIT and rolled back when an         *)
(* exception or a crash ends them.  export_tenant() runs outside any       *)
(* transaction: each of its SELECTs sees what is committed by then.        *)
(* The schema of every connection is in place (EvidenceMigration).         *)
(***************************************************************************)
EXTENDS Naturals, FiniteSets, Sequences

CONSTANTS
    Writers,        \* processes that record packets
    Readers,        \* processes that export
    Tenants,
    Default,        \* the "default" (owner) tenant
    Urls, Hashes,
    MaxEnvelopes,   \* bound: envelopes per packet
    MaxPackets,     \* bound: packets ever recorded
    Admin, Nobody, None

ASSUME EvidenceAssumption ==
    /\ Default \in Tenants
    /\ None \notin Tenants
    /\ MaxPackets \in Nat /\ MaxEnvelopes \in Nat
    /\ Admin \notin Writers /\ Nobody \notin Writers \cup {Admin}

PacketIds == 1..MaxPackets
SourceIds == 1..(MaxPackets * MaxEnvelopes)
Envelope == [url : Urls, hash : Hashes]

VARIABLES
    packets,        \* packets[p]: the tenant of committed packet p, None if absent
    sources,        \* the committed rows of the sources table
    nextPacket, nextSource,     \* AUTOINCREMENT sequences
    lock,           \* who has a write transaction open
    txn,            \* the transaction of the lock holder
    export,         \* export[r]: the export_tenant() call reader r is in
    recorded        \* history: recorded[p], the sources packet p was recorded with

evidenceVars == <<packets, sources, nextPacket, nextSource, lock, txn, export, recorded>>
tableVars == <<packets, sources, nextPacket, nextSource>>

SourceRow == [id : SourceIds, packet : PacketIds, url : Urls, hash : Hashes, tenant : Tenants]
Transaction == [tenant : Tenants \cup {None}, todo : Seq(Envelope), rows : SUBSET SourceRow]
PacketExport == [packet : PacketIds, sources : SUBSET SourceRow]
Export == [tenant : Tenants \cup {None}, todo : SUBSET PacketIds,
           bundle : Seq(PacketExport), done : BOOLEAN]
NoTxn == [tenant |-> None, todo |-> <<>>, rows |-> {}]
Idle == [tenant |-> None, todo |-> {}, bundle |-> <<>>, done |-> FALSE]

EvidenceTypeOK ==
    /\ packets \in [PacketIds -> Tenants \cup {None}]
    /\ sources \subseteq SourceRow
    /\ nextPacket \in 1..(MaxPackets + 1)
    /\ nextSource \in 1..(MaxPackets * MaxEnvelopes + 1)
    /\ lock \in Writers \cup {Admin, Nobody}
    /\ txn \in Transaction
    /\ export \in [Readers -> Export]
    /\ recorded \in [PacketIds -> SUBSET SourceRow]

EvidenceInit ==
    /\ packets = [p \in PacketIds |-> None]
    /\ sources = {}
    /\ nextPacket = 1 /\ nextSource = 1
    /\ lock = Nobody
    /\ txn = NoTxn
    /\ export = [r \in Readers |-> Idle]
    /\ recorded = [p \in PacketIds |-> {}]

-----------------------------------------------------------------------------
(* record_packet(): the INSERT of the packet opens the transaction.        *)
RecordBegin(w, tn, envs) ==
    /\ lock = Nobody
    /\ nextPacket \in PacketIds
    /\ lock' = w
    /\ txn' = [tenant |-> tn, todo |-> envs, rows |-> {}]
    /\ UNCHANGED <<tableVars, export, recorded>>

NewRow(e) == [id |-> nextSource + Cardinality(txn.rows), packet |-> nextPacket,
              url |-> e.url, hash |-> e.hash, tenant |-> txn.tenant]

(* Faulty variant: rows are written in autocommit mode.                    *)
InsertSourceAutocommit(w) ==
    /\ lock = w /\ txn.todo # <<>>
    /\ txn' = [txn EXCEPT !.todo = Tail(@), !.rows = @ \cup {NewRow(Head(txn.todo))}]
    /\ sources' = sources \cup {NewRow(Head(txn.todo))}
    /\ packets' = [packets EXCEPT ![nextPacket] = txn.tenant]
    /\ UNCHANGED <<nextPacket, nextSource, lock, export, recorded>>

InsertSource(w) ==
    /\ lock = w /\ txn.todo # <<>>
    /\ txn' = [txn EXCEPT !.todo = Tail(@), !.rows = @ \cup {NewRow(Head(txn.todo))}]
    /\ UNCHANGED <<tableVars, lock, export, recorded>>

RecordCommit(w) ==
    /\ lock = w /\ txn.todo = <<>>
    /\ packets' = [packets EXCEPT ![nextPacket] = txn.tenant]
    /\ sources' = sources \cup txn.rows
    /\ recorded' = [recorded EXCEPT ![nextPacket] = txn.rows]
    /\ nextPacket' = nextPacket + 1
    /\ nextSource' = nextSource + Cardinality(txn.rows)
    /\ lock' = Nobody
    /\ txn' = NoTxn
    /\ UNCHANGED export

(* delete_tenant(confirm=True) refuses the default tenant.                 *)
DeleteBegin(tn) ==
    /\ lock = Nobody
    /\ tn # Default
    /\ lock' = Admin
    /\ txn' = [tenant |-> tn, todo |-> <<>>, rows |-> {}]
    /\ UNCHANGED <<tableVars, export, recorded>>

(* Faulty variant: only the packets are deleted, in the belief that the    *)
(* FOREIGN KEY cascades.                                                   *)
DeleteCommitPackets ==
    /\ lock = Admin
    /\ packets' = [p \in PacketIds |-> IF packets[p] = txn.tenant THEN None ELSE packets[p]]
    /\ lock' = Nobody
    /\ txn' = NoTxn
    /\ UNCHANGED <<sources, nextPacket, nextSource, export, recorded>>

(* Both DELETEs, then COMMIT.                                              *)
DeleteCommit ==
    /\ lock = Admin
    /\ packets' = [p \in PacketIds |-> IF packets[p] = txn.tenant THEN None ELSE packets[p]]
    /\ sources' = {s \in sources : s.tenant # txn.tenant}
    /\ lock' = Nobody
    /\ txn' = NoTxn
    /\ UNCHANGED <<nextPacket, nextSource, export, recorded>>

(* An exception or the death of the process ends the transaction.          *)
TxnRollback ==
    /\ lock # Nobody
    /\ lock' = Nobody
    /\ txn' = NoTxn
    /\ UNCHANGED <<tableVars, export, recorded>>

(* export_tenant(): the SELECT of the tenant's packets ...                 *)
ExportPackets(r, tn) ==
    /\ export[r] = Idle
    /\ export' = [export EXCEPT ![r] =
                    [tenant |-> tn, todo |-> {p \in PacketIds : packets[p] = tn},
                     bundle |-> <<>>, done |-> FALSE]]
    /\ UNCHANGED <<tableVars, lock, txn, recorded>>

(* ... then one SELECT of sources for each of them, ORDER BY id.           *)
SourcesOf(p, tn) == {s \in sources : s.packet = p /\ s.tenant = tn}

ExportSources(r) ==
    /\ \E p \in export[r].todo :
        /\ \A q \in export[r].todo : p <= q
        /\ export' = [export EXCEPT
                ![r].todo = @ \ {p},
                ![r].bundle = Append(@, [packet |-> p, sources |-> SourcesOf(p, export[r].tenant)])]
    /\ UNCHANGED <<tableVars, lock, txn, recorded>>

ExportDone(r) ==
    /\ export[r].tenant # None /\ export[r].todo = {} /\ ~ export[r].done
    /\ export' = [export EXCEPT ![r].done = TRUE]
    /\ UNCHANGED <<tableVars, lock, txn, recorded>>

ExportReturned(r) ==
    /\ export[r].done
    /\ export' = [export EXCEPT ![r] = Idle]
    /\ UNCHANGED <<tableVars, lock, txn, recorded>>

Envelopes == UNION {[1..n -> Envelope] : n \in 0..MaxEnvelopes}

EvidenceNext ==
    \/ \E w \in Writers, tn \in Tenants, envs \in Envelopes : RecordBegin(w, tn, envs)
    \/ \E w \in Writers : InsertSource(w) \/ RecordCommit(w)
    \/ \E tn \in Tenants : DeleteBegin(tn)
    \/ DeleteCommit
    \/ TxnRollback
    \/ \E r \in Readers, tn \in Tenants : ExportPackets(r, tn)
    \/ \E r \in Readers : ExportSources(r) \/ ExportDone(r) \/ ExportReturned(r)

EvidenceSpec == EvidenceInit /\ [][EvidenceNext]_evidenceVars

-----------------------------------------------------------------------------
(* Every source belongs to a stored packet of the same tenant: neither a   *)
(* rolled back record_packet() nor a delete_tenant() leaves orphans.       *)
NoOrphans == \A s \in sources : packets[s.packet] = s.tenant

(* An export takes each packet whole or, when its tenant was deleted after *)
(* the packets were listed, without any source; never with a part of them  *)
(* or with those of a packet recorded later.                               *)
ExportAllOrNothing ==
    \A r \in Readers : \A k \in DOMAIN export[r].bundle :
        export[r].bundle[k].sources \in {{}, recorded[export[r].bundle[k].packet]}
=============================================================================
