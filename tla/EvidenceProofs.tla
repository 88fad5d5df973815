---------------------------- MODULE EvidenceProofs ----------------------------
(***************************************************************************)
(* Theorems about the evidence database (EvidenceStore, EvidenceMigration) *)
(* and what is answered from it (Answers).                                 *)
(***************************************************************************)
EXTENDS EvidenceStore, EvidenceMigration, Answers, TLAPS, FiniteSetTheorems, SequenceTheorems

-----------------------------------------------------------------------------
(* Packets and their sources: the inductive invariant.  Ids are not used   *)
(* up before their time, ...                                               *)
StoreCounters == nextSource <= (nextPacket - 1) * MaxEnvelopes + 1

(* ... a packet that is not recorded yet has left no trace, ...            *)
NothingAhead ==
    \A p \in PacketIds : p >= nextPacket => packets[p] = None /\ recorded[p] = {}

(* ... the rows of a packet are those it was recorded with, or none, ...   *)
RowsOf(p) == {s \in sources : s.packet = p}
PacketsWhole == \A p \in PacketIds : RowsOf(p) \in {{}, recorded[p]}

(* ... what a record_packet() has pending is of its packet and tenant, and *)
(* not more than its envelopes, ...                                        *)
PendingRows ==
    lock \in Writers =>
      /\ nextPacket \in PacketIds
      /\ txn.tenant \in Tenants
      /\ IsFiniteSet(txn.rows) /\ Cardinality(txn.rows) + Len(txn.todo) <= MaxEnvelopes
      /\ \A s \in txn.rows : s.packet = nextPacket /\ s.tenant = txn.tenant

(* ... and an export knows of no packet that is not recorded.              *)
ListedPackets ==
    \A r \in Readers :
      /\ \A p \in export[r].todo : p < nextPacket
      /\ \A k \in DOMAIN export[r].bundle : export[r].bundle[k].packet < nextPacket

StoreInv ==
    /\ EvidenceTypeOK /\ StoreCounters /\ NothingAhead
    /\ NoOrphans /\ PacketsWhole /\ PendingRows
    /\ ListedPackets /\ ExportAllOrNothing

LEMMA StoreInitial == EvidenceInit => StoreInv
<1> SUFFICES ASSUME EvidenceInit PROVE StoreInv
  OBVIOUS
<1> USE EvidenceAssumption DEF EvidenceInit
<1>1. /\ MaxPackets \in Nat /\ MaxEnvelopes \in Nat
      /\ MaxPackets * MaxEnvelopes \in Nat
  OBVIOUS
<1>2. NoTxn \in Transaction
  BY DEF NoTxn, Transaction
<1>3. Idle \in Export
  BY DEF Idle, Export
<1>4. EvidenceTypeOK
  <2>1. packets \in [PacketIds -> Tenants \cup {None}] /\ sources \subseteq SourceRow
    OBVIOUS
  <2>2. nextPacket \in 1..(MaxPackets + 1)
    OBVIOUS
  <2>3. nextSource \in 1..(MaxPackets * MaxEnvelopes + 1)
    BY <1>1
  <2>4. txn \in Transaction /\ export \in [Readers -> Export]
    BY <1>2, <1>3
  <2>5. recorded \in [PacketIds -> SUBSET SourceRow]
    OBVIOUS
  <2> QED
    BY <2>1, <2>2, <2>3, <2>4, <2>5 DEF EvidenceTypeOK
<1>5. StoreCounters
  BY <1>1 DEF StoreCounters
<1>6. NothingAhead /\ NoOrphans /\ PacketsWhole
  BY DEF NothingAhead, NoOrphans, PacketsWhole, RowsOf
<1>7. PendingRows
  BY DEF PendingRows
<1>8. ListedPackets /\ ExportAllOrNothing
  <2>1. \A r \in Readers : export[r].todo = {} /\ DOMAIN export[r].bundle = {}
    BY EmptySeq DEF Idle
  <2> QED
    BY <2>1 DEF ListedPackets, ExportAllOrNothing
<1> QED
  BY <1>4, <1>5, <1>6, <1>7, <1>8 DEF StoreInv

LEMMA SameTables ==
  ASSUME StoreInv, UNCHANGED <<tableVars, recorded>>
  PROVE  /\ StoreCounters' /\ NothingAhead' /\ NoOrphans' /\ PacketsWhole'
         /\ packets' \in [PacketIds -> Tenants \cup {None}] /\ sources' \subseteq SourceRow
         /\ nextPacket' \in 1..(MaxPackets + 1)
         /\ nextSource' \in 1..(MaxPackets * MaxEnvelopes + 1)
         /\ recorded' \in [PacketIds -> SUBSET SourceRow]
<1>1. /\ packets' = packets /\ sources' = sources /\ recorded' = recorded
      /\ nextPacket' = nextPacket /\ nextSource' = nextSource
  BY DEF tableVars
<1>2. StoreCounters' /\ NothingAhead' /\ NoOrphans'
  BY <1>1 DEF StoreInv, StoreCounters, NothingAhead, NoOrphans
<1>3. PacketsWhole'
  BY <1>1 DEF StoreInv, PacketsWhole, RowsOf
<1> QED
  BY <1>1, <1>2, <1>3 DEF StoreInv, EvidenceTypeOK

LEMMA SameExports ==
  ASSUME StoreInv, UNCHANGED <<export, recorded, nextPacket>>
  PROVE  ListedPackets' /\ ExportAllOrNothing' /\ export' \in [Readers -> Export]
BY DEF StoreInv, ListedPackets, ExportAllOrNothing, EvidenceTypeOK

LEMMA RecordBeginKeeps ==
  ASSUME StoreInv, NEW w \in Writers, NEW tn \in Tenants, NEW envs \in Envelopes,
         RecordBegin(w, tn, envs)
  PROVE  StoreInv'
<1> USE EvidenceAssumption DEF RecordBegin
<1>1. UNCHANGED <<tableVars, recorded>> /\ UNCHANGED <<export, recorded, nextPacket>>
  BY DEF tableVars
<1>2. envs \in Seq(Envelope) /\ Len(envs) <= MaxEnvelopes
  <2>1. PICK n \in 0..MaxEnvelopes : envs \in [1..n -> Envelope]
    BY DEF Envelopes
  <2> QED
    BY <2>1
<1>3. txn' \in Transaction
  BY <1>2 DEF Transaction
<1>4. EvidenceTypeOK'
  BY <1>1, <1>3, SameTables, SameExports DEF EvidenceTypeOK
<1>5. PendingRows'
  <2>1. nextPacket' \in PacketIds
    BY <1>1 DEF tableVars
  <2>2. IsFiniteSet(txn.rows)' /\ (Cardinality(txn.rows) = 0)'
    BY FS_EmptySet
  <2>3. Len(txn.todo)' <= MaxEnvelopes /\ Len(txn.todo)' \in Nat
    BY <1>2
  <2> QED
    BY <2>1, <2>2, <2>3 DEF PendingRows
<1> QED
  BY <1>1, <1>4, <1>5, SameTables, SameExports DEF StoreInv

LEMMA InsertSourceKeeps ==
  ASSUME StoreInv, NEW w \in Writers, InsertSource(w)
  PROVE  StoreInv'
<1> USE EvidenceAssumption DEF InsertSource
<1> DEFINE e == Head(txn.todo)
<1>1. UNCHANGED <<tableVars, recorded>> /\ UNCHANGED <<export, recorded, nextPacket>>
  BY DEF tableVars
<1>2. /\ nextPacket \in PacketIds /\ txn.tenant \in Tenants
      /\ IsFiniteSet(txn.rows) /\ Cardinality(txn.rows) + Len(txn.todo) <= MaxEnvelopes
      /\ \A s \in txn.rows : s.packet = nextPacket /\ s.tenant = txn.tenant
  BY DEF StoreInv, PendingRows
<1>3. /\ txn \in Transaction
      /\ nextSource \in 1..(MaxPackets * MaxEnvelopes + 1) /\ nextPacket \in 1..(MaxPackets + 1)
  BY DEF StoreInv, EvidenceTypeOK
<1>4. txn.todo \in Seq(Envelope) /\ txn.rows \subseteq SourceRow
  BY <1>3 DEF Transaction
<1>5. /\ e \in Envelope /\ Tail(txn.todo) \in Seq(Envelope)
      /\ Len(Tail(txn.todo)) = Len(txn.todo) - 1 /\ Len(txn.todo) \in Nat
  BY <1>4, HeadTailProperties
<1>6. Cardinality(txn.rows) \in Nat
  BY <1>2, FS_CardinalityType
<1>7. nextSource + Cardinality(txn.rows) \in SourceIds
  <2> DEFINE c == Cardinality(txn.rows)  len == Len(txn.todo)
  <2>1. len >= 1
    BY <1>5, <1>4, EmptySeq
  <2>2. c < MaxEnvelopes
    <3>1. c \in Nat /\ len \in Nat /\ c + len <= MaxEnvelopes
      BY <1>2, <1>5, <1>6
    <3> HIDE DEF c, len
    <3> QED
      BY <2>1, <3>1
  <2>3. nextSource <= (nextPacket - 1) * MaxEnvelopes + 1
    BY DEF StoreInv, StoreCounters
  <2>4. nextPacket \in Nat /\ nextPacket >= 1 /\ nextPacket <= MaxPackets
    BY <1>2 DEF PacketIds
  <2>5. nextPacket * MaxEnvelopes <= MaxPackets * MaxEnvelopes
    BY <2>4
  <2>6. (nextPacket - 1) * MaxEnvelopes = nextPacket * MaxEnvelopes - MaxEnvelopes
    BY <2>4
  <2>7. /\ nextPacket * MaxEnvelopes \in Nat /\ MaxPackets * MaxEnvelopes \in Nat
        /\ nextSource \in Nat /\ nextSource >= 1 /\ c \in Nat
    BY <1>3, <1>6, <2>4
  <2> HIDE DEF c
  <2> DEFINE np == nextPacket * MaxEnvelopes  mp == MaxPackets * MaxEnvelopes
             q == (nextPacket - 1) * MaxEnvelopes
  <2>8. np \in Nat /\ mp \in Nat /\ np <= mp /\ q = np - MaxEnvelopes /\ nextSource <= q + 1
    BY <2>3, <2>5, <2>6, <2>7
  <2> HIDE DEF np, mp, q
  <2>9. nextSource + c \in 1..mp
    BY <2>2, <2>7, <2>8
  <2> QED
    BY <2>9 DEF c, mp, SourceIds
<1>8. /\ NewRow(e) \in SourceRow
      /\ NewRow(e).packet = nextPacket /\ NewRow(e).tenant = txn.tenant
  BY <1>2, <1>5, <1>7 DEF NewRow, SourceRow, Envelope
<1> DEFINE row == NewRow(e)
<1>9. /\ txn'.tenant = txn.tenant /\ txn'.todo = Tail(txn.todo)
      /\ txn'.rows = txn.rows \cup {row} /\ txn' \in Transaction
  <2>1. txn' = [txn EXCEPT !.todo = Tail(@), !.rows = @ \cup {row}]
    OBVIOUS
  <2> HIDE DEF row
  <2> QED
    BY <1>3, <1>5, <1>4, <1>8, <2>1 DEF Transaction, row
<1>10. EvidenceTypeOK'
  BY <1>1, <1>9, SameTables, SameExports DEF EvidenceTypeOK, StoreInv
<1>11. PendingRows'
  <2> HIDE DEF row, e
  <2>1. /\ IsFiniteSet(txn'.rows) /\ Cardinality(txn'.rows) <= Cardinality(txn.rows) + 1
        /\ Cardinality(txn'.rows) \in Nat
    <3>1. /\ IsFiniteSet(txn.rows \cup {row})
          /\ Cardinality(txn.rows \cup {row}) \in {Cardinality(txn.rows), Cardinality(txn.rows) + 1}
      BY <1>2, FS_AddElement
    <3>2. txn'.rows = txn.rows \cup {row}
      BY <1>9
    <3>3. /\ IsFiniteSet(txn'.rows)
          /\ Cardinality(txn'.rows) \in {Cardinality(txn.rows), Cardinality(txn.rows) + 1}
      BY <3>1, <3>2
    <3> QED
      BY <1>6, <3>3
  <2>2. Cardinality(txn'.rows) + Len(txn'.todo) <= MaxEnvelopes
    <3>1. Len(txn'.todo) = Len(txn.todo) - 1
      BY <1>5, <1>9
    <3> QED
      BY <1>2, <1>5, <1>6, <2>1, <3>1
  <2>3. \A s \in txn'.rows : s.packet = nextPacket /\ s.tenant = txn.tenant
    BY <1>2, <1>8, <1>9 DEF row
  <2>4. nextPacket' = nextPacket /\ txn'.tenant = txn.tenant
    BY <1>1, <1>9
  <2> QED
    BY <1>2, <2>1, <2>2, <2>3, <2>4 DEF PendingRows
<1> QED
  BY <1>1, <1>10, <1>11, SameTables, SameExports DEF StoreInv

LEMMA ExportEntries ==
  ASSUME export \in [Readers -> Export]
  PROVE  \A r \in Readers : \A k \in DOMAIN export[r].bundle :
           export[r].bundle[k] \in PacketExport
<1> SUFFICES ASSUME NEW r \in Readers, NEW k \in DOMAIN export[r].bundle
             PROVE  export[r].bundle[k] \in PacketExport
  OBVIOUS
<1> DEFINE b == export[r].bundle
<1>1. b \in Seq(PacketExport)
  BY DEF Export
<1>2. k \in 1..Len(b)
  BY <1>1, LenProperties
<1> QED
  BY <1>1, <1>2, ElementOfSeq

LEMMA RecordCommitKeeps ==
  ASSUME StoreInv, NEW w \in Writers, RecordCommit(w)
  PROVE  StoreInv'
<1> USE EvidenceAssumption DEF RecordCommit
<1> DEFINE p == nextPacket  c == Cardinality(txn.rows)
<1>1. /\ p \in PacketIds /\ txn.tenant \in Tenants
      /\ IsFiniteSet(txn.rows) /\ c \in Nat /\ c <= MaxEnvelopes
      /\ \A s \in txn.rows : s.packet = p /\ s.tenant = txn.tenant
  <2>1. IsFiniteSet(txn.rows) /\ Cardinality(txn.rows) + Len(txn.todo) <= MaxEnvelopes
    BY DEF StoreInv, PendingRows
  <2>2. Len(txn.todo) = 0
    OBVIOUS
  <2>3. c \in Nat
    BY <2>1, FS_CardinalityType
  <2>4. c <= MaxEnvelopes
    BY <2>1, <2>2, <2>3
  <2> QED
    BY <2>1, <2>3, <2>4 DEF StoreInv, PendingRows
<1>2. /\ packets \in [PacketIds -> Tenants \cup {None}] /\ sources \subseteq SourceRow
      /\ p \in 1..(MaxPackets + 1) /\ nextSource \in 1..(MaxPackets * MaxEnvelopes + 1)
      /\ txn \in Transaction /\ export \in [Readers -> Export]
      /\ recorded \in [PacketIds -> SUBSET SourceRow]
  BY DEF StoreInv, EvidenceTypeOK
<1>3. txn.rows \subseteq SourceRow
  BY <1>2 DEF Transaction
<1>4. p \in Nat /\ p >= 1 /\ p <= MaxPackets
  BY <1>1 DEF PacketIds
<1>5. nextSource' <= (nextPacket' - 1) * MaxEnvelopes + 1 /\ nextSource' \in SourceIds \cup {MaxPackets * MaxEnvelopes + 1}
  <2> DEFINE q == (p - 1) * MaxEnvelopes  np == p * MaxEnvelopes  mp == MaxPackets * MaxEnvelopes
  <2>1. np <= mp
    BY <1>4
  <2>2. q = np - MaxEnvelopes /\ np \in Nat /\ mp \in Nat
    BY <1>4
  <2>3. nextSource <= q + 1 /\ nextSource \in Nat /\ nextSource >= 1
    BY <1>2 DEF StoreInv, StoreCounters
  <2>4. nextSource' = nextSource + c /\ nextPacket' - 1 = p
    BY <1>4
  <2>5. (nextPacket' - 1) * MaxEnvelopes = np
    BY <2>4
  <2> HIDE DEF q, np, mp, c
  <2>6. nextSource' <= np + 1 /\ nextSource' \in 1..(mp + 1)
    BY <1>1, <2>1, <2>2, <2>3, <2>4
  <2> QED
    BY <2>5, <2>6, <2>2 DEF mp, SourceIds
<1>6. EvidenceTypeOK'
  <2>1. packets' \in [PacketIds -> Tenants \cup {None}] /\ sources' \subseteq SourceRow
    BY <1>1, <1>2, <1>3
  <2>2. nextPacket' \in 1..(MaxPackets + 1)
    BY <1>4
  <2>3. nextSource' \in 1..(MaxPackets * MaxEnvelopes + 1)
    <3> HIDE DEF RecordCommit
    <3> DEFINE mp == MaxPackets * MaxEnvelopes
    <3>1. mp \in Nat
      OBVIOUS
    <3>2. nextSource' \in 1..mp \cup {mp + 1}
      BY <1>5 DEF SourceIds
    <3> HIDE DEF mp
    <3>3. nextSource' \in 1..(mp + 1)
      BY <3>1, <3>2
    <3> QED
      BY <3>3 DEF mp
  <2>4. lock' \in Writers \cup {Admin, Nobody} /\ txn' \in Transaction
    BY DEF NoTxn, Transaction
  <2>5. recorded' \in [PacketIds -> SUBSET SourceRow]
    BY <1>2, <1>3
  <2> QED
    BY <1>2, <2>1, <2>2, <2>3, <2>4, <2>5 DEF EvidenceTypeOK
<1>7. StoreCounters'
  BY <1>5 DEF StoreCounters
<1>8. packets[p] = None /\ recorded[p] = {}
  BY <1>1, <1>4 DEF StoreInv, NothingAhead
<1>9. NothingAhead'
  <2> SUFFICES ASSUME NEW o \in PacketIds, o >= nextPacket'
               PROVE  packets'[o] = None /\ recorded'[o] = {}
    BY DEF NothingAhead
  <2>1. o > p
    BY <1>4 DEF PacketIds
  <2>2. o # p /\ o >= p
    BY <1>4, <2>1 DEF PacketIds
  <2> QED
    BY <1>2, <2>2 DEF StoreInv, NothingAhead
<1>10. \A s \in sources : s.packet \in PacketIds /\ s.packet # p /\ packets[s.packet] = s.tenant
  BY <1>2, <1>8 DEF StoreInv, NoOrphans, SourceRow
<1>11. packets'[p] = txn.tenant /\ \A o \in PacketIds \ {p} : packets'[o] = packets[o]
  BY <1>1, <1>2
<1>12. recorded'[p] = txn.rows /\ \A o \in PacketIds \ {p} : recorded'[o] = recorded[o]
  BY <1>1, <1>2
<1>13. NoOrphans'
  <2> SUFFICES ASSUME NEW s \in sources \cup txn.rows PROVE packets'[s.packet] = s.tenant
    BY DEF NoOrphans
  <2>1. CASE s \in sources
    BY <1>10, <1>11, <2>1
  <2>2. CASE s \in txn.rows
    BY <1>1, <1>11, <2>2
  <2> QED
    BY <2>1, <2>2
<1>14. PacketsWhole'
  <2> SUFFICES ASSUME NEW o \in PacketIds
               PROVE  {s \in sources' : s.packet = o} \in {{}, recorded'[o]}
    BY DEF PacketsWhole, RowsOf
  <2>1. CASE o = p
    <3>1. {s \in sources \cup txn.rows : s.packet = p} = txn.rows
      BY <1>1, <1>10
    <3> QED
      BY <2>1, <3>1, <1>12
  <2>2. CASE o # p
    <3>1. {s \in sources \cup txn.rows : s.packet = o} = {s \in sources : s.packet = o}
      BY <1>1, <2>2
    <3>2. {s \in sources : s.packet = o} \in {{}, recorded[o]}
      BY DEF StoreInv, PacketsWhole, RowsOf
    <3> QED
      BY <2>2, <3>1, <3>2, <1>12
  <2> QED
    BY <2>1, <2>2
<1>15. PendingRows'
  BY DEF PendingRows
<1>16. ListedPackets'
  <2>1. \A r \in Readers : \A k \in DOMAIN export[r].bundle : export[r].bundle[k].packet \in PacketIds
    BY <1>2, ExportEntries DEF PacketExport
  <2>2. \A r \in Readers : export[r].todo \subseteq PacketIds
    BY <1>2 DEF Export
  <2>3. \A o \in PacketIds : o < nextPacket => o < nextPacket'
    BY <1>4 DEF PacketIds
  <2> QED
    BY <2>1, <2>2, <2>3 DEF StoreInv, ListedPackets
<1>17. ExportAllOrNothing'
  <2>1. \A r \in Readers : \A k \in DOMAIN export[r].bundle :
          export[r].bundle[k].packet \in PacketIds \ {p}
    <3>1. \A r \in Readers : \A k \in DOMAIN export[r].bundle : export[r].bundle[k].packet \in PacketIds
      BY <1>2, ExportEntries DEF PacketExport
    <3>2. \A o \in PacketIds : o < p => o # p
      BY DEF PacketIds
    <3> QED
      BY <3>1, <3>2 DEF StoreInv, ListedPackets
  <2> QED
    BY <2>1, <1>12 DEF StoreInv, ExportAllOrNothing
<1> QED
  BY <1>6, <1>7, <1>9, <1>13, <1>14, <1>15, <1>16, <1>17 DEF StoreInv

LEMMA DeleteBeginKeeps ==
  ASSUME StoreInv, NEW tn \in Tenants, DeleteBegin(tn)
  PROVE  StoreInv'
<1> USE EvidenceAssumption DEF DeleteBegin
<1>1. UNCHANGED <<tableVars, recorded>> /\ UNCHANGED <<export, recorded, nextPacket>>
  BY DEF tableVars
<1>2. txn' \in Transaction /\ lock' = Admin
  BY DEF Transaction
<1>3. EvidenceTypeOK'
  BY <1>1, <1>2, SameTables, SameExports DEF EvidenceTypeOK
<1>4. PendingRows'
  BY <1>2 DEF PendingRows
<1> QED
  BY <1>1, <1>3, <1>4, SameTables, SameExports DEF StoreInv

LEMMA TxnRollbackKeeps ==
  ASSUME StoreInv, TxnRollback
  PROVE  StoreInv'
<1> USE EvidenceAssumption DEF TxnRollback
<1>1. UNCHANGED <<tableVars, recorded>> /\ UNCHANGED <<export, recorded, nextPacket>>
  BY DEF tableVars
<1>2. txn' \in Transaction /\ lock' = Nobody
  BY DEF NoTxn, Transaction
<1>3. EvidenceTypeOK'
  BY <1>1, <1>2, SameTables, SameExports DEF EvidenceTypeOK
<1>4. PendingRows'
  BY <1>2 DEF PendingRows
<1> QED
  BY <1>1, <1>3, <1>4, SameTables, SameExports DEF StoreInv

LEMMA DeleteCommitKeeps ==
  ASSUME StoreInv, DeleteCommit
  PROVE  StoreInv'
<1> USE EvidenceAssumption DEF DeleteCommit
<1>1. /\ packets \in [PacketIds -> Tenants \cup {None}] /\ sources \subseteq SourceRow
      /\ nextPacket \in 1..(MaxPackets + 1) /\ nextSource \in 1..(MaxPackets * MaxEnvelopes + 1)
      /\ export \in [Readers -> Export] /\ recorded \in [PacketIds -> SUBSET SourceRow]
  BY DEF StoreInv, EvidenceTypeOK
<1>2. UNCHANGED <<export, recorded, nextPacket>> /\ nextSource' = nextSource
  OBVIOUS
<1>3. EvidenceTypeOK'
  <2>1. packets' \in [PacketIds -> Tenants \cup {None}] /\ sources' \subseteq SourceRow
    BY <1>1
  <2>2. txn' \in Transaction /\ lock' \in Writers \cup {Admin, Nobody}
    BY DEF NoTxn, Transaction
  <2> QED
    BY <1>1, <1>2, <2>1, <2>2 DEF EvidenceTypeOK
<1>4. StoreCounters' /\ PendingRows'
  BY <1>2 DEF StoreInv, StoreCounters, PendingRows
<1>5. NothingAhead'
  BY <1>1, <1>2 DEF StoreInv, NothingAhead
<1>6. \A s \in sources : s.packet \in PacketIds /\ packets[s.packet] = s.tenant
  BY <1>1 DEF StoreInv, NoOrphans, SourceRow
<1>7. NoOrphans'
  BY <1>6 DEF NoOrphans
<1>8. PacketsWhole'
  <2> SUFFICES ASSUME NEW o \in PacketIds
               PROVE  {s \in sources' : s.packet = o} \in {{}, recorded[o]}
    BY <1>2 DEF PacketsWhole, RowsOf
  <2>1. {s \in sources : s.packet = o} \in {{}, recorded[o]}
    BY DEF StoreInv, PacketsWhole, RowsOf
  <2>2. CASE packets[o] = txn.tenant
    <3>1. {s \in sources' : s.packet = o} = {}
      BY <1>6, <2>2
    <3> QED
      BY <3>1
  <2>3. CASE packets[o] # txn.tenant
    <3>1. {s \in sources' : s.packet = o} = {s \in sources : s.packet = o}
      BY <1>6, <2>3
    <3> QED
      BY <2>1, <3>1
  <2> QED
    BY <2>2, <2>3
<1> QED
  BY <1>2, <1>3, <1>4, <1>5, <1>7, <1>8, SameExports DEF StoreInv

(* An export never disturbs anybody else: what is left to show is its own  *)
(* record.                                                                 *)
LEMMA ExportStepKeeps ==
  ASSUME StoreInv, NEW r \in Readers, NEW x \in Export,
         export' = [export EXCEPT ![r] = x],
         UNCHANGED <<tableVars, lock, txn, recorded>>,
         \A p \in x.todo : p < nextPacket,
         \A k \in DOMAIN x.bundle :
           /\ x.bundle[k].packet < nextPacket
           /\ x.bundle[k].sources \in {{}, recorded[x.bundle[k].packet]}
  PROVE  StoreInv'
<1>1. export \in [Readers -> Export]
  BY DEF StoreInv, EvidenceTypeOK
<1>2. \A q \in Readers : export'[q] = IF q = r THEN x ELSE export[q]
  BY <1>1
<1>3. UNCHANGED <<tableVars, recorded>> /\ nextPacket' = nextPacket /\ lock' = lock /\ txn' = txn
      /\ recorded' = recorded
  BY DEF tableVars
<1>4. EvidenceTypeOK'
  <2>1. export' \in [Readers -> Export]
    BY <1>1
  <2> QED
    BY <1>3, <2>1, SameTables DEF EvidenceTypeOK, StoreInv
<1>5. PendingRows'
  BY <1>3 DEF StoreInv, PendingRows
<1>6. ListedPackets'
  BY <1>2, <1>3 DEF StoreInv, ListedPackets
<1>7. ExportAllOrNothing'
  BY <1>2, <1>3 DEF StoreInv, ExportAllOrNothing
<1> QED
  BY <1>3, <1>4, <1>5, <1>6, <1>7, SameTables DEF StoreInv

LEMMA ExportPacketsKeeps ==
  ASSUME StoreInv, NEW r \in Readers, NEW tn \in Tenants, ExportPackets(r, tn)
  PROVE  StoreInv'
<1> USE EvidenceAssumption
<1> DEFINE x == [tenant |-> tn, todo |-> {p \in PacketIds : packets[p] = tn},
                 bundle |-> <<>>, done |-> FALSE]
<1>1. export' = [export EXCEPT ![r] = x] /\ UNCHANGED <<tableVars, lock, txn, recorded>>
  BY DEF ExportPackets
<1>2. x \in Export
  BY DEF Export
<1>3. \A p \in x.todo : p < nextPacket
  <2> SUFFICES ASSUME NEW p \in PacketIds, packets[p] = tn PROVE p < nextPacket
    OBVIOUS
  <2>1. nextPacket \in Nat /\ p \in Nat
    BY DEF StoreInv, EvidenceTypeOK, PacketIds
  <2>2. ~ (p >= nextPacket)
    BY DEF StoreInv, NothingAhead
  <2> QED
    BY <2>1, <2>2
<1>4. DOMAIN x.bundle = {}
  BY EmptySeq
<1> HIDE DEF x
<1> QED
  BY <1>1, <1>2, <1>3, <1>4, ExportStepKeeps

LEMMA ExportSourcesKeeps ==
  ASSUME StoreInv, NEW r \in Readers, ExportSources(r)
  PROVE  StoreInv'
<1> USE EvidenceAssumption
<1>1. PICK p \in export[r].todo :
        export' = [export EXCEPT
                ![r].todo = @ \ {p},
                ![r].bundle = Append(@, [packet |-> p, sources |-> SourcesOf(p, export[r].tenant)])]
  BY DEF ExportSources
<1>2. /\ export \in [Readers -> Export] /\ sources \subseteq SourceRow
      /\ recorded \in [PacketIds -> SUBSET SourceRow]
  BY DEF StoreInv, EvidenceTypeOK
<1> DEFINE entry == [packet |-> p, sources |-> SourcesOf(p, export[r].tenant)]
           b == export[r].bundle
<1>3. export[r] \in Export /\ b \in Seq(PacketExport) /\ p \in PacketIds
  BY <1>2 DEF Export
<1>4. entry \in PacketExport
  BY <1>2, <1>3 DEF PacketExport, SourcesOf
<1>5. entry.packet = p /\ entry.sources \in {{}, recorded[p]}
  <2>1. \A s \in sources : s.packet = p => s.tenant = packets[p]
    BY DEF StoreInv, NoOrphans
  <2>2. {s \in sources : s.packet = p} \in {{}, recorded[p]}
    BY <1>3 DEF StoreInv, PacketsWhole, RowsOf
  <2>3. SourcesOf(p, export[r].tenant) \in {{}, {s \in sources : s.packet = p}}
    <3>1. CASE packets[p] = export[r].tenant
      BY <2>1, <3>1 DEF SourcesOf
    <3>2. CASE packets[p] # export[r].tenant
      BY <2>1, <3>2 DEF SourcesOf
    <3> QED
      BY <3>1, <3>2
  <2> QED
    BY <2>2, <2>3
<1> HIDE DEF entry
<1>6. /\ Append(b, entry) \in Seq(PacketExport)
      /\ DOMAIN Append(b, entry) = 1..(Len(b) + 1)
      /\ \A k \in 1..Len(b) : Append(b, entry)[k] = b[k]
      /\ Append(b, entry)[Len(b) + 1] = entry
      /\ Len(b) \in Nat /\ DOMAIN b = 1..Len(b)
  BY <1>3, <1>4, AppendProperties, LenProperties
<1> DEFINE x == export'[r]
<1>7. /\ x.todo = export[r].todo \ {p} /\ x.bundle = Append(b, entry) /\ x \in Export
      /\ export' = [export EXCEPT ![r] = x]
  <2>1. export' = [export EXCEPT ![r].todo = @ \ {p}, ![r].bundle = Append(@, entry)]
    BY <1>1 DEF entry
  <2> QED
    BY <1>2, <1>3, <1>6, <2>1 DEF Export
<1> HIDE DEF x
<1>8. \A q \in x.todo : q < nextPacket
  BY <1>7 DEF StoreInv, ListedPackets
<1>9. \A k \in DOMAIN x.bundle :
        /\ x.bundle[k].packet < nextPacket
        /\ x.bundle[k].sources \in {{}, recorded[x.bundle[k].packet]}
  <2> SUFFICES ASSUME NEW k \in 1..(Len(b) + 1)
               PROVE  /\ Append(b, entry)[k].packet < nextPacket
                      /\ Append(b, entry)[k].sources \in {{}, recorded[Append(b, entry)[k].packet]}
    BY <1>6, <1>7
  <2>1. CASE k \in 1..Len(b)
    <3>1. b[k].packet < nextPacket /\ b[k].sources \in {{}, recorded[b[k].packet]}
      BY <1>6, <2>1 DEF StoreInv, ListedPackets, ExportAllOrNothing
    <3> QED
      BY <1>6, <2>1, <3>1
  <2>2. CASE k = Len(b) + 1
    <3>1. p < nextPacket
      BY DEF StoreInv, ListedPackets
    <3> QED
      BY <1>5, <1>6, <2>2, <3>1
  <2> QED
    BY <1>6, <2>1, <2>2
<1>10. UNCHANGED <<tableVars, lock, txn, recorded>>
  BY DEF ExportSources
<1> QED
  BY <1>7, <1>8, <1>9, <1>10, ExportStepKeeps

LEMMA ExportDoneKeeps ==
  ASSUME StoreInv, NEW r \in Readers, ExportDone(r)
  PROVE  StoreInv'
<1>1. export \in [Readers -> Export] /\ export' = [export EXCEPT ![r].done = TRUE]
  BY DEF StoreInv, EvidenceTypeOK, ExportDone
<1> DEFINE x == export'[r]
<1>2. /\ x.todo = export[r].todo /\ x.bundle = export[r].bundle /\ x \in Export
      /\ export' = [export EXCEPT ![r] = x]
  BY <1>1 DEF Export
<1> HIDE DEF x
<1>3. UNCHANGED <<tableVars, lock, txn, recorded>>
  BY DEF ExportDone
<1>4. \A p \in x.todo : p < nextPacket
  BY <1>2 DEF StoreInv, ListedPackets
<1>5. \A k \in DOMAIN x.bundle :
        /\ x.bundle[k].packet < nextPacket
        /\ x.bundle[k].sources \in {{}, recorded[x.bundle[k].packet]}
  BY <1>2 DEF StoreInv, ListedPackets, ExportAllOrNothing
<1> QED
  BY <1>2, <1>3, <1>4, <1>5, ExportStepKeeps

LEMMA ExportReturnedKeeps ==
  ASSUME StoreInv, NEW r \in Readers, ExportReturned(r)
  PROVE  StoreInv'
<1>1. export' = [export EXCEPT ![r] = Idle] /\ UNCHANGED <<tableVars, lock, txn, recorded>>
  BY DEF ExportReturned
<1>2. Idle \in Export /\ Idle.todo = {} /\ DOMAIN Idle.bundle = {}
  BY EmptySeq DEF Idle, Export
<1> QED
  BY <1>1, <1>2, ExportStepKeeps

LEMMA StoreStutters ==
  ASSUME StoreInv, UNCHANGED evidenceVars
  PROVE  StoreInv'
<1>1. /\ UNCHANGED <<tableVars, recorded>> /\ UNCHANGED <<export, recorded, nextPacket>>
      /\ lock' = lock /\ txn' = txn /\ nextPacket' = nextPacket
  BY DEF evidenceVars, tableVars
<1>2. EvidenceTypeOK'
  BY <1>1, SameTables, SameExports DEF StoreInv, EvidenceTypeOK
<1>3. PendingRows'
  BY <1>1 DEF StoreInv, PendingRows
<1> QED
  BY <1>1, <1>2, <1>3, SameTables, SameExports DEF StoreInv

(* The invariant holds in every reachable state, for every set of writers, *)
(* readers and tenants and every bound.                                    *)
THEOREM StoreInvariant == EvidenceSpec => []StoreInv
<1>1. ASSUME StoreInv, [EvidenceNext]_evidenceVars
      PROVE  StoreInv'
  <2>1. ASSUME NEW w \in Writers, NEW tn \in Tenants, NEW envs \in Envelopes,
               RecordBegin(w, tn, envs)
        PROVE  StoreInv'
    BY <1>1, <2>1, RecordBeginKeeps
  <2>2. ASSUME NEW w \in Writers, InsertSource(w)
        PROVE  StoreInv'
    BY <1>1, <2>2, InsertSourceKeeps
  <2>3. ASSUME NEW w \in Writers, RecordCommit(w)
        PROVE  StoreInv'
    BY <1>1, <2>3, RecordCommitKeeps
  <2>4. ASSUME NEW tn \in Tenants, DeleteBegin(tn)
        PROVE  StoreInv'
    BY <1>1, <2>4, DeleteBeginKeeps
  <2>5. CASE DeleteCommit
    BY <1>1, <2>5, DeleteCommitKeeps
  <2>6. CASE TxnRollback
    BY <1>1, <2>6, TxnRollbackKeeps
  <2>7. ASSUME NEW r \in Readers, NEW tn \in Tenants, ExportPackets(r, tn)
        PROVE  StoreInv'
    BY <1>1, <2>7, ExportPacketsKeeps
  <2>8. ASSUME NEW r \in Readers, ExportSources(r)
        PROVE  StoreInv'
    BY <1>1, <2>8, ExportSourcesKeeps
  <2>9. ASSUME NEW r \in Readers, ExportDone(r)
        PROVE  StoreInv'
    BY <1>1, <2>9, ExportDoneKeeps
  <2>10. ASSUME NEW r \in Readers, ExportReturned(r)
         PROVE  StoreInv'
    BY <1>1, <2>10, ExportReturnedKeeps
  <2>11. CASE UNCHANGED evidenceVars
    BY <1>1, <2>11, StoreStutters
  <2> QED
    BY <1>1, <2>1, <2>2, <2>3, <2>4, <2>5, <2>6, <2>7, <2>8, <2>9, <2>10, <2>11
       DEF EvidenceNext
<1> QED
  BY <1>1, StoreInitial, PTL DEF EvidenceSpec

(* The tables, the open transaction and the exports have their types; in   *)
(* particular the ids that AUTOINCREMENT hands out stay within the bounds. *)
THEOREM StoreTypeCorrect == EvidenceSpec => []EvidenceTypeOK
<1>1. StoreInv => EvidenceTypeOK
  BY DEF StoreInv
<1> QED
  BY <1>1, StoreInvariant, PTL

(* A rolled back record_packet() and a delete_tenant() leave no source     *)
(* without its packet, however they interleave.                            *)
THEOREM NoSourceIsOrphaned == EvidenceSpec => []NoOrphans
<1>1. StoreInv => NoOrphans
  BY DEF StoreInv
<1> QED
  BY <1>1, StoreInvariant, PTL

(* export_tenant() reads between other connections' transactions and still *)
(* gets each packet whole or without a source.                             *)
THEOREM ExportsWholePackets == EvidenceSpec => []ExportAllOrNothing
<1>1. StoreInv => ExportAllOrNothing
  BY DEF StoreInv
<1> QED
  BY <1>1, StoreInvariant, PTL

-----------------------------------------------------------------------------
(* Opening the database: what an opener may rely on at each step, whoever  *)
(* else is opening and wherever one died.                                  *)
TablesExist ==
    \A o \in Openers :
        /\ pc[o] = "create sources" => "packets" \in tables
        /\ pc[o] \in {"check packets", "alter packets", "check sources", "alter sources",
                      "index sources", "index packets", "open"} => tables = Tables

PacketsMigrated ==
    \A o \in Openers :
        pc[o] \in {"check sources", "alter sources", "index sources", "index packets", "open"}
          => "packets" \in migrated

SourcesMigrated ==
    \A o \in Openers :
        pc[o] \in {"index sources", "index packets", "open"} => "sources" \in migrated

IndexedWhenOpen ==
    \A o \in Openers :
        /\ pc[o] \in {"index packets", "open"} => "sources" \in indexed
        /\ pc[o] = "open" => "packets" \in indexed

MigrationInv ==
    /\ MigrationTypeOK /\ TablesExist /\ PacketsMigrated /\ SourcesMigrated /\ IndexedWhenOpen

LEMMA MigrationInitial == MigrationInit => MigrationInv
BY MigrationAssumption
   DEF MigrationInit, MigrationInv, MigrationTypeOK, TablesExist, PacketsMigrated,
       SourcesMigrated, IndexedWhenOpen, Tables, Steps

(* An opener's step that only ever adds to the database keeps what the     *)
(* other openers rely on; what is left is what it relies on itself.        *)
LEMMA OpenerStepKeeps ==
  ASSUME MigrationInv, NEW o \in Openers,
         NEW step \in Steps \cup {"closed", "open", "failed"}, Goto(o, step),
         tables \subseteq tables', migrated \subseteq migrated', indexed \subseteq indexed',
         migrated' \subseteq tables', tables' \subseteq Tables, indexed' \subseteq migrated',
         crashes' \in 0..MaxCrashes,
         step = "create sources" => "packets" \in tables',
         step \in {"check packets", "alter packets", "check sources", "alter sources",
                   "index sources", "index packets", "open"} => tables' = Tables,
         step \in {"check sources", "alter sources", "index sources", "index packets", "open"}
           => "packets" \in migrated',
         step \in {"index sources", "index packets", "open"} => "sources" \in migrated',
         step \in {"index packets", "open"} => "sources" \in indexed',
         step = "open" => "packets" \in indexed'
  PROVE  MigrationInv'
<1>1. \A q \in Openers : pc'[q] = IF q = o THEN step ELSE pc[q]
  BY DEF MigrationInv, MigrationTypeOK, Goto
<1>2. MigrationTypeOK'
  BY DEF MigrationInv, MigrationTypeOK, Goto
<1>3. TablesExist'
  BY <1>1 DEF MigrationInv, TablesExist, Tables
<1>4. PacketsMigrated'
  BY <1>1 DEF MigrationInv, PacketsMigrated
<1>5. SourcesMigrated'
  BY <1>1 DEF MigrationInv, SourcesMigrated
<1>6. IndexedWhenOpen'
  BY <1>1 DEF MigrationInv, IndexedWhenOpen
<1> QED
  BY <1>2, <1>3, <1>4, <1>5, <1>6 DEF MigrationInv

(* What the statements do, whichever table they are about, before what the *)
(* opener may rely on at the next one.                                     *)
LEMMA CreateAdds ==
  ASSUME MigrationInv, NEW o \in Openers, NEW step, NEW t \in Tables, NEW next,
         Create(o, step, t, next)
  PROVE  /\ pc[o] = step /\ Goto(o, next)
         /\ tables' = tables \cup {t} /\ migrated \subseteq migrated' /\ indexed' = indexed
         /\ migrated' \subseteq tables' /\ tables' \subseteq Tables /\ indexed' \subseteq migrated'
         /\ crashes' \in 0..MaxCrashes
BY DEF Create, MigrationInv, MigrationTypeOK

LEMMA AlterAdds ==
  ASSUME MigrationInv, NEW o \in Openers, NEW step, NEW t \in tables, NEW next,
         Alter(o, step, t, next)
  PROVE  /\ pc[o] = step /\ tables' = tables /\ indexed' = indexed
         /\ \/ Goto(o, "failed") /\ migrated' = migrated
            \/ Goto(o, next) /\ migrated' = migrated \cup {t}
         /\ migrated \subseteq migrated' /\ migrated' \subseteq tables' /\ tables' \subseteq Tables
         /\ indexed' \subseteq migrated' /\ crashes' \in 0..MaxCrashes
BY DEF Alter, MigrationInv, MigrationTypeOK

(* The invariant holds in every reachable state, for every set of openers  *)
(* and every number of crashes.                                            *)
THEOREM MigrationInvariant == MigrationSpec => []MigrationInv
<1>1. ASSUME MigrationInv, [MigrationNext]_migrationVars
      PROVE  MigrationInv'
  <2>1. /\ migrated \subseteq tables /\ tables \subseteq Tables /\ indexed \subseteq migrated
        /\ pc \in [Openers -> Steps \cup {"closed", "open", "failed"}]
        /\ crashes \in 0..MaxCrashes
    BY <1>1 DEF MigrationInv, MigrationTypeOK
  <2>2. \A o \in Openers :
          /\ pc[o] = "create sources" => "packets" \in tables
          /\ pc[o] \in {"check packets", "alter packets", "check sources", "alter sources",
                        "index sources", "index packets", "open"} => tables = Tables
          /\ pc[o] \in {"check sources", "alter sources", "index sources", "index packets", "open"}
               => "packets" \in migrated
          /\ pc[o] \in {"index sources", "index packets", "open"} => "sources" \in migrated
          /\ pc[o] \in {"index packets", "open"} => "sources" \in indexed
    BY <1>1 DEF MigrationInv, TablesExist, PacketsMigrated, SourcesMigrated, IndexedWhenOpen
  <2>3. ASSUME NEW o \in Openers, Open(o)
        PROVE  MigrationInv'
    BY <1>1, <2>1, <2>3, OpenerStepKeeps DEF Open, Steps
  <2>4. ASSUME NEW o \in Openers, Create(o, "create packets", "packets", "create sources")
        PROVE  MigrationInv'
    <3>1. "packets" \in Tables
      BY DEF Tables
    <3>2. /\ Goto(o, "create sources")
          /\ tables' = tables \cup {"packets"} /\ migrated \subseteq migrated'
          /\ indexed' = indexed /\ migrated' \subseteq tables' /\ tables' \subseteq Tables
          /\ indexed' \subseteq migrated' /\ crashes' \in 0..MaxCrashes
      BY <1>1, <2>4, <3>1, CreateAdds
    <3> QED
      BY <1>1, <3>2, OpenerStepKeeps DEF Steps
  <2>5. ASSUME NEW o \in Openers, Create(o, "create sources", "sources", "check packets")
        PROVE  MigrationInv'
    <3>1. "sources" \in Tables
      BY DEF Tables
    <3>2. /\ pc[o] = "create sources" /\ Goto(o, "check packets")
          /\ tables' = tables \cup {"sources"} /\ migrated \subseteq migrated'
          /\ indexed' = indexed /\ migrated' \subseteq tables' /\ tables' \subseteq Tables
          /\ indexed' \subseteq migrated' /\ crashes' \in 0..MaxCrashes
      BY <1>1, <2>5, <3>1, CreateAdds
    <3>3. tables' = Tables
      BY <2>1, <2>2, <3>2 DEF Tables
    <3> QED
      BY <1>1, <3>2, <3>3, OpenerStepKeeps DEF Steps
  <2>6. ASSUME NEW o \in Openers,
               Check(o, "check packets", "packets", "alter packets", "check sources")
        PROVE  MigrationInv'
    <3>1. /\ pc[o] = "check packets" /\ UNCHANGED <<tables, migrated, indexed, crashes>>
          /\ Goto(o, IF "packets" \in migrated THEN "check sources" ELSE "alter packets")
      BY <2>6 DEF Check
    <3>2. CASE "packets" \in migrated
      BY <1>1, <2>1, <2>2, <3>1, <3>2, OpenerStepKeeps DEF Steps
    <3>3. CASE "packets" \notin migrated
      BY <1>1, <2>1, <2>2, <3>1, <3>3, OpenerStepKeeps DEF Steps
    <3> QED
      BY <3>2, <3>3
  <2>7. ASSUME NEW o \in Openers, Alter(o, "alter packets", "packets", "check sources")
        PROVE  MigrationInv'
    <3>1. pc[o] = "alter packets" /\ tables = Tables
      BY <2>2, <2>7 DEF Alter
    <3>2. "packets" \in tables
      BY <3>1 DEF Tables
    <3>3. /\ tables' = tables /\ indexed' = indexed
          /\ \/ Goto(o, "failed") /\ migrated' = migrated
             \/ Goto(o, "check sources") /\ migrated' = migrated \cup {"packets"}
          /\ migrated \subseteq migrated' /\ migrated' \subseteq tables' /\ tables' \subseteq Tables
          /\ indexed' \subseteq migrated' /\ crashes' \in 0..MaxCrashes
      BY <1>1, <2>7, <3>2, AlterAdds
    <3>4. CASE Goto(o, "failed")
      BY <1>1, <3>3, <3>4, OpenerStepKeeps
    <3>5. CASE Goto(o, "check sources") /\ migrated' = migrated \cup {"packets"}
      BY <1>1, <3>1, <3>3, <3>5, OpenerStepKeeps DEF Steps
    <3> QED
      BY <3>3, <3>4, <3>5
  <2>8. ASSUME NEW o \in Openers,
               Check(o, "check sources", "sources", "alter sources", "index sources")
        PROVE  MigrationInv'
    <3>1. /\ pc[o] = "check sources" /\ UNCHANGED <<tables, migrated, indexed, crashes>>
          /\ Goto(o, IF "sources" \in migrated THEN "index sources" ELSE "alter sources")
      BY <2>8 DEF Check
    <3>2. CASE "sources" \in migrated
      BY <1>1, <2>1, <2>2, <3>1, <3>2, OpenerStepKeeps DEF Steps
    <3>3. CASE "sources" \notin migrated
      BY <1>1, <2>1, <2>2, <3>1, <3>3, OpenerStepKeeps DEF Steps
    <3> QED
      BY <3>2, <3>3
  <2>9. ASSUME NEW o \in Openers, Alter(o, "alter sources", "sources", "index sources")
        PROVE  MigrationInv'
    <3>1. pc[o] = "alter sources" /\ tables = Tables /\ "packets" \in migrated
      BY <2>2, <2>9 DEF Alter
    <3>2. "sources" \in tables
      BY <3>1 DEF Tables
    <3>3. /\ tables' = tables /\ indexed' = indexed
          /\ \/ Goto(o, "failed") /\ migrated' = migrated
             \/ Goto(o, "index sources") /\ migrated' = migrated \cup {"sources"}
          /\ migrated \subseteq migrated' /\ migrated' \subseteq tables' /\ tables' \subseteq Tables
          /\ indexed' \subseteq migrated' /\ crashes' \in 0..MaxCrashes
      BY <1>1, <2>9, <3>2, AlterAdds
    <3>4. CASE Goto(o, "failed")
      BY <1>1, <3>3, <3>4, OpenerStepKeeps
    <3>5. CASE Goto(o, "index sources") /\ migrated' = migrated \cup {"sources"}
      BY <1>1, <3>1, <3>3, <3>5, OpenerStepKeeps DEF Steps
    <3> QED
      BY <3>3, <3>4, <3>5
  <2>10. ASSUME NEW o \in Openers, Index(o, "index sources", "sources", "index packets")
         PROVE  MigrationInv'
    <3>1. /\ pc[o] = "index sources" /\ UNCHANGED <<tables, migrated, crashes>>
          /\ tables = Tables /\ "packets" \in migrated /\ "sources" \in migrated
      BY <2>2, <2>10 DEF Index
    <3>2. indexed' = indexed \cup {"sources"} /\ Goto(o, "index packets")
      BY <2>10, <3>1 DEF Index
    <3> QED
      BY <1>1, <2>1, <3>1, <3>2, OpenerStepKeeps DEF Steps
  <2>11. ASSUME NEW o \in Openers, Index(o, "index packets", "packets", "open")
         PROVE  MigrationInv'
    <3>1. /\ pc[o] = "index packets" /\ UNCHANGED <<tables, migrated, crashes>>
          /\ tables = Tables /\ "packets" \in migrated /\ "sources" \in migrated
          /\ "sources" \in indexed
      BY <2>2, <2>11 DEF Index
    <3>2. indexed' = indexed \cup {"packets"} /\ Goto(o, "open")
      BY <2>11, <3>1 DEF Index
    <3> QED
      BY <1>1, <2>1, <3>1, <3>2, OpenerStepKeeps
  <2>12. ASSUME NEW o \in Openers, Close(o)
         PROVE  MigrationInv'
    BY <1>1, <2>1, <2>12, OpenerStepKeeps DEF Close
  <2>13. ASSUME NEW o \in Openers, Crash(o)
         PROVE  MigrationInv'
    <3>1. /\ Goto(o, "closed") /\ UNCHANGED <<tables, migrated, indexed>>
          /\ crashes' \in 0..MaxCrashes
      BY <2>1, <2>13, MigrationAssumption DEF Crash
    <3> QED
      BY <1>1, <2>1, <3>1, OpenerStepKeeps
  <2>14. CASE UNCHANGED migrationVars
    BY <1>1, <2>14
       DEF migrationVars, MigrationInv, MigrationTypeOK, TablesExist, PacketsMigrated,
           SourcesMigrated, IndexedWhenOpen
  <2> QED
    BY <1>1, <2>3, <2>4, <2>5, <2>6, <2>7, <2>8, <2>9, <2>10, <2>11, <2>12, <2>13, <2>14
       DEF MigrationNext, ConnStep
<1> QED
  BY <1>1, MigrationInitial, PTL DEF MigrationSpec

(* A connection that _conn() returns finds both tables migrated and        *)
(* indexed, however many openers race and die on the way.                  *)
THEOREM OpenConnectionsMigrated == MigrationSpec => []OpenMeansMigrated
<1>1. MigrationInv => OpenMeansMigrated
  BY DEF MigrationInv, MigrationTypeOK, OpenMeansMigrated, TablesExist, PacketsMigrated,
         SourcesMigrated, IndexedWhenOpen, Tables
<1> QED
  BY <1>1, MigrationInvariant, PTL

-----------------------------------------------------------------------------
(* Answers: what a question has read so far is the caller's, and is in the *)
(* corpus unless its tenant has been deleted meanwhile.                    *)
RowsAreTheCallers ==
    /\ ask.at \in {"idle", "query"} => ask.rows = {}
    /\ \A r \in ask.rows :
         /\ ask.owner \in {Everyone, r.owner}
         /\ r.owner \in evicted \/ r \in corpus

AnswersInv ==
    /\ AnswersTypeOK /\ IsFiniteSet(corpus) /\ IsFiniteSet(ask.rows)
    /\ ask.mode = "semantic" => ask.owner = Everyone
    /\ RowsAreTheCallers /\ AnswerGrounded

(* LIMIT n: a part of S, all of it when S is no larger, and something of   *)
(* it when there is anything.                                              *)
LEMMA LimitedIsPart ==
  ASSUME NEW S, IsFiniteSet(S), NEW n \in Nat, NEW T \in Limited(S, n)
  PROVE  /\ T \subseteq S /\ IsFiniteSet(T) /\ Cardinality(T) <= n
         /\ Cardinality(S) <= n => T = S
         /\ T = {} /\ n # 0 => S = {}
<1> DEFINE c == Cardinality(S)  k == IF c < n THEN c ELSE n
<1>1. T \subseteq S /\ Cardinality(T) = k
  BY DEF Limited, kSubset
<1>2. IsFiniteSet(T) /\ c \in Nat /\ (Cardinality(T) = c => T = S)
  BY <1>1, FS_Subset, FS_CardinalityType
<1>3. (T = {} => Cardinality(T) = 0) /\ (c = 0 => S = {})
  BY FS_EmptySet
<1> HIDE DEF c
<1>4. k <= n /\ (c <= n => k = c) /\ (k = 0 /\ n # 0 => c = 0)
  BY <1>2
<1> HIDE DEF k
<1>5. /\ Cardinality(T) <= n
      /\ c <= n => T = S
      /\ T = {} /\ n # 0 => S = {}
  BY <1>1, <1>2, <1>3, <1>4
<1> QED
  BY <1>1, <1>2, <1>5 DEF c

LEMMA AnswersInitial == AnswersInit => AnswersInv
<1> SUFFICES ASSUME AnswersInit PROVE AnswersInv
  OBVIOUS
<1> USE AnswersAssumption DEF AnswersInit, NoQuestion
<1>1. ask \in Asked
  BY DEF Asked, Modes
<1>2. IsFiniteSet(corpus) /\ IsFiniteSet(ask.rows)
  BY FS_EmptySet
<1> QED
  BY <1>1, <1>2 DEF AnswersInv, AnswersTypeOK, RowsAreTheCallers, AnswerGrounded

LEMMA AddEvidenceKeeps ==
  ASSUME AnswersInv, NEW site \in Sites, NEW owner \in Owners, NEW text \in Texts,
         NEW label \in Labels, AddEvidence(site, owner, text, label)
  PROVE  AnswersInv'
<1> DEFINE row == [id |-> nextRow, site |-> site, owner |-> owner, text |-> text,
                   label |-> label]
<1>1. /\ nextRow \in 1..MaxCorpus /\ nextRow' = nextRow + 1
      /\ corpus' = corpus \cup {row} /\ ask' = ask /\ evicted' = evicted
  BY AnswersAssumption DEF AddEvidence, AnswersInv, AnswersTypeOK
<1>2. row \in CorpusRow
  BY <1>1 DEF CorpusRow
<1> HIDE DEF row
<1>3. AnswersTypeOK'
  BY <1>1, <1>2, AnswersAssumption DEF AnswersInv, AnswersTypeOK
<1>4. IsFiniteSet(corpus') /\ IsFiniteSet(ask'.rows)
  BY <1>1, FS_AddElement DEF AnswersInv
<1>5. RowsAreTheCallers'
  BY <1>1 DEF AnswersInv, RowsAreTheCallers
<1>6. AnswerGrounded'
  BY <1>1 DEF AnswersInv, AnswerGrounded, Quotable
<1> QED
  BY <1>1, <1>3, <1>4, <1>5, <1>6 DEF AnswersInv

LEMMA EvictKeeps ==
  ASSUME AnswersInv, NEW owner \in Owners, Evict(owner)
  PROVE  AnswersInv'
<1>1. /\ corpus' = {r \in corpus : r.owner # owner} /\ ask' = ask /\ nextRow' = nextRow
      /\ evicted' = IF ask.at = "idle" THEN {} ELSE evicted \cup {owner}
  BY DEF Evict
<1>2. AnswersTypeOK'
  BY <1>1 DEF AnswersInv, AnswersTypeOK
<1>3. IsFiniteSet(corpus') /\ IsFiniteSet(ask'.rows)
  <2>1. corpus' \subseteq corpus
    BY <1>1
  <2> QED
    BY <1>1, <2>1, FS_Subset DEF AnswersInv
<1>4. \A r : ask.at # "idle" /\ (r.owner \in evicted \/ r \in corpus)
             => r.owner \in evicted' \/ r \in corpus'
  BY <1>1
<1>5. RowsAreTheCallers'
  BY <1>1, <1>4 DEF AnswersInv, RowsAreTheCallers
<1>6. AnswerGrounded'
  BY <1>1, <1>4 DEF AnswersInv, AnswerGrounded, Quotable
<1> QED
  BY <1>1, <1>2, <1>3, <1>5, <1>6 DEF AnswersInv

LEMMA QuestionKeeps ==
  ASSUME AnswersInv, NEW mode \in Modes, NEW terms \in SUBSET Terms,
         NEW owner \in Owners \cup {Everyone}, mode = "semantic" => owner = Everyone,
         Question(mode, terms, owner)
  PROVE  AnswersInv'
<1> USE AnswersAssumption
<1>1. PICK S \in IF mode = "semantic" THEN {{}} ELSE Found(mode, terms) :
        ask' = [at |-> IF mode \in {"fast", "deep"} THEN "answered" ELSE "query",
                mode |-> mode, terms |-> terms, owner |-> owner,
                hits |-> S, rows |-> {}, citations |-> {}]
  BY DEF Question
<1>2. corpus' = corpus /\ nextRow' = nextRow /\ evicted' = {}
  BY DEF Question
<1>3. corpus \subseteq CorpusRow /\ IsFiniteSet(corpus)
  BY DEF AnswersInv, AnswersTypeOK
<1>4. S \subseteq corpus
  <2> DEFINE M == Matching(Youngest(corpus, IndexRows), terms)
  <2>1. M \subseteq corpus /\ IsFiniteSet(M)
    <3>1. M \subseteq corpus
      BY DEF Matching, Youngest
    <3> QED
      BY <1>3, <3>1, FS_Subset
  <2>2. HitLimit \in Nat /\ 4 * HitLimit \in Nat
    OBVIOUS
  <2> HIDE DEF M
  <2>3. \A T \in Limited(M, HitLimit) : T \subseteq M
    BY <2>1, <2>2, LimitedIsPart
  <2>4. \A U \in Limited(M, 4 * HitLimit) : \A T \in Limited(U, HitLimit) : T \subseteq M
    BY <2>1, <2>2, LimitedIsPart
  <2>5. CASE mode = "semantic"
    BY <1>1, <2>5
  <2>6. CASE mode = "deep"
    <3>1. S \in UNION {Limited(U, HitLimit) : U \in Limited(M, 4 * HitLimit)}
      BY <1>1, <2>6 DEF Found, M
    <3> QED
      BY <2>1, <2>4, <3>1
  <2>7. CASE mode \notin {"semantic", "deep"}
    <3>1. S \in Limited(M, HitLimit)
      BY <1>1, <2>7 DEF Found, M
    <3> QED
      BY <2>1, <2>3, <3>1
  <2> QED
    BY <2>5, <2>6, <2>7
<1>5. /\ ask'.at \in {"query", "answered"} /\ ask'.mode = mode /\ ask'.owner = owner
      /\ (mode \notin {"fast", "deep"} => ask'.at = "query")
      /\ ask'.rows = {} /\ ask'.citations = {}
  BY <1>1
<1>6. ask' \in Asked
  <2> DEFINE at == IF mode \in {"fast", "deep"} THEN "answered" ELSE "query"
  <2>1. at \in {"idle", "query", "extract", "answered"}
    OBVIOUS
  <2>2. ask' = [at |-> at, mode |-> mode, terms |-> terms, owner |-> owner,
                hits |-> S, rows |-> {}, citations |-> {}]
    BY <1>1
  <2>3. S \subseteq CorpusRow
    BY <1>3, <1>4
  <2> HIDE DEF at
  <2> QED
    BY <2>1, <2>2, <2>3 DEF Asked
<1>7. AnswersTypeOK'
  BY <1>2, <1>6 DEF AnswersInv, AnswersTypeOK
<1>8. IsFiniteSet(corpus') /\ IsFiniteSet(ask'.rows)
  BY <1>2, <1>3, <1>5, FS_EmptySet
<1>9. RowsAreTheCallers' /\ AnswerGrounded'
  BY <1>5 DEF RowsAreTheCallers, AnswerGrounded
<1> QED
  BY <1>5, <1>7, <1>8, <1>9 DEF AnswersInv

LEMMA QueryRowsKeeps ==
  ASSUME AnswersInv, QueryRows
  PROVE  AnswersInv'
<1> USE AnswersAssumption
<1>1. PICK S \in IF ask.mode = "semantic" THEN SemanticRows ELSE {AnswerRows} :
        ask' = [ask EXCEPT !.at = "extract", !.rows = S]
  BY DEF QueryRows
<1>2. corpus' = corpus /\ nextRow' = nextRow /\ evicted' = evicted
  BY DEF QueryRows
<1>3. corpus \subseteq CorpusRow /\ IsFiniteSet(corpus) /\ ask \in Asked
  BY DEF AnswersInv, AnswersTypeOK
<1>4. S \subseteq corpus /\ \A r \in S : ask.owner \in {Everyone, r.owner}
  <2>1. CASE ask.mode = "semantic"
    <3>1. S \in Limited(Scoped(Everyone), HitLimit)
      BY <1>1, <2>1 DEF SemanticRows
    <3>2. Scoped(Everyone) \subseteq corpus
      BY DEF Scoped, Youngest
    <3>3. IsFiniteSet(Scoped(Everyone))
      BY <1>3, <3>2, FS_Subset
    <3>4. S \subseteq Scoped(Everyone)
      BY <3>1, <3>3, LimitedIsPart
    <3> QED
      BY <2>1, <3>2, <3>4 DEF AnswersInv
  <2>2. CASE ask.mode # "semantic"
    <3>1. S = AnswerRows
      BY <1>1, <2>2
    <3>2. AnswerRows \subseteq Scoped(ask.owner)
      BY DEF AnswerRows
    <3> QED
      BY <3>1, <3>2 DEF Scoped, Youngest
  <2> QED
    BY <2>1, <2>2
<1>5. /\ ask' \in Asked /\ ask'.at = "extract" /\ ask'.rows = S
      /\ ask'.owner = ask.owner /\ ask'.mode = ask.mode
  BY <1>1, <1>3, <1>4 DEF Asked
<1>6. AnswersTypeOK'
  BY <1>2, <1>5 DEF AnswersInv, AnswersTypeOK
<1>7. IsFiniteSet(corpus') /\ IsFiniteSet(ask'.rows)
  BY <1>2, <1>3, <1>4, <1>5, FS_Subset
<1>8. RowsAreTheCallers' /\ AnswerGrounded'
  BY <1>2, <1>4, <1>5 DEF RowsAreTheCallers, AnswerGrounded
<1> QED
  BY <1>5, <1>6, <1>7, <1>8 DEF AnswersInv

LEMMA ExtractKeeps ==
  ASSUME AnswersInv, Extract
  PROVE  AnswersInv'
<1> USE AnswersAssumption
<1>1. PICK top \in Limited(ask.rows, TopRows) :
        \E cited \in Limited({r \in top : Quotable(r)}, MaxSnippets) :
          ask' = [ask EXCEPT !.at = "answered", !.citations = cited]
  BY DEF Extract
<1> DEFINE quotable == {r \in top : Quotable(r)}
<1>2. PICK cited \in Limited(quotable, MaxSnippets) :
        ask' = [ask EXCEPT !.at = "answered", !.citations = cited]
  BY <1>1
<1>3. corpus' = corpus /\ nextRow' = nextRow /\ evicted' = evicted
  BY DEF Extract
<1>4. ask \in Asked /\ IsFiniteSet(ask.rows) /\ IsFiniteSet(corpus)
  BY DEF AnswersInv, AnswersTypeOK
<1>5. /\ top \subseteq ask.rows /\ IsFiniteSet(top)
      /\ Cardinality(ask.rows) <= TopRows => top = ask.rows
  BY <1>4, LimitedIsPart
<1>6. quotable \subseteq top /\ IsFiniteSet(quotable)
  BY <1>5, FS_Subset
<1>7. /\ cited \subseteq quotable /\ Cardinality(cited) <= MaxSnippets
      /\ cited = {} => quotable = {}
  <2> HIDE DEF quotable
  <2>1. MaxSnippets \in Nat /\ MaxSnippets # 0
    OBVIOUS
  <2> QED
    BY <1>6, <2>1, LimitedIsPart
<1>8. ask.rows \subseteq CorpusRow
  BY <1>4 DEF Asked
<1>9. /\ ask' \in Asked /\ ask'.at = "answered" /\ ask'.citations = cited /\ ask'.rows = ask.rows
      /\ ask'.owner = ask.owner /\ ask'.mode = ask.mode /\ ask'.terms = ask.terms
  BY <1>2, <1>4, <1>5, <1>7, <1>8 DEF Asked
<1>10. AnswersTypeOK'
  BY <1>3, <1>9 DEF AnswersInv, AnswersTypeOK
<1>11. IsFiniteSet(corpus') /\ IsFiniteSet(ask'.rows)
  BY <1>3, <1>4, <1>9
<1>12. RowsAreTheCallers'
  BY <1>3, <1>9 DEF AnswersInv, RowsAreTheCallers
<1>13. AnswerGrounded'
  <2>1. \A r \in cited :
          /\ ask.owner \in {Everyone, r.owner}
          /\ Quotable(r)
          /\ r.owner \in evicted \/ r \in corpus
    BY <1>5, <1>7 DEF AnswersInv, RowsAreTheCallers
  <2>2. ASSUME cited = {}, Cardinality(ask.rows) <= TopRows
        PROVE  \A r \in ask.rows : ~ Quotable(r)
    BY <1>5, <1>7, <2>2
  <2> QED
    BY <1>3, <1>7, <1>9, <2>1, <2>2 DEF AnswerGrounded, Quotable
<1> QED
  BY <1>9, <1>10, <1>11, <1>12, <1>13 DEF AnswersInv

(* The invariant holds in every reachable state, for every set of tenants, *)
(* pages and terms and all limits.                                         *)
THEOREM AnswersInvariant == AnswersSpec => []AnswersInv
<1>1. ASSUME AnswersInv, [AnswersNext]_answerVars
      PROVE  AnswersInv'
  <2>1. ASSUME NEW site \in Sites, NEW owner \in Owners, NEW text \in Texts,
               NEW label \in Labels, AddEvidence(site, owner, text, label)
        PROVE  AnswersInv'
    BY <1>1, <2>1, AddEvidenceKeeps
  <2>2. ASSUME NEW owner \in Owners, Evict(owner)
        PROVE  AnswersInv'
    BY <1>1, <2>2, EvictKeeps
  <2>3. ASSUME NEW mode \in Modes, NEW terms \in SUBSET Terms,
               NEW owner \in Owners \cup {Everyone},
               Question(mode, terms, IF mode = "semantic" THEN Everyone ELSE owner)
        PROVE  AnswersInv'
    BY <1>1, <2>3, QuestionKeeps
  <2>4. CASE QueryRows
    BY <1>1, <2>4, QueryRowsKeeps
  <2>5. CASE Extract
    BY <1>1, <2>5, ExtractKeeps
  <2>6. CASE Answered
    <3>1. ask' = NoQuestion /\ corpus' = corpus /\ nextRow' = nextRow /\ evicted' = {}
      BY <2>6 DEF Answered
    <3>2. ask' \in Asked /\ ask'.rows = {} /\ ask'.at = "idle" /\ ask'.mode = "fast"
      BY <3>1 DEF NoQuestion, Asked, Modes
    <3>3. AnswersTypeOK' /\ IsFiniteSet(corpus') /\ IsFiniteSet(ask'.rows)
      BY <1>1, <3>1, <3>2, FS_EmptySet DEF AnswersInv, AnswersTypeOK
    <3> QED
      BY <3>2, <3>3 DEF AnswersInv, RowsAreTheCallers, AnswerGrounded
  <2>7. CASE UNCHANGED answerVars
    <3>1. ask' = ask /\ corpus' = corpus /\ nextRow' = nextRow /\ evicted' = evicted
      BY <2>7 DEF answerVars
    <3>2. AnswersTypeOK'
      BY <1>1, <3>1 DEF AnswersInv, AnswersTypeOK
    <3>3. RowsAreTheCallers'
      BY <1>1, <3>1 DEF AnswersInv, RowsAreTheCallers
    <3>4. AnswerGrounded'
      BY <1>1, <3>1 DEF AnswersInv, AnswerGrounded, Quotable
    <3> QED
      BY <1>1, <3>1, <3>2, <3>3, <3>4 DEF AnswersInv
  <2> QED
    BY <1>1, <2>1, <2>2, <2>3, <2>4, <2>5, <2>6, <2>7 DEF AnswersNext
<1> QED
  BY <1>1, AnswersInitial, PTL DEF AnswersSpec

(* A citation is a row of the caller's tenant that holds a term of the     *)
(* question, although the index that proposed pages knows all tenants and  *)
(* the corpus changes between the two reads; and no answer is empty while  *)
(* something it looked at could be quoted.                                 *)
THEOREM AnswersAreGrounded == AnswersSpec => []AnswerGrounded
<1>1. AnswersInv => AnswerGrounded
  BY DEF AnswersInv
<1> QED
  BY <1>1, AnswersInvariant, PTL

=============================================================================
