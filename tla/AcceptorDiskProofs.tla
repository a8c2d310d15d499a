------------------------- MODULE AcceptorDiskProofs -------------------------
(***************************************************************************)
(* What holds of an acceptor between the reads, the writes, the commits    *)
(* and the datagrams of its batches, for every durability mode, every      *)
(* size of a message and every moment a crash may strike.                  *)
(***************************************************************************)
EXTENDS AcceptorDisk, AcceptorProofs, NumberLemmas, FiniteSetTheorems

-----------------------------------------------------------------------------
(* The invariant.                                                           *)

Layer   == [Iids -> Record \cup {NoRecord}]
Element == [iid : Iids, rec : Record]

\* RecordsCoherent, of one record.
Coherent(rec) ==
    /\ rec.value_ballot <= rec.ballot
    /\ rec.value = NoValue <=> rec.value_ballot = 0

(* The database and the layers below it. *)
LayersOK ==
    /\ AcceptorInv
    /\ mode \in Modes
    /\ pc \in {"idle", "loop", "split", "split_flush", "flush", "final", "down"}
    /\ os \in Layer /\ disk \in Layer /\ last_answer \in Layer
    /\ \A i \in Iids : Coherent(os[i]) /\ Coherent(disk[i])
    /\ pc = "down" => highest_accepted_iid[this_acceptor_id] = 0

\* Nothing but the batch at hand writes to the database, and it meets an instance
\* once: what was put in the buffer is still the record.
InHand(e) ==
    /\ e.rec = db[e.iid]
    /\ kind # "prepare_reqs" => e.rec.value # NoValue
    /\ \A r \in todo : r.iid # e.iid

BatchesOK ==
    \A m \in msgs :
        m.type \in {"prepare_reqs", "accept_reqs"} => OnePerInstance(m.reqs)

InSplit == pc \in {"split", "split_flush"}

(* The batch at hand and the send buffer. *)
BatchOK ==
    /\ OnePerInstance(todo)
    /\ \/ kind = "prepare_reqs" /\ todo \subseteq PrepareReq
       \/ kind = "accept_reqs" /\ todo \subseteq AcceptReq
       \/ kind = "repeat_reqs" /\ todo \subseteq [iid : Iids]
       \/ kind = "none" /\ todo = {}
    /\ sb \in Seq(Element)
    /\ pc \in {"idle", "final", "down"} => sb = <<>> /\ todo = {}
    /\ pc = "flush" => todo = {}
    /\ \A n \in DOMAIN sb : InHand(sb[n])
    /\ InSplit => record_buffer \in Element /\ InHand(record_buffer)

DiskInv == LayersOK /\ BatchesOK /\ BatchOK

(* What was answered last is in the database, and in every layer that the
   durability mode promises to keep; between a commit and the flush, the layers
   are the database. *)
Promised(rec, i) ==
    /\ db[i] = rec
    /\ mode \in OutlivesProcess => os[i] = rec
    /\ mode \in OutlivesOS => disk[i] = rec

KeptInv ==
    /\ \A i \in Iids : last_answer[i] # NoRecord => Promised(last_answer[i], i)
    /\ pc \in {"split_flush", "flush"} => \A i \in Iids : Promised(db[i], i)

(* The elements granted are the ones in the answers sent, in the send buffer and,
   where the batch is split, in the record buffer. *)
Placed ==
    {answers[n].iid : n \in DOMAIN answers} \cup {sb[n].iid : n \in DOMAIN sb}
        \cup (IF InSplit THEN {record_buffer.iid} ELSE {})

CountInv ==
    /\ answers \in Seq(Element)
    /\ pc \in {"idle", "final", "down"} => answers = <<>> /\ granted = {}
    /\ granted = Placed
    /\ IsFiniteSet(granted)
    /\ Cardinality(granted) = Len(answers) + Len(sb) + (IF InSplit THEN 1 ELSE 0)
    /\ \A r \in todo : r.iid \notin granted

(* What is still to be stored was asked for. *)
AskedInv ==
    /\ StoredWhereAsked
    /\ kind = "accept_reqs" =>
          \A ar \in todo : Asked(ar.iid, ar.ballot, ar.value)

-----------------------------------------------------------------------------
(* What the handling of one element does.                                   *)

(* The record an element leaves in the buffer when it is granted; the database
   holds it from then on. *)
Granting(r, rec) ==
    /\ r.iid \in Iids
    /\ rec \in Record /\ Coherent(rec)
    /\ kind # "prepare_reqs" => rec.value # NoValue
    /\ \/ /\ rec.value = db[r.iid].value
          /\ rec.value_ballot = db[r.iid].value_ballot
          /\ rec.is_final = db[r.iid].is_final
       \/ /\ kind = "accept_reqs"
          /\ rec.value = r.value /\ rec.value_ballot = r.ballot
    /\ record_buffer' = [iid |-> r.iid, rec |-> rec]
    /\ store' = [store EXCEPT ![this_acceptor_id][r.iid] = rec]
    /\ \/ last_answer' = [last_answer EXCEPT ![r.iid] = NoRecord]
       \/ rec = db[r.iid] /\ UNCHANGED last_answer
    /\ \/ UNCHANGED highest_accepted_iid
       \/ /\ rec.value # NoValue
          /\ highest_accepted_iid' =
                [highest_accepted_iid EXCEPT
                    ![this_acceptor_id] = IF r.iid > @ THEN r.iid ELSE @]
    /\ Add(r)

(* What GetRecord finds for a record that is there. *)
LEMMA Found ==
    ASSUME NEW i \in Iids, db[i] # NoRecord
    PROVE  GetRecord(i) = [iid |-> i, rec |-> db[i]]
BY DEF GetRecord

(* stablestorage_save_prepare, through the buffer, saves what acc_apply_prepare
   means to save. *)
LEMMA SavePrepareSaves ==
    ASSUME LayersOK, NEW pr \in PrepareReq
    PROVE  /\ SavePrepare(GetRecord(pr.iid), pr).iid = pr.iid
           /\ SavePrepare(GetRecord(pr.iid), pr).rec = SavedPrepare(db[pr.iid], pr)
           /\ SavedPrepare(db[pr.iid], pr) \in Record
PROOF
  <1>1. pr.iid \in Iids /\ pr.ballot \in Ballots
    BY DEF PrepareReq
  <1>2. db[pr.iid] \in Record \cup {NoRecord}
    BY <1>1, AcceptorDiskAssumption DEF LayersOK, AcceptorInv, AcceptorTypeOK, db
  <1>3. CASE db[pr.iid] # NoRecord
    <2>1. db[pr.iid] \in Record /\ GetRecord(pr.iid) = [iid |-> pr.iid, rec |-> db[pr.iid]]
      BY <1>1, <1>2, <1>3, Found
    <2>2. [db[pr.iid] EXCEPT !.ballot = pr.ballot] = SavedPrepare(db[pr.iid], pr)
      BY <2>1 DEF Record, SavedPrepare
    <2>. QED  BY <1>1, <1>3, <2>1, <2>2 DEF SavePrepare, SavedPrepare, Record
  <1>4. CASE db[pr.iid] = NoRecord
    BY <1>1, <1>4, RecordFields DEF SavePrepare, SavedPrepare, Record
  <1>. QED  BY <1>3, <1>4

LEMMA PrepareElementEffect ==
    ASSUME DiskInv, PrepareElement
    PROVE  /\ pc = "loop"
           /\ \E r \in todo : Skip(r) \/ \E rec \in Record : Granting(r, rec)
PROOF
  <1>1. PICK pr \in todo :
            IF PrepareApplies(db[pr.iid], pr)
            THEN /\ record_buffer' = SavePrepare(GetRecord(pr.iid), pr)
                 /\ Put(pr)
                 /\ Add(pr)
                 /\ UNCHANGED highest_accepted_iid
            ELSE Skip(pr)
    BY Zenon DEF PrepareElement
  <1>2. pc = "loop" /\ kind = "prepare_reqs" /\ pr \in PrepareReq
    BY DEF PrepareElement, DiskInv, BatchOK
  <1>3. CASE PrepareApplies(db[pr.iid], pr)
    <2>. DEFINE rec == SavedPrepare(db[pr.iid], pr)
    <2>1. /\ SavePrepare(GetRecord(pr.iid), pr).iid = pr.iid
          /\ SavePrepare(GetRecord(pr.iid), pr).rec = rec
          /\ rec \in Record
      BY <1>2, SavePrepareSaves DEF DiskInv
    <2>2. record_buffer' = [iid |-> pr.iid, rec |-> rec]
      BY <1>1, <1>3, <2>1 DEF SavePrepare
    <2>3. pr.iid \in Iids /\ pr.ballot \in Ballots
      BY <1>2 DEF PrepareReq
    <2>4. db[pr.iid] \in Record \cup {NoRecord} /\ Coherent(db[pr.iid])
      BY <2>3, AcceptorDiskAssumption
      DEF DiskInv, LayersOK, AcceptorInv, AcceptorTypeOK, RecordsCoherent, db, Coherent
    <2>5. /\ rec.value = db[pr.iid].value
          /\ rec.value_ballot = db[pr.iid].value_ballot
          /\ rec.is_final = db[pr.iid].is_final
          /\ rec.ballot = pr.ballot
      BY DEF SavedPrepare
    <2>6. Coherent(rec)
      <3>1. db[pr.iid].value_ballot <= pr.ballot
        <4>1. CASE db[pr.iid] = NoRecord
          BY <2>3, <4>1, Numbers, RecordFields
        <4>2. CASE db[pr.iid] # NoRecord
          BY <1>3, <2>3, <2>4, <4>2, Numbers, RecordFields DEF PrepareApplies, Coherent
        <4>. QED  BY <4>1, <4>2
      <3>. QED  BY <2>4, <2>5, <3>1 DEF Coherent
    <2>. HIDE DEF rec
    <2>7. Granting(pr, rec)
      BY <1>1, <1>2, <1>3, <2>1, <2>2, <2>3, <2>5, <2>6 DEF Granting, Put
    <2>. QED  BY <1>2, <2>1, <2>7
  <1>4. CASE ~ PrepareApplies(db[pr.iid], pr)
    BY <1>1, <1>2, <1>4
  <1>. QED  BY <1>3, <1>4

LEMMA AcceptElementEffect ==
    ASSUME DiskInv, AcceptElement
    PROVE  /\ pc = "loop"
           /\ \E r \in todo : Skip(r) \/ \E rec \in Record : Granting(r, rec)
PROOF
  <1>1. PICK ar \in todo :
            IF AcceptApplies(db[ar.iid], ar)
            THEN /\ record_buffer' = [iid |-> ar.iid, rec |-> SavedAccept(ar)]
                 /\ Put(ar)
                 /\ Add(ar)
                 /\ highest_accepted_iid' =
                       [highest_accepted_iid EXCEPT
                           ![this_acceptor_id] = IF ar.iid > @ THEN ar.iid ELSE @]
            ELSE Skip(ar)
    BY Zenon DEF AcceptElement
  <1>2. pc = "loop" /\ kind = "accept_reqs" /\ ar \in AcceptReq
    BY DEF AcceptElement, DiskInv, BatchOK
  <1>3. CASE AcceptApplies(db[ar.iid], ar)
    <2>. DEFINE rec == SavedAccept(ar)
    <2>1. ar.iid \in Iids /\ ar.ballot \in Nat
      BY <1>2, Numbers DEF AcceptReq
    <2>2. /\ rec \in Record
          /\ rec.ballot = ar.ballot
          /\ rec.value_ballot = ar.ballot
          /\ rec.value = ar.value
          /\ ar.value # NoValue
          /\ ar.ballot # 0
      BY <1>2, SavedAcceptRecord
    <2>. HIDE DEF rec
    <2>3. Coherent(rec)
      BY <2>1, <2>2 DEF Coherent
    <2>4. Granting(ar, rec)
      BY <1>1, <1>2, <1>3, <2>1, <2>2, <2>3 DEF Granting, Put, rec
    <2>. QED  BY <1>2, <2>2, <2>4
  <1>4. CASE ~ AcceptApplies(db[ar.iid], ar)
    BY <1>1, <1>2, <1>4
  <1>. QED  BY <1>3, <1>4

LEMMA RepeatElementEffect ==
    ASSUME DiskInv, RepeatElement
    PROVE  /\ pc = "loop"
           /\ \E r \in todo : Skip(r) \/ \E rec \in Record : Granting(r, rec)
PROOF
  <1>1. PICK rr \in todo :
            IF HoldsValue(db[rr.iid])
            THEN /\ record_buffer' = GetRecord(rr.iid)
                 /\ Add(rr)
                 /\ UNCHANGED <<store, highest_accepted_iid, last_answer>>
            ELSE Skip(rr)
    BY Zenon DEF RepeatElement
  <1>2. pc = "loop" /\ kind = "repeat_reqs" /\ rr.iid \in Iids
    BY DEF RepeatElement, DiskInv, BatchOK
  <1>3. CASE HoldsValue(db[rr.iid])
    <2>. DEFINE rec == db[rr.iid]
    <2>1. db[rr.iid] # NoRecord /\ db[rr.iid].value # NoValue
      BY <1>3 DEF HoldsValue
    <2>2. rec \in Record /\ Coherent(rec)
      BY <1>2, <2>1, AcceptorDiskAssumption
      DEF DiskInv, LayersOK, AcceptorInv, AcceptorTypeOK, RecordsCoherent, db, Coherent
    <2>3. record_buffer' = [iid |-> rr.iid, rec |-> rec]
      BY <1>1, <1>2, <1>3, <2>1, Found
    <2>4. store' = [store EXCEPT ![this_acceptor_id][rr.iid] = rec]
      BY <1>1, <1>2, <1>3, AcceptorDiskAssumption
      DEF db, DiskInv, LayersOK, AcceptorInv, AcceptorTypeOK
    <2>5. Granting(rr, rec)
      BY <1>1, <1>2, <1>3, <2>1, <2>2, <2>3, <2>4 DEF Granting
    <2>. QED  BY <1>2, <2>2, <2>5
  <1>4. CASE ~ HoldsValue(db[rr.iid])
    BY <1>1, <1>2, <1>4
  <1>. QED  BY <1>3, <1>4

(* Any element: it is passed over, or granted. *)
LEMMA ElementEffect ==
    ASSUME DiskInv, PrepareElement \/ AcceptElement \/ RepeatElement
    PROVE  /\ pc = "loop"
           /\ \E r \in todo : Skip(r) \/ \E rec \in Record : Granting(r, rec)
BY PrepareElementEffect, AcceptElementEffect, RepeatElementEffect

-----------------------------------------------------------------------------
(* The database.                                                            *)

(* The database in terms of the store. *)
LEMMA DbType ==
    ASSUME LayersOK
    PROVE  /\ db \in Layer
           /\ \A i \in Iids : db[i] \in Record \cup {NoRecord} /\ Coherent(db[i])
BY AcceptorDiskAssumption
   DEF LayersOK, AcceptorInv, AcceptorTypeOK, RecordsCoherent, db, Coherent, Layer

(* Sending well-formed messages. *)
LEMMA SendKeeps ==
    ASSUME LayersOK, msgs' \subseteq Message,
           UNCHANGED <<store, highest_accepted_iid>>
    PROVE  AcceptorInv' /\ db' = db
BY DEF LayersOK, AcceptorInv, AcceptorTypeOK, RecordsCoherent, RepeaterFindsValue, db

(* The whole database replaced by a layer below it, in a process that starts. *)
LEMMA ReplaceKeeps ==
    ASSUME LayersOK, UNCHANGED msgs, NEW L \in Layer, \A i \in Iids : Coherent(L[i]),
           store' = [store EXCEPT ![this_acceptor_id] = L],
           highest_accepted_iid' = [highest_accepted_iid EXCEPT ![this_acceptor_id] = 0]
    PROVE  AcceptorInv' /\ db' = L
PROOF
  <1>1. store'[this_acceptor_id] = L
    BY AcceptorDiskAssumption DEF LayersOK, AcceptorInv, AcceptorTypeOK
  <1>2. AcceptorTypeOK'
    BY DEF LayersOK, AcceptorInv, AcceptorTypeOK, Layer
  <1>3. RecordsCoherent'
    BY <1>1 DEF LayersOK, AcceptorInv, AcceptorTypeOK, RecordsCoherent, Coherent
  <1>4. RepeaterFindsValue'
    <2>1. highest_accepted_iid'[this_acceptor_id] = 0
      BY AcceptorDiskAssumption DEF LayersOK, AcceptorInv, AcceptorTypeOK
    <2>2. \A a \in Acceptors \ {this_acceptor_id} :
              highest_accepted_iid'[a] = highest_accepted_iid[a] /\ store'[a] = store[a]
      BY DEF LayersOK, AcceptorInv, AcceptorTypeOK
    <2>. QED
      BY <2>1, <2>2 DEF LayersOK, AcceptorInv, RepeaterFindsValue
  <1>. QED  BY <1>1, <1>2, <1>3, <1>4 DEF AcceptorInv, db

(* What a crash leaves of a layer, record by record. *)
LEMMA SurvivorsType ==
    ASSUME NEW layer \in Layer, NEW L \in Survivors(layer)
    PROVE  /\ L \in Layer
           /\ \A i \in Iids : L[i] \in {layer[i], NoRecord}
           /\ mode \notin NoLog => \A i \in Iids : L[i] = layer[i]
BY DEF Survivors, Layer

(* However the process ends, the next one starts from what the operating system
   holds, and every record of it was in one of the layers. *)
LEMMA EndEffect ==
    ASSUME LayersOK, ProcessCrash \/ OSCrash \/ Exit
    PROVE  /\ Down
           /\ AcceptorInv' /\ db' = os'
           /\ os' \in Layer /\ disk' \in Layer
           /\ \A i \in Iids : os'[i] \in {db[i], os[i], disk[i], NoRecord}
           /\ \A i \in Iids : disk'[i] \in {db[i], os[i], disk[i], NoRecord}
           /\ last_answer' \in {last_answer, NoRecords}
           /\ highest_accepted_iid'[this_acceptor_id] = 0
PROOF
  <1>1. /\ Down
        /\ store' = [store EXCEPT ![this_acceptor_id] = os']
        /\ last_answer' \in {last_answer, NoRecords}
    BY DEF ProcessCrash, OSCrash, Exit
  <1>2. db \in Layer /\ os \in Layer /\ disk \in Layer
    BY DbType DEF LayersOK
  <1>3. /\ os' \in Layer /\ disk' \in Layer
        /\ \A i \in Iids : os'[i] \in {db[i], os[i], disk[i], NoRecord}
        /\ \A i \in Iids : disk'[i] \in {db[i], os[i], disk[i], NoRecord}
    <2>1. CASE ProcessCrash
      BY <1>2, <2>1, SurvivorsType DEF ProcessCrash
    <2>2. CASE OSCrash
      BY <1>2, <2>2, SurvivorsType DEF OSCrash
    <2>3. CASE Exit
      BY <1>2, <2>3 DEF Exit
    <2>. QED  BY <2>1, <2>2, <2>3
  <1>4. \A i \in Iids : Coherent(os'[i])
    BY <1>3, DbType, RecordFields DEF LayersOK, Coherent
  <1>5. /\ UNCHANGED msgs
        /\ highest_accepted_iid' =
              [highest_accepted_iid EXCEPT ![this_acceptor_id] = 0]
    BY <1>1 DEF Down
  <1>6. PICK L : L = os'
    OBVIOUS
  <1>7. AcceptorInv' /\ db' = os'
    BY <1>1, <1>3, <1>4, <1>5, <1>6, ReplaceKeeps
  <1>8. highest_accepted_iid'[this_acceptor_id] = 0
    BY <1>5, AcceptorDiskAssumption DEF LayersOK, AcceptorInv, AcceptorTypeOK
  <1>. QED  BY <1>1, <1>3, <1>7, <1>8

(* One record replaced by one that has a value if the old one had. *)
LEMMA PutKeeps ==
    ASSUME LayersOK, UNCHANGED msgs, NEW i \in Iids, NEW rec \in Record, Coherent(rec),
           rec.value = NoValue => db[i].value = NoValue,
           store' = [store EXCEPT ![this_acceptor_id][i] = rec],
           \/ UNCHANGED highest_accepted_iid
           \/ /\ rec.value # NoValue
              /\ highest_accepted_iid' =
                    [highest_accepted_iid EXCEPT
                        ![this_acceptor_id] = IF i > @ THEN i ELSE @]
    PROVE  AcceptorInv' /\ db' = [db EXCEPT ![i] = rec]
PROOF
  <1>1. /\ this_acceptor_id \in Acceptors
        /\ store \in [Acceptors -> [Iids -> Record \cup {NoRecord}]]
        /\ highest_accepted_iid \in [Acceptors -> Iids \cup {0}]
    BY AcceptorDiskAssumption DEF LayersOK, AcceptorInv, AcceptorTypeOK
  <1>2. db' = [db EXCEPT ![i] = rec]
    BY <1>1 DEF db
  <1>3. \A a \in Acceptors, j \in Iids :
            \/ store'[a][j] = store[a][j]
            \/ a = this_acceptor_id /\ j = i /\ store'[a][j] = rec
    BY <1>1
  <1>4. \/ highest_accepted_iid' = highest_accepted_iid
        \/ /\ rec.value # NoValue
           /\ highest_accepted_iid' = [highest_accepted_iid EXCEPT ![this_acceptor_id] = i]
    BY <1>1 DEF LayersOK, AcceptorInv, AcceptorTypeOK
  <1>5. AcceptorTypeOK'
    <2>1. store' \in [Acceptors -> [Iids -> Record \cup {NoRecord}]]
      BY <1>1
    <2>2. highest_accepted_iid' \in [Acceptors -> Iids \cup {0}]
      BY <1>1, <1>4
    <2>. QED  BY <2>1, <2>2 DEF LayersOK, AcceptorInv, AcceptorTypeOK
  <1>6. RecordsCoherent'
    BY <1>3 DEF LayersOK, AcceptorInv, RecordsCoherent, Coherent
  <1>7. ASSUME NEW a \in Acceptors, highest_accepted_iid'[a] > 0
        PROVE  HoldsValue(store'[a][highest_accepted_iid'[a]])
    <2>1. highest_accepted_iid'[a] \in Iids
      BY <1>5, <1>7, Numbers DEF AcceptorTypeOK
    <2>2. HoldsValue(rec) <=> rec.value # NoValue
      BY HoldsValueType, RecordFields DEF HoldsValue
    <2>3. CASE highest_accepted_iid'[a] = highest_accepted_iid[a]
      <3>1. HoldsValue(store[a][highest_accepted_iid'[a]])
        BY <1>7, <2>3 DEF LayersOK, AcceptorInv, RepeaterFindsValue
      <3>2. CASE a = this_acceptor_id /\ highest_accepted_iid'[a] = i
        BY <1>2, <2>2, <3>1, <3>2, DbType DEF db, HoldsValue, Layer
      <3>3. CASE ~ (a = this_acceptor_id /\ highest_accepted_iid'[a] = i)
        BY <1>3, <2>1, <3>1, <3>3
      <3>. QED  BY <3>2, <3>3
    <2>4. CASE highest_accepted_iid'[a] # highest_accepted_iid[a]
      <3>1. a = this_acceptor_id /\ highest_accepted_iid'[a] = i /\ rec.value # NoValue
        BY <1>1, <1>4, <2>4
      <3>2. store'[a][i] = rec
        BY <1>1, <3>1
      <3>. QED  BY <2>2, <3>1, <3>2
    <2>. QED  BY <2>3, <2>4
  <1>. QED  BY <1>2, <1>5, <1>6, <1>7 DEF AcceptorInv, RepeaterFindsValue

(* What leaves the send buffer is well formed, and no request. *)
LEMMA DatagramsType ==
    ASSUME DiskInv
    PROVE  \A m \in Datagrams(sb) :
              m \in Message /\ m.type \in {"prepare_acks", "accept_ack"}
PROOF
  <1>1. ASSUME NEW n \in DOMAIN sb
        PROVE  /\ sb[n].iid \in Iids /\ sb[n].rec \in Record
               /\ Coherent(sb[n].rec)
               /\ kind # "prepare_reqs" => sb[n].rec.value # NoValue
    <2>1. sb[n] \in Element /\ InHand(sb[n])
      BY DEF DiskInv, BatchOK
    <2>. QED  BY <2>1, DbType DEF DiskInv, InHand, Element
  <1>2. CASE kind = "prepare_reqs"
    <2>1. ASSUME NEW n \in DOMAIN sb
          PROVE  PrepareAckOf(sb[n].iid, sb[n].rec) \in PrepareAck
      BY <1>1 DEF PrepareAckOf, PrepareAck, Record
    <2>2. {PrepareAckOf(sb[n].iid, sb[n].rec) : n \in DOMAIN sb} \in SUBSET PrepareAck
      BY <2>1
    <2>3. \A acks \in SUBSET PrepareAck :
              [type |-> "prepare_acks", acceptor |-> this_acceptor_id, acks |-> acks]
                  \in Message
      BY AcceptorDiskAssumption DEF Message
    <2>. QED  BY <1>2, <2>2, <2>3 DEF Datagrams
  <1>3. CASE kind # "prepare_reqs"
    <2>1. ASSUME NEW n \in DOMAIN sb
          PROVE  /\ AcceptAck(this_acceptor_id, sb[n].iid, sb[n].rec) \in Message
                 /\ AcceptAck(this_acceptor_id, sb[n].iid, sb[n].rec).type = "accept_ack"
      <3>1. AcceptAck(this_acceptor_id, sb[n].iid, sb[n].rec) \in Message
        BY <1>1, <1>3, AcceptAckType, AcceptorDiskAssumption DEF Coherent
      <3>. QED  BY <3>1 DEF AcceptAck
    <2>2. Datagrams(sb) \subseteq
              {AcceptAck(this_acceptor_id, sb[n].iid, sb[n].rec) : n \in DOMAIN sb}
      BY <1>3 DEF Datagrams
    <2>. QED  BY <2>1, <2>2
  <1>. QED  BY <1>2, <1>3

(* sendbuf_flush sends the records of the database. *)
LEMMA FlushedEffect ==
    ASSUME DiskInv, Flushed
    PROVE  /\ msgs \subseteq msgs' /\ msgs' \subseteq Message
           /\ \A m \in msgs' \ msgs : m.type \in {"prepare_acks", "accept_ack"}
           /\ last_answer' \in Layer
           /\ \A i \in Iids : last_answer'[i] = db[i] \/ last_answer'[i] = last_answer[i]
PROOF
  <1>1. msgs' = msgs \cup Datagrams(sb)
    BY DEF Flushed, Send
  <1>2. msgs \subseteq Message
    BY DEF DiskInv, LayersOK, AcceptorInv, AcceptorTypeOK
  <1>3. ASSUME NEW i \in Iids, \E n \in DOMAIN sb : sb[n].iid = i
        PROVE  sb[CHOOSE n \in DOMAIN sb : sb[n].iid = i].rec = db[i]
    <2>. DEFINE n == CHOOSE n \in DOMAIN sb : sb[n].iid = i
    <2>1. n \in DOMAIN sb /\ sb[n].iid = i
      BY <1>3
    <2>. HIDE DEF n
    <2>2. InHand(sb[n])
      BY <2>1 DEF DiskInv, BatchOK
    <2>. QED  BY <2>1, <2>2 DEF InHand, n
  <1>4. \A i \in Iids : last_answer'[i] = db[i] \/ last_answer'[i] = last_answer[i]
    BY <1>3 DEF Flushed
  <1>5. last_answer' \in Layer
    <2>1. last_answer' = [i \in Iids |-> last_answer'[i]]
      BY DEF Flushed
    <2>2. \A i \in Iids : last_answer'[i] \in Record \cup {NoRecord}
      BY <1>4, DbType DEF DiskInv, LayersOK, Layer
    <2>. QED  BY <2>1, <2>2 DEF Layer
  <1>. QED  BY <1>1, <1>2, <1>4, <1>5, DatagramsType

(* acc_deliver_callback puts a final record with a value. *)
LEMMA SaveFinalEffect ==
    ASSUME LayersOK, SaveFinal
    PROVE  /\ pc = "idle" /\ pc' = "final"
           /\ UNCHANGED <<msgs, highest_accepted_iid, mode, os, disk, todo, kind, sb,
                          msg_size, granted, answers>>
           /\ \E i \in Iids, rec \in Record :
                 /\ Coherent(rec) /\ rec.is_final
                 /\ AcceptorInv' /\ db' = [db EXCEPT ![i] = rec]
                 /\ last_answer' = [last_answer EXCEPT ![i] = NoRecord]
PROOF
  <1>1. PICK ack \in msgs : ack.type = "accept_ack" /\ Put(ack)
                            /\ record_buffer' = [iid |-> ack.iid, rec |-> SavedFinal(ack)]
    BY Zenon DEF SaveFinal
  <1>2. ack.iid \in Iids /\ ack.ballot \in Ballots /\ ack.value \in Values
    BY <1>1, MessageShapes DEF LayersOK, AcceptorInv, AcceptorTypeOK
  <1>. DEFINE rec == SavedFinal(ack)
  <1>3. rec \in Record /\ Coherent(rec) /\ rec.value # NoValue /\ rec.is_final
    BY <1>2, Numbers DEF SavedFinal, Record, Coherent
  <1>4. /\ store' = [store EXCEPT ![this_acceptor_id][ack.iid] = rec]
        /\ last_answer' = [last_answer EXCEPT ![ack.iid] = NoRecord]
    BY <1>1 DEF Put
  <1>5. /\ pc = "idle" /\ pc' = "final"
        /\ UNCHANGED <<msgs, highest_accepted_iid, mode, os, disk, todo, kind, sb,
                       msg_size, granted, answers>>
    BY DEF SaveFinal, layerVars
  <1>. HIDE DEF rec
  <1>6. AcceptorInv' /\ db' = [db EXCEPT ![ack.iid] = rec]
    BY <1>2, <1>3, <1>4, <1>5, PutKeeps
  <1>. QED  BY <1>2, <1>3, <1>4, <1>5, <1>6

(* The periodic repeater reads a record that is there. *)
LEMMA RepeatLatestEffect ==
    ASSUME LayersOK, RepeatLatest
    PROVE  \E h \in Iids :
              /\ HoldsValue(db[h]) /\ db[h] \in Record
              /\ record_buffer' = [iid |-> h, rec |-> db[h]]
              /\ granted' = {h}
PROOF
  <1>. DEFINE h == highest_accepted_iid[this_acceptor_id]
  <1>1. h > 0 /\ record_buffer' = GetRecord(h) /\ granted' = {h}
    BY DEF RepeatLatest
  <1>2. h \in Iids /\ HoldsValue(db[h])
    BY <1>1, Numbers, AcceptorDiskAssumption
    DEF LayersOK, AcceptorInv, AcceptorTypeOK, RepeaterFindsValue, db
  <1>. HIDE DEF h
  <1>3. record_buffer' = [iid |-> h, rec |-> db[h]]
    BY <1>1, <1>2, Found DEF HoldsValue
  <1>4. db[h] \in Record
    BY <1>2, DbType DEF HoldsValue
  <1>. QED  BY <1>1, <1>2, <1>3, <1>4

-----------------------------------------------------------------------------
(* Every step keeps the database and the layers well formed.                *)

LEMMA LayersStep ==
    ASSUME DiskInv, Next
    PROVE  LayersOK'
PROOF
  <1>. USE DEF DiskInv
  <1>1. CASE SomeoneRequests
    <2>1. AcceptorInv'
      BY <1>1, RequestInv DEF SomeoneRequests, LayersOK
    <2>2. UNCHANGED <<mode, pc, os, disk, last_answer, highest_accepted_iid>>
      BY <1>1 DEF SomeoneRequests, layerVars, RequestPrepares, RequestAccepts,
                  RequestRepeats, SomeRequest
    <2>. QED  BY <2>1, <2>2 DEF LayersOK
  <1>2. CASE ReceiveBatch
    <2>1. UNCHANGED <<msgs, store, highest_accepted_iid, mode, os, disk, last_answer>>
          /\ pc' = "loop"
      BY <1>2 DEF ReceiveBatch, Begin, acceptorVars, layerVars
    <2>2. AcceptorInv'
      BY <2>1, SendKeeps DEF LayersOK, AcceptorInv, AcceptorTypeOK
    <2>. QED  BY <2>1, <2>2 DEF LayersOK
  <1>3. CASE PrepareElement \/ AcceptElement \/ RepeatElement
    <2>1. pc = "loop" /\ \E r \in todo : Skip(r) \/ \E rec \in Record : Granting(r, rec)
      BY <1>3, ElementEffect
    <2>2. ASSUME NEW r \in todo, Skip(r)
          PROVE  LayersOK'
      <3>1. UNCHANGED <<msgs, store, highest_accepted_iid, mode, pc, os, disk, last_answer>>
        BY <2>2 DEF Skip, acceptorVars, layerVars
      <3>2. AcceptorInv'
        BY <3>1, SendKeeps DEF LayersOK, AcceptorInv, AcceptorTypeOK
      <3>. QED  BY <3>1, <3>2 DEF LayersOK
    <2>3. ASSUME NEW r \in todo, NEW rec \in Record, Granting(r, rec)
          PROVE  LayersOK'
      <3>1. r.iid \in Iids /\ Coherent(rec)
        BY <2>3 DEF Granting
      <3>2. UNCHANGED <<msgs, mode, os, disk>> /\ pc' \in {"loop", "split"}
        BY <2>1, <2>3 DEF Granting, Add, layerVars
      <3>3. rec.value = NoValue => db[r.iid].value = NoValue
        BY <2>3, <2>1, Numbers DEF Granting, BatchOK, AcceptReq
      <3>4. AcceptorInv'
        BY <2>3, <3>1, <3>2, <3>3, PutKeeps DEF Granting
      <3>5. last_answer' \in Layer
        BY <2>3, <3>1 DEF Granting, LayersOK, Layer
      <3>. QED  BY <3>2, <3>4, <3>5 DEF LayersOK
    <2>. QED  BY <2>1, <2>2, <2>3
  <1>4. CASE SplitCommit \/ EndTransaction \/ CommitFinal
    <2>1. /\ UNCHANGED <<msgs, store, highest_accepted_iid, mode, last_answer>>
          /\ pc' \in {"split_flush", "flush", "idle"}
          /\ os' \in {os, db} /\ disk' \in {disk, db}
      BY <1>4 DEF SplitCommit, EndTransaction, CommitFinal, Committed, acceptorVars
    <2>2. AcceptorInv'
      BY <2>1, SendKeeps DEF LayersOK, AcceptorInv, AcceptorTypeOK
    <2>3. /\ os' \in Layer /\ disk' \in Layer
          /\ \A i \in Iids : Coherent(os'[i]) /\ Coherent(disk'[i])
      BY <2>1, DbType DEF LayersOK
    <2>. QED  BY <2>1, <2>2, <2>3 DEF LayersOK, Coherent
  <1>5. CASE SplitFlush \/ FlushAnswers
    <2>1. /\ Flushed
          /\ UNCHANGED <<store, highest_accepted_iid, mode, os, disk>>
          /\ pc' \in {"loop", "idle"}
      BY <1>5 DEF SplitFlush, FlushAnswers, layerVars
    <2>2. msgs' \subseteq Message /\ last_answer' \in Layer
      BY <2>1, FlushedEffect
    <2>3. AcceptorInv'
      BY <2>1, <2>2, SendKeeps
    <2>. QED  BY <2>1, <2>2, <2>3 DEF LayersOK
  <1>6. CASE RepeatLatest
    <2>1. UNCHANGED <<msgs, store, highest_accepted_iid, mode, os, disk, last_answer>>
          /\ pc' = "loop"
      BY <1>6 DEF RepeatLatest, acceptorVars, layerVars
    <2>2. AcceptorInv'
      BY <2>1, SendKeeps DEF LayersOK, AcceptorInv, AcceptorTypeOK
    <2>. QED  BY <2>1, <2>2 DEF LayersOK
  <1>7. CASE SaveFinal
    <2>1. UNCHANGED <<mode, os, disk>> /\ pc' = "final" /\ AcceptorInv'
      BY <1>7, SaveFinalEffect
    <2>2. last_answer' \in Layer
      BY <1>7, SaveFinalEffect DEF LayersOK, Layer
    <2>. QED  BY <2>1, <2>2 DEF LayersOK
  <1>8. CASE WritePage
    <2>1. /\ UNCHANGED <<msgs, store, highest_accepted_iid, mode, pc, last_answer>>
          /\ \E i \in Iids : /\ os' = [os EXCEPT ![i] = db[i]]
                             /\ disk' = [disk EXCEPT ![i] = db[i]]
      BY <1>8 DEF WritePage, acceptorVars
    <2>2. AcceptorInv'
      BY <2>1, SendKeeps DEF LayersOK, AcceptorInv, AcceptorTypeOK
    <2>3. /\ os' \in Layer /\ disk' \in Layer
          /\ \A i \in Iids : Coherent(os'[i]) /\ Coherent(disk'[i])
      BY <2>1, DbType DEF LayersOK, Layer
    <2>. QED  BY <2>1, <2>2, <2>3 DEF LayersOK, Coherent
  <1>9. CASE WriteLog
    <2>1. /\ UNCHANGED <<msgs, store, highest_accepted_iid, mode, pc, os, last_answer>>
          /\ disk' = os
      BY <1>9 DEF WriteLog, acceptorVars
    <2>2. AcceptorInv'
      BY <2>1, SendKeeps DEF LayersOK, AcceptorInv, AcceptorTypeOK
    <2>. QED  BY <2>1, <2>2 DEF LayersOK
  <1>10. CASE ProcessCrash \/ OSCrash \/ Exit
    <2>1. UNCHANGED mode /\ pc' = "down"
      BY <1>10, EndEffect DEF Down
    <2>2. NoRecords \in Layer
      BY DEF NoRecords, Layer
    <2>3. \A i \in Iids : Coherent(os'[i]) /\ Coherent(disk'[i])
      BY <1>10, EndEffect, DbType, RecordFields DEF LayersOK, Coherent
    <2>. QED  BY <1>10, <2>1, <2>2, <2>3, EndEffect DEF LayersOK, Coherent
  <1>11. CASE \E do_recovery, emptied \in BOOLEAN : Start(do_recovery, emptied)
    <2>1. /\ UNCHANGED <<msgs, mode, highest_accepted_iid>> /\ pc = "down" /\ pc' = "idle"
          /\ \/ UNCHANGED <<store, os, disk, last_answer>>
             \/ /\ store' = [store EXCEPT ![this_acceptor_id] = NoRecords]
                /\ os' = NoRecords /\ disk' = NoRecords /\ last_answer' = NoRecords
      BY <1>11 DEF Start
    <2>2. NoRecords \in Layer /\ \A i \in Iids : Coherent(NoRecords[i])
      BY RecordFields DEF NoRecords, Layer, Coherent
    <2>3. highest_accepted_iid' =
              [highest_accepted_iid EXCEPT ![this_acceptor_id] = 0]
      BY <2>1, AcceptorDiskAssumption DEF LayersOK, AcceptorInv, AcceptorTypeOK
    <2>4. AcceptorInv'
      <3>1. CASE UNCHANGED store
        BY <2>1, <3>1, SendKeeps DEF LayersOK, AcceptorInv, AcceptorTypeOK
      <3>2. CASE store' = [store EXCEPT ![this_acceptor_id] = NoRecords]
        BY <2>1, <2>2, <2>3, <3>2, ReplaceKeeps
      <3>. QED  BY <2>1, <3>1, <3>2
    <2>. QED  BY <2>1, <2>2, <2>4 DEF LayersOK, Coherent
  <1>. QED
    BY <1>1, <1>2, <1>3, <1>4, <1>5, <1>6, <1>7, <1>8, <1>9, <1>10, <1>11 DEF Next

-----------------------------------------------------------------------------
(* Every step keeps the batches and the send buffer well formed.            *)

(* Only requests add batches of requests. *)
LEMMA BatchesStep ==
    ASSUME DiskInv, Next
    PROVE  BatchesOK'
PROOF
  <1>1. CASE SomeoneRequests
    <2>1. CASE RequestPrepares
      <3>1. PICK reqs \in SUBSET PrepareReq :
                /\ OnePerInstance(reqs)
                /\ msgs' = msgs \cup {[type |-> "prepare_reqs", reqs |-> reqs]}
        BY <2>1 DEF RequestPrepares, SomeRequest, Send
      <3>. QED  BY <3>1 DEF DiskInv, BatchesOK
    <2>2. CASE RequestAccepts
      <3>1. PICK reqs \in SUBSET AcceptReq :
                /\ OnePerInstance(reqs)
                /\ msgs' = msgs \cup {[type |-> "accept_reqs", reqs |-> reqs]}
        BY <2>2 DEF RequestAccepts, SomeRequest, Send
      <3>. QED  BY <3>1 DEF DiskInv, BatchesOK
    <2>3. CASE RequestRepeats
      <3>1. PICK iids \in SUBSET Iids :
                msgs' = msgs \cup {[type |-> "repeat_reqs", iids |-> iids]}
        BY <2>3 DEF RequestRepeats, SomeRequest, Send
      <3>. QED  BY <3>1 DEF DiskInv, BatchesOK
    <2>. QED  BY <1>1, <2>1, <2>2, <2>3 DEF SomeoneRequests
  <1>2. CASE SplitFlush \/ FlushAnswers
    <2>1. \A m \in msgs' \ msgs : m.type \in {"prepare_acks", "accept_ack"}
      BY <1>2, FlushedEffect DEF SplitFlush, FlushAnswers
    <2>. QED  BY <2>1 DEF DiskInv, BatchesOK
  <1>3. CASE UNCHANGED msgs
    BY <1>3 DEF DiskInv, BatchesOK
  <1>4. Next => SomeoneRequests \/ SplitFlush \/ FlushAnswers \/ UNCHANGED msgs
    BY DEF Next, ReceiveBatch, Begin, PrepareElement, AcceptElement, RepeatElement,
           Skip, Add, SplitCommit, EndTransaction, CommitFinal, RepeatLatest, SaveFinal,
           WritePage, WriteLog, ProcessCrash, OSCrash, Exit, Down, Start, acceptorVars
  <1>. QED  BY <1>1, <1>2, <1>3, <1>4

(* Where the elements of a longer sequence come from. *)
LEMMA AppendLookup ==
    ASSUME NEW S, NEW s \in Seq(S), NEW e \in S
    PROVE  /\ Append(s, e) \in Seq(S)
           /\ Len(Append(s, e)) = Len(s) + 1
           /\ \A n \in DOMAIN Append(s, e) :
                 Append(s, e)[n] = e \/ (n \in DOMAIN s /\ Append(s, e)[n] = s[n])
           /\ \A n \in DOMAIN s :
                 n \in DOMAIN Append(s, e) /\ Append(s, e)[n] = s[n]
           /\ Len(s) + 1 \in DOMAIN Append(s, e) /\ Append(s, e)[Len(s) + 1] = e
PROOF
  <1>1. /\ Append(s, e) \in Seq(S)
        /\ Len(Append(s, e)) = Len(s) + 1
        /\ Len(s) \in Nat
    OBVIOUS
  <1>2. DOMAIN Append(s, e) = 1 .. Len(s) + 1 /\ DOMAIN s = 1 .. Len(s)
    BY <1>1
  <1>3. \A n \in 1 .. Len(s) : Append(s, e)[n] = s[n]
    OBVIOUS
  <1>4. Append(s, e)[Len(s) + 1] = e
    OBVIOUS
  <1>5. \A n \in 1 .. Len(s) + 1 : n = Len(s) + 1 \/ n \in 1 .. Len(s)
    BY <1>1
  <1>. DEFINE a == Append(s, e)
  <1>6. /\ a \in Seq(S) /\ Len(a) = Len(s) + 1 /\ Len(s) \in Nat
        /\ DOMAIN a = 1 .. Len(s) + 1 /\ DOMAIN s = 1 .. Len(s)
        /\ \A n \in 1 .. Len(s) : a[n] = s[n]
        /\ a[Len(s) + 1] = e
    BY <1>1, <1>2, <1>3, <1>4
  <1>. HIDE DEF a
  <1>7. ASSUME NEW n \in DOMAIN a
        PROVE  a[n] = e \/ (n \in DOMAIN s /\ a[n] = s[n])
    <2>1. n = Len(s) + 1 \/ n \in 1 .. Len(s)
      BY <1>5, <1>6, Zenon
    <2>2. CASE n = Len(s) + 1
      <3>1. a[n] = a[Len(s) + 1]
        BY <2>2
      <3>. QED  BY <1>6, <3>1, Zenon
    <2>3. CASE n \in 1 .. Len(s)
      BY <1>6, <2>3, Zenon
    <2>. QED  BY <2>1, <2>2, <2>3
  <1>8. \A n \in DOMAIN s : n \in DOMAIN a /\ a[n] = s[n]
    <2>1. 1 .. Len(s) \subseteq 1 .. Len(s) + 1
      BY <1>6
    <2>. QED  BY <1>6, <2>1, Zenon
  <1>9. Len(s) + 1 \in DOMAIN a
    <2>1. Len(s) + 1 \in 1 .. Len(s) + 1
      BY <1>6
    <2>. QED  BY <1>6, <2>1, Zenon
  <1>. QED  BY <1>6, <1>7, <1>8, <1>9, Zenon DEF a

\* InHand(e), of the same element one step later.
StillInHand(e) ==
    /\ e.rec = db'[e.iid]
    /\ kind' # "prepare_reqs" => e.rec.value # NoValue
    /\ \A r \in todo' : r.iid # e.iid

(* An element granted goes to the buffer or waits for the split. *)
LEMMA GrantingBatch ==
    ASSUME DiskInv, pc = "loop", NEW r \in todo, NEW rec \in Record, Granting(r, rec)
    PROVE  BatchOK'
PROOF
  <1>. USE DEF DiskInv
  <1>. DEFINE e == [iid |-> r.iid, rec |-> rec]
  <1>1. /\ r.iid \in Iids
        /\ record_buffer' = e
        /\ todo' = todo \ {r}
        /\ kind' = kind
        /\ UNCHANGED msgs
        /\ kind # "prepare_reqs" => rec.value # NoValue
        /\ \/ sb' = Append(sb, e) /\ pc' = "loop"
           \/ sb' = sb /\ pc' = "split"
    BY DEF Granting, Add
  <1>2. rec.value = NoValue => db[r.iid].value = NoValue
    BY Numbers DEF Granting, BatchOK, AcceptReq
  <1>3. db' = [db EXCEPT ![r.iid] = rec]
    BY <1>1, <1>2, PutKeeps DEF Granting
  <1>4. db \in Layer
    BY DbType
  <1>5. e \in Element
    BY <1>1 DEF Element
  <1>6. StillInHand(e)
    <2>1. db'[r.iid] = rec
      BY <1>1, <1>3, <1>4 DEF Layer
    <2>2. \A o \in todo' : o.iid # r.iid
      BY <1>1 DEF BatchOK, OnePerInstance
    <2>. QED  BY <1>1, <2>1, <2>2 DEF StillInHand
  <1>7. ASSUME NEW n \in DOMAIN sb
        PROVE  StillInHand(sb[n])
    <2>0. InHand(sb[n]) /\ sb[n] \in Element
      BY DEF BatchOK
    <2>1. InHand(sb[n]) /\ sb[n].iid \in Iids
      BY <2>0 DEF Element
    <2>2. sb[n].iid # r.iid
      BY <2>1 DEF InHand
    <2>3. db'[sb[n].iid] = db[sb[n].iid]
      BY <1>3, <1>4, <2>1, <2>2 DEF Layer
    <2>. QED  BY <1>1, <2>1, <2>3 DEF InHand, StillInHand
  <1>8. sb \in Seq(Element)
    BY DEF BatchOK
  <1>. HIDE DEF e
  <1>9. CASE sb' = Append(sb, e) /\ pc' = "loop"
    <2>1. sb' \in Seq(Element)
      BY <1>5, <1>8, <1>9
    <2>2. \A n \in DOMAIN sb' : sb'[n] = e \/ (n \in DOMAIN sb /\ sb'[n] = sb[n])
      BY <1>5, <1>8, <1>9, AppendLookup
    <2>3. \A n \in DOMAIN sb' : StillInHand(sb'[n])
      BY <1>6, <1>7, <2>2
    <2>4. (\A n \in DOMAIN sb : InHand(sb[n]))'
      BY <2>3 DEF InHand, StillInHand
    <2>. QED  BY <1>1, <1>9, <2>1, <2>4 DEF BatchOK, InSplit, OnePerInstance
  <1>10. CASE sb' = sb /\ pc' = "split"
    <2>1. record_buffer' \in Element /\ InHand(record_buffer)'
      BY <1>1, <1>5, <1>6 DEF InHand, StillInHand
    <2>2. (\A n \in DOMAIN sb : InHand(sb[n]))'
      BY <1>7, <1>10 DEF InHand, StillInHand
    <2>. QED  BY <1>1, <1>8, <1>10, <2>1, <2>2 DEF BatchOK, InSplit, OnePerInstance
  <1>. QED  BY <1>1, <1>9, <1>10

LEMMA BatchStep ==
    ASSUME DiskInv, Next
    PROVE  BatchOK'
PROOF
  <1>. USE DEF DiskInv
  <1>1. CASE SomeoneRequests \/ WritePage \/ WriteLog
    <2>1. UNCHANGED <<todo, kind, sb, pc, record_buffer, store>>
      BY <1>1 DEF SomeoneRequests, WritePage, WriteLog, batchVars, acceptorVars,
                  RequestPrepares, RequestAccepts, RequestRepeats, SomeRequest
    <2>. QED  BY <2>1 DEF BatchOK, InHand, InSplit, OnePerInstance, db
  <1>2. CASE ReceiveBatch
    <2>1. PICK m \in msgs :
              \/ m.type \in {"prepare_reqs", "accept_reqs"} /\ Begin(m.type, m.reqs)
              \/ m.type = "repeat_reqs" /\ Begin(m.type, {[iid |-> i] : i \in m.iids})
      BY <1>2, Zenon DEF ReceiveBatch
    <2>2. m \in Message
      BY DEF LayersOK, AcceptorInv, AcceptorTypeOK
    <2>3. /\ m.type = "prepare_reqs" => m.reqs \in SUBSET PrepareReq
          /\ m.type = "accept_reqs"  => m.reqs \in SUBSET AcceptReq
          /\ m.type = "repeat_reqs"  => m.iids \in SUBSET Iids
      BY <2>2, MessageShapes
    <2>4. CASE m.type \in {"prepare_reqs", "accept_reqs"} /\ Begin(m.type, m.reqs)
      <3>1. OnePerInstance(m.reqs)
        BY <2>4 DEF BatchesOK
      <3>2. kind' = m.type /\ todo' = m.reqs /\ sb' = <<>> /\ pc' = "loop"
        BY <2>4 DEF Begin
      <3>. QED  BY <2>3, <2>4, <3>1, <3>2 DEF BatchOK, InSplit, OnePerInstance
    <2>5. CASE m.type = "repeat_reqs" /\ Begin(m.type, {[iid |-> i] : i \in m.iids})
      <3>1. kind' = "repeat_reqs" /\ sb' = <<>> /\ pc' = "loop"
            /\ todo' = {[iid |-> i] : i \in m.iids}
        BY <2>5 DEF Begin
      <3>2. todo' \subseteq [iid : Iids] /\ OnePerInstance(todo)'
        BY <2>3, <2>5, <3>1 DEF OnePerInstance
      <3>. QED  BY <3>1, <3>2 DEF BatchOK, InSplit
    <2>. QED  BY <2>1, <2>4, <2>5
  <1>3. CASE PrepareElement \/ AcceptElement \/ RepeatElement
    <2>1. pc = "loop" /\ \E r \in todo : Skip(r) \/ \E rec \in Record : Granting(r, rec)
      BY <1>3, ElementEffect
    <2>2. ASSUME NEW r \in todo, Skip(r)
          PROVE  BatchOK'
      <3>1. UNCHANGED <<store, kind, sb, pc>> /\ todo' = todo \ {r}
        BY <2>2 DEF Skip, acceptorVars
      <3>. QED  BY <2>1, <3>1 DEF BatchOK, InHand, InSplit, OnePerInstance, db
    <2>. QED  BY <2>1, <2>2, GrantingBatch
  <1>4. CASE SplitCommit \/ EndTransaction \/ CommitFinal
    <2>1. /\ UNCHANGED <<store, todo, kind, sb, record_buffer>>
          /\ \/ pc = "split" /\ pc' = "split_flush"
             \/ pc = "loop" /\ todo = {} /\ pc' = "flush"
             \/ pc = "final" /\ pc' = "idle"
      BY <1>4 DEF SplitCommit, EndTransaction, CommitFinal, acceptorVars, batchVars
    <2>. QED  BY <2>1 DEF BatchOK, InHand, InSplit, OnePerInstance, db
  <1>5. CASE SplitFlush
    <2>1. /\ pc = "split_flush" /\ pc' = "loop" /\ sb' = <<record_buffer>>
          /\ UNCHANGED <<store, todo, kind, record_buffer>>
      BY <1>5 DEF SplitFlush
    <2>2. record_buffer \in Element /\ InHand(record_buffer)
      BY <2>1 DEF BatchOK, InSplit
    <2>3. sb' \in Seq(Element) /\ \A n \in DOMAIN sb' : sb'[n] = record_buffer
      BY <2>1, <2>2
    <2>4. \A n \in DOMAIN sb' : InHand(sb[n])'
      BY <2>1, <2>2, <2>3 DEF InHand, db
    <2>. QED  BY <2>1, <2>3, <2>4 DEF BatchOK, InSplit, OnePerInstance
  <1>6. CASE FlushAnswers
    <2>1. todo = {} /\ pc' = "idle" /\ sb' = <<>> /\ kind' = "none" /\ UNCHANGED todo
      BY <1>6 DEF FlushAnswers, BatchOK
    <2>. QED  BY <2>1 DEF BatchOK, InSplit, OnePerInstance
  <1>7. CASE RepeatLatest
    <2>1. /\ pc' = "loop" /\ kind' = "repeat_reqs" /\ todo' = {}
          /\ sb' = <<record_buffer'>> /\ UNCHANGED store
      BY <1>7 DEF RepeatLatest, acceptorVars
    <2>2. PICK h \in Iids : /\ HoldsValue(db[h]) /\ db[h] \in Record
                            /\ record_buffer' = [iid |-> h, rec |-> db[h]]
      BY <1>7, RepeatLatestEffect
    <2>3. record_buffer' \in Element
      BY <2>2 DEF Element
    <2>4. InHand(record_buffer)'
      BY <2>1, <2>2 DEF InHand, db, HoldsValue
    <2>5. sb' \in Seq(Element) /\ \A n \in DOMAIN sb' : sb'[n] = record_buffer'
      BY <2>1, <2>3
    <2>6. \A n \in DOMAIN sb' : InHand(sb[n])'
      BY <2>4, <2>5 DEF InHand
    <2>. QED  BY <2>1, <2>5, <2>6 DEF BatchOK, InSplit, OnePerInstance
  <1>8. CASE SaveFinal
    <2>1. pc = "idle" /\ pc' = "final" /\ UNCHANGED <<todo, kind, sb>>
      BY <1>8 DEF SaveFinal
    <2>. QED  BY <2>1 DEF BatchOK, InSplit, OnePerInstance
  <1>9. CASE ProcessCrash \/ OSCrash \/ Exit
    <2>1. pc' = "down" /\ todo' = {} /\ kind' = "none" /\ sb' = <<>>
      BY <1>9 DEF ProcessCrash, OSCrash, Exit, Down
    <2>. QED  BY <2>1 DEF BatchOK, InSplit, OnePerInstance
  <1>10. CASE \E do_recovery, emptied \in BOOLEAN : Start(do_recovery, emptied)
    <2>1. pc = "down" /\ pc' = "idle" /\ UNCHANGED <<todo, kind, sb>>
      BY <1>10 DEF Start, batchVars
    <2>. QED  BY <2>1 DEF BatchOK, InSplit, OnePerInstance
  <1>. QED
    BY <1>1, <1>2, <1>3, <1>4, <1>5, <1>6, <1>7, <1>8, <1>9, <1>10 DEF Next

(* The database is empty and the process is down at first. *)
LEMMA DiskInit ==
    ASSUME Init
    PROVE  DiskInv
PROOF
  <1>1. AcceptorInv
    BY AcceptorInitInv DEF Init
  <1>2. NoRecords \in Layer /\ \A i \in Iids : Coherent(NoRecords[i])
    BY RecordFields DEF NoRecords, Layer, Coherent
  <1>3. LayersOK
    BY <1>1, <1>2, AcceptorDiskAssumption DEF LayersOK, Init, AcceptorInit
  <1>4. BatchesOK /\ BatchOK
    BY DEF BatchesOK, BatchOK, Init, InSplit, OnePerInstance
  <1>. QED  BY <1>3, <1>4 DEF DiskInv

(* The invariant that keeps the steps of a batch total holds in every behaviour. *)
THEOREM DiskCorrect == Spec => []DiskInv
PROOF
  <1>1. Init => DiskInv
    BY DiskInit
  <1>2. DiskInv /\ [Next]_vars => DiskInv'
    <2>. SUFFICES ASSUME DiskInv, [Next]_vars
                  PROVE  DiskInv'
      OBVIOUS
    <2>1. CASE Next
      BY <2>1, LayersStep, BatchesStep, BatchStep DEF DiskInv
    <2>2. CASE UNCHANGED vars
      BY <2>2 DEF vars, layerVars, batchVars, DiskInv, LayersOK, AcceptorInv,
                  AcceptorTypeOK, RecordsCoherent, RepeaterFindsValue, BatchesOK, BatchOK,
                  InHand, InSplit, db
    <2>. QED  BY <2>1, <2>2
  <1>. QED  BY <1>1, <1>2, PTL DEF Spec

(* Messages, the three layers and the send buffer are always well formed. *)
THEOREM DiskTypeCorrect == Spec => []DiskTypeOK
PROOF
  <1>1. DiskInv => DiskTypeOK
    <2>. SUFFICES ASSUME DiskInv PROVE DiskTypeOK
      OBVIOUS
    <2>1. \A n \in DOMAIN sb : sb[n] \in Element
      BY DEF DiskInv, BatchOK
    <2>. QED  BY <2>1 DEF DiskInv, LayersOK, AcceptorInv, AcceptorTypeOK, DiskTypeOK,
                        Layer, Element
  <1>. QED  BY <1>1, DiskCorrect, PTL

-----------------------------------------------------------------------------
(* What was answered is kept.                                               *)

(* One record saved: no answer is claimed for it any more, unless it is the record
   that was there. *)
LEMMA KeptPut ==
    ASSUME DiskInv, KeptInv, NEW i \in Iids, NEW rec \in Record,
           db' = [db EXCEPT ![i] = rec],
           \/ last_answer' = [last_answer EXCEPT ![i] = NoRecord]
           \/ rec = db[i] /\ UNCHANGED last_answer,
           UNCHANGED <<mode, os, disk>>, pc' \notin {"split_flush", "flush"}
    PROVE  KeptInv'
PROOF
  <1>1. db \in Layer /\ last_answer \in Layer
    BY DbType DEF DiskInv, LayersOK
  <1>2. ASSUME NEW j \in Iids, last_answer'[j] # NoRecord
        PROVE  last_answer'[j] = last_answer[j] /\ db'[j] = db[j]
    BY <1>1, <1>2 DEF Layer
  <1>3. ASSUME NEW j \in Iids, last_answer'[j] # NoRecord
        PROVE  Promised(last_answer[j], j)'
    <2>1. Promised(last_answer[j], j)
      BY <1>2, <1>3 DEF KeptInv
    <2>. QED  BY <1>2, <1>3, <2>1 DEF Promised
  <1>. QED  BY <1>3 DEF KeptInv

LEMMA KeptStep ==
    ASSUME DiskInv, KeptInv, Next
    PROVE  KeptInv'
PROOF
  <1>1. CASE /\ UNCHANGED <<store, os, disk, mode, last_answer>>
             /\ pc' \notin {"split_flush", "flush"} \/ UNCHANGED pc
    BY <1>1 DEF KeptInv, Promised, db
  <1>2. CASE SomeoneRequests \/ ReceiveBatch \/ RepeatLatest
    <2>1. /\ UNCHANGED <<store, os, disk, mode, last_answer>>
          /\ pc' \notin {"split_flush", "flush"} \/ UNCHANGED pc
      BY <1>2 DEF SomeoneRequests, ReceiveBatch, Begin, RepeatLatest, acceptorVars,
                  layerVars, RequestPrepares, RequestAccepts, RequestRepeats, SomeRequest
    <2>. QED  BY <1>1, <2>1
  <1>3. CASE PrepareElement \/ AcceptElement \/ RepeatElement
    <2>1. pc = "loop" /\ \E r \in todo : Skip(r) \/ \E rec \in Record : Granting(r, rec)
      BY <1>3, ElementEffect
    <2>2. ASSUME NEW r \in todo, Skip(r)
          PROVE  KeptInv'
      BY <1>1, <2>2 DEF Skip, acceptorVars, layerVars
    <2>3. ASSUME NEW r \in todo, NEW rec \in Record, Granting(r, rec)
          PROVE  KeptInv'
      <3>1. r.iid \in Iids /\ Coherent(rec)
        BY <2>3 DEF Granting
      <3>2. UNCHANGED <<msgs, mode, os, disk>> /\ pc' \in {"loop", "split"}
        BY <2>1, <2>3 DEF Granting, Add, layerVars
      <3>3. rec.value = NoValue => db[r.iid].value = NoValue
        BY <2>3, <2>1, Numbers DEF Granting, DiskInv, BatchOK, AcceptReq
      <3>4. db' = [db EXCEPT ![r.iid] = rec]
        BY <2>3, <3>1, <3>2, <3>3, PutKeeps DEF Granting, DiskInv
      <3>. QED  BY <2>3, <3>1, <3>2, <3>4, KeptPut DEF Granting
    <2>. QED  BY <2>1, <2>2, <2>3
  <1>4. CASE SplitCommit \/ EndTransaction \/ CommitFinal
    <2>1. UNCHANGED <<store, mode, last_answer>> /\ Committed
      BY <1>4 DEF SplitCommit, EndTransaction, CommitFinal, acceptorVars
    <2>2. UNCHANGED db
      BY <2>1 DEF db
    <2>3. /\ mode \in OutlivesProcess => mode \in WrittenAtCommit
          /\ mode \in OutlivesOS => mode \in SyncedAtCommit
      BY DEF OutlivesProcess, OutlivesOS, WrittenAtCommit, SyncedAtCommit
    <2>. QED  BY <2>1, <2>2, <2>3 DEF KeptInv, Promised, Committed
  <1>5. CASE SplitFlush \/ FlushAnswers
    <2>1. /\ Flushed /\ UNCHANGED <<store, mode, os, disk>>
          /\ pc \in {"split_flush", "flush"} /\ pc' \in {"loop", "idle"}
      BY <1>5 DEF SplitFlush, FlushAnswers, layerVars
    <2>2. \A i \in Iids : last_answer'[i] = db[i] \/ last_answer'[i] = last_answer[i]
      BY <2>1, FlushedEffect
    <2>3. UNCHANGED db
      BY <2>1 DEF db
    <2>4. ASSUME NEW i \in Iids, last_answer'[i] # NoRecord
          PROVE  Promised(last_answer'[i], i)
      BY <2>1, <2>2, <2>4 DEF KeptInv
    <2>5. \A i \in Iids : last_answer'[i] # NoRecord => Promised(last_answer[i], i)'
      BY <2>1, <2>3, <2>4 DEF Promised
    <2>. QED  BY <2>1, <2>5 DEF KeptInv
  <1>6. CASE SaveFinal
    <2>1. PICK i \in Iids, rec \in Record :
              /\ db' = [db EXCEPT ![i] = rec]
              /\ last_answer' = [last_answer EXCEPT ![i] = NoRecord]
      BY <1>6, SaveFinalEffect DEF DiskInv
    <2>2. UNCHANGED <<mode, os, disk>> /\ pc' = "final"
      BY <1>6, SaveFinalEffect DEF DiskInv
    <2>. QED  BY <2>1, <2>2, KeptPut
  <1>7. CASE WritePage
    <2>1. /\ UNCHANGED <<store, mode, pc, last_answer>>
          /\ \E i \in Iids : /\ os' = [os EXCEPT ![i] = db[i]]
                             /\ disk' = [disk EXCEPT ![i] = db[i]]
      BY <1>7 DEF WritePage, acceptorVars
    <2>2. os \in Layer /\ disk \in Layer
      BY DEF DiskInv, LayersOK
    <2>3. \A j \in Iids : os'[j] \in {os[j], db[j]} /\ disk'[j] \in {disk[j], db[j]}
      BY <2>1, <2>2 DEF Layer
    <2>4. UNCHANGED db
      BY <2>1 DEF db
    <2>. QED  BY <2>1, <2>3, <2>4 DEF KeptInv, Promised
  <1>8. CASE WriteLog
    <2>1. UNCHANGED <<store, mode, pc, os, last_answer>> /\ mode \notin OutlivesOS
      BY <1>8 DEF WriteLog, acceptorVars, OutlivesOS
    <2>2. UNCHANGED db
      BY <2>1 DEF db
    <2>. QED  BY <2>1, <2>2 DEF KeptInv, Promised
  <1>9. CASE ProcessCrash \/ OSCrash \/ Exit
    <2>1. /\ UNCHANGED mode /\ pc' = "down" /\ db' = os'
          /\ db \in Layer /\ os \in Layer /\ disk \in Layer
      BY <1>9, EndEffect, DbType DEF DiskInv, LayersOK, Down
    <2>2. CASE ProcessCrash
      <3>1. CASE mode \in OutlivesProcess
        <4>1. \A i \in Iids : os'[i] = os[i]
          BY <2>1, <2>2, <3>1, SurvivorsType DEF ProcessCrash, OutlivesProcess, NoLog
        <4>2. UNCHANGED <<disk, last_answer>>
          BY <2>2, <3>1 DEF ProcessCrash
        <4>. QED  BY <2>1, <3>1, <4>1, <4>2 DEF KeptInv, Promised
      <3>2. CASE mode \notin OutlivesProcess
        BY <2>1, <2>2, <3>2 DEF ProcessCrash, KeptInv, NoRecords
      <3>. QED  BY <3>1, <3>2
    <2>3. CASE OSCrash
      <3>1. CASE mode \in OutlivesOS
        <4>1. \A i \in Iids : disk'[i] = disk[i]
          BY <2>1, <2>3, <3>1, SurvivorsType DEF OSCrash, OutlivesOS, NoLog
        <4>2. UNCHANGED last_answer /\ os' = disk'
          BY <2>3, <3>1 DEF OSCrash
        <4>. QED  BY <2>1, <3>1, <4>1, <4>2 DEF KeptInv, Promised
      <3>2. CASE mode \notin OutlivesOS
        BY <2>1, <2>3, <3>2 DEF OSCrash, KeptInv, NoRecords
      <3>. QED  BY <3>1, <3>2
    <2>4. CASE Exit
      <3>1. disk' = os' /\ os' \in {os, db}
            /\ last_answer' = IF mode \in OutlivesProcess \/ os' = db
                               THEN last_answer ELSE NoRecords
        BY <2>4 DEF Exit
      <3>2. CASE mode \in OutlivesProcess \/ os' = db
        BY <2>1, <3>1, <3>2 DEF KeptInv, Promised
      <3>3. CASE ~ (mode \in OutlivesProcess \/ os' = db)
        BY <2>1, <3>1, <3>3 DEF KeptInv, NoRecords
      <3>. QED  BY <3>2, <3>3
    <2>. QED  BY <1>9, <2>2, <2>3, <2>4
  <1>10. CASE \E do_recovery, emptied \in BOOLEAN : Start(do_recovery, emptied)
    <2>1. /\ pc' = "idle" /\ UNCHANGED mode
          /\ \/ UNCHANGED <<store, os, disk, last_answer>>
             \/ last_answer' = NoRecords
      BY <1>10 DEF Start
    <2>2. CASE UNCHANGED <<store, os, disk, last_answer>>
      BY <1>1, <2>1, <2>2
    <2>3. CASE last_answer' = NoRecords
      BY <2>1, <2>3 DEF KeptInv, NoRecords
    <2>. QED  BY <2>1, <2>2, <2>3
  <1>. QED
    BY <1>2, <1>3, <1>4, <1>5, <1>6, <1>7, <1>8, <1>9, <1>10 DEF Next

(* The record an acceptor last answered with is the one it has: a crash of the
   process, at whatever step, does not undo it in modes 11, 12 and 13, nor a crash of
   the operating system in mode 13. *)
THEOREM AnsweredIsKeptCorrect == Spec => []AnsweredIsKept
PROOF
  <1>1. Init => KeptInv
    BY DEF Init, KeptInv, NoRecords
  <1>2. DiskInv /\ KeptInv /\ [Next]_vars => KeptInv'
    <2>1. ASSUME DiskInv, KeptInv, UNCHANGED vars
          PROVE  KeptInv'
      BY <2>1 DEF vars, layerVars, KeptInv, Promised, db
    <2>. QED  BY <2>1, KeptStep
  <1>3. KeptInv => AnsweredIsKept
    BY DEF KeptInv, Promised, AnsweredIsKept
  <1>. QED  BY <1>1, <1>2, <1>3, DiskCorrect, PTL DEF Spec

-----------------------------------------------------------------------------
(* What is stored was asked for.                                            *)

(* A record whose value is accounted for. *)
WasAsked(i, rec) ==
    rec.value # NoValue /\ ~ rec.is_final => Asked(i, rec.value_ballot, rec.value)

(* An element granted stores what its instance had, or what it asked for. *)
LEMMA AskedGranting ==
    ASSUME DiskInv, AskedInv, pc = "loop",
           NEW r \in todo, NEW rec \in Record, Granting(r, rec)
    PROVE  AskedInv'
PROOF
  <1>1. /\ r.iid \in Iids /\ Coherent(rec)
        /\ UNCHANGED <<msgs, os, disk, kind>> /\ todo' \subseteq todo
    BY DEF Granting, Add, layerVars
  <1>2. rec.value = NoValue => db[r.iid].value = NoValue
    BY Numbers DEF Granting, DiskInv, BatchOK, AcceptReq
  <1>3. db' = [db EXCEPT ![r.iid] = rec]
    BY <1>1, <1>2, PutKeeps DEF Granting, DiskInv
  <1>4. WasAsked(r.iid, rec)
    BY <1>1 DEF Granting, AskedInv, StoredWhereAsked, WasAsked
  <1>5. db \in Layer
    BY DbType DEF DiskInv
  <1>6. ASSUME NEW i \in Iids, NEW o \in {db'[i], os'[i], disk'[i]}
        PROVE  WasAsked(i, o)
    BY <1>1, <1>3, <1>4, <1>5, <1>6 DEF AskedInv, StoredWhereAsked, WasAsked, Layer
  <1>. QED  BY <1>1, <1>6 DEF AskedInv, StoredWhereAsked, WasAsked, Asked

LEMMA AskedStep ==
    ASSUME DiskInv, AskedInv, Next
    PROVE  AskedInv'
PROOF
  <1>1. ASSUME msgs \subseteq msgs',
               \A i \in Iids : \A rec \in {db'[i], os'[i], disk'[i]} :
                  rec \in {db[i], os[i], disk[i], NoRecord} \/ rec.is_final,
               (UNCHANGED kind /\ todo' \subseteq todo) \/ kind' # "accept_reqs"
        PROVE  AskedInv'
    <2>1. ASSUME NEW i \in Iids, NEW rec \in {db'[i], os'[i], disk'[i]},
                 rec.value # NoValue, ~ rec.is_final
          PROVE  Asked(i, rec.value_ballot, rec.value)'
      <3>1. rec \in {db[i], os[i], disk[i]}
        BY <1>1, <2>1, RecordFields
      <3>2. Asked(i, rec.value_ballot, rec.value)
        BY <2>1, <3>1 DEF AskedInv, StoredWhereAsked
      <3>. QED  BY <1>1, <3>2, AskedStable
    <2>2. StoredWhereAsked'
      BY <2>1 DEF StoredWhereAsked
    <2>3. kind' = "accept_reqs" =>
              \A ar \in todo' : Asked(ar.iid, ar.ballot, ar.value)'
      BY <1>1, AskedStable DEF AskedInv
    <2>. QED  BY <2>2, <2>3 DEF AskedInv
  <1>2. CASE SomeoneRequests
    <2>1. msgs \subseteq msgs' /\ UNCHANGED <<store, os, disk, kind, todo>>
      BY <1>2 DEF SomeoneRequests, layerVars, batchVars, RequestPrepares, RequestAccepts,
                  RequestRepeats, SomeRequest, Send
    <2>2. UNCHANGED db
      BY <2>1 DEF db
    <2>. QED  BY <1>1, <2>1, <2>2
  <1>3. CASE ReceiveBatch
    <2>1. PICK m \in msgs :
              \/ m.type \in {"prepare_reqs", "accept_reqs"} /\ Begin(m.type, m.reqs)
              \/ m.type = "repeat_reqs" /\ Begin(m.type, {[iid |-> i] : i \in m.iids})
      BY <1>3, Zenon DEF ReceiveBatch
    <2>2. /\ UNCHANGED <<msgs, store, os, disk, db>>
          /\ kind' = m.type
          /\ m.type # "repeat_reqs" => todo' = m.reqs
      BY <2>1 DEF Begin, acceptorVars, layerVars, db
    <2>3. m.type = "accept_reqs" =>
              \A ar \in m.reqs : Asked(ar.iid, ar.ballot, ar.value)
      <3>1. m \in Message
        BY DEF DiskInv, LayersOK, AcceptorInv, AcceptorTypeOK
      <3>2. m.type = "accept_reqs" =>
                \A ar \in m.reqs :
                    ar = [iid |-> ar.iid, ballot |-> ar.ballot, value |-> ar.value]
        BY <3>1, MessageShapes DEF AcceptReq
      <3>. QED  BY <3>2 DEF Asked
    <2>. QED  BY <2>2, <2>3 DEF AskedInv, StoredWhereAsked, Asked
  <1>4. CASE PrepareElement \/ AcceptElement \/ RepeatElement
    <2>1. pc = "loop" /\ \E r \in todo : Skip(r) \/ \E rec \in Record : Granting(r, rec)
      BY <1>4, ElementEffect
    <2>2. ASSUME NEW r \in todo, Skip(r)
          PROVE  AskedInv'
      BY <1>1, <2>2 DEF Skip, acceptorVars, layerVars, db
    <2>. QED  BY <2>1, <2>2, AskedGranting
  <1>5. CASE SplitCommit \/ EndTransaction \/ CommitFinal
    <2>1. /\ UNCHANGED <<msgs, store, db, kind, todo>>
          /\ os' \in {os, db} /\ disk' \in {disk, db}
      BY <1>5 DEF SplitCommit, EndTransaction, CommitFinal, Committed, acceptorVars,
                  batchVars, db
    <2>. QED  BY <1>1, <2>1
  <1>6. CASE SplitFlush \/ FlushAnswers
    <2>1. /\ UNCHANGED <<store, db, os, disk, todo>>
          /\ kind' = "none" \/ UNCHANGED kind
          /\ Flushed
      BY <1>6 DEF SplitFlush, FlushAnswers, layerVars, db
    <2>2. msgs \subseteq msgs'
      BY <2>1, FlushedEffect
    <2>. QED  BY <1>1, <2>1, <2>2
  <1>7. CASE RepeatLatest
    BY <1>1, <1>7 DEF RepeatLatest, acceptorVars, layerVars, db
  <1>8. CASE SaveFinal
    <2>1. PICK i \in Iids, rec \in Record : rec.is_final /\ db' = [db EXCEPT ![i] = rec]
      BY <1>8, SaveFinalEffect DEF DiskInv
    <2>2. UNCHANGED <<msgs, os, disk, kind, todo>>
      BY <1>8, SaveFinalEffect DEF DiskInv
    <2>3. \A j \in Iids : db'[j] = db[j] \/ db'[j].is_final
      BY <2>1, DbType DEF DiskInv, Layer
    <2>. QED  BY <1>1, <2>2, <2>3
  <1>9. CASE WritePage
    <2>1. /\ UNCHANGED <<msgs, store, db, kind, todo>>
          /\ \E i \in Iids : /\ os' = [os EXCEPT ![i] = db[i]]
                             /\ disk' = [disk EXCEPT ![i] = db[i]]
      BY <1>9 DEF WritePage, acceptorVars, batchVars, db
    <2>2. os \in Layer /\ disk \in Layer
      BY DEF DiskInv, LayersOK
    <2>3. \A j \in Iids : os'[j] \in {os[j], db[j]} /\ disk'[j] \in {disk[j], db[j]}
      BY <2>1, <2>2 DEF Layer
    <2>. QED  BY <1>1, <2>1, <2>3
  <1>10. CASE WriteLog
    BY <1>1, <1>10 DEF WriteLog, acceptorVars, batchVars, db
  <1>11. CASE ProcessCrash \/ OSCrash \/ Exit
    <2>1. UNCHANGED msgs /\ kind' = "none"
      BY <1>11, EndEffect DEF DiskInv, Down
    <2>2. \A i \in Iids : \A rec \in {db'[i], os'[i], disk'[i]} :
              rec \in {db[i], os[i], disk[i], NoRecord}
      BY <1>11, EndEffect DEF DiskInv
    <2>. QED  BY <1>1, <2>1, <2>2
  <1>12. CASE \E do_recovery, emptied \in BOOLEAN : Start(do_recovery, emptied)
    <2>1. /\ UNCHANGED <<msgs, kind, todo>>
          /\ \/ UNCHANGED <<store, os, disk>>
             \/ /\ store' = [store EXCEPT ![this_acceptor_id] = NoRecords]
                /\ os' = NoRecords /\ disk' = NoRecords
      BY <1>12 DEF Start, batchVars
    <2>2. CASE UNCHANGED <<store, os, disk>>
      BY <1>1, <2>1, <2>2 DEF db
    <2>3. CASE /\ store' = [store EXCEPT ![this_acceptor_id] = NoRecords]
               /\ os' = NoRecords /\ disk' = NoRecords
      <3>1. db' = NoRecords
        BY <2>3, AcceptorDiskAssumption
        DEF db, DiskInv, LayersOK, AcceptorInv, AcceptorTypeOK
      <3>2. \A i \in Iids : \A rec \in {db'[i], os'[i], disk'[i]} : rec = NoRecord
        BY <2>3, <3>1 DEF NoRecords
      <3>. QED  BY <1>1, <2>1, <3>2
    <2>. QED  BY <2>1, <2>2, <2>3
  <1>. QED
    BY <1>2, <1>3, <1>4, <1>5, <1>6, <1>7, <1>8, <1>9, <1>10, <1>11, <1>12 DEF Next

(* The static buffer never carries a value from one instance to another, nor does
   a layer below hold one that was not asked for. *)
THEOREM StoredWhereAskedCorrect == Spec => []StoredWhereAsked
PROOF
  <1>1. Init => AskedInv
    <2>. SUFFICES ASSUME Init PROVE AskedInv
      OBVIOUS
    <2>1. \A i \in Iids : db[i] = NoRecord /\ os[i] = NoRecord /\ disk[i] = NoRecord
      BY AcceptorDiskAssumption DEF Init, AcceptorInit, db, NoRecords
    <2>2. \A i \in Iids : \A rec \in {db[i], os[i], disk[i]} : rec.value = NoValue
      BY <2>1, RecordFields
    <2>. QED  BY <2>2 DEF Init, AskedInv, StoredWhereAsked
  <1>2. DiskInv /\ AskedInv /\ [Next]_vars => AskedInv'
    <2>1. ASSUME AskedInv, UNCHANGED vars
          PROVE  AskedInv'
      BY <2>1 DEF vars, layerVars, batchVars, AskedInv, StoredWhereAsked, Asked, db
    <2>. QED  BY <2>1, AskedStep
  <1>3. AskedInv => StoredWhereAsked
    BY DEF AskedInv
  <1>. QED  BY <1>1, <1>2, <1>3, DiskCorrect, PTL DEF Spec

-----------------------------------------------------------------------------
(* A stored value was announced, is about to be, or was cut off.            *)

(* A record of instance i whose value, if it has one that is not final, is on its
   way to the learners or was cut off from it. *)
Accounted(i, rec) ==
    rec.value # NoValue /\ ~ rec.is_final =>
        \/ Told(i, rec.value_ballot, rec.value)
        \/ RequestOf([iid |-> i, rec |-> rec]) \in Unsent \cup cut_off

(* The property, of the layers below as well: a crash brings their records back. *)
SilentInv ==
    \A i \in Iids : \A rec \in {db[i], os[i], disk[i]} : Accounted(i, rec)

LEMMA ToldStable ==
    ASSUME msgs \subseteq msgs', NEW i, NEW b, NEW v, Told(i, b, v)
    PROVE  Told(i, b, v)'
BY DEF Told

(* Nothing waits in the process between two events. *)
LEMMA NoneUnsent ==
    ASSUME DiskInv, pc \in {"idle", "final", "down"}
    PROVE  Unsent = {}
BY DEF DiskInv, BatchOK, Unsent

(* What keeps the invariant: a request that no longer waits is told or cut off, and
   a record that is new is accounted for. *)
LEMMA SilentFrame ==
    ASSUME SilentInv, msgs \subseteq msgs',
           \A q \in Unsent \cup cut_off :
              q \in (Unsent \cup cut_off)' \/ Told(q.iid, q.ballot, q.value)',
           \A i \in Iids : \A rec \in {db'[i], os'[i], disk'[i]} :
              rec \in {db[i], os[i], disk[i], NoRecord} \/ Accounted(i, rec)'
    PROVE  SilentInv'
PROOF
  <1>1. ASSUME NEW i \in Iids, NEW rec, Accounted(i, rec)
        PROVE  Accounted(i, rec)'
    <2>1. SUFFICES ASSUME rec.value # NoValue, ~ rec.is_final
                   PROVE  \/ Told(i, rec.value_ballot, rec.value)'
                          \/ RequestOf([iid |-> i, rec |-> rec]) \in (Unsent \cup cut_off)'
      BY DEF Accounted
    <2>2. CASE Told(i, rec.value_ballot, rec.value)
      BY <2>2, ToldStable
    <2>3. CASE RequestOf([iid |-> i, rec |-> rec]) \in Unsent \cup cut_off
      <3>. DEFINE q == RequestOf([iid |-> i, rec |-> rec])
      <3>1. q.iid = i /\ q.ballot = rec.value_ballot /\ q.value = rec.value
        BY DEF RequestOf
      <3>. HIDE DEF q
      <3>2. q \in (Unsent \cup cut_off)' \/ Told(q.iid, q.ballot, q.value)'
        BY <2>3 DEF q
      <3>. QED  BY <3>1, <3>2 DEF q
    <2>. QED  BY <1>1, <2>1, <2>2, <2>3 DEF Accounted
  <1>2. \A i \in Iids : Accounted(i, NoRecord)'
    BY RecordFields DEF Accounted
  <1>3. ASSUME NEW i \in Iids, NEW rec \in {db'[i], os'[i], disk'[i]}
        PROVE  Accounted(i, rec)'
    <2>1. CASE rec \in {db[i], os[i], disk[i]}
      BY <1>1, <2>1 DEF SilentInv
    <2>. QED  BY <1>2, <2>1
  <1>. QED  BY <1>3 DEF SilentInv

(* An element granted goes to the buffer or waits for the split. *)
LEMMA SilentGranting ==
    ASSUME DiskInv, SilentInv, pc = "loop",
           NEW r \in todo, NEW rec \in Record, Granting(r, rec)
    PROVE  SilentInv'
PROOF
  <1>1. /\ r.iid \in Iids /\ Coherent(rec)
        /\ UNCHANGED <<msgs, os, disk, kind, cut_off>>
        /\ record_buffer' = [iid |-> r.iid, rec |-> rec]
    BY DEF Granting, Add, layerVars
  <1>2. rec.value = NoValue => db[r.iid].value = NoValue
    BY Numbers DEF Granting, DiskInv, BatchOK, AcceptReq
  <1>3. db' = [db EXCEPT ![r.iid] = rec]
    BY <1>1, <1>2, PutKeeps DEF Granting, DiskInv
  <1>4. db \in Layer
    BY DbType DEF DiskInv
  <1>5. \/ pc' = pc /\ sb' = Append(sb, record_buffer')
        \/ pc' = "split" /\ sb' = sb
    BY DEF Granting, Add
  <1>6. record_buffer' \in Element /\ sb \in Seq(Element)
    BY <1>1 DEF Element, DiskInv, BatchOK
  <1>7. Unsent \subseteq Unsent'
    BY <1>1, <1>5, <1>6, AppendLookup DEF Unsent
  <1>8. kind = "accept_reqs" => RequestOf(record_buffer') \in Unsent'
    BY <1>1, <1>5, <1>6, AppendLookup DEF Unsent
  <1>9. Accounted(r.iid, rec)'
    <2>1. CASE /\ rec.value = db[r.iid].value
               /\ rec.value_ballot = db[r.iid].value_ballot
               /\ rec.is_final = db[r.iid].is_final
      <3>1. Accounted(r.iid, db[r.iid])
        BY <1>1 DEF SilentInv
      <3>2. Accounted(r.iid, rec)
        BY <2>1, <3>1 DEF Accounted, RequestOf
      <3>. QED  BY <1>1, <1>7, <3>2 DEF Accounted, Told
    <2>2. CASE kind = "accept_reqs"
      BY <1>1, <1>8, <2>2 DEF Accounted, RequestOf
    <2>. QED  BY <2>1, <2>2 DEF Granting
  <1>10. ASSUME NEW i \in Iids, NEW o \in {db'[i], os'[i], disk'[i]}
         PROVE  o \in {db[i], os[i], disk[i], NoRecord} \/ Accounted(i, o)'
    BY <1>1, <1>3, <1>4, <1>9, <1>10 DEF Layer
  <1>. QED  BY <1>1, <1>7, <1>10, SilentFrame

(* Flushing tells the learners what waited in the send buffer. *)
LEMMA FlushedTells ==
    ASSUME kind = "accept_reqs", Flushed, NEW n \in DOMAIN sb, NEW e, e = sb[n]
    PROVE  Told(e.iid, e.rec.value_ballot, e.rec.value)'
PROOF
  <1>1. AcceptAck(this_acceptor_id, e.iid, e.rec) \in msgs'
    BY DEF Flushed, Send, Datagrams
  <1>. QED  BY <1>1 DEF Told, AcceptAck

LEMMA SilentStep ==
    ASSUME DiskInv, SilentInv, Next
    PROVE  SilentInv'
PROOF
  <1>1. CASE SomeoneRequests
    <2>1. msgs \subseteq msgs' /\ UNCHANGED <<store, db, os, disk, Unsent, cut_off>>
      BY <1>1 DEF SomeoneRequests, layerVars, batchVars, RequestPrepares, RequestAccepts,
                  RequestRepeats, SomeRequest, Send, db, Unsent
    <2>. QED  BY <2>1, SilentFrame
  <1>2. CASE ReceiveBatch \/ RepeatLatest
    <2>1. pc = "idle" /\ UNCHANGED <<msgs, store, db, os, disk, cut_off>>
      BY <1>2 DEF ReceiveBatch, Begin, RepeatLatest, acceptorVars, layerVars, db
    <2>. QED  BY <2>1, NoneUnsent, SilentFrame
  <1>3. CASE PrepareElement \/ AcceptElement \/ RepeatElement
    <2>1. pc = "loop" /\ \E r \in todo : Skip(r) \/ \E rec \in Record : Granting(r, rec)
      BY <1>3, ElementEffect
    <2>2. ASSUME NEW r \in todo, Skip(r)
          PROVE  SilentInv'
      <3>1. UNCHANGED <<msgs, db, os, disk, cut_off, kind, pc, sb>>
        BY <2>2 DEF Skip, acceptorVars, layerVars, db
      <3>2. Unsent' = Unsent
        BY <2>1, <3>1 DEF Unsent
      <3>. QED  BY <3>1, <3>2, SilentFrame
    <2>. QED  BY <2>1, <2>2, SilentGranting
  <1>4. CASE SplitCommit \/ EndTransaction \/ CommitFinal
    <2>1. /\ UNCHANGED <<msgs, db, cut_off, kind, sb, record_buffer>>
          /\ os' \in {os, db} /\ disk' \in {disk, db}
          /\ pc \in {"split", "split_flush"} <=> pc' \in {"split", "split_flush"}
      BY <1>4 DEF SplitCommit, EndTransaction, CommitFinal, Committed, acceptorVars,
                  batchVars, db
    <2>2. Unsent' = Unsent
      BY <2>1 DEF Unsent
    <2>. QED  BY <2>1, <2>2, SilentFrame
  <1>5. CASE SplitFlush \/ FlushAnswers
    <2>1. /\ Flushed /\ UNCHANGED <<store, db, os, disk, cut_off, record_buffer>>
      BY <1>5 DEF SplitFlush, FlushAnswers, layerVars, db
    <2>2. msgs \subseteq msgs'
      BY <2>1, FlushedEffect
    <2>3. ASSUME NEW q \in Unsent
          PROVE  q \in Unsent' \/ Told(q.iid, q.ballot, q.value)'
      <3>1. CASE \E n \in DOMAIN sb : q = RequestOf(sb[n])
        <4>1. PICK n \in DOMAIN sb : q = RequestOf(sb[n])
          BY <3>1
        <4>2. kind = "accept_reqs"
          BY <2>3 DEF Unsent
        <4>3. PICK e : e = sb[n]
          OBVIOUS
        <4>4. Told(e.iid, e.rec.value_ballot, e.rec.value)'
          BY <2>1, <4>2, <4>3, FlushedTells
        <4>5. q.iid = e.iid /\ q.ballot = e.rec.value_ballot /\ q.value = e.rec.value
          BY <4>1, <4>3 DEF RequestOf
        <4>. QED  BY <4>4, <4>5
      <3>2. CASE pc = "split_flush" /\ q = RequestOf(record_buffer)
        <4>1. UNCHANGED <<kind, record_buffer>> /\ sb' = <<record_buffer>>
          BY <1>5, <3>2 DEF SplitFlush, FlushAnswers
        <4>2. kind = "accept_reqs"
          BY <2>3 DEF Unsent
        <4>3. 1 \in DOMAIN sb' /\ sb'[1] = record_buffer
          BY <4>1
        <4>. QED  BY <3>2, <4>1, <4>2, <4>3 DEF Unsent
      <3>3. pc \in {"split_flush", "flush"}
        BY <1>5 DEF SplitFlush, FlushAnswers
      <3>. QED  BY <2>3, <3>1, <3>2, <3>3 DEF Unsent
    <2>. QED  BY <2>1, <2>2, <2>3, SilentFrame
  <1>6. CASE SaveFinal
    <2>1. PICK i \in Iids, rec \in Record : rec.is_final /\ db' = [db EXCEPT ![i] = rec]
      BY <1>6, SaveFinalEffect DEF DiskInv
    <2>2. /\ pc = "idle"
          /\ UNCHANGED <<msgs, os, disk, cut_off>>
      BY <1>6 DEF SaveFinal, layerVars
    <2>3. \A j \in Iids : db'[j] = db[j] \/ db'[j].is_final
      BY <2>1, DbType DEF DiskInv, Layer
    <2>4. ASSUME NEW j \in Iids, NEW o \in {db'[j], os'[j], disk'[j]}
          PROVE  o \in {db[j], os[j], disk[j], NoRecord} \/ Accounted(j, o)'
      BY <2>2, <2>3, <2>4 DEF Accounted
    <2>. QED  BY <2>2, <2>4, NoneUnsent, SilentFrame
  <1>7. CASE WritePage
    <2>1. /\ UNCHANGED <<msgs, db, cut_off, Unsent>>
          /\ \E i \in Iids : /\ os' = [os EXCEPT ![i] = db[i]]
                             /\ disk' = [disk EXCEPT ![i] = db[i]]
      BY <1>7 DEF WritePage, acceptorVars, batchVars, db, Unsent
    <2>2. os \in Layer /\ disk \in Layer
      BY DEF DiskInv, LayersOK
    <2>3. \A j \in Iids : os'[j] \in {os[j], db[j]} /\ disk'[j] \in {disk[j], db[j]}
      BY <2>1, <2>2 DEF Layer
    <2>. QED  BY <2>1, <2>3, SilentFrame
  <1>8. CASE WriteLog
    <2>1. UNCHANGED <<msgs, db, os, cut_off, Unsent>> /\ disk' = os
      BY <1>8 DEF WriteLog, acceptorVars, batchVars, db, Unsent
    <2>. QED  BY <2>1, SilentFrame
  <1>9. CASE ProcessCrash \/ OSCrash \/ Exit
    <2>1. UNCHANGED msgs /\ cut_off' = cut_off \cup Unsent
      BY <1>9, EndEffect DEF DiskInv, Down
    <2>2. \A i \in Iids : \A rec \in {db'[i], os'[i], disk'[i]} :
              rec \in {db[i], os[i], disk[i], NoRecord}
      BY <1>9, EndEffect DEF DiskInv
    <2>. QED  BY <2>1, <2>2, SilentFrame
  <1>10. CASE \E do_recovery, emptied \in BOOLEAN : Start(do_recovery, emptied)
    <2>1. /\ pc = "down" /\ UNCHANGED <<msgs, cut_off>>
          /\ \/ UNCHANGED <<store, os, disk>>
             \/ /\ store' = [store EXCEPT ![this_acceptor_id] = NoRecords]
                /\ os' = NoRecords /\ disk' = NoRecords
      BY <1>10 DEF Start
    <2>2. \A i \in Iids : \A rec \in {db'[i], os'[i], disk'[i]} :
              rec \in {db[i], os[i], disk[i], NoRecord}
      <3>1. CASE UNCHANGED <<store, os, disk>>
        BY <3>1 DEF db
      <3>2. CASE /\ store' = [store EXCEPT ![this_acceptor_id] = NoRecords]
                 /\ os' = NoRecords /\ disk' = NoRecords
        <4>1. db' = NoRecords
          BY <3>2, AcceptorDiskAssumption
          DEF db, DiskInv, LayersOK, AcceptorInv, AcceptorTypeOK
        <4>. QED  BY <3>2, <4>1 DEF NoRecords
      <3>. QED  BY <2>1, <3>1, <3>2
    <2>. QED  BY <2>1, <2>2, NoneUnsent, SilentFrame
  <1>. QED
    BY <1>1, <1>2, <1>3, <1>4, <1>5, <1>6, <1>7, <1>8, <1>9, <1>10 DEF Next

(* A value no learner was told of, and none is about to be told of, was in the send
   buffer of a process that ended: nothing else silences an acceptor. *)
THEOREM SilentOnlyIfCutOffCorrect == Spec => []SilentOnlyIfCutOff
PROOF
  <1>1. Init => SilentInv
    <2>. SUFFICES ASSUME Init PROVE SilentInv
      OBVIOUS
    <2>1. \A i \in Iids : db[i] = NoRecord /\ os[i] = NoRecord /\ disk[i] = NoRecord
      BY AcceptorDiskAssumption DEF Init, AcceptorInit, db, NoRecords
    <2>. QED  BY <2>1, RecordFields DEF SilentInv, Accounted
  <1>2. DiskInv /\ SilentInv /\ [Next]_vars => SilentInv'
    <2>1. ASSUME SilentInv, UNCHANGED vars
          PROVE  SilentInv'
      <3>1. UNCHANGED <<msgs, db, os, disk, cut_off, Unsent>>
        BY <2>1 DEF vars, layerVars, batchVars, db, Unsent
      <3>. QED  BY <2>1, <3>1, SilentFrame
    <2>. QED  BY <2>1, SilentStep
  <1>3. SilentInv => SilentOnlyIfCutOff
    BY DEF SilentInv, SilentOnlyIfCutOff, Accounted
  <1>. QED  BY <1>1, <1>2, <1>3, DiskCorrect, PTL DEF Spec

-----------------------------------------------------------------------------
(* The size of a message.                                                   *)

(* What prepare_ack_batch_size_calc and accept_ack_batch_size_calc add up. *)
IsTotal(f, els) ==
    /\ f[0] = HeaderSize
    /\ \A n \in 1 .. Len(els) : f[n] = f[n - 1] + SizeOf(els[n].rec)

LEMMA BatchSizeIsTotal ==
    ASSUME NEW els \in Seq(Element)
    PROVE  \E f \in [0 .. Len(els) -> Nat] :
              IsTotal(f, els) /\ BatchSize(els) = f[Len(els)]
PROOF
  <1>. DEFINE k == Len(els)
              g == [n \in 1 .. k |-> SizeOf(els[n].rec)]
              F(h) == h = [n \in 0 .. k |->
                             IF n = 0 THEN HeaderSize ELSE h[n - 1] + SizeOf(els[n].rec)]
  <1>1. k \in Nat /\ HeaderSize \in Nat
    BY DEF HeaderSize
  <1>2. \A n \in 1 .. k : g[n] = SizeOf(els[n].rec) /\ g[n] \in Nat
    BY DEF SizeOf
  <1>3. PICK f \in [0 .. k -> Nat] :
            f[0] = HeaderSize /\ Adds(f, g, k)
    <2>1. \A n \in 1 .. k : g[n] \in Nat
      BY <1>2
    <2>. HIDE DEF g, k
    <2>. QED  BY <1>1, <2>1, TotalExists
  <1>. DEFINE upTo == CHOOSE h : F(h)
  <1>4. BatchSize(els) = upTo[k]
    BY DEF BatchSize
  <1>. HIDE DEF k, g
  <1>5. ASSUME NEW n \in 0 .. k
        PROVE  n # 0 => n \in 1 .. k
    BY <1>1
  <1>6. F(f)
    BY <1>2, <1>3, <1>5 DEF Adds
  <1>7. F(upTo)
    <2>. HIDE DEF F
    <2>. QED  BY <1>6
  <1>8. upTo[0] = HeaderSize /\ Adds(upTo, g, k)
    <2>. HIDE DEF upTo
    <2>1. \A n \in 1 .. k : n \in 0 .. k /\ n # 0
      BY <1>1
    <2>2. 0 \in 0 .. k
      BY <1>1
    <2>. QED  BY <1>2, <1>7, <2>1, <2>2 DEF Adds
  <1>. HIDE DEF upTo, F
  <1>9. \A n \in 0 .. k : f[n] = upTo[n]
    <2>1. f[0] = upTo[0]
      BY <1>3, <1>8
    <2>. QED  BY <1>1, <1>3, <1>8, <2>1, TotalUnique
  <1>10. k \in 0 .. k
    BY <1>1
  <1>11. IsTotal(f, els)
    BY <1>2, <1>3 DEF IsTotal, Adds, k
  <1>. QED  BY <1>4, <1>9, <1>10, <1>11 DEF k

(* An empty message is its header; each element adds its own size. *)
LEMMA BatchSizeEmpty == BatchSize(<<>>) = HeaderSize
PROOF
  <1>1. << >> \in Seq(Element) /\ Len(<< >>) = 0
    OBVIOUS
  <1>2. PICK f \in [0 .. Len(<< >>) -> Nat] :
            IsTotal(f, << >>) /\ BatchSize(<< >>) = f[Len(<< >>)]
    BY <1>1, BatchSizeIsTotal, Zenon
  <1>. QED  BY <1>1, <1>2 DEF IsTotal

LEMMA BatchSizeAppend ==
    ASSUME NEW els \in Seq(Element), NEW e \in Element
    PROVE  /\ BatchSize(els) \in Nat
           /\ BatchSize(Append(els, e)) = BatchSize(els) + SizeOf(e.rec)
PROOF
  <1>. DEFINE k == Len(els)
              more == Append(els, e)
              g == [n \in 1 .. k |-> SizeOf(els[n].rec)]
  <1>1. k \in Nat /\ more \in Seq(Element) /\ Len(more) = k + 1
    BY AppendLookup
  <1>2. /\ \A n \in 1 .. k : more[n] = els[n]
        /\ more[k + 1] = e
    OBVIOUS
  <1>3. \A n \in 1 .. k : g[n] = SizeOf(els[n].rec)
    OBVIOUS
  <1>. HIDE DEF more
  <1>4. PICK f \in [0 .. k -> Nat] : IsTotal(f, els) /\ BatchSize(els) = f[k]
    BY BatchSizeIsTotal
  <1>5. PICK h \in [0 .. Len(more) -> Nat] :
            IsTotal(h, more) /\ BatchSize(more) = h[Len(more)]
    BY <1>1, BatchSizeIsTotal, Zenon
  <1>6. /\ h[0] = HeaderSize
        /\ \A n \in 1 .. k + 1 : h[n] = h[n - 1] + SizeOf(more[n].rec)
    BY <1>1, <1>5 DEF IsTotal
  <1>7. f[0] = h[0] /\ Adds(f, g, k)
    BY <1>3, <1>4, <1>6 DEF IsTotal, Adds
  <1>. HIDE DEF k, g
  <1>8. Adds(h, g, k)
    <2>1. \A n \in 1 .. k : n \in 1 .. k + 1
      BY <1>1
    <2>. QED  BY <1>2, <1>3, <1>6, <2>1 DEF Adds
  <1>9. \A n \in 0 .. k : f[n] = h[n]
    BY <1>1, <1>7, <1>8, TotalUnique, Zenon
  <1>10. h[k + 1] = h[k] + SizeOf(e.rec)
    <2>1. k + 1 \in 1 .. k + 1 /\ (k + 1) - 1 = k
      BY <1>1
    <2>. QED  BY <1>2, <1>6, <2>1
  <1>11. k \in 0 .. k
    BY <1>1
  <1>. QED  BY <1>1, <1>4, <1>5, <1>9, <1>10, <1>11 DEF more

LEMMA BatchSizeOne ==
    ASSUME NEW e \in Element
    PROVE  BatchSize(<<e>>) = HeaderSize + SizeOf(e.rec)
PROOF
  <1>1. << >> \in Seq(Element) /\ Append(<< >>, e) = <<e>>
    OBVIOUS
  <1>. QED  BY <1>1, BatchSizeEmpty, BatchSizeAppend

LEMMA FitsStep ==
    ASSUME DiskInv, DatagramFits, Next
    PROVE  DatagramFits'
PROOF
  <1>1. CASE UNCHANGED <<sb, msg_size>>
    BY <1>1 DEF DatagramFits
  <1>2. CASE sb' = <<>> /\ msg_size' = HeaderSize
    BY <1>2, BatchSizeEmpty DEF DatagramFits
  <1>3. ASSUME NEW e \in Element, sb' = <<e>>, msg_size' = HeaderSize + SizeOf(e.rec)
        PROVE  DatagramFits'
    <2>1. Len(sb') = 1
      BY <1>3
    <2>. QED  BY <1>3, <2>1, BatchSizeOne DEF DatagramFits
  <1>4. CASE PrepareElement \/ AcceptElement \/ RepeatElement
    <2>1. pc = "loop" /\ \E r \in todo : Skip(r) \/ \E rec \in Record : Granting(r, rec)
      BY <1>4, ElementEffect
    <2>2. ASSUME NEW r \in todo, Skip(r)
          PROVE  DatagramFits'
      BY <1>1, <2>2 DEF Skip
    <2>3. ASSUME NEW r \in todo, NEW rec \in Record, Granting(r, rec)
          PROVE  DatagramFits'
      <3>. DEFINE e == [iid |-> r.iid, rec |-> rec]
      <3>1. e \in Element /\ e.rec = rec /\ record_buffer' = e
        BY <2>3 DEF Granting, Element
      <3>2. \/ UNCHANGED <<sb, msg_size>>
            \/ /\ Fits(rec)
               /\ sb' = Append(sb, e) /\ msg_size' = msg_size + SizeOf(rec)
        BY <2>3, <3>1 DEF Granting, Add
      <3>. HIDE DEF e
      <3>3. CASE /\ Fits(rec)
                 /\ sb' = Append(sb, e) /\ msg_size' = msg_size + SizeOf(rec)
        <4>1. sb \in Seq(Element)
          BY DEF DiskInv, BatchOK
        <4>2. BatchSize(Append(sb, e)) = BatchSize(sb) + SizeOf(rec)
          BY <3>1, <4>1, BatchSizeAppend
        <4>3. msg_size' < MAX_UDP_MSG_SIZE
          BY <3>3 DEF Fits
        <4>. QED  BY <3>3, <4>2, <4>3 DEF DatagramFits
      <3>. QED  BY <1>1, <3>2, <3>3
    <2>. QED  BY <2>1, <2>2, <2>3
  <1>5. CASE SplitFlush
    <2>1. pc = "split_flush" /\ sb' = <<record_buffer>>
          /\ msg_size' = HeaderSize + SizeOf(record_buffer.rec)
      BY <1>5 DEF SplitFlush
    <2>2. record_buffer \in Element
      BY <2>1 DEF DiskInv, BatchOK, InSplit
    <2>. QED  BY <1>3, <2>1, <2>2
  <1>6. CASE RepeatLatest
    <2>1. sb' = <<record_buffer'>>
          /\ msg_size' = HeaderSize + SizeOf(record_buffer'.rec)
      BY <1>6 DEF RepeatLatest
    <2>2. record_buffer' \in Element
      BY <1>6, RepeatLatestEffect DEF DiskInv, Element
    <2>. QED  BY <1>3, <2>1, <2>2
  <1>7. CASE ReceiveBatch \/ FlushAnswers \/ ProcessCrash \/ OSCrash \/ Exit
    BY <1>2, <1>7 DEF ReceiveBatch, Begin, FlushAnswers, ProcessCrash, OSCrash, Exit, Down
  <1>8. CASE SaveFinal
    BY <1>1, <1>8 DEF SaveFinal
  <1>9. CASE \/ SomeoneRequests \/ SplitCommit \/ EndTransaction \/ CommitFinal
             \/ WritePage \/ WriteLog
             \/ \E do_recovery, emptied \in BOOLEAN : Start(do_recovery, emptied)
    BY <1>1, <1>9 DEF SomeoneRequests, SplitCommit, EndTransaction, CommitFinal,
                      WritePage, WriteLog, Start, batchVars
  <1>. QED
    BY <1>4, <1>5, <1>6, <1>7, <1>8, <1>9 DEF Next

(* PAXOS_MSG_SIZE is what the receiver adds up, and a message of several elements
   is within the limit, for every limit and every mixture of elements.  A message of
   one element may be longer: it is added whatever its size. *)
THEOREM DatagramFitsCorrect == Spec => []DatagramFits
PROOF
  <1>1. Init => DatagramFits
    BY BatchSizeEmpty DEF Init, DatagramFits
  <1>2. DiskInv /\ DatagramFits /\ [Next]_vars => DatagramFits'
    <2>1. ASSUME DatagramFits, UNCHANGED vars
          PROVE  DatagramFits'
      BY <2>1 DEF vars, batchVars, DatagramFits
    <2>. QED  BY <2>1, FitsStep
  <1>. QED  BY <1>1, <1>2, DiskCorrect, PTL DEF Spec

-----------------------------------------------------------------------------
(* Every element granted is answered once.                                  *)

(* The instances in a sequence of elements. *)
IidsOf(els) == {els[n].iid : n \in DOMAIN els}

LEMMA IidsOfAppend ==
    ASSUME NEW els \in Seq(Element), NEW e \in Element
    PROVE  IidsOf(Append(els, e)) = IidsOf(els) \cup {e.iid}
PROOF
  <1>. DEFINE more == Append(els, e)
  <1>1. /\ \A n \in DOMAIN more : more[n] = e \/ (n \in DOMAIN els /\ more[n] = els[n])
        /\ \A n \in DOMAIN els : n \in DOMAIN more /\ more[n] = els[n]
        /\ Len(els) + 1 \in DOMAIN more /\ more[Len(els) + 1] = e
    BY AppendLookup
  <1>. HIDE DEF more
  <1>2. IidsOf(more) = IidsOf(els) \cup {e.iid}
    BY <1>1 DEF IidsOf
  <1>. QED  BY <1>2 DEF more

LEMMA IidsOfConcat ==
    ASSUME NEW s \in Seq(Element), NEW t \in Seq(Element)
    PROVE  /\ s \o t \in Seq(Element)
           /\ Len(s \o t) = Len(s) + Len(t)
           /\ IidsOf(s \o t) = IidsOf(s) \cup IidsOf(t)
PROOF
  <1>. DEFINE j == Len(s)
              k == Len(t)
              u == s \o t
  <1>1. /\ u \in Seq(Element)
        /\ j \in Nat /\ k \in Nat /\ Len(u) = j + k
        /\ DOMAIN s = 1 .. j /\ DOMAIN t = 1 .. k /\ DOMAIN u = 1 .. (j + k)
    OBVIOUS
  <1>2. /\ \A n \in 1 .. j : u[n] = s[n]
        /\ \A n \in 1 .. (j + k) : n \notin 1 .. j => n - j \in 1 .. k /\ u[n] = t[n - j]
    OBVIOUS
  <1>. HIDE DEF j, k, u
  <1>3. /\ \A n \in 1 .. j : n \in 1 .. (j + k)
        /\ \A n \in 1 .. k : n + j \in 1 .. (j + k) /\ n + j \notin 1 .. j /\ (n + j) - j = n
    BY <1>1
  <1>4. IidsOf(u) = IidsOf(s) \cup IidsOf(t)
    <2>1. IidsOf(u) \subseteq IidsOf(s) \cup IidsOf(t)
      BY <1>1, <1>2 DEF IidsOf
    <2>2. IidsOf(s) \subseteq IidsOf(u)
      BY <1>1, <1>2, <1>3 DEF IidsOf
    <2>3. ASSUME NEW n \in 1 .. k
          PROVE  t[n].iid \in IidsOf(u)
      <3>1. u[n + j] = t[n]
        BY <1>2, <1>3
      <3>. QED  BY <1>1, <1>3, <3>1 DEF IidsOf
    <2>4. IidsOf(t) \subseteq IidsOf(u)
      BY <1>1, <2>3 DEF IidsOf
    <2>. QED  BY <2>1, <2>2, <2>4
  <1>. QED  BY <1>1, <1>4 DEF u, j, k

LEMMA IidsOfNone == IidsOf(<<>>) = {} /\ <<>> \in Seq(Element) /\ Len(<<>>) = 0
BY DEF IidsOf

LEMMA IidsOfOne ==
    ASSUME NEW e \in Element
    PROVE  IidsOf(<<e>>) = {e.iid} /\ Len(<<e>>) = 1
BY DEF IidsOf

LEMMA CountStep ==
    ASSUME DiskInv, CountInv, Next
    PROVE  CountInv'
PROOF
  <1>0. /\ sb \in Seq(Element) /\ answers \in Seq(Element)
        /\ Len(sb) \in Nat /\ Len(answers) \in Nat
        /\ Placed = IidsOf(answers) \cup IidsOf(sb)
                        \cup (IF InSplit THEN {record_buffer.iid} ELSE {})
    BY DEF DiskInv, BatchOK, CountInv, Placed, IidsOf
  <1>1. CASE /\ UNCHANGED record_buffer \/ ~ InSplit
             /\ UNCHANGED <<answers, granted, sb>>
             /\ todo' \subseteq todo
             /\ InSplit' = InSplit
             /\ pc' \in {"idle", "final", "down"} => pc \in {"idle", "final", "down"}
    BY <1>1 DEF CountInv, Placed
  <1>2. CASE answers' = <<>> /\ sb' = <<>> /\ granted' = {} /\ ~ InSplit'
    <2>1. Placed' = {}
      BY <1>2 DEF Placed
    <2>. QED  BY <1>2, <2>1, IidsOfNone, FS_EmptySet DEF CountInv
  <1>3. CASE PrepareElement \/ AcceptElement \/ RepeatElement
    <2>1. pc = "loop" /\ \E r \in todo : Skip(r) \/ \E rec \in Record : Granting(r, rec)
      BY <1>3, ElementEffect
    <2>2. ASSUME NEW r \in todo, Skip(r)
          PROVE  CountInv'
      BY <1>1, <2>1, <2>2 DEF Skip, InSplit
    <2>3. ASSUME NEW r \in todo, NEW rec \in Record, Granting(r, rec)
          PROVE  CountInv'
      <3>. DEFINE e == [iid |-> r.iid, rec |-> rec]
      <3>1. e \in Element /\ e.iid = r.iid /\ record_buffer' = e
        BY <2>3 DEF Granting, Element
      <3>2. /\ granted' = granted \cup {r.iid}
            /\ todo' = todo \ {r} /\ UNCHANGED answers
            /\ \/ sb' = Append(sb, e) /\ ~ InSplit' /\ pc' = "loop"
               \/ UNCHANGED sb /\ InSplit' /\ pc' = "split"
        BY <2>1, <2>3, <3>1 DEF Granting, Add, InSplit
      <3>. HIDE DEF e
      <3>3. ~ InSplit /\ r.iid \notin granted /\ IsFiniteSet(granted)
        BY <2>1 DEF InSplit, CountInv
      <3>4. IsFiniteSet(granted') /\ Cardinality(granted') = Cardinality(granted) + 1
        BY <3>2, <3>3, FS_AddElement
      <3>5. Cardinality(granted) = Len(answers) + Len(sb)
        BY <1>0, <3>3 DEF CountInv
      <3>6. \A o \in todo' : o.iid \notin granted'
        BY <3>2 DEF CountInv, DiskInv, BatchOK, OnePerInstance
      <3>7. granted = IidsOf(answers) \cup IidsOf(sb)
        BY <1>0, <3>3 DEF CountInv
      <3>8. Placed' = IidsOf(answers') \cup IidsOf(sb')
                        \cup (IF InSplit' THEN {record_buffer'.iid} ELSE {})
        BY DEF Placed, IidsOf
      <3>9. CASE sb' = Append(sb, e) /\ ~ InSplit' /\ pc' = "loop"
        <4>1. IidsOf(sb') = IidsOf(sb) \cup {r.iid} /\ Len(sb') = Len(sb) + 1
          BY <1>0, <3>1, <3>9, IidsOfAppend, AppendLookup
        <4>2. granted' = Placed'
          BY <3>2, <3>7, <3>8, <3>9, <4>1
        <4>3. Cardinality(granted') = Len(answers') + Len(sb')
          BY <1>0, <3>2, <3>4, <3>5, <4>1
        <4>. QED  BY <1>0, <3>2, <3>4, <3>6, <3>9, <4>2, <4>3 DEF CountInv
      <3>10. CASE UNCHANGED sb /\ InSplit' /\ pc' = "split"
        <4>1. granted' = Placed'
          BY <3>1, <3>2, <3>7, <3>8, <3>10
        <4>2. Cardinality(granted') = Len(answers') + Len(sb') + 1
          BY <1>0, <3>2, <3>4, <3>5, <3>10
        <4>. QED  BY <1>0, <3>2, <3>4, <3>6, <3>10, <4>1, <4>2 DEF CountInv
      <3>. QED  BY <3>2, <3>9, <3>10
    <2>. QED  BY <2>1, <2>2, <2>3
  <1>4. CASE SplitFlush
    <2>1. /\ answers' = answers \o sb /\ sb' = <<record_buffer>>
          /\ UNCHANGED <<granted, todo>> /\ pc = "split_flush" /\ pc' = "loop"
      BY <1>4 DEF SplitFlush
    <2>2. InSplit /\ ~ InSplit'
      BY <2>1 DEF InSplit
    <2>3. record_buffer \in Element
      BY <2>2 DEF DiskInv, BatchOK
    <2>4. /\ answers' \in Seq(Element)
          /\ Len(answers') = Len(answers) + Len(sb)
          /\ IidsOf(answers') = IidsOf(answers) \cup IidsOf(sb)
      BY <1>0, <2>1, IidsOfConcat
    <2>5. IidsOf(sb') = {record_buffer.iid} /\ Len(sb') = 1
      BY <2>1, <2>3, IidsOfOne
    <2>6. Placed' = IidsOf(answers') \cup IidsOf(sb')
      BY <2>2 DEF Placed, IidsOf
    <2>7. granted' = Placed'
      BY <1>0, <2>1, <2>2, <2>4, <2>5, <2>6 DEF CountInv
    <2>8. Cardinality(granted') = Len(answers') + Len(sb')
      BY <1>0, <2>1, <2>2, <2>4, <2>5 DEF CountInv
    <2>. QED  BY <2>1, <2>2, <2>4, <2>7, <2>8 DEF CountInv
  <1>5. CASE RepeatLatest
    <2>1. PICK h \in Iids : /\ db[h] \in Record
                            /\ record_buffer' = [iid |-> h, rec |-> db[h]]
                            /\ granted' = {h}
      BY <1>5, RepeatLatestEffect DEF DiskInv
    <2>2. /\ pc = "idle" /\ pc' = "loop" /\ sb' = <<record_buffer'>>
          /\ todo' = {} /\ UNCHANGED answers
      BY <1>5 DEF RepeatLatest
    <2>3. answers' = << >> /\ ~ InSplit'
      BY <2>2 DEF CountInv, InSplit
    <2>4. record_buffer' \in Element /\ record_buffer'.iid = h
      BY <2>1 DEF Element
    <2>5. IidsOf(sb') = {h} /\ Len(sb') = 1
      BY <2>2, <2>4, IidsOfOne
    <2>6. IidsOf(answers') = {} /\ Len(answers') = 0 /\ answers' \in Seq(Element)
      BY <2>3, IidsOfNone
    <2>7. Placed' = granted'
      BY <2>1, <2>3, <2>5, <2>6 DEF Placed, IidsOf
    <2>8. IsFiniteSet(granted') /\ Cardinality(granted') = 1
      BY <2>1, FS_Singleton
    <2>. QED  BY <2>2, <2>3, <2>5, <2>6, <2>7, <2>8 DEF CountInv
  <1>6. CASE ReceiveBatch
    <2>1. pc = "idle" /\ pc' = "loop" /\ sb' = <<>> /\ UNCHANGED <<granted, answers>>
      BY <1>6 DEF ReceiveBatch, Begin
    <2>. QED  BY <1>2, <2>1 DEF CountInv, InSplit
  <1>7. CASE FlushAnswers \/ ProcessCrash \/ OSCrash \/ Exit
    <2>1. answers' = <<>> /\ sb' = <<>> /\ granted' = {} /\ pc' \in {"idle", "down"}
      BY <1>7 DEF FlushAnswers, ProcessCrash, OSCrash, Exit, Down
    <2>. QED  BY <1>2, <2>1 DEF InSplit
  <1>8. CASE SaveFinal
    <2>1. pc = "idle" /\ pc' = "final" /\ UNCHANGED <<answers, granted, sb, todo>>
      BY <1>8 DEF SaveFinal
    <2>. QED  BY <1>1, <2>1 DEF InSplit
  <1>9. CASE \/ SomeoneRequests \/ SplitCommit \/ EndTransaction \/ CommitFinal
             \/ WritePage \/ WriteLog
             \/ \E do_recovery, emptied \in BOOLEAN : Start(do_recovery, emptied)
    <2>1. /\ UNCHANGED <<answers, granted, sb, record_buffer, todo>>
          /\ InSplit' = InSplit
          /\ pc' \in {"idle", "final", "down"} => pc \in {"idle", "final", "down"}
      BY <1>9 DEF SomeoneRequests, SplitCommit, EndTransaction, CommitFinal,
                  WritePage, WriteLog, Start, batchVars, InSplit
    <2>. QED  BY <1>1, <2>1
  <1>. QED
    BY <1>3, <1>4, <1>5, <1>6, <1>7, <1>8, <1>9 DEF Next

(* The datagrams of a batch hold each element granted exactly once, wherever the
   batch is split. *)
THEOREM AnsweredOnceCorrect == Spec => []AnsweredOnce
PROOF
  <1>1. Init => CountInv
    <2>. SUFFICES ASSUME Init PROVE CountInv
      OBVIOUS
    <2>1. /\ pc = "down" /\ answers = <<>> /\ sb = <<>> /\ granted = {} /\ todo = {}
      BY DEF Init
    <2>2. Placed = {} /\ ~ InSplit
      BY <2>1 DEF Placed, InSplit
    <2>. QED  BY <2>1, <2>2, IidsOfNone, FS_EmptySet DEF CountInv
  <1>2. DiskInv /\ CountInv /\ [Next]_vars => CountInv'
    <2>1. ASSUME CountInv, UNCHANGED vars
          PROVE  CountInv'
      BY <2>1 DEF vars, batchVars, CountInv, Placed, InSplit
    <2>. QED  BY <2>1, CountStep
  <1>3. DiskInv /\ CountInv => AnsweredOnce
    <2>. SUFFICES ASSUME DiskInv, CountInv, pc = "flush"
                  PROVE  /\ Len(answers \o sb) = Cardinality(granted)
                         /\ IidsOf(answers \o sb) = granted
      BY DEF AnsweredOnce, IidsOf
    <2>1. sb \in Seq(Element) /\ answers \in Seq(Element) /\ ~ InSplit
      BY DEF DiskInv, BatchOK, CountInv, InSplit
    <2>2. /\ Len(answers \o sb) = Len(answers) + Len(sb)
          /\ IidsOf(answers \o sb) = IidsOf(answers) \cup IidsOf(sb)
      BY <2>1, IidsOfConcat
    <2>3. Cardinality(granted) = Len(answers) + Len(sb)
      BY <2>1 DEF CountInv
    <2>4. granted = IidsOf(answers) \cup IidsOf(sb)
      BY <2>1 DEF CountInv, Placed, IidsOf
    <2>. QED  BY <2>2, <2>3, <2>4
  <1>. QED  BY <1>1, <1>2, <1>3, DiskCorrect, PTL DEF Spec

=============================================================================
