--------------------------- MODULE AcceptorProofs ---------------------------
(***************************************************************************)
(* What every step of an acceptor preserves, proved from the handlers      *)
(* alone, so that any system built from Acceptor can cite it; then the     *)
(* theorems about acceptors in an environment that may ask for anything,   *)
(* for every set of acceptors, instances, ballots and values, both         *)
(* durability settings and both settings of ACCEPTOR_UPDATE_ON_DELIVER.    *)
(***************************************************************************)
EXTENDS AcceptorAlone, TLAPS

(* Instances and ballots are positive: 0 always means "none". *)
LEMMA Numbers ==
    /\ \A i \in Iids : i \in Nat /\ i > 0
    /\ \A b \in Ballots : b \in Nat /\ b > 0
    /\ NoValue \notin Values
BY MessagesAssumption

(* The fields of a record, and of the record that is not there. *)
LEMMA RecordFields ==
    /\ NoRecord.ballot = 0
    /\ NoRecord.value_ballot = 0
    /\ NoRecord.is_final = FALSE
    /\ NoRecord.value = NoValue
    /\ \A rec \in Record :
          /\ rec.ballot \in Nat \ {0}
          /\ rec.value_ballot \in Nat
    /\ \A rec \in Record \cup {NoRecord} :
          /\ rec.ballot \in Nat
          /\ rec.value_ballot \in Nat
          /\ rec # NoRecord => rec.ballot > 0
PROOF
  <1>1. /\ NoRecord.ballot = 0
        /\ NoRecord.value_ballot = 0
        /\ NoRecord.is_final = FALSE
        /\ NoRecord.value = NoValue
    BY DEF NoRecord
  <1>2. ASSUME NEW rec \in Record
        PROVE  rec.ballot \in Nat \ {0} /\ rec.value_ballot \in Nat
    BY Numbers DEF Record
  <1>3. ASSUME NEW rec \in Record \cup {NoRecord}
        PROVE  /\ rec.ballot \in Nat
               /\ rec.value_ballot \in Nat
               /\ rec # NoRecord => rec.ballot > 0
    <2>1. CASE rec \in Record
      BY <1>2, <2>1
    <2>2. CASE rec = NoRecord
      BY <1>1, <2>2
    <2>. QED  BY <2>1, <2>2
  <1>. QED  BY <1>1, <1>2, <1>3

(* A batch of prepare requests leaves well-formed records; a record it touches
   holds the ballot asked for and the value it held before. *)
LEMMA AfterPreparesLemma ==
    ASSUME AcceptorTypeOK, NEW a \in Acceptors, NEW reqs \in SUBSET PrepareReq
    PROVE  /\ AfterPrepares(a, reqs) \in [Iids -> Record \cup {NoRecord}]
           /\ \A i \in Iids :
                \/ AfterPrepares(a, reqs)[i] = store[a][i]
                \/ \E pr \in Granted(a, reqs) :
                      /\ pr.iid = i
                      /\ AfterPrepares(a, reqs)[i] = SavedPrepare(store[a][i], pr)
           /\ \A pr \in Granted(a, reqs) :
                AfterPrepares(a, reqs)[pr.iid] \in Record
PROOF
  <1>. DEFINE pick(i) == CHOOSE pr \in Granted(a, reqs) : pr.iid = i
  <1>1. ASSUME NEW i \in Iids, \E pr \in Granted(a, reqs) : pr.iid = i
        PROVE  pick(i) \in Granted(a, reqs) /\ pick(i).iid = i
    BY <1>1
  <1>2. \A pr \in Granted(a, reqs) : pr \in PrepareReq
    BY DEF Granted
  <1>3. \A i \in Iids : store[a][i] \in Record \cup {NoRecord}
    BY DEF AcceptorTypeOK
  <1>4. ASSUME NEW i \in Iids, NEW pr \in PrepareReq
        PROVE  SavedPrepare(store[a][i], pr) \in Record
    <2>1. CASE store[a][i] \in Record
      BY <2>1 DEF SavedPrepare, Record, PrepareReq
    <2>2. CASE store[a][i] = NoRecord
      <3>1. /\ NoRecord.value_ballot = 0
            /\ NoRecord.is_final = FALSE
            /\ NoRecord.value = NoValue
        BY DEF NoRecord
      <3>. QED  BY <2>2, <3>1 DEF SavedPrepare, Record, PrepareReq
    <2>. QED  BY <1>3, <2>1, <2>2
  <1>5. ASSUME NEW i \in Iids, \E pr \in Granted(a, reqs) : pr.iid = i
        PROVE  /\ AfterPrepares(a, reqs)[i] = SavedPrepare(store[a][i], pick(i))
               /\ AfterPrepares(a, reqs)[i] \in Record
    BY <1>1, <1>2, <1>4, <1>5 DEF AfterPrepares
  <1>6. ASSUME NEW i \in Iids, ~ \E pr \in Granted(a, reqs) : pr.iid = i
        PROVE  AfterPrepares(a, reqs)[i] = store[a][i]
    BY <1>6 DEF AfterPrepares
  <1>7. AfterPrepares(a, reqs) \in [Iids -> Record \cup {NoRecord}]
    <2>1. \A i \in Iids : AfterPrepares(a, reqs)[i] \in Record \cup {NoRecord}
      BY <1>3, <1>5, <1>6
    <2>. QED  BY <2>1 DEF AfterPrepares
  <1>8. \A pr \in Granted(a, reqs) : pr.iid \in Iids
    BY <1>2 DEF PrepareReq
  <1>. QED  BY <1>1, <1>5, <1>6, <1>7, <1>8

(* The same for a batch of accept requests: a record it touches is the saved
   form of an accept request of the batch. *)
LEMMA AfterAcceptsLemma ==
    ASSUME AcceptorTypeOK, NEW a \in Acceptors, NEW reqs \in SUBSET AcceptReq
    PROVE  /\ AfterAccepts(a, reqs) \in [Iids -> Record \cup {NoRecord}]
           /\ \A i \in Iids :
                \/ AfterAccepts(a, reqs)[i] = store[a][i]
                \/ \E ar \in Applied(a, reqs) :
                      /\ ar.iid = i
                      /\ AfterAccepts(a, reqs)[i] = SavedAccept(ar)
           /\ \A ar \in Applied(a, reqs) :
                \E x \in Applied(a, reqs) :
                    /\ x.iid = ar.iid
                    /\ AfterAccepts(a, reqs)[ar.iid] = SavedAccept(x)
PROOF
  <1>. DEFINE pick(i) == CHOOSE ar \in Applied(a, reqs) : ar.iid = i
  <1>1. ASSUME NEW i \in Iids, \E ar \in Applied(a, reqs) : ar.iid = i
        PROVE  pick(i) \in Applied(a, reqs) /\ pick(i).iid = i
    BY <1>1
  <1>2. \A ar \in Applied(a, reqs) : ar \in AcceptReq
    BY DEF Applied
  <1>3. \A i \in Iids : store[a][i] \in Record \cup {NoRecord}
    BY DEF AcceptorTypeOK
  <1>4. ASSUME NEW ar \in AcceptReq
        PROVE  SavedAccept(ar) \in Record
    BY DEF SavedAccept, Record, AcceptReq
  <1>5. ASSUME NEW i \in Iids, \E ar \in Applied(a, reqs) : ar.iid = i
        PROVE  /\ AfterAccepts(a, reqs)[i] = SavedAccept(pick(i))
               /\ AfterAccepts(a, reqs)[i] \in Record
    BY <1>1, <1>2, <1>4, <1>5 DEF AfterAccepts
  <1>6. ASSUME NEW i \in Iids, ~ \E ar \in Applied(a, reqs) : ar.iid = i
        PROVE  AfterAccepts(a, reqs)[i] = store[a][i]
    BY <1>6 DEF AfterAccepts
  <1>7. AfterAccepts(a, reqs) \in [Iids -> Record \cup {NoRecord}]
    <2>1. \A i \in Iids : AfterAccepts(a, reqs)[i] \in Record \cup {NoRecord}
      BY <1>3, <1>5, <1>6
    <2>. QED  BY <2>1 DEF AfterAccepts
  <1>8. \A ar \in Applied(a, reqs) : ar.iid \in Iids
    BY <1>2 DEF AcceptReq
  <1>. QED  BY <1>1, <1>5, <1>6, <1>7, <1>8

(* The type field of a datagram determines its other fields. *)
LEMMA MessageShapes ==
    ASSUME NEW m \in Message
    PROVE  /\ m.type = "prepare_reqs" => m.reqs \in SUBSET PrepareReq
           /\ m.type = "accept_reqs"  => m.reqs \in SUBSET AcceptReq
           /\ m.type = "repeat_reqs"  => m.iids \in SUBSET Iids
           /\ m.type = "prepare_acks" => m.acks \in SUBSET PrepareAck
           /\ m.type = "accept_ack"   =>
                 /\ m.acceptor \in Acceptors
                 /\ m.iid \in Iids
                 /\ m.ballot \in Ballots
                 /\ m.value_ballot \in Ballots
                 /\ m.is_final \in BOOLEAN
                 /\ m.value \in Values
BY DEF Message, AckMessage

(* An acknowledgement built from a record that holds a value is well formed. *)
LEMMA AcceptAckType ==
    ASSUME NEW a \in Acceptors, NEW i \in Iids,
           NEW rec \in Record, rec.value # NoValue,
           rec.value = NoValue <=> rec.value_ballot = 0
    PROVE  AcceptAck(a, i, rec) \in Message
BY MessagesAssumption DEF AcceptAck, Message, AckMessage, Record

(* Only real records hold a value. *)
LEMMA HoldsValueType ==
    ASSUME NEW rec \in Record \cup {NoRecord}, rec.value # NoValue
    PROVE  rec \in Record /\ HoldsValue(rec)
BY DEF HoldsValue, NoRecord

(* What an applied accept request leaves in the store. *)
LEMMA SavedAcceptRecord ==
    ASSUME NEW ar \in AcceptReq
    PROVE  /\ SavedAccept(ar) \in Record
           /\ SavedAccept(ar).ballot = ar.ballot
           /\ SavedAccept(ar).value_ballot = ar.ballot
           /\ SavedAccept(ar).is_final = FALSE
           /\ SavedAccept(ar).value = ar.value
           /\ ar.value # NoValue
           /\ ar.ballot # 0
BY MessagesAssumption DEF SavedAccept, AcceptReq, Record

-----------------------------------------------------------------------------
(* The part of the invariant that keeps the handlers total: types, and the two
   properties without which an acknowledgement could be built from nothing. *)
AcceptorInv == AcceptorTypeOK /\ RecordsCoherent /\ RepeaterFindsValue

(* A batch of prepare requests preserves it. *)
LEMMA PrepareStep ==
    ASSUME AcceptorInv, NEW a \in Acceptors,
           HandlePrepareReqBatch(a)
    PROVE  AcceptorInv'
PROOF
  <1>1. PICK m \in msgs :
            /\ m.type = "prepare_reqs"
            /\ store' = [store EXCEPT ![a] = AfterPrepares(a, m.reqs)]
            /\ Send({[type |-> "prepare_acks", acceptor |-> a,
                      acks |-> {PrepareAckOf(pr.iid, AfterPrepares(a, m.reqs)[pr.iid]) :
                                   pr \in Granted(a, m.reqs)}]})
            /\ UNCHANGED highest_accepted_iid
    BY Zenon DEF HandlePrepareReqBatch
  <1>. DEFINE recs == AfterPrepares(a, m.reqs)
              acks == {PrepareAckOf(pr.iid, recs[pr.iid]) :
                           pr \in Granted(a, m.reqs)}
  <1>2. m.reqs \in SUBSET PrepareReq
    BY <1>1, MessageShapes DEF AcceptorInv, AcceptorTypeOK
  <1>3. /\ recs \in [Iids -> Record \cup {NoRecord}]
        /\ \A i \in Iids :
             \/ recs[i] = store[a][i]
             \/ \E pr \in Granted(a, m.reqs) :
                   pr.iid = i /\ recs[i] = SavedPrepare(store[a][i], pr)
        /\ \A pr \in Granted(a, m.reqs) : recs[pr.iid] \in Record
    BY <1>2, AfterPreparesLemma DEF AcceptorInv
  <1>4. /\ store' \in [Acceptors -> [Iids -> Record \cup {NoRecord}]]
        /\ store'[a] = recs
        /\ \A b \in Acceptors \ {a} : store'[b] = store[b]
    <2>. QED  BY <1>1, <1>3 DEF AcceptorInv, AcceptorTypeOK
  <1>5. AcceptorTypeOK'
    <2>. HIDE DEF recs
    <2>1. \A pr \in Granted(a, m.reqs) :
             PrepareAckOf(pr.iid, recs[pr.iid]) \in PrepareAck
      BY <1>2, <1>3 DEF Granted, PrepareAckOf, PrepareAck, Record, PrepareReq
    <2>2. [type |-> "prepare_acks", acceptor |-> a, acks |-> acks] \in Message
      BY <2>1 DEF Message, AckMessage
    <2>. QED  BY <1>1, <1>4, <2>2 DEF AcceptorInv, AcceptorTypeOK, Send, recs
  <1>6. ASSUME NEW i \in Iids
        PROVE  /\ recs[i].value = store[a][i].value
               /\ recs[i].value_ballot = store[a][i].value_ballot
               /\ recs[i].ballot >= store[a][i].ballot
               /\ recs[i] = NoRecord => store[a][i] = NoRecord
    <2>. HIDE DEF recs
    <2>1. CASE recs[i] = store[a][i]
      <3>1. store[a][i] \in Record \cup {NoRecord}
        BY DEF AcceptorInv, AcceptorTypeOK
      <3>2. store[a][i].ballot \in Nat
        BY <3>1, RecordFields
      <3>. QED  BY <2>1, <3>2
    <2>2. ASSUME NEW pr \in Granted(a, m.reqs), pr.iid = i,
                 recs[i] = SavedPrepare(store[a][i], pr)
          PROVE  /\ recs[i].value = store[a][i].value
                 /\ recs[i].value_ballot = store[a][i].value_ballot
                 /\ recs[i].ballot >= store[a][i].ballot
                 /\ recs[i] # NoRecord
      <3>1. /\ pr.ballot \in Nat \ {0}
            /\ PrepareApplies(store[a][i], pr)
        BY <1>2, <2>2, MessagesAssumption DEF Granted, PrepareReq
      <3>2. /\ recs[i].value = store[a][i].value
            /\ recs[i].value_ballot = store[a][i].value_ballot
            /\ recs[i].ballot = pr.ballot
        BY <2>2 DEF SavedPrepare
      <3>3. store[a][i] \in Record \cup {NoRecord}
        BY DEF AcceptorInv, AcceptorTypeOK
      <3>4. store[a][i].ballot \in Nat /\ NoRecord.ballot = 0
        BY <3>3, RecordFields
      <3>. QED  BY <3>1, <3>2, <3>4 DEF PrepareApplies
    <2>. QED  BY <1>3, <2>1, <2>2
  <1>7. RecordsCoherent'
    <2>. SUFFICES ASSUME NEW b \in Acceptors, NEW i \in Iids
                  PROVE  /\ store'[b][i].value_ballot <= store'[b][i].ballot
                         /\ store'[b][i].value = NoValue <=>
                               store'[b][i].value_ballot = 0
      BY DEF RecordsCoherent
    <2>1. CASE b # a
      BY <1>4, <2>1 DEF AcceptorInv, RecordsCoherent
    <2>2. CASE b = a
      <3>1. store[a][i] \in Record \cup {NoRecord} /\ store'[a][i] \in Record \cup {NoRecord}
        BY <1>4 DEF AcceptorInv, AcceptorTypeOK
      <3>2. /\ store[a][i].ballot \in Nat /\ store[a][i].value_ballot \in Nat
            /\ store'[a][i].ballot \in Nat
        BY <3>1, RecordFields
      <3>3. /\ store[a][i].value_ballot <= store[a][i].ballot
            /\ store[a][i].value = NoValue <=> store[a][i].value_ballot = 0
        BY DEF AcceptorInv, RecordsCoherent
      <3>. HIDE DEF recs
      <3>. QED  BY <1>4, <1>6, <2>2, <3>2, <3>3
    <2>. QED  BY <2>1, <2>2
  <1>8. RepeaterFindsValue'
    <2>. SUFFICES ASSUME NEW b \in Acceptors, highest_accepted_iid[b] > 0
                  PROVE  HoldsValue(store'[b][highest_accepted_iid[b]])
      BY <1>1 DEF RepeaterFindsValue
    <2>1. highest_accepted_iid[b] \in Iids
      BY MessagesAssumption DEF AcceptorInv, AcceptorTypeOK
    <2>2. HoldsValue(store[b][highest_accepted_iid[b]])
      BY DEF AcceptorInv, RepeaterFindsValue
    <2>. HIDE DEF recs
    <2>. QED  BY <1>4, <1>6, <2>1, <2>2 DEF HoldsValue
  <1>. QED  BY <1>5, <1>7, <1>8 DEF AcceptorInv

(* A batch of accept requests preserves it: a new record holds a value, and the
   repeater is pointed at an instance just stored or at the one it had. *)
LEMMA AcceptStep ==
    ASSUME AcceptorInv, NEW a \in Acceptors, HandleAcceptReqBatch(a)
    PROVE  AcceptorInv'
PROOF
  <1>1. PICK m \in msgs, h \in Iids \cup {0} :
            /\ m.type = "accept_reqs"
            /\ store' = [store EXCEPT ![a] = AfterAccepts(a, m.reqs)]
            /\ IsHighest(h, a, m.reqs)
            /\ highest_accepted_iid' = [highest_accepted_iid EXCEPT ![a] = h]
            /\ Send({AcceptAck(a, ar.iid, AfterAccepts(a, m.reqs)[ar.iid]) :
                        ar \in Applied(a, m.reqs)})
    BY Zenon DEF HandleAcceptReqBatch
  <1>. DEFINE recs == AfterAccepts(a, m.reqs)
  <1>2. m.reqs \in SUBSET AcceptReq
    BY <1>1, MessageShapes DEF AcceptorInv, AcceptorTypeOK
  <1>3. /\ recs \in [Iids -> Record \cup {NoRecord}]
        /\ \A i \in Iids :
             \/ recs[i] = store[a][i]
             \/ \E ar \in Applied(a, m.reqs) : ar.iid = i /\ recs[i] = SavedAccept(ar)
        /\ \A ar \in Applied(a, m.reqs) :
             \E x \in Applied(a, m.reqs) :
                 x.iid = ar.iid /\ recs[ar.iid] = SavedAccept(x)
    BY <1>2, AfterAcceptsLemma DEF AcceptorInv
  <1>4. /\ store' \in [Acceptors -> [Iids -> Record \cup {NoRecord}]]
        /\ store'[a] = recs
        /\ \A b \in Acceptors \ {a} : store'[b] = store[b]
    BY <1>1, <1>3 DEF AcceptorInv, AcceptorTypeOK
  <1>5. \A ar \in Applied(a, m.reqs) : ar \in AcceptReq /\ ar.iid \in Iids
    BY <1>2 DEF Applied, AcceptReq
  <1>6. ASSUME NEW x \in Applied(a, m.reqs)
        PROVE  /\ SavedAccept(x) \in Record
               /\ SavedAccept(x).value # NoValue
               /\ SavedAccept(x).value_ballot = SavedAccept(x).ballot
               /\ SavedAccept(x).value_ballot # 0
               /\ HoldsValue(SavedAccept(x))
    BY <1>5, SavedAcceptRecord, HoldsValueType
  <1>7. AcceptorTypeOK'
    <2>1. ASSUME NEW ar \in Applied(a, m.reqs)
          PROVE  AcceptAck(a, ar.iid, recs[ar.iid]) \in Message
      <3>1. PICK x \in Applied(a, m.reqs) :
                x.iid = ar.iid /\ recs[ar.iid] = SavedAccept(x)
        BY <1>3
      <3>. QED  BY <1>5, <1>6, <3>1, AcceptAckType
    <2>2. highest_accepted_iid' \in [Acceptors -> Iids \cup {0}]
      BY <1>1 DEF AcceptorInv, AcceptorTypeOK
    <2>. QED  BY <1>1, <1>4, <2>1, <2>2 DEF AcceptorInv, AcceptorTypeOK, Send
  <1>8. RecordsCoherent'
    <2>. SUFFICES ASSUME NEW b \in Acceptors, NEW i \in Iids
                  PROVE  /\ store'[b][i].value_ballot <= store'[b][i].ballot
                         /\ store'[b][i].value = NoValue <=>
                               store'[b][i].value_ballot = 0
      BY DEF RecordsCoherent
    <2>1. CASE store'[b][i] = store[b][i]
      BY <2>1 DEF AcceptorInv, RecordsCoherent
    <2>2. CASE b = a /\ recs[i] # store[a][i]
      <3>1. PICK x \in Applied(a, m.reqs) : recs[i] = SavedAccept(x)
        BY <1>3, <2>2
      <3>2. SavedAccept(x).ballot \in Nat
        BY <1>6, RecordFields
      <3>. QED  BY <1>4, <1>6, <2>2, <3>1, <3>2
    <2>. QED  BY <1>4, <2>1, <2>2
  <1>9. RepeaterFindsValue'
    <2>. SUFFICES ASSUME NEW b \in Acceptors, highest_accepted_iid'[b] > 0
                  PROVE  HoldsValue(store'[b][highest_accepted_iid'[b]])
      BY DEF RepeaterFindsValue
    <2>1. CASE b # a
      BY <1>1, <1>4, <2>1 DEF AcceptorInv, AcceptorTypeOK, RepeaterFindsValue
    <2>2. CASE b = a
      <3>1. highest_accepted_iid'[b] = h
        BY <1>1, <2>2 DEF AcceptorInv, AcceptorTypeOK
      <3>2. CASE h = highest_accepted_iid[a]
        <4>1. h \in Iids /\ HoldsValue(store[a][h])
          BY <2>2, <3>1, <3>2, Numbers
             DEF AcceptorInv, AcceptorTypeOK, RepeaterFindsValue
        <4>. QED  BY <1>3, <1>4, <1>6, <2>2, <3>1, <4>1
      <3>3. CASE \E ar \in Applied(a, m.reqs) : h = ar.iid
        BY <1>3, <1>4, <1>6, <2>2, <3>1, <3>3
      <3>. QED  BY <1>1, <3>2, <3>3 DEF IsHighest
    <2>. QED  BY <2>1, <2>2
  <1>. QED  BY <1>7, <1>8, <1>9 DEF AcceptorInv

(* Repeating, on request or on the timer, only sends what is stored. *)
LEMMA RepeatSteps ==
    ASSUME AcceptorInv, NEW a \in Acceptors,
           HandleRepeatReqBatch(a) \/ PeriodicRepeater(a)
    PROVE  AcceptorInv'
PROOF
  <1>1. ASSUME NEW i \in Iids, HoldsValue(store[a][i])
        PROVE  AcceptAck(a, i, store[a][i]) \in Message
    <2>1. store[a][i] \in Record \cup {NoRecord}
      BY DEF AcceptorInv, AcceptorTypeOK
    <2>2. store[a][i] \in Record /\ store[a][i].value # NoValue
      BY <1>1, <2>1 DEF HoldsValue
    <2>3. store[a][i].value = NoValue <=> store[a][i].value_ballot = 0
      BY DEF AcceptorInv, RecordsCoherent
    <2>. QED  BY <2>2, <2>3, AcceptAckType
  <1>2. CASE HandleRepeatReqBatch(a)
    <2>1. PICK m \in msgs :
              /\ m.type = "repeat_reqs"
              /\ Send({AcceptAck(a, i, store[a][i]) :
                          i \in {j \in m.iids : HoldsValue(store[a][j])}})
      BY <1>2, Zenon DEF HandleRepeatReqBatch
    <2>2. m.iids \in SUBSET Iids
      BY <2>1, MessageShapes DEF AcceptorInv, AcceptorTypeOK
    <2>3. UNCHANGED <<store, highest_accepted_iid>>
      BY <1>2 DEF HandleRepeatReqBatch
    <2>4. msgs' \subseteq Message
      BY <1>1, <2>1, <2>2 DEF AcceptorInv, AcceptorTypeOK, Send
    <2>. QED
      BY <2>3, <2>4 DEF AcceptorInv, AcceptorTypeOK, RecordsCoherent, RepeaterFindsValue
  <1>3. CASE PeriodicRepeater(a)
    <2>1. highest_accepted_iid[a] \in Iids
      BY <1>3, Numbers DEF PeriodicRepeater, AcceptorInv, AcceptorTypeOK
    <2>2. HoldsValue(store[a][highest_accepted_iid[a]])
      BY <1>3 DEF PeriodicRepeater, AcceptorInv, RepeaterFindsValue
    <2>3. msgs' \subseteq Message
      BY <1>1, <1>3, <2>1, <2>2 DEF PeriodicRepeater, Send, AcceptorInv, AcceptorTypeOK
    <2>. QED
      BY <1>3, <2>3 DEF PeriodicRepeater, AcceptorInv, AcceptorTypeOK,
                        RecordsCoherent, RepeaterFindsValue
  <1>. QED  BY <1>2, <1>3

(* The record saved for a delivered value has that value, and the ballot of an
   acknowledgement. *)
LEMMA DeliverStep ==
    ASSUME AcceptorInv, NEW a \in Acceptors, DeliverCallback(a)
    PROVE  AcceptorInv'
PROOF
  <1>1. PICK ack \in msgs :
            /\ ack.type = "accept_ack"
            /\ store' = [store EXCEPT ![a][ack.iid] = SavedFinal(ack)]
    BY Zenon DEF DeliverCallback
  <1>2. UNCHANGED <<msgs, highest_accepted_iid>>
    BY DEF DeliverCallback
  <1>3. /\ ack.iid \in Iids
        /\ ack.ballot \in Ballots
        /\ ack.value \in Values
    BY <1>1, MessageShapes DEF AcceptorInv, AcceptorTypeOK
  <1>. DEFINE fin == SavedFinal(ack)
  <1>4. /\ fin \in Record
        /\ fin.value # NoValue
        /\ fin.value_ballot = fin.ballot
        /\ fin.ballot \in Nat
        /\ fin.value_ballot # 0
    BY <1>3, Numbers DEF SavedFinal, Record
  <1>5. HoldsValue(fin)
    BY <1>4, HoldsValueType
  <1>. HIDE DEF fin
  <1>6. /\ store' \in [Acceptors -> [Iids -> Record \cup {NoRecord}]]
        /\ \A b \in Acceptors, i \in Iids :
              store'[b][i] = IF b = a /\ i = ack.iid THEN fin ELSE store[b][i]
    BY <1>1, <1>3, <1>4 DEF AcceptorInv, AcceptorTypeOK, fin
  <1>7. AcceptorTypeOK'
    BY <1>2, <1>6 DEF AcceptorInv, AcceptorTypeOK
  <1>8. RecordsCoherent'
    BY <1>4, <1>6 DEF AcceptorInv, RecordsCoherent
  <1>9. RepeaterFindsValue'
    <2>. SUFFICES ASSUME NEW b \in Acceptors, highest_accepted_iid[b] > 0
                  PROVE  HoldsValue(store'[b][highest_accepted_iid[b]])
      BY <1>2 DEF RepeaterFindsValue
    <2>1. highest_accepted_iid[b] \in Iids
      BY Numbers DEF AcceptorInv, AcceptorTypeOK
    <2>. QED  BY <1>5, <1>6, <2>1 DEF AcceptorInv, RepeaterFindsValue
  <1>. QED  BY <1>7, <1>8, <1>9 DEF AcceptorInv

(* A restarted acceptor keeps its store or has none, and repeats nothing until
   it has accepted again. *)
LEMMA RestartStep ==
    ASSUME AcceptorInv, NEW a \in Acceptors, NEW recover \in BOOLEAN,
           Restart(a, recover)
    PROVE  AcceptorInv'
PROOF
  <1>. DEFINE recs == IF recover /\ Durable THEN store[a]
                      ELSE [i \in Iids |-> NoRecord]
  <1>1. /\ store' = [store EXCEPT ![a] = recs]
        /\ highest_accepted_iid' = [highest_accepted_iid EXCEPT ![a] = 0]
        /\ UNCHANGED msgs
    BY DEF Restart
  <1>2. recs \in [Iids -> Record \cup {NoRecord}]
    BY DEF AcceptorInv, AcceptorTypeOK
  <1>3. \A i \in Iids : recs[i] = store[a][i] \/ recs[i] = NoRecord
    OBVIOUS
  <1>. HIDE DEF recs
  <1>4. /\ AcceptorTypeOK'
        /\ store'[a] = recs
        /\ \A b \in Acceptors \ {a} : store'[b] = store[b]
        /\ highest_accepted_iid'[a] = 0
        /\ \A b \in Acceptors \ {a} :
              highest_accepted_iid'[b] = highest_accepted_iid[b]
    BY <1>1, <1>2 DEF AcceptorInv, AcceptorTypeOK
  <1>5. RecordsCoherent'
    BY <1>3, <1>4, RecordFields DEF AcceptorInv, RecordsCoherent
  <1>6. RepeaterFindsValue'
    <2>. SUFFICES ASSUME NEW b \in Acceptors, highest_accepted_iid'[b] > 0
                  PROVE  HoldsValue(store'[b][highest_accepted_iid'[b]])
      BY DEF RepeaterFindsValue
    <2>1. b # a
      BY <1>4
    <2>. QED  BY <1>4, <2>1 DEF AcceptorInv, RepeaterFindsValue
  <1>. QED  BY <1>4, <1>5, <1>6 DEF AcceptorInv

(* Every step of an acceptor preserves it. *)
LEMMA AcceptorStepInv ==
    ASSUME AcceptorInv, NEW a \in Acceptors, AcceptorStep(a)
    PROVE  AcceptorInv'
BY PrepareStep, AcceptStep, RepeatSteps, DeliverStep, RestartStep DEF AcceptorStep

(* It holds of the empty stores an acceptor starts with. *)
LEMMA AcceptorInitInv ==
    ASSUME AcceptorInit, msgs \in SUBSET Message
    PROVE  AcceptorInv
PROOF
  <1>1. \A a \in Acceptors, i \in Iids : store[a][i] = NoRecord
    BY DEF AcceptorInit
  <1>2. AcceptorTypeOK
    BY DEF AcceptorInit, AcceptorTypeOK
  <1>3. RecordsCoherent
    BY <1>1, RecordFields DEF RecordsCoherent
  <1>4. RepeaterFindsValue
    BY DEF AcceptorInit, RepeaterFindsValue
  <1>. QED  BY <1>2, <1>3, <1>4 DEF AcceptorInv

(* Sending anything else well formed disturbs none of it. *)
LEMMA SendInv ==
    ASSUME AcceptorInv, NEW M \in SUBSET Message, Send(M),
           UNCHANGED <<store, highest_accepted_iid>>
    PROVE  AcceptorInv'
BY DEF AcceptorInv, AcceptorTypeOK, RecordsCoherent, RepeaterFindsValue, Send

-----------------------------------------------------------------------------
(* What a step may do to a store, in the words of what was sent: a record keeps
   its value with the ballot it was accepted at, or is announced as it now
   stands, or is made final by the learner, or goes with the whole store. *)
Kept(b, i) ==
    /\ store'[b][i].value = store[b][i].value
    /\ store'[b][i].value_ballot = store[b][i].value_ballot
    /\ store'[b][i].is_final = store[b][i].is_final

IsAnnounced(b, i) == AcceptAck(b, i, store'[b][i]) \in msgs'

MadeFinal(b, i) ==
    store'[b][i].is_final /\ store'[b][i].value \in Values

(* A promise keeps every value. *)
LEMMA PrepareEffect ==
    ASSUME AcceptorInv, NEW a \in Acceptors, HandlePrepareReqBatch(a),
           NEW b \in Acceptors, NEW i \in Iids
    PROVE  Kept(b, i)
PROOF
  <1>1. PICK m \in msgs :
            /\ m.type = "prepare_reqs"
            /\ store' = [store EXCEPT ![a] = AfterPrepares(a, m.reqs)]
    BY Zenon DEF HandlePrepareReqBatch
  <1>. DEFINE recs == AfterPrepares(a, m.reqs)
  <1>2. m.reqs \in SUBSET PrepareReq
    BY <1>1, MessageShapes DEF AcceptorInv, AcceptorTypeOK
  <1>3. \/ recs[i] = store[a][i]
        \/ \E pr \in Granted(a, m.reqs) : recs[i] = SavedPrepare(store[a][i], pr)
    BY <1>2, AfterPreparesLemma DEF AcceptorInv
  <1>4. store'[b] = IF b = a THEN recs ELSE store[b]
    BY <1>1 DEF AcceptorInv, AcceptorTypeOK
  <1>. HIDE DEF recs
  <1>5. CASE store'[b][i] = store[b][i]
    BY <1>5 DEF Kept
  <1>6. ASSUME NEW pr, b = a, recs[i] = SavedPrepare(store[a][i], pr)
        PROVE  Kept(b, i)
    BY <1>4, <1>6 DEF Kept, SavedPrepare
  <1>. QED  BY <1>3, <1>4, <1>5, <1>6

(* An accept announces every record it replaces. *)
LEMMA AcceptEffect ==
    ASSUME AcceptorInv, NEW a \in Acceptors, HandleAcceptReqBatch(a),
           NEW b \in Acceptors, NEW i \in Iids
    PROVE  Kept(b, i) \/ IsAnnounced(b, i)
PROOF
  <1>1. PICK m \in msgs :
            /\ m.type = "accept_reqs"
            /\ store' = [store EXCEPT ![a] = AfterAccepts(a, m.reqs)]
            /\ Send({AcceptAck(a, ar.iid, AfterAccepts(a, m.reqs)[ar.iid]) :
                        ar \in Applied(a, m.reqs)})
    BY Zenon DEF HandleAcceptReqBatch
  <1>. DEFINE recs == AfterAccepts(a, m.reqs)
  <1>2. m.reqs \in SUBSET AcceptReq
    BY <1>1, MessageShapes DEF AcceptorInv, AcceptorTypeOK
  <1>3. \/ recs[i] = store[a][i]
        \/ \E ar \in Applied(a, m.reqs) : ar.iid = i
    BY <1>2, AfterAcceptsLemma DEF AcceptorInv
  <1>4. store'[b] = IF b = a THEN recs ELSE store[b]
    BY <1>1 DEF AcceptorInv, AcceptorTypeOK
  <1>5. CASE store'[b][i] = store[b][i]
    BY <1>5 DEF Kept
  <1>6. CASE b = a /\ \E ar \in Applied(a, m.reqs) : ar.iid = i
    <2>1. AcceptAck(a, i, recs[i]) \in msgs'
      BY <1>1, <1>6 DEF Send
    <2>. QED  BY <1>4, <1>6, <2>1 DEF IsAnnounced
  <1>. QED  BY <1>3, <1>4, <1>5, <1>6

(* The effect of any step on any record. *)
LEMMA StoreEffect ==
    ASSUME AcceptorInv, NEW a \in Acceptors, AcceptorStep(a),
           NEW b \in Acceptors
    PROVE  \/ \A i \in Iids : Kept(b, i) \/ IsAnnounced(b, i) \/ MadeFinal(b, i)
           \/ \A i \in Iids : store'[b][i] = NoRecord
PROOF
  <1>1. CASE HandlePrepareReqBatch(a)
    BY <1>1, PrepareEffect
  <1>2. CASE HandleAcceptReqBatch(a)
    BY <1>2, AcceptEffect
  <1>3. CASE HandleRepeatReqBatch(a) \/ PeriodicRepeater(a)
    BY <1>3 DEF HandleRepeatReqBatch, PeriodicRepeater, Kept
  <1>4. CASE DeliverCallback(a)
    <2>1. PICK ack \in msgs :
              /\ ack.type = "accept_ack"
              /\ store' = [store EXCEPT ![a][ack.iid] = SavedFinal(ack)]
      BY <1>4, Zenon DEF DeliverCallback
    <2>2. ack.iid \in Iids /\ ack.value \in Values
      BY <2>1, MessageShapes DEF AcceptorInv, AcceptorTypeOK
    <2>3. /\ SavedFinal(ack).is_final
          /\ SavedFinal(ack).value = ack.value
      BY DEF SavedFinal
    <2>4. \A i \in Iids :
              store'[b][i] = IF b = a /\ i = ack.iid THEN SavedFinal(ack)
                             ELSE store[b][i]
      BY <2>1, <2>2 DEF AcceptorInv, AcceptorTypeOK
    <2>. QED  BY <2>2, <2>3, <2>4 DEF Kept, MadeFinal
  <1>5. ASSUME NEW recover \in BOOLEAN, Restart(a, recover)
        PROVE  \/ \A i \in Iids : store'[b][i] = store[b][i]
               \/ \A i \in Iids : store'[b][i] = NoRecord
    BY <1>5 DEF Restart, AcceptorInv, AcceptorTypeOK
  <1>6. CASE \E recover \in BOOLEAN : Restart(a, recover)
    BY <1>5, <1>6 DEF Kept
  <1>. QED  BY <1>1, <1>2, <1>3, <1>4, <1>6 DEF AcceptorStep

(* A value stays, or another takes its place, or the store goes. *)
LEMMA StepKeepsValues ==
    ASSUME AcceptorInv, NEW a \in Acceptors, AcceptorStep(a),
           NEW b \in Acceptors
    PROVE  \/ \A i \in Iids :
                 store[b][i].value # NoValue => store'[b][i].value # NoValue
           \/ \A i \in Iids : store'[b][i] = NoRecord
PROOF
  <1>1. msgs' \subseteq Message
    BY AcceptorStepInv DEF AcceptorInv, AcceptorTypeOK
  <1>2. ASSUME NEW i \in Iids, IsAnnounced(b, i)
        PROVE  store'[b][i].value \in Values
    <2>1. /\ AcceptAck(b, i, store'[b][i]) \in Message
          /\ AcceptAck(b, i, store'[b][i]).type = "accept_ack"
          /\ AcceptAck(b, i, store'[b][i]).value = store'[b][i].value
      BY <1>1, <1>2 DEF IsAnnounced, AcceptAck
    <2>. QED  BY <2>1, MessageShapes
  <1>. QED  BY <1>2, StoreEffect, Numbers DEF Kept, MadeFinal

-----------------------------------------------------------------------------
(* Nothing is invented.  The property speaks of what was sent; what is stored
   must be carried along, since a repeat or a promise reports it later. *)
StoredAsked ==
    ~ UpdateOnDeliver =>
        \A a \in Acceptors, i \in Iids :
            store[a][i].value # NoValue =>
                Asked(i, store[a][i].value_ballot, store[a][i].value)

(* A request once sent stays sent. *)
LEMMA AskedStable ==
    ASSUME msgs \subseteq msgs', NEW i, NEW b, NEW v, Asked(i, b, v)
    PROVE  Asked(i, b, v)'
BY DEF Asked

(* It is enough to look at the records a step changes and the messages it adds. *)
LEMMA ProvenanceFrame ==
    ASSUME NothingInvented, StoredAsked, msgs \subseteq msgs', ~ UpdateOnDeliver,
           \A m \in msgs' \ msgs :
               /\ m.type = "accept_ack" => Asked(m.iid, m.value_ballot, m.value)'
               /\ m.type = "prepare_acks" =>
                     \A pa \in m.acks : pa.value # NoValue =>
                         Asked(pa.iid, pa.value_ballot, pa.value)',
           \A a \in Acceptors, i \in Iids :
               \/ store'[a][i].value = NoValue
               \/ /\ store'[a][i].value = store[a][i].value
                  /\ store'[a][i].value_ballot = store[a][i].value_ballot
               \/ Asked(i, store[a][i].value_ballot, store[a][i].value)'
    PROVE  NothingInvented' /\ StoredAsked'
PROOF
  <1>1. NothingInvented'
    <2>. SUFFICES ASSUME NEW m \in msgs'
                  PROVE  /\ m.type = "accept_ack" =>
                               Asked(m.iid, m.value_ballot, m.value)'
                         /\ m.type = "prepare_acks" =>
                               \A pa \in m.acks : pa.value # NoValue =>
                                   Asked(pa.iid, pa.value_ballot, pa.value)'
      BY DEF NothingInvented
    <2>1. CASE m \in msgs
      BY <2>1, AskedStable DEF NothingInvented
    <2>. QED  BY <2>1
  <1>2. StoredAsked'
    <2>. SUFFICES ASSUME NEW a \in Acceptors, NEW i \in Iids,
                         store'[a][i].value # NoValue
                  PROVE  Asked(i, store[a][i].value_ballot, store[a][i].value)'
      BY DEF StoredAsked
    <2>1. CASE /\ store'[a][i].value = store[a][i].value
               /\ store'[a][i].value_ballot = store[a][i].value_ballot
      <3>1. Asked(i, store[a][i].value_ballot, store[a][i].value)
        BY <2>1 DEF StoredAsked
      <3>. QED  BY <2>1, <3>1 DEF Asked
    <2>. QED  BY <2>1
  <1>. QED  BY <1>1, <1>2

Provenance == AcceptorInv /\ NothingInvented /\ StoredAsked

(* A promise reports the value of the record, which a prepare does not touch. *)
LEMMA PrepareProvenance ==
    ASSUME Provenance, ~ UpdateOnDeliver, NEW a \in Acceptors,
           HandlePrepareReqBatch(a)
    PROVE  NothingInvented' /\ StoredAsked'
PROOF
  <1>1. PICK m \in msgs :
            /\ m.type = "prepare_reqs"
            /\ store' = [store EXCEPT ![a] = AfterPrepares(a, m.reqs)]
            /\ Send({[type |-> "prepare_acks", acceptor |-> a,
                      acks |-> {PrepareAckOf(pr.iid, AfterPrepares(a, m.reqs)[pr.iid]) :
                                   pr \in Granted(a, m.reqs)}]})
    BY Zenon DEF HandlePrepareReqBatch
  <1>. DEFINE recs == AfterPrepares(a, m.reqs)
              acks == {PrepareAckOf(pr.iid, recs[pr.iid]) :
                           pr \in Granted(a, m.reqs)}
  <1>2. m.reqs \in SUBSET PrepareReq
    BY <1>1, MessageShapes DEF Provenance, AcceptorInv, AcceptorTypeOK
  <1>3. ASSUME NEW i \in Iids
        PROVE  /\ recs[i].value = store[a][i].value
               /\ recs[i].value_ballot = store[a][i].value_ballot
    <2>1. \/ recs[i] = store[a][i]
          \/ \E pr \in Granted(a, m.reqs) : recs[i] = SavedPrepare(store[a][i], pr)
      BY <1>2, AfterPreparesLemma DEF Provenance, AcceptorInv
    <2>2. ASSUME NEW pr, recs[i] = SavedPrepare(store[a][i], pr)
          PROVE  /\ recs[i].value = store[a][i].value
                 /\ recs[i].value_ballot = store[a][i].value_ballot
      <3>. HIDE DEF recs
      <3>. QED  BY <2>2 DEF SavedPrepare
    <2>. QED  BY <2>1, <2>2, Zenon
  <1>4. /\ store'[a] = recs
        /\ \A b \in Acceptors \ {a} : store'[b] = store[b]
    BY <1>1 DEF Provenance, AcceptorInv, AcceptorTypeOK
  <1>5. msgs \subseteq msgs'
    BY <1>1 DEF Send
  <1>6. ASSUME NEW pa \in acks, pa.value # NoValue
        PROVE  Asked(pa.iid, pa.value_ballot, pa.value)'
    <2>1. PICK pr \in Granted(a, m.reqs) :
              pa = PrepareAckOf(pr.iid, recs[pr.iid])
      OBVIOUS
    <2>2. pr.iid \in Iids
      BY <1>2 DEF Granted, PrepareReq
    <2>3. /\ pa.iid = pr.iid
          /\ pa.value = store[a][pr.iid].value
          /\ pa.value_ballot = store[a][pr.iid].value_ballot
      BY <1>3, <2>1, <2>2 DEF PrepareAckOf
    <2>4. Asked(pa.iid, pa.value_ballot, pa.value)
      BY <1>6, <2>2, <2>3 DEF Provenance, StoredAsked
    <2>. QED  BY <1>5, <2>4, AskedStable
  <1>7. \A n \in msgs' \ msgs :
            /\ n.type = "accept_ack" => Asked(n.iid, n.value_ballot, n.value)'
            /\ n.type = "prepare_acks" =>
                  \A pa \in n.acks : pa.value # NoValue =>
                      Asked(pa.iid, pa.value_ballot, pa.value)'
    BY <1>1, <1>6 DEF Send
  <1>8. \A b \in Acceptors, i \in Iids :
            /\ store'[b][i].value = store[b][i].value
            /\ store'[b][i].value_ballot = store[b][i].value_ballot
    BY <1>3, <1>4
  <1>. QED  BY <1>5, <1>7, <1>8, ProvenanceFrame DEF Provenance

(* What an accept stores and acknowledges is the request itself. *)
LEMMA AcceptProvenance ==
    ASSUME Provenance, ~ UpdateOnDeliver, NEW a \in Acceptors,
           HandleAcceptReqBatch(a)
    PROVE  NothingInvented' /\ StoredAsked'
PROOF
  <1>1. PICK m \in msgs :
            /\ m.type = "accept_reqs"
            /\ store' = [store EXCEPT ![a] = AfterAccepts(a, m.reqs)]
            /\ Send({AcceptAck(a, ar.iid, AfterAccepts(a, m.reqs)[ar.iid]) :
                        ar \in Applied(a, m.reqs)})
    BY Zenon DEF HandleAcceptReqBatch
  <1>. DEFINE recs == AfterAccepts(a, m.reqs)
  <1>2. m.reqs \in SUBSET AcceptReq
    BY <1>1, MessageShapes DEF Provenance, AcceptorInv, AcceptorTypeOK
  <1>3. /\ \A i \in Iids :
             \/ recs[i] = store[a][i]
             \/ \E ar \in Applied(a, m.reqs) : ar.iid = i /\ recs[i] = SavedAccept(ar)
        /\ \A ar \in Applied(a, m.reqs) :
             \E x \in Applied(a, m.reqs) :
                 x.iid = ar.iid /\ recs[ar.iid] = SavedAccept(x)
    BY <1>2, AfterAcceptsLemma DEF Provenance, AcceptorInv
  <1>4. /\ store'[a] = recs
        /\ \A b \in Acceptors \ {a} : store'[b] = store[b]
    BY <1>1 DEF Provenance, AcceptorInv, AcceptorTypeOK
  <1>5. msgs \subseteq msgs' /\ m \in msgs'
    BY <1>1 DEF Send
  <1>6. ASSUME NEW x \in Applied(a, m.reqs)
        PROVE  /\ SavedAccept(x).value = x.value
               /\ SavedAccept(x).value_ballot = x.ballot
               /\ Asked(x.iid, x.ballot, x.value)'
    <2>1. x \in m.reqs /\ x \in AcceptReq
      BY <1>2 DEF Applied
    <2>2. x = [iid |-> x.iid, ballot |-> x.ballot, value |-> x.value]
      BY <2>1 DEF AcceptReq
    <2>3. Asked(x.iid, x.ballot, x.value)
      BY <1>1, <2>1, <2>2 DEF Asked
    <2>. QED  BY <1>5, <2>3, AskedStable DEF SavedAccept
  <1>7. ASSUME NEW n \in msgs' \ msgs
        PROVE  /\ n.type = "accept_ack"
               /\ Asked(n.iid, n.value_ballot, n.value)'
    <2>1. PICK ar \in Applied(a, m.reqs) : n = AcceptAck(a, ar.iid, recs[ar.iid])
      BY <1>1 DEF Send
    <2>2. PICK x \in Applied(a, m.reqs) :
              x.iid = ar.iid /\ recs[ar.iid] = SavedAccept(x)
      BY <1>3
    <2>3. /\ n.type = "accept_ack"
          /\ n.iid = x.iid
          /\ n.value_ballot = x.ballot
          /\ n.value = x.value
      BY <1>6, <2>1, <2>2 DEF AcceptAck
    <2>. QED  BY <1>6, <2>3
  <1>8. ASSUME NEW b \in Acceptors, NEW i \in Iids
        PROVE  \/ /\ store'[b][i].value = store[b][i].value
                  /\ store'[b][i].value_ballot = store[b][i].value_ballot
               \/ Asked(i, store[b][i].value_ballot, store[b][i].value)'
    <2>1. CASE store'[b][i] = store[b][i]
      BY <2>1
    <2>2. CASE b = a /\ recs[i] # store[a][i]
      <3>1. PICK x \in Applied(a, m.reqs) : x.iid = i /\ recs[i] = SavedAccept(x)
        BY <1>3, <2>2
      <3>2. /\ store'[b][i].value_ballot = x.ballot
            /\ store'[b][i].value = x.value
        BY <1>4, <1>6, <2>2, <3>1
      <3>. QED  BY <1>6, <3>1, <3>2 DEF Asked
    <2>. QED  BY <1>4, <2>1, <2>2
  <1>. QED  BY <1>5, <1>7, <1>8, ProvenanceFrame DEF Provenance

(* Repeats send what is stored; a restart only loses records. *)
LEMMA OtherProvenance ==
    ASSUME Provenance, ~ UpdateOnDeliver, NEW a \in Acceptors,
           \/ HandleRepeatReqBatch(a)
           \/ PeriodicRepeater(a)
           \/ \E recover \in BOOLEAN : Restart(a, recover)
    PROVE  NothingInvented' /\ StoredAsked'
PROOF
  <1>1. ASSUME NEW i \in Iids, HoldsValue(store[a][i])
        PROVE  LET n == AcceptAck(a, i, store[a][i])
               IN n.type = "accept_ack" /\ Asked(n.iid, n.value_ballot, n.value)
    BY <1>1 DEF AcceptAck, HoldsValue, Provenance, StoredAsked
  <1>2. CASE HandleRepeatReqBatch(a) \/ PeriodicRepeater(a)
    <2>1. /\ msgs \subseteq msgs'
          /\ UNCHANGED store
      BY <1>2 DEF HandleRepeatReqBatch, PeriodicRepeater, Send
    <2>2. ASSUME NEW n \in msgs' \ msgs
          PROVE  \E i \in Iids : HoldsValue(store[a][i]) /\ n = AcceptAck(a, i, store[a][i])
      <3>1. CASE HandleRepeatReqBatch(a)
        <4>1. PICK m \in msgs :
                  /\ m.type = "repeat_reqs"
                  /\ Send({AcceptAck(a, i, store[a][i]) :
                              i \in {j \in m.iids : HoldsValue(store[a][j])}})
          BY <3>1, Zenon DEF HandleRepeatReqBatch
        <4>2. m.iids \in SUBSET Iids
          BY <4>1, MessageShapes DEF Provenance, AcceptorInv, AcceptorTypeOK
        <4>. QED  BY <4>1, <4>2 DEF Send
      <3>2. CASE PeriodicRepeater(a)
        <4>1. /\ highest_accepted_iid[a] \in Iids
              /\ HoldsValue(store[a][highest_accepted_iid[a]])
          BY <3>2, Numbers DEF PeriodicRepeater, Provenance, AcceptorInv,
                               AcceptorTypeOK, RepeaterFindsValue
        <4>. QED  BY <3>2, <4>1 DEF PeriodicRepeater, Send
      <3>. QED  BY <1>2, <3>1, <3>2
    <2>3. ASSUME NEW n \in msgs' \ msgs
          PROVE  n.type = "accept_ack" /\ Asked(n.iid, n.value_ballot, n.value)'
      BY <1>1, <2>1, <2>2, AskedStable
    <2>. QED  BY <2>1, <2>3, ProvenanceFrame DEF Provenance
  <1>3. CASE \E recover \in BOOLEAN : Restart(a, recover)
    <2>1. UNCHANGED msgs
      BY <1>3 DEF Restart
    <2>2. \A b \in Acceptors, i \in Iids :
              store'[b][i] = store[b][i] \/ store'[b][i] = NoRecord
      BY <1>3 DEF Restart, Provenance, AcceptorInv, AcceptorTypeOK
    <2>3. \A b \in Acceptors, i \in Iids :
              \/ store'[b][i].value = NoValue
              \/ /\ store'[b][i].value = store[b][i].value
                 /\ store'[b][i].value_ballot = store[b][i].value_ballot
      BY <2>2, RecordFields
    <2>. QED  BY <2>1, <2>3, ProvenanceFrame DEF Provenance
  <1>. QED  BY <1>2, <1>3

-----------------------------------------------------------------------------
(* AcceptorAlone: any request at any time.                                  *)

(* Requests are well formed. *)
LEMMA RequestInv ==
    ASSUME AcceptorInv, RequestPrepares \/ RequestAccepts \/ RequestRepeats
    PROVE  AcceptorInv'
PROOF
  <1>1. \A reqs \in SUBSET PrepareReq :
            [type |-> "prepare_reqs", reqs |-> reqs] \in Message
    BY DEF Message
  <1>2. \A reqs \in SUBSET AcceptReq :
            [type |-> "accept_reqs", reqs |-> reqs] \in Message
    BY DEF Message
  <1>3. \A iids \in SUBSET Iids :
            [type |-> "repeat_reqs", iids |-> iids] \in Message
    BY DEF Message
  <1>4. ASSUME NEW m \in Message, SomeRequest(m)
        PROVE  AcceptorInv'
    BY <1>4, SendInv DEF SomeRequest
  <1>5. CASE RequestPrepares
    BY <1>1, <1>4, <1>5 DEF RequestPrepares
  <1>6. CASE RequestAccepts
    BY <1>2, <1>4, <1>6 DEF RequestAccepts
  <1>7. CASE RequestRepeats
    BY <1>3, <1>4, <1>7 DEF RequestRepeats
  <1>. QED  BY <1>5, <1>6, <1>7

(* The invariant that keeps the handlers total holds in every behaviour. *)
THEOREM AcceptorCorrect == AcceptorAloneSpec => []AcceptorInv
PROOF
  <1>1. AcceptorAloneInit => AcceptorInv
    BY AcceptorInitInv DEF AcceptorAloneInit
  <1>2. AcceptorInv /\ [AcceptorAloneNext]_acceptorVars => AcceptorInv'
    <2>. SUFFICES ASSUME AcceptorInv, [AcceptorAloneNext]_acceptorVars
                  PROVE  AcceptorInv'
      OBVIOUS
    <2>1. CASE \E a \in Acceptors : AcceptorStep(a)
      BY <2>1, AcceptorStepInv
    <2>2. CASE RequestPrepares \/ RequestAccepts \/ RequestRepeats
      BY <2>2, RequestInv
    <2>3. CASE UNCHANGED acceptorVars
      BY <2>3 DEF acceptorVars, AcceptorInv, AcceptorTypeOK, RecordsCoherent,
                  RepeaterFindsValue
    <2>. QED  BY <2>1, <2>2, <2>3 DEF AcceptorAloneNext
  <1>. QED  BY <1>1, <1>2, PTL DEF AcceptorAloneSpec

(* Messages and records are always well formed. *)
THEOREM AcceptorTypeCorrect == AcceptorAloneSpec => []AcceptorTypeOK
  <1>1. AcceptorInv => AcceptorTypeOK
    BY DEF AcceptorInv
  <1>. QED  BY <1>1, AcceptorCorrect, PTL

(* The periodic repeater never reads an instance without a stored value. *)
THEOREM RepeaterSafe == AcceptorAloneSpec => []RepeaterFindsValue
  <1>1. AcceptorInv => RepeaterFindsValue
    BY DEF AcceptorInv
  <1>. QED  BY <1>1, AcceptorCorrect, PTL

(* acc_apply_prepare and the three saves keep ballot, value and value ballot of a
   record in step. *)
THEOREM RecordsCoherentCorrect == AcceptorAloneSpec => []RecordsCoherent
  <1>1. AcceptorInv => RecordsCoherent
    BY DEF AcceptorInv
  <1>. QED  BY <1>1, AcceptorCorrect, PTL

-----------------------------------------------------------------------------
(* Histories: what was sent and stored before. *)

(* Values in promises and acknowledgements were asked for at their ballots. *)
THEOREM NothingInventedCorrect == AcceptorAloneSpec => []NothingInvented
PROOF
  <1>1. AcceptorAloneInit => Provenance
    <2>. SUFFICES ASSUME AcceptorAloneInit PROVE Provenance
      OBVIOUS
    <2>1. AcceptorInv
      BY AcceptorInitInv DEF AcceptorAloneInit
    <2>2. StoredAsked
      BY RecordFields DEF AcceptorAloneInit, AcceptorInit, StoredAsked
    <2>. QED  BY <2>1, <2>2 DEF AcceptorAloneInit, NothingInvented, Provenance
  <1>2. Provenance /\ [AcceptorAloneNext]_acceptorVars => Provenance'
    <2>. SUFFICES ASSUME Provenance, [AcceptorAloneNext]_acceptorVars
                  PROVE  Provenance'
      OBVIOUS
    <2>1. AcceptorInv'
      <3>1. CASE \E a \in Acceptors : AcceptorStep(a)
        BY <3>1, AcceptorStepInv DEF Provenance
      <3>2. CASE RequestPrepares \/ RequestAccepts \/ RequestRepeats
        BY <3>2, RequestInv DEF Provenance
      <3>3. CASE UNCHANGED acceptorVars
        BY <3>3 DEF Provenance, acceptorVars, AcceptorInv, AcceptorTypeOK,
                    RecordsCoherent, RepeaterFindsValue
      <3>. QED  BY <3>1, <3>2, <3>3 DEF AcceptorAloneNext
    <2>2. CASE UpdateOnDeliver
      BY <2>1, <2>2 DEF Provenance, NothingInvented, StoredAsked
    <2>3. CASE ~ UpdateOnDeliver
      <3>1. CASE \E a \in Acceptors : AcceptorStep(a)
        <4>1. PICK a \in Acceptors : AcceptorStep(a)
          BY <3>1
        <4>2. ~ DeliverCallback(a)
          BY <2>3 DEF DeliverCallback
        <4>. QED
          BY <2>1, <2>3, <4>1, <4>2, PrepareProvenance, AcceptProvenance,
             OtherProvenance DEF AcceptorStep, Provenance
      <3>2. CASE RequestPrepares \/ RequestAccepts \/ RequestRepeats
        <4>1. /\ msgs \subseteq msgs'
              /\ UNCHANGED store
              /\ \A m \in msgs' \ msgs :
                    m.type # "accept_ack" /\ m.type # "prepare_acks"
          BY <3>2 DEF RequestPrepares, RequestAccepts, RequestRepeats,
                      SomeRequest, Send
        <4>. QED  BY <2>1, <2>3, <4>1, ProvenanceFrame DEF Provenance
      <3>3. CASE UNCHANGED acceptorVars
        BY <2>1, <3>3 DEF acceptorVars, Provenance, NothingInvented,
                          StoredAsked, Asked
      <3>. QED  BY <3>1, <3>2, <3>3 DEF AcceptorAloneNext
    <2>. QED  BY <2>2, <2>3
  <1>3. Provenance => NothingInvented
    BY DEF Provenance
  <1>. QED  BY <1>1, <1>2, <1>3, PTL DEF AcceptorAloneSpec

(* No promise drops a stored value: it is replaced by another or lost with the
   whole store. *)
THEOREM ValueOutlivesPromisesCorrect == AcceptorAloneSpec => ValueOutlivesPromises
PROOF
  <1>1. AcceptorInv /\ [AcceptorAloneNext]_acceptorVars =>
            [\A a \in Acceptors :
                \/ \A i \in Iids :
                      store[a][i].value # NoValue => store'[a][i].value # NoValue
                \/ \A i \in Iids : store'[a][i] = NoRecord]_acceptorVars
    <2>. SUFFICES ASSUME AcceptorInv, AcceptorAloneNext, NEW b \in Acceptors
                  PROVE  \/ \A i \in Iids : store[b][i].value # NoValue =>
                                             store'[b][i].value # NoValue
                         \/ \A i \in Iids : store'[b][i] = NoRecord
      BY Zenon
    <2>1. CASE \E a \in Acceptors : AcceptorStep(a)
      BY <2>1, StepKeepsValues
    <2>2. CASE RequestPrepares \/ RequestAccepts \/ RequestRepeats
      BY <2>2 DEF RequestPrepares, RequestAccepts, RequestRepeats, SomeRequest
    <2>. QED  BY <2>1, <2>2 DEF AcceptorAloneNext
  <1>. QED  BY <1>1, AcceptorCorrect, PTL DEF AcceptorAloneSpec, ValueOutlivesPromises

=============================================================================
