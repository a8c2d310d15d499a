------------------------------ MODULE Acceptor ------------------------------
(***************************************************************************)
(* The acceptor process (lib/acceptor.c) on top of its record store        *)
(* (lib/acceptor_stable_storage.c).  An acceptor keeps one record per      *)
(* instance and reacts to three kinds of datagram: batches of prepare      *)
(* requests, of accept requests and of repeat requests.  It also repeats   *)
(* its latest accept on a timer, may be told of a decision by the learner  *)
(* it runs on (ACCEPTOR_UPDATE_ON_DELIVER), and may restart.               *)
(***************************************************************************)
EXTENDS PaxosMessages

CONSTANTS
    UpdateOnDeliver, \* ACCEPTOR_UPDATE_ON_DELIVER is defined
    Durable          \* DURABILITY_MODE keeps the store across a crash

ASSUME AcceptorAssumption ==
    /\ UpdateOnDeliver \in BOOLEAN
    /\ Durable \in BOOLEAN

VARIABLES
    store,                \* store[a][i]: the record a holds for instance i
    highest_accepted_iid  \* where the periodic repeater looks

acceptorVars == <<msgs, store, highest_accepted_iid>>

-----------------------------------------------------------------------------
(* Helpers: when a request is applied and the record it leaves.             *)

\* acc_apply_accept drops the request only when the stored ballot is LOWER.
AcceptApplies(rec, ar) == ~ (rec # NoRecord /\ rec.ballot < ar.ballot)

\* Variant: the value ballot is forgotten.
SavedAcceptAtNoBallot(ar) ==
    [ballot |-> ar.ballot, value_ballot |-> 0, is_final |-> FALSE,
     value |-> ar.value]

SavedAccept(ar) ==
    [ballot |-> ar.ballot, value_ballot |-> ar.ballot, is_final |-> FALSE,
     value |-> ar.value]

PrepareApplies(rec, pr) ==
    ~ (rec # NoRecord /\ (rec.ballot >= pr.ballot \/ rec.is_final))

\* Variant: a promise starts the record afresh.
SavedPrepareDropsValue(rec, pr) ==
    [NoRecord EXCEPT !.ballot = pr.ballot]

SavedPrepare(rec, pr) ==
    [ballot |-> pr.ballot, value_ballot |-> rec.value_ballot,
     is_final |-> rec.is_final, value |-> rec.value]

SavedFinal(ack) ==
    [ballot |-> ack.ballot, value_ballot |-> ack.ballot, is_final |-> TRUE,
     value |-> ack.value]

\* Variant: value_size is not tested.
HoldsAnyRecord(rec) == rec # NoRecord

\* A record whose value can be sent to the learners.
HoldsValue(rec) == rec # NoRecord /\ rec.value # NoValue

-----------------------------------------------------------------------------
(* The handlers.                                                            *)

\* The records of a after the loop over a prepare batch: each element meets
\* acc_apply_prepare with the record of its own instance.
Granted(a, reqs) == {pr \in reqs : PrepareApplies(store[a][pr.iid], pr)}

AfterPrepares(a, reqs) ==
    [i \in Iids |->
        IF \E pr \in Granted(a, reqs) : pr.iid = i
        THEN SavedPrepare(store[a][i],
                          CHOOSE pr \in Granted(a, reqs) : pr.iid = i)
        ELSE store[a][i]]

\* Variant: the value is reported with the ballot promised.
PrepareAckAtPromise(i, rec) ==
    [iid |-> i, ballot |-> rec.ballot,
     value_ballot |-> IF rec.value = NoValue THEN 0 ELSE rec.ballot,
     value |-> rec.value]

\* sendbuf_add_prepare_ack copies the record just saved.
PrepareAckOf(i, rec) ==
    [iid |-> i, ballot |-> rec.ballot, value_ballot |-> rec.value_ballot,
     value |-> rec.value]

\* handle_prepare_req_batch
HandlePrepareReqBatch(a) ==
    \E m \in msgs :
        /\ m.type = "prepare_reqs"
        /\ Granted(a, m.reqs) # {}
        /\ store' = [store EXCEPT ![a] = AfterPrepares(a, m.reqs)]
        /\ Send({[type |-> "prepare_acks", acceptor |-> a,
                  acks |-> {PrepareAckOf(pr.iid, AfterPrepares(a, m.reqs)[pr.iid]) :
                               pr \in Granted(a, m.reqs)}]})
        /\ UNCHANGED highest_accepted_iid

\* The same for a batch of accept requests and acc_apply_accept.
Applied(a, reqs) == {ar \in reqs : AcceptApplies(store[a][ar.iid], ar)}

AfterAccepts(a, reqs) ==
    [i \in Iids |->
        IF \E ar \in Applied(a, reqs) : ar.iid = i
        THEN SavedAccept(CHOOSE ar \in Applied(a, reqs) : ar.iid = i)
        ELSE store[a][i]]

\* acc_apply_accept keeps the running maximum: h is the largest of the value
\* before the batch and the instances applied.
IsHighest(h, a, reqs) ==
    LET seen == {highest_accepted_iid[a]} \cup {ar.iid : ar \in Applied(a, reqs)}
    IN h \in seen /\ \A i \in seen : i <= h

\* handle_accept_req_batch; the commit (stablestorage_tx_end) and the answer
\* (sendbuf_flush) are one step here and several in AcceptorDisk.
HandleAcceptReqBatch(a) ==
    \E m \in msgs :
        /\ m.type = "accept_reqs"
        /\ Applied(a, m.reqs) # {}
        /\ store' = [store EXCEPT ![a] = AfterAccepts(a, m.reqs)]
        /\ \E h \in Iids \cup {0} :
              /\ IsHighest(h, a, m.reqs)
              /\ highest_accepted_iid' = [highest_accepted_iid EXCEPT ![a] = h]
        /\ Send({AcceptAck(a, ar.iid, AfterAccepts(a, m.reqs)[ar.iid]) :
                    ar \in Applied(a, m.reqs)})

\* handle_repeat_req_batch: the acknowledgement is a copy of the record, so it
\* carries the ballot last PROMISED, not the one the value was accepted at.
HandleRepeatReqBatch(a) ==
    \E m \in msgs :
        /\ m.type = "repeat_reqs"
        /\ Send({AcceptAck(a, i, store[a][i]) :
                    i \in {j \in m.iids : HoldsValue(store[a][j])}})
        /\ UNCHANGED <<store, highest_accepted_iid>>

\* acc_periodic_repeater and acc_retransmit_latest_accept; the record is read
\* and copied without a test that it exists.
PeriodicRepeater(a) ==
    /\ highest_accepted_iid[a] > 0
    /\ Send({AcceptAck(a, highest_accepted_iid[a],
                       store[a][highest_accepted_iid[a]])})
    /\ UNCHANGED <<store, highest_accepted_iid>>

\* The acknowledgements from which the acceptor's own learner may deliver:
\* a quorum at one ballot, or one final record (lea_check_quorum).
Deliverable(ack) ==
    \/ ack.is_final
    \/ \E quorum \in Quorums : \A b \in quorum :
          \E m \in msgs :
              /\ m.type = "accept_ack"
              /\ m.acceptor = b
              /\ m.iid = ack.iid
              /\ m.ballot = ack.ballot

\* acc_deliver_callback, invoked by the learner the acceptor runs on.
DeliverCallback(a) ==
    /\ UpdateOnDeliver
    /\ \E ack \in msgs :
          /\ ack.type = "accept_ack"
          /\ Deliverable(ack)
          /\ store' = [store EXCEPT ![a][ack.iid] = SavedFinal(ack)]
    /\ UNCHANGED <<msgs, highest_accepted_iid>>

\* Variant: the repeater survives the restart.
RestartKeepsHighest(a, recover) ==
    /\ store' = [store EXCEPT ![a] = IF recover /\ Durable
                                     THEN store[a]
                                     ELSE [i \in Iids |-> NoRecord]]
    /\ UNCHANGED <<msgs, highest_accepted_iid>>

\* The process dies and is started again: by acceptor_init, which empties the
\* database directory, or by acceptor_init_recover, which keeps what the
\* durability mode kept: all of it or, here, nothing (without durability a part may
\* have been written, see AcceptorDisk).  highest_accepted_iid is a static
\* variable: it starts from 0 in both cases.
Restart(a, recover) ==
    /\ store' = [store EXCEPT ![a] = IF recover /\ Durable
                                     THEN store[a]
                                     ELSE [i \in Iids |-> NoRecord]]
    /\ highest_accepted_iid' = [highest_accepted_iid EXCEPT ![a] = 0]
    /\ UNCHANGED msgs

AcceptorInit ==
    /\ store = [a \in Acceptors |-> [i \in Iids |-> NoRecord]]
    /\ highest_accepted_iid = [a \in Acceptors |-> 0]

\* One event of acceptor a's loop, or the loss of its process.
AcceptorStep(a) ==
    \/ HandlePrepareReqBatch(a)
    \/ HandleAcceptReqBatch(a)
    \/ HandleRepeatReqBatch(a)
    \/ PeriodicRepeater(a)
    \/ DeliverCallback(a)
    \/ \E recover \in BOOLEAN : Restart(a, recover)

-----------------------------------------------------------------------------
(* Properties of the acceptor, whoever sends it requests.                   *)

(* The messages and records are well formed: in particular no acknowledgement
   is ever built from a record that does not exist. *)
AcceptorTypeOK ==
    /\ msgs \subseteq Message
    /\ store \in [Acceptors -> [Iids -> Record \cup {NoRecord}]]
    /\ highest_accepted_iid \in [Acceptors -> Iids \cup {0}]

(* A record never claims a value accepted at a ballot above the one it is
   promised to, and has a value exactly when it has a value ballot: this is
   what pro_save_prepare_ack relies on when it compares value ballots. *)
RecordsCoherent ==
    \A a \in Acceptors, i \in Iids :
        LET rec == store[a][i]
        IN /\ rec.value_ballot <= rec.ballot
           /\ rec.value = NoValue <=> rec.value_ballot = 0

(* acc_retransmit_latest_accept copies the record of highest_accepted_iid
   without testing that it exists or holds a value: it always does, across
   promises, decisions and restarts. *)
RepeaterFindsValue ==
    \A a \in Acceptors :
        highest_accepted_iid[a] > 0 =>
            HoldsValue(store[a][highest_accepted_iid[a]])

(* Acceptors invent nothing: a value reported for an instance, to a proposer in
   a promise or to a learner in an acknowledgement however often it is repeated,
   was asked for in that instance by an accept request of exactly the value
   ballot reported with it.  (Without ACCEPTOR_UPDATE_ON_DELIVER, which stores
   the ballot the learner delivered at.) *)
Asked(i, b, v) ==
    \E m \in msgs :
        /\ m.type = "accept_reqs"
        /\ [iid |-> i, ballot |-> b, value |-> v] \in m.reqs

NothingInvented ==
    ~ UpdateOnDeliver =>
        \A m \in msgs :
            /\ m.type = "accept_ack" => Asked(m.iid, m.value_ballot, m.value)
            /\ m.type = "prepare_acks" =>
                  \A pa \in m.acks :
                      pa.value # NoValue =>
                          Asked(pa.iid, pa.value_ballot, pa.value)

(* A value once stored is replaced by another value, never dropped by a promise
   (stablestorage_save_prepare must change the ballot and keep the rest).  Apart
   from that it is lost only with the whole store, which is how Restart loses it;
   the loss of single records in a crash is left to AcceptorDisk. *)
ValueOutlivesPromises ==
    [][\A a \in Acceptors :
          \/ \A i \in Iids :
                store[a][i].value # NoValue => store'[a][i].value # NoValue
          \/ \A i \in Iids : store'[a][i] = NoRecord]_acceptorVars

=============================================================================
