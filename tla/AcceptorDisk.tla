---------------------------- MODULE AcceptorDisk ----------------------------
(***************************************************************************)
(* One acceptor at the grain of its transactions: what a handler of        *)
(* lib/acceptor.c does between the first read of a batch and the last      *)
(* sendto, on a store (lib/acceptor_stable_storage.c) whose durability is  *)
(* set at compile time and a send buffer (lib/udp_sendbuf.c) that may have *)
(* to be flushed in the middle of a batch.  The process and the operating  *)
(* system may crash between any two steps.                                 *)
(*                                                                         *)
(* store[this_acceptor_id] is the database as the process reads it.  Below *)
(* it are two layers: what outlives the process and what outlives the      *)
(* operating system.  Berkeley DB is modelled as paxos_config.h describes  *)
(* the durability modes: a crash may take records out of a file that no    *)
(* log protects.  A file is not torn inside a record, and a read does not  *)
(* fail.                                                                   *)
(***************************************************************************)
EXTENDS AcceptorAlone, Sequences

CONSTANTS
    this_acceptor_id,
    Modes,             \* values of DURABILITY_MODE to consider
    MAX_UDP_MSG_SIZE   \* in units of one header or one element without value

ASSUME AcceptorDiskAssumption ==
    /\ this_acceptor_id \in Acceptors
    /\ Modes \subseteq {0, 10, 11, 12, 13, 20}
    /\ MAX_UDP_MSG_SIZE \in Nat

VARIABLES
    mode,           \* DURABILITY_MODE
    pc,             \* where the event loop is
    os,             \* what a crash of the process leaves of the database
    disk,           \* what a crash of the operating system leaves of it
    db_exists,      \* the database file is there
    todo,           \* elements of the batch still to be handled
    kind,           \* type of the batch
    record_buffer,  \* the one static buffer records are read into and built in
    sb,             \* elements in the send buffer, in order
    msg_size,       \* PAXOS_MSG_SIZE of the message there
    granted,        \* history: instances of the batch that must be answered
    answers,        \* history: elements of the batch's answers already sent
    last_answer,    \* history: record last sent, if that was the last thing
                    \* done to the instance and no crash may have undone it
    cut_off         \* history: accepts whose acknowledgement was waiting in the
                    \* process when it ended

batchVars == <<todo, kind, record_buffer, sb, msg_size, granted, answers>>
layerVars == <<os, disk, db_exists, cut_off>>
vars == <<msgs, store, highest_accepted_iid, mode, pc, layerVars, batchVars, last_answer>>

NoRecords == [i \in Iids |-> NoRecord]

\* The database as the process reads it.
db == store[this_acceptor_id]

-----------------------------------------------------------------------------
(* The store.                                                               *)

\* No log on disk: none at all, or (10) one in memory.
NoLog == {0, 10, 20}

\* What stablestorage_tx_end reaches: commit, or (20) DB->sync, or nothing.
WrittenAtCommit == {11, 12, 13, 20}
SyncedAtCommit  == {13, 20}

Committed ==
    /\ os'   = IF mode \in WrittenAtCommit THEN db ELSE os
    /\ disk' = IF mode \in SyncedAtCommit THEN db ELSE disk

\* paxos_config.h, "Durability despite process crash" and "despite OS crash"; 20,
\* which "may corrupt database file on crash", is left out.
OutlivesProcess == {11, 12, 13}
OutlivesOS      == {13}

\* Without a log on disk a page may be written at any time.
WritePage ==
    /\ pc # "down"
    /\ mode \in NoLog
    /\ \E i \in Iids :
          /\ os' = [os EXCEPT ![i] = db[i]]
          /\ disk' = [disk EXCEPT ![i] = db[i]]
    /\ UNCHANGED <<acceptorVars, mode, pc, db_exists, cut_off, batchVars, last_answer>>

\* The operating system writes the log of the modes that do not wait for it.
WriteLog ==
    /\ mode \in {11, 12}
    /\ disk' = os
    /\ UNCHANGED <<acceptorVars, mode, pc, os, db_exists, cut_off, batchVars,
                   last_answer>>

\* stablestorage_get_record, into the buffer; a record that is not there leaves
\* the buffer as it was.  (A failed read, which the code prints and then takes for
\* a missing record, is not modelled.)
GetRecord(i) ==
    IF db[i] = NoRecord THEN record_buffer ELSE [iid |-> i, rec |-> db[i]]

\* Variant: in a new record the fields of the buffer keep what they held.
SavePrepareUncleared(buffer, pr) ==
    [iid |-> pr.iid,
     rec |-> [buffer.rec EXCEPT !.ballot = pr.ballot]]

\* stablestorage_save_prepare: what it leaves in the buffer and puts under pr.iid.
SavePrepare(buffer, pr) ==
    [iid |-> pr.iid,
     rec |-> IF db[pr.iid] # NoRecord THEN [buffer.rec EXCEPT !.ballot = pr.ballot]
             ELSE [ballot |-> pr.ballot, value_ballot |-> 0, is_final |-> FALSE,
                   value |-> NoValue]]

-----------------------------------------------------------------------------
(* The send buffer.                                                         *)

\* PREPARE_ACK_SIZE and ACCEPT_ACK_SIZE: a value counts for as much again.
SizeOf(rec) == IF rec.value = NoValue THEN 1 ELSE 2

\* sendbuf_clear leaves the header.
HeaderSize == 1

\* prepare_ack_batch_size_calc and accept_ack_batch_size_calc: the size of a message
\* as its receiver finds it, element by element.
BatchSize(els) ==
    LET upTo[n \in 0 .. Len(els)] ==
            IF n = 0 THEN HeaderSize ELSE upTo[n - 1] + SizeOf(els[n].rec)
    IN upTo[Len(els)]

\* Variant: the element to add is not counted.
FitsUncounted(rec) == msg_size < MAX_UDP_MSG_SIZE

Fits(rec) == msg_size + SizeOf(rec) < MAX_UDP_MSG_SIZE

Datagrams(els) ==
    IF els = <<>> THEN {}
    ELSE IF kind = "prepare_reqs"
    THEN {[type |-> "prepare_acks", acceptor |-> this_acceptor_id,
           acks |-> {PrepareAckOf(els[n].iid, els[n].rec) : n \in DOMAIN els}]}
    ELSE {AcceptAck(this_acceptor_id, els[n].iid, els[n].rec) : n \in DOMAIN els}

\* sendbuf_flush
Flushed ==
    /\ Send(Datagrams(sb))
    /\ last_answer' =
          [i \in Iids |-> IF \E n \in DOMAIN sb : sb[n].iid = i
                          THEN sb[CHOOSE n \in DOMAIN sb : sb[n].iid = i].rec
                          ELSE last_answer[i]]

-----------------------------------------------------------------------------
(* The handlers, step by step.                                              *)

\* sendbuf_clear and stablestorage_tx_begin at the top of a handler.
Begin(type, elements) ==
    /\ pc = "idle"
    /\ pc' = "loop"
    /\ kind' = type
    /\ todo' = elements
    /\ sb' = <<>> /\ msg_size' = HeaderSize
    /\ UNCHANGED <<acceptorVars, mode, layerVars, record_buffer, granted, answers,
                   last_answer>>

ReceiveBatch ==
    \E m \in msgs :
        \/ m.type \in {"prepare_reqs", "accept_reqs"} /\ Begin(m.type, m.reqs)
        \/ m.type = "repeat_reqs" /\ Begin(m.type, {[iid |-> i] : i \in m.iids})

\* The elements come in the order of their instances.
IsNext(r) == r \in todo /\ \A o \in todo : r.iid <= o.iid

\* acc_apply_prepare or acc_apply_accept returned NULL, or there is no value to
\* repeat.
Skip(r) ==
    /\ record_buffer' = GetRecord(r.iid)
    /\ todo' = todo \ {r}
    /\ UNCHANGED <<acceptorVars, mode, pc, layerVars, kind, sb, msg_size, granted,
                   answers, last_answer>>

\* sendbuf_add_prepare_ack or sendbuf_add_accept_ack of the record in the buffer;
\* if it does not fit, the handler goes on at SplitCommit.
Add(r) ==
    /\ todo' = todo \ {r}
    /\ granted' = granted \cup {r.iid}
    /\ IF Fits(record_buffer'.rec)
       THEN /\ sb' = Append(sb, record_buffer')
            /\ msg_size' = msg_size + SizeOf(record_buffer'.rec)
            /\ pc' = pc
       ELSE /\ pc' = "split"
            /\ UNCHANGED <<sb, msg_size>>
    /\ UNCHANGED <<msgs, mode, layerVars, kind, answers>>

\* dbp->put of the buffer.
Put(r) ==
    /\ store' = [store EXCEPT ![this_acceptor_id][r.iid] = record_buffer'.rec]
    /\ last_answer' = [last_answer EXCEPT ![r.iid] = NoRecord]

PrepareElement ==
    /\ pc = "loop" /\ kind = "prepare_reqs"
    /\ \E pr \in todo :
          /\ IsNext(pr)
          /\ IF PrepareApplies(db[pr.iid], pr)
             THEN /\ record_buffer' = SavePrepare(GetRecord(pr.iid), pr)
                  /\ Put(pr)
                  /\ Add(pr)
                  /\ UNCHANGED highest_accepted_iid
             ELSE Skip(pr)

AcceptElement ==
    /\ pc = "loop" /\ kind = "accept_reqs"
    /\ \E ar \in todo :
          /\ IsNext(ar)
          /\ IF AcceptApplies(db[ar.iid], ar)
             THEN /\ record_buffer' = [iid |-> ar.iid, rec |-> SavedAccept(ar)]
                  /\ Put(ar)
                  /\ Add(ar)
                  /\ highest_accepted_iid' =
                        [highest_accepted_iid EXCEPT
                            ![this_acceptor_id] = IF ar.iid > @ THEN ar.iid ELSE @]
             ELSE Skip(ar)

RepeatElement ==
    /\ pc = "loop" /\ kind = "repeat_reqs"
    /\ \E rr \in todo :
          /\ IsNext(rr)
          /\ IF HoldsValue(db[rr.iid])
             THEN /\ record_buffer' = GetRecord(rr.iid)
                  /\ Add(rr)
                  /\ UNCHANGED <<store, highest_accepted_iid, last_answer>>
             ELSE Skip(rr)

\* Variant: the message is flushed before the transaction ends.
SplitCommitLate ==
    /\ pc = "split"
    /\ pc' = "split_flush"
    /\ UNCHANGED <<acceptorVars, mode, layerVars, batchVars, last_answer>>

\* The element does not fit: stablestorage_tx_end,
SplitCommit ==
    /\ pc = "split"
    /\ Committed
    /\ pc' = "split_flush"
    /\ UNCHANGED <<acceptorVars, mode, db_exists, cut_off, batchVars, last_answer>>

\* Variant: the message flushed is not cleared.
SplitFlushUncleared ==
    /\ pc = "split_flush"
    /\ Flushed
    /\ answers' = answers \o sb
    /\ sb' = Append(sb, record_buffer)
    /\ msg_size' = msg_size + SizeOf(record_buffer.rec)
    /\ pc' = "loop"
    /\ UNCHANGED <<store, highest_accepted_iid, mode, layerVars, todo, kind,
                   record_buffer, granted>>

\* Variant: the element that did not fit is not added to the next message.
SplitFlushForgets ==
    /\ pc = "split_flush"
    /\ Flushed
    /\ answers' = answers \o sb
    /\ sb' = <<>>
    /\ msg_size' = HeaderSize
    /\ pc' = "loop"
    /\ UNCHANGED <<store, highest_accepted_iid, mode, layerVars, todo, kind,
                   record_buffer, granted>>

\* sendbuf_flush, sendbuf_clear, stablestorage_tx_begin, and the element is added,
\* whatever its size.
SplitFlush ==
    /\ pc = "split_flush"
    /\ Flushed
    /\ answers' = answers \o sb
    /\ sb' = <<record_buffer>>
    /\ msg_size' = HeaderSize + SizeOf(record_buffer.rec)
    /\ pc' = "loop"
    /\ UNCHANGED <<store, highest_accepted_iid, mode, layerVars, todo, kind,
                   record_buffer, granted>>

\* The end of a handler: stablestorage_tx_end,
EndTransaction ==
    /\ pc = "loop" /\ todo = {}
    /\ Committed
    /\ pc' = "flush"
    /\ UNCHANGED <<acceptorVars, mode, db_exists, cut_off, batchVars, last_answer>>

\* and sendbuf_flush.  Nothing reads the buffer again before sendbuf_clear.
FlushAnswers ==
    /\ pc = "flush"
    /\ Flushed
    /\ pc' = "idle"
    /\ sb' = <<>> /\ msg_size' = HeaderSize /\ kind' = "none" /\ granted' = {} /\ answers' = <<>>
    /\ UNCHANGED <<store, highest_accepted_iid, mode, layerVars, todo, record_buffer>>

\* acc_retransmit_latest_accept: one record, read and added without a test.
RepeatLatest ==
    /\ pc = "idle"
    /\ highest_accepted_iid[this_acceptor_id] > 0
    /\ record_buffer' = GetRecord(highest_accepted_iid[this_acceptor_id])
    /\ sb' = <<record_buffer'>>
    /\ msg_size' = HeaderSize + SizeOf(record_buffer'.rec)
    /\ kind' = "repeat_reqs"
    /\ todo' = {}
    /\ granted' = {highest_accepted_iid[this_acceptor_id]}
    /\ pc' = "loop"
    /\ UNCHANGED <<acceptorVars, mode, layerVars, answers, last_answer>>

\* acc_deliver_callback: save and commit; nothing is sent.
SaveFinal ==
    /\ pc = "idle"
    /\ UpdateOnDeliver
    /\ \E ack \in msgs :
          /\ ack.type = "accept_ack"
          /\ Deliverable(ack)
          /\ record_buffer' = [iid |-> ack.iid, rec |-> SavedFinal(ack)]
          /\ Put(ack)
    /\ pc' = "final"
    /\ UNCHANGED <<msgs, highest_accepted_iid, mode, layerVars, todo, kind, sb,
                   msg_size, granted, answers>>

CommitFinal ==
    /\ pc = "final"
    /\ Committed
    /\ pc' = "idle"
    /\ UNCHANGED <<acceptorVars, mode, db_exists, cut_off, batchVars, last_answer>>

-----------------------------------------------------------------------------
(* Crashes, shutdown and start.                                             *)

\* An element of the send buffer as the accept request it answers.
RequestOf(e) ==
    [iid |-> e.iid, ballot |-> e.rec.value_ballot, value |-> e.rec.value]

\* The accepts whose acknowledgement is in the send buffer, or waits for the flush
\* that makes room for it.
Unsent ==
    IF kind # "accept_reqs" THEN {}
    ELSE {RequestOf(sb[n]) : n \in DOMAIN sb}
            \cup (IF pc \in {"split", "split_flush"} THEN {RequestOf(record_buffer)}
                                                   ELSE {})

\* The process is gone: its static variables will start from zero.
Down ==
    /\ pc' = "down"
    /\ highest_accepted_iid' = [highest_accepted_iid EXCEPT ![this_acceptor_id] = 0]
    /\ todo' = {} /\ kind' = "none" /\ sb' = <<>> /\ msg_size' = HeaderSize
    /\ record_buffer' = [iid |-> 0, rec |-> NoRecord]
    /\ granted' = {} /\ answers' = <<>>
    /\ cut_off' = cut_off \cup Unsent
    /\ UNCHANGED <<msgs, mode, db_exists>>

\* What a crash leaves of a layer: all of it, or, without a log, any part.
Survivors(layer) ==
    {[i \in Iids |-> IF i \in lost THEN NoRecord ELSE layer[i]] :
        lost \in IF mode \in NoLog THEN SUBSET Iids ELSE {{}}}

ProcessCrash ==
    /\ pc # "down"
    /\ Down
    /\ os' \in Survivors(os)
    /\ store' = [store EXCEPT ![this_acceptor_id] = os']
    /\ last_answer' = IF mode \in OutlivesProcess THEN last_answer ELSE NoRecords
    /\ UNCHANGED disk

OSCrash ==
    /\ Down
    /\ disk' \in Survivors(disk)
    /\ os' = disk'
    /\ store' = [store EXCEPT ![this_acceptor_id] = disk']
    /\ last_answer' = IF mode \in OutlivesOS THEN last_answer ELSE NoRecords

\* acceptor_exit: stablestorage_shutdown closes the database, which writes it to
\* disk.  The application's thread calls it wherever the event loop is (the FIXME in
\* libpaxos.h): a transaction that is open may be undone, or written as it is.
Exit ==
    /\ pc # "down"
    /\ Down
    /\ os' \in IF pc = "idle" \/ mode \in {0, 20} THEN {db} ELSE {os, db}
    /\ store' = [store EXCEPT ![this_acceptor_id] = os']
    /\ last_answer' = IF mode \in OutlivesProcess \/ os' = db THEN last_answer
                                                            ELSE NoRecords
    /\ disk' = os'

\* acceptor_init or acceptor_init_recover, as far as stablestorage_init: recovery
\* wants a database file, and without recovery the directory is emptied.  When "rm"
\* fails the code says so and opens what is still there.
Start(do_recovery, emptied) ==
    /\ pc = "down"
    /\ do_recovery => db_exists /\ ~ emptied
    /\ pc' = "idle"
    /\ db_exists' = TRUE
    /\ IF emptied
       THEN /\ store' = [store EXCEPT ![this_acceptor_id] = NoRecords]
            /\ os' = NoRecords
            /\ disk' = NoRecords
            /\ last_answer' = NoRecords
       ELSE UNCHANGED <<store, os, disk, last_answer>>
    /\ UNCHANGED <<msgs, highest_accepted_iid, mode, cut_off, batchVars>>

-----------------------------------------------------------------------------
Init ==
    /\ msgs = {}
    /\ AcceptorInit
    /\ mode \in Modes
    /\ pc = "down"
    /\ os = NoRecords /\ disk = NoRecords /\ db_exists = FALSE
    /\ todo = {} /\ kind = "none" /\ sb = <<>> /\ msg_size = HeaderSize
    /\ record_buffer = [iid |-> 0, rec |-> NoRecord]
    /\ granted = {} /\ answers = <<>>
    /\ last_answer = NoRecords /\ cut_off = {}

\* Any well-formed batch, as in AcceptorAlone.
SomeoneRequests ==
    /\ \/ RequestPrepares
       \/ RequestAccepts
       \/ RequestRepeats
    /\ UNCHANGED <<mode, pc, layerVars, batchVars, last_answer>>

Next ==
    \/ SomeoneRequests
    \/ ReceiveBatch
    \/ PrepareElement
    \/ AcceptElement
    \/ RepeatElement
    \/ SplitCommit
    \/ SplitFlush
    \/ EndTransaction
    \/ FlushAnswers
    \/ RepeatLatest
    \/ SaveFinal
    \/ CommitFinal
    \/ WritePage
    \/ WriteLog
    \/ ProcessCrash
    \/ OSCrash
    \/ Exit
    \/ \E do_recovery, emptied \in BOOLEAN : Start(do_recovery, emptied)

Spec == Init /\ [][Next]_vars

-----------------------------------------------------------------------------
(* Properties.                                                              *)

(* The shape of the state; in particular an acknowledgement sent has the value
   and the instance a message of its kind must have. *)
DiskTypeOK ==
    /\ msgs \subseteq Message
    /\ store \in [Acceptors -> [Iids -> Record \cup {NoRecord}]]
    /\ os \in [Iids -> Record \cup {NoRecord}]
    /\ disk \in [Iids -> Record \cup {NoRecord}]
    /\ \A n \in DOMAIN sb : sb[n].iid \in Iids /\ sb[n].rec \in Record

(* acceptor.c, before handle_prepare_req_batch and handle_accept_req_batch: the
   updates are "wrapped into transactions and made persistent before sending the
   corresponding acknowledgement".  If the last thing an acceptor did to an
   instance was to send its record, that is the record it has, at whatever step
   the process ends or crashes in the transactional modes 11, 12 and 13, and the
   operating system in mode 13, and however the batch was split.  Modes 0 and 10
   promise nothing after a crash, and 20 "may corrupt database file on crash"
   (paxos_config.h): there the claim lasts until the next crash. *)
AnsweredIsKept ==
    \A i \in Iids : last_answer[i] # NoRecord => db[i] = last_answer[i]

(* A batch is answered element by element, each one granted once, none of them
   forgotten and no other with them, over however many datagrams the send buffer makes of it. *)
AnsweredOnce ==
    pc = "flush" =>
        LET all == answers \o sb
        IN /\ Len(all) = Cardinality(granted)
           /\ {all[n].iid : n \in DOMAIN all} = granted

(* The message in the buffer is as long as it says, counted the way the receiver
   counts (validate_paxos_msg), and a message of several elements fits
   MAX_UDP_MSG_SIZE, however elements with and without values follow each other
   and wherever the batch is split.  Of a message of one element it says nothing:
   sendbuf_add_prepare_ack and sendbuf_add_accept_ack add the first element
   whatever its size. *)
DatagramFits ==
    /\ msg_size = BatchSize(sb)
    /\ Len(sb) > 1 => msg_size < MAX_UDP_MSG_SIZE

(* All records pass through one static buffer, which get and save use in turn:
   nothing of one instance ends up in the record of another.  A value is stored
   where it was asked for, in the layers below as well. *)
StoredWhereAsked ==
    \A i \in Iids :
        \A rec \in {db[i], os[i], disk[i]} :
            rec.value # NoValue /\ ~ rec.is_final =>
                Asked(i, rec.value_ballot, rec.value)

(* handle_accept_req_batch stores first and announces after: between the commit and
   the flush, of the whole batch or of its first part, a value is in the database
   that no learner was told of.  No promise, split, restart or loss of records
   leaves a silent value behind, only a process that ended in that gap: what is
   stored (and not final) was announced with the ballot it has, or is about to be,
   or was cut off there. *)
Told(i, b, v) ==
    \E m \in msgs :
        /\ m.type = "accept_ack"
        /\ m.acceptor = this_acceptor_id
        /\ m.iid = i
        /\ m.value_ballot = b
        /\ m.value = v

SilentOnlyIfCutOff ==
    \A i \in Iids :
        db[i].value # NoValue /\ ~ db[i].is_final =>
            \/ Told(i, db[i].value_ballot, db[i].value)
            \/ RequestOf([iid |-> i, rec |-> db[i]]) \in Unsent \cup cut_off

=============================================================================
