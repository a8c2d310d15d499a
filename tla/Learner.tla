------------------------------- MODULE Learner -------------------------------
(***************************************************************************)
(* The learner (lib/learner.c): collects accept acknowledgements in a      *)
(* circular buffer of instances, closes an instance when a quorum of       *)
(* acceptors acknowledged it at one ballot, and delivers closed instances  *)
(* in order.  Every process of the system runs one.                        *)
(*                                                                         *)
(* A datagram carries a batch of acknowledgements that                     *)
(* handle_accept_ack_batch handles one after the other; one step here is   *)
(* one acknowledgement, which lets the network split batches.              *)
(***************************************************************************)
EXTENDS PaxosMessages, Sequences

CONSTANTS
    Learners,           \* the processes that run a learner
    LEARNER_ARRAY_SIZE  \* slots of the circular buffer, a power of two

ASSUME LearnerAssumption == LEARNER_ARRAY_SIZE \in Nat \ {0}

VARIABLES
    highest_iid_seen,    \* per learner
    current_iid,         \* next instance to deliver
    highest_iid_closed,
    learner_state,       \* the circular buffer
    delivered            \* history: what the deliver callback was given

learnerVars ==
    <<highest_iid_seen, current_iid, highest_iid_closed, learner_state, delivered>>

-----------------------------------------------------------------------------
Slots == 0 .. LEARNER_ARRAY_SIZE - 1

\* GET_LEA_INSTANCE: the size is a power of two, & (size-1) is % size.
SlotOf(i) == i % LEARNER_ARRAY_SIZE

\* lea_clear_instance_info.  INST_INFO_EMPTY is 0; NoRecord is a NULL pointer.
EmptySlot ==
    [iid |-> 0, last_update_ballot |-> 0,
     acks |-> [a \in Acceptors |-> NoRecord], final_value |-> NoRecord]

Slot ==
    [iid : Iids \cup {0}, last_update_ballot : Ballots \cup {0},
     acks : [Acceptors -> Record \cup {NoRecord}],
     final_value : Record \cup {NoRecord}]

IsClosed(slot) == slot.final_value # NoRecord

\* learner_is_closed
LearnerIsClosed(l, i) ==
    LET slot == learner_state[l][SlotOf(i)]
    IN slot.iid = i /\ IsClosed(slot)

\* What lea_store_accept_ack keeps of an acknowledgement.
AckRecord(m) ==
    [ballot |-> m.ballot, value_ballot |-> m.value_ballot,
     is_final |-> m.is_final, value |-> m.value]

\* Variant: a closed instance still takes acknowledgements.
RelevantWhenClosed(slot, m) ==
    \/ slot.acks[m.acceptor] = NoRecord
    \/ slot.acks[m.acceptor].ballot < m.ballot

\* lea_update_state returns 1: the instance is open and the acceptor has not
\* acknowledged it at this ballot or a higher one.
Relevant(slot, m) ==
    /\ ~ IsClosed(slot)
    /\ slot.acks[m.acceptor] # NoRecord => slot.acks[m.acceptor].ballot < m.ballot

\* Variant: last_update_ballot is set once.
UpdatedFirstBallot(slot, m) ==
    [slot EXCEPT !.iid = m.iid,
                 !.last_update_ballot = IF @ = 0 THEN m.ballot ELSE @,
                 !.acks[m.acceptor] = AckRecord(m)]

\* ... and what it leaves in the slot.  last_update_ballot follows the message
\* stored last, even when its ballot is lower than one stored before.
Updated(slot, m) ==
    [iid |-> m.iid, last_update_ballot |-> m.ballot,
     acks |-> [slot.acks EXCEPT ![m.acceptor] = AckRecord(m)],
     final_value |-> slot.final_value]

\* lea_check_quorum: the stored acknowledgements at the ballot updated last.
Agreeing(slot) ==
    {a \in Acceptors :
        slot.acks[a] # NoRecord /\ slot.acks[a].ballot = slot.last_update_ballot}

FinalAcks(slot) == {a \in Agreeing(slot) : slot.acks[a].is_final}

ReachesQuorum(slot) ==
    FinalAcks(slot) = {} => \E Q \in Quorums : Q \subseteq Agreeing(slot)

\* a_valid_index: the loop stops at the first final acknowledgement, else runs
\* to the last agreeing one.
IsValidIndex(slot, a) ==
    IF FinalAcks(slot) # {}
    THEN a \in FinalAcks(slot) /\ \A b \in FinalAcks(slot) : a <= b
    ELSE a \in Agreeing(slot) /\ \A b \in Agreeing(slot) : b <= a

\* Variant: the comparison is the wrong way round.
NotLarger(x, y) == IF x < y THEN x ELSE y

Larger(x, y) == IF x > y THEN x ELSE y

-----------------------------------------------------------------------------
(* handle_accept_ack, case by case.                                         *)

\* Variant: one instance too many.
OutsideWindowOneMore(l, m) ==
    \/ m.iid < current_iid[l]
    \/ m.iid > current_iid[l] + LEARNER_ARRAY_SIZE

\* An instance already delivered, or so far ahead that its slot may be in use.
OutsideWindow(l, m) ==
    \/ m.iid < current_iid[l]
    \/ m.iid >= current_iid[l] + LEARNER_ARRAY_SIZE

SlotFor(l, m) == learner_state[l][SlotOf(m.iid)]

\* m is taken, and is the last one its instance needed.
Completes(l, m) ==
    /\ ~ OutsideWindow(l, m)
    /\ Relevant(SlotFor(l, m), m)
    /\ ReachesQuorum(Updated(SlotFor(l, m), m))

Ignored(l, m) ==
    /\ OutsideWindow(l, m) \/ ~ Relevant(SlotFor(l, m), m)
    /\ UNCHANGED <<current_iid, highest_iid_closed, learner_state, delivered>>

Recorded(l, m) ==
    /\ ~ OutsideWindow(l, m)
    /\ Relevant(SlotFor(l, m), m)
    /\ ~ ReachesQuorum(Updated(SlotFor(l, m), m))
    /\ learner_state' =
          [learner_state EXCEPT ![l][SlotOf(m.iid)] = Updated(@, m)]
    /\ UNCHANGED <<current_iid, highest_iid_closed, delivered>>

\* The buffer of l once acknowledgement m has closed its instance with the
\* acknowledgement of acceptor a.
ClosedBuffer(l, m, a) ==
    LET slot == Updated(SlotFor(l, m), m)
    IN [learner_state[l] EXCEPT ![SlotOf(m.iid)] =
           [slot EXCEPT !.final_value = slot.acks[a]]]

\* Variant: one instance per acknowledgement.
ClosedRunOfOne(l, buffer, k) == k = 1

\* Variant: the loop looks for the next open instance only after the current one.
ClosedRunUnchecked(l, buffer, k) ==
    /\ k > 0
    /\ k < LEARNER_ARRAY_SIZE => ~ IsClosed(buffer[SlotOf(current_iid[l] + k)])

\* lea_deliver_next_closed delivers the k instances from the current one on:
\* they are closed, and the next is not (its slot was just emptied if k is the
\* whole buffer).
ClosedRun(l, buffer, k) ==
    /\ \A j \in 0 .. k - 1 : IsClosed(buffer[SlotOf(current_iid[l] + j)])
    /\ k < LEARNER_ARRAY_SIZE => ~ IsClosed(buffer[SlotOf(current_iid[l] + k)])

\* The slots a delivered run occupied.
RunSlots(l, k) == {SlotOf(current_iid[l] + j) : j \in 0 .. k - 1}

\* One call of the deliver callback.
DeliveredValue(slot) ==
    [value |-> slot.final_value.value, ballot |-> slot.final_value.ballot]

\* m closes its instance; k instances are delivered, none if it is not the
\* current one.
Closes(l, m, a, k) ==
    /\ Completes(l, m)
    /\ IsValidIndex(Updated(SlotFor(l, m), m), a)
    /\ IF m.iid = current_iid[l]
       THEN ClosedRun(l, ClosedBuffer(l, m, a), k)
       ELSE k = 0
    /\ learner_state' =
          [learner_state EXCEPT ![l] =
              [s \in Slots |-> IF s \in RunSlots(l, k)
                               THEN EmptySlot
                               ELSE ClosedBuffer(l, m, a)[s]]]
    /\ current_iid' = [current_iid EXCEPT ![l] = @ + k]
    /\ delivered' =
          [delivered EXCEPT ![l] =
              @ \o [j \in 1 .. k |->
                      DeliveredValue(ClosedBuffer(l, m, a)
                                        [SlotOf(current_iid[l] + j - 1)])]]
    /\ highest_iid_closed' =
          [highest_iid_closed EXCEPT ![l] = Larger(@, m.iid)]

HandleAcceptAck(l, m) ==
    /\ highest_iid_seen' = [highest_iid_seen EXCEPT ![l] = Larger(@, m.iid)]
    /\ IF Completes(l, m)
       THEN \E a \in Acceptors, k \in 0 .. LEARNER_ARRAY_SIZE : Closes(l, m, a, k)
       ELSE Ignored(l, m) \/ Recorded(l, m)

\* lea_send_repeat_request(from, to): the instances of from .. to-1 whose slot
\* is not closed, whatever instance the slot holds.
RepeatRequest(l, from, to) ==
    [type |-> "repeat_reqs",
     iids |-> {i \in Iids : /\ from <= i /\ i < to
                            /\ ~ IsClosed(learner_state[l][SlotOf(i)])}]

\* lea_hole_check
HoleCheck(l) ==
    LET ahead == highest_iid_seen[l] > current_iid[l] + LEARNER_ARRAY_SIZE
        hole  == highest_iid_closed[l] > current_iid[l]
        to    == IF ahead THEN highest_iid_seen[l] ELSE highest_iid_closed[l]
    IN /\ ahead \/ hole
       /\ RepeatRequest(l, current_iid[l], to).iids # {}
       /\ Send({RepeatRequest(l, current_iid[l], to)})
       /\ UNCHANGED learnerVars

LearnerInit ==
    /\ highest_iid_seen = [l \in Learners |-> 1]
    /\ current_iid = [l \in Learners |-> 1]
    /\ highest_iid_closed = [l \in Learners |-> 0]
    /\ learner_state = [l \in Learners |-> [s \in Slots |-> EmptySlot]]
    /\ delivered = [l \in Learners |-> <<>>]

-----------------------------------------------------------------------------
(* Properties of a learner, whatever acknowledgements reach it.             *)

(* The shape of the learner's state. *)
LearnerTypeOK ==
    /\ highest_iid_seen \in [Learners -> Nat]
    /\ current_iid \in [Learners -> Nat \ {0}]
    /\ highest_iid_closed \in [Learners -> Iids \cup {0}]
    /\ learner_state \in [Learners -> [Slots -> Slot]]
    /\ delivered \in
          [Learners -> Seq([value : Values \cup {NoValue}, ballot : Ballots])]

(* The circular buffer never confuses two instances: a slot in use holds an
   instance of the window current_iid .. current_iid+LEARNER_ARRAY_SIZE-1, in
   the slot that instance maps to.  The assertions of lea_update_state ("ii->iid
   == aa->iid") and lea_deliver_next_closed ("ii->iid == current_iid") rest on
   it. *)
SlotsInWindow ==
    \A l \in Learners, s \in Slots :
        LET slot == learner_state[l][s]
        IN IF slot.iid = 0
           THEN slot = EmptySlot
           ELSE /\ SlotOf(slot.iid) = s
                /\ current_iid[l] <= slot.iid
                /\ slot.iid < current_iid[l] + LEARNER_ARRAY_SIZE

AcksAt(slot, b) == {a \in Acceptors : slot.acks[a] # NoRecord /\ slot.acks[a].ballot = b}

(* No quorum is missed: an instance whose stored acknowledgements hold a quorum
   at any ballot, or a final one, is closed, in whatever order they came (the
   check only counts the ballot of the last one stored). *)
NoMissedQuorum ==
    \A l \in Learners, s \in Slots :
        LET slot == learner_state[l][s]
        IN \/ \E Q \in Quorums, b \in Ballots : Q \subseteq AcksAt(slot, b)
           \/ \E a \in Acceptors : slot.acks[a].is_final
           => IsClosed(slot)

(* An instance is closed on evidence it still holds: its value is one of the
   stored acknowledgements, and either that one is final or a quorum of
   acceptors acknowledged its ballot. *)
ClosedOnEvidence ==
    \A l \in Learners, s \in Slots :
        LET slot == learner_state[l][s]
        IN IsClosed(slot) =>
              /\ \E a \in Acceptors : slot.acks[a] = slot.final_value
              /\ \/ slot.final_value.is_final
                 \/ \E Q \in Quorums :
                       Q \subseteq AcksAt(slot, slot.final_value.ballot)

(* Nothing deliverable is kept back: between two messages the current instance
   is never closed. *)
NothingHeldBack ==
    \A l \in Learners : ~ LearnerIsClosed(l, current_iid[l])

(* A hole is visible: while a closed instance waits in the buffer,
   highest_iid_closed is ahead of current_iid, which is what lea_hole_check
   tests before it asks the acceptors to repeat the missing instances. *)
HoleIsVisible ==
    \A l \in Learners :
        (\E s \in Slots : IsClosed(learner_state[l][s])) =>
            highest_iid_closed[l] > current_iid[l]

(* What an instance closed with is what it delivers: a closed instance stays as
   it is until it is delivered, at its own place in the order and with the value
   it closed with. *)
ClosedIsDelivered ==
    [][\A l \in Learners, s \in Slots :
          LET slot == learner_state[l][s]
          IN IsClosed(slot) =>
                \/ learner_state'[l][s] = slot
                \/ /\ slot.iid \in DOMAIN delivered'[l]
                   /\ delivered'[l][slot.iid] = DeliveredValue(slot)]_learnerVars

=============================================================================
