---------------------------- MODULE PaxosMessages ----------------------------
(***************************************************************************)
(* What every process of the system shares: the compile-time settings of   *)
(* paxos_config.h, the record an acceptor keeps for an instance            *)
(* (acceptor_record, which is also the accept_ack a learner keeps) and the *)
(* datagrams of include/libpaxos_messages.h.                               *)
(*                                                                         *)
(* The network is UDP multicast.  msgs holds every datagram ever sent and  *)
(* nothing is removed from it: a datagram can be lost (never handled),     *)
(* duplicated (handled twice) and reordered.                               *)
(***************************************************************************)
EXTENDS Naturals, FiniteSets

CONSTANTS
    Acceptors,       \* acceptor identifiers, 0 .. N_OF_ACCEPTORS-1
    Iids,            \* instance identifiers; 0 means "none"
    Ballots,         \* ballot numbers proposers use; 0 means "none"
    Values,          \* what clients submit
    NoValue          \* value_size = 0

ASSUME MessagesAssumption ==
    /\ Acceptors \subseteq Nat
    /\ IsFiniteSet(Acceptors)
    /\ Iids \subseteq Nat \ {0}
    /\ Ballots \subseteq Nat \ {0}
    /\ NoValue \notin Values

VARIABLE msgs  \* every datagram sent

\* sendbuf_flush: nothing leaves when nothing was added to the buffer.
Send(M) == msgs' = msgs \cup M

\* stablestorage_get_record found nothing.
NoRecord ==
    [ballot |-> 0, value_ballot |-> 0, is_final |-> FALSE, value |-> NoValue]

Record ==
    [ballot : Ballots, value_ballot : Ballots \cup {0},
     is_final : BOOLEAN, value : Values \cup {NoValue}]

PrepareReq == [iid : Iids, ballot : Ballots]
AcceptReq  == [iid : Iids, ballot : Ballots, value : Values]
PrepareAck == [iid : Iids, ballot : Ballots, value_ballot : Ballots \cup {0},
               value : Values \cup {NoValue}]

\* accept_ack, with the acceptor_id of the batch it arrived in.
AckMessage ==
    [type : {"accept_ack"}, acceptor : Acceptors, iid : Iids, ballot : Ballots,
     value_ballot : Ballots, is_final : BOOLEAN, value : Values]

\* QUORUM of paxos_config.h: a majority of N_OF_ACCEPTORS.
QUORUM  == (Cardinality(Acceptors) \div 2) + 1
Quorums == {Q \in SUBSET Acceptors : Cardinality(Q) = QUORUM}

\* A batch holds at most one element per instance: the leader walks its
\* instances once per batch.  The elements of an accept_acks datagram are
\* handled one by one by the learner, so each is a message of its own here.
Message ==
    [type : {"prepare_reqs"}, reqs : SUBSET PrepareReq]
        \cup [type : {"accept_reqs"}, reqs : SUBSET AcceptReq]
        \cup [type : {"repeat_reqs"}, iids : SUBSET Iids]
        \cup [type : {"prepare_acks"}, acceptor : Acceptors,
              acks : SUBSET PrepareAck]
        \cup AckMessage

OnePerInstance(reqs) ==
    \A x, y \in reqs : x.iid = y.iid => x = y

\* What a copies into an accept_acks batch for a record that holds a value.
AcceptAck(a, i, rec) ==
    [type |-> "accept_ack", acceptor |-> a, iid |-> i, ballot |-> rec.ballot,
     value_ballot |-> rec.value_ballot, is_final |-> rec.is_final,
     value |-> rec.value]

=============================================================================
