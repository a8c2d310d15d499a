-------------------------------- MODULE Paxos --------------------------------
(***************************************************************************)
(* The whole system: acceptors, proposers and learners exchanging          *)
(* datagrams over a network that loses, repeats and reorders them.  Every  *)
(* proposer runs on top of a learner of its own, which shares its event    *)
(* loop: pro_deliver_callback is called while the learner handles an       *)
(* acknowledgement, and the leader asks that learner whether an instance   *)
(* is closed.                                                              *)
(*                                                                         *)
(* Clients and the leader oracle are programs under tests/: a client       *)
(* submits values, the oracle announces a leader to all the proposers.     *)
(***************************************************************************)
EXTENDS Acceptor, Leader, Learner

CONSTANTS
    Announced,    \* leaders the oracle may announce
    RestartsOf    \* acceptors that may be restarted

ASSUME PaxosAssumption ==
    /\ Proposers \subseteq Learners
    /\ Announced \subseteq 0 .. MAX_N_OF_PROPOSERS - 1
    /\ RestartsOf \subseteq Acceptors

VARIABLE submitted  \* values clients have submitted

vars == <<msgs, store, highest_accepted_iid, learnerVars, leaderVars, submitted>>

storeVars == <<store, highest_accepted_iid>>

Init ==
    /\ AcceptorInit
    /\ LearnerInit
    /\ LeaderInit
    /\ msgs = FirstPrepares
    /\ submitted = {}

\* An acceptor's event loop.
AcceptorEvent(a) ==
    /\ \/ HandlePrepareReqBatch(a)
       \/ HandleAcceptReqBatch(a)
       \/ HandleRepeatReqBatch(a)
       \/ PeriodicRepeater(a)
       \/ DeliverCallback(a)
       \/ /\ a \in RestartsOf
          /\ \E recover \in BOOLEAN : Restart(a, recover)
    /\ UNCHANGED <<learnerVars, leaderVars, submitted>>

\* A learner handles an acknowledgement; what it delivers goes to the proposer on
\* top of it, if there is one.
ReceiveAcceptAck(l) ==
    /\ \E m \in msgs :
          /\ m.type = "accept_ack"
          /\ HandleAcceptAck(l, m)
    /\ IF l \in Proposers /\ delivered'[l] # delivered[l]
       THEN DeliverCallbacks(l, [n \in 1 .. Len(delivered'[l]) - Len(delivered[l]) |->
                                    delivered'[l][Len(delivered[l]) + n].value])
       ELSE UNCHANGED <<msgs, leaderVars>>
    /\ UNCHANGED <<storeVars, submitted>>

CheckHoles(l) ==
    /\ HoleCheck(l)
    /\ UNCHANGED <<storeVars, leaderVars, submitted>>

\* The rest of a proposer's event loop.
ReceivePromises(p) ==
    /\ \E m \in msgs :
          /\ m.type = "prepare_acks"
          /\ HandlePrepareAckBatch(p, m)
    /\ UNCHANGED <<storeVars, learnerVars, submitted>>

CheckPhase1(p) ==
    /\ PeriodicP1Check(p)
    /\ UNCHANGED <<storeVars, learnerVars, submitted>>

CheckPhase2(p) ==
    /\ PeriodicP2Check(p, {i \in Iids : LearnerIsClosed(p, i)})
    /\ UNCHANGED <<storeVars, learnerVars, submitted>>

\* pax_submit_nonblock and pax_submit_sharedmem; a value is submitted to one
\* proposer, once.
Submit(p) ==
    /\ \E v \in Values \ submitted :
          /\ EnqueueValue(p, v)
          /\ submitted' = submitted \cup {v}
    /\ UNCHANGED <<storeVars, learnerVars>>

\* An announcement of the oracle reaches p; those that do not are lost.
Announce(p) ==
    /\ \E id \in Announced : HandleOracleMsg(p, id)
    /\ UNCHANGED <<storeVars, learnerVars, submitted>>

Next ==
    \/ \E a \in Acceptors : AcceptorEvent(a)
    \/ \E l \in Learners : ReceiveAcceptAck(l) \/ CheckHoles(l)
    \/ \E p \in Proposers :
          \/ ReceivePromises(p)
          \/ CheckPhase1(p)
          \/ CheckPhase2(p)
          \/ Submit(p)
          \/ Announce(p)

Spec == Init /\ [][Next]_vars

-----------------------------------------------------------------------------
(* Properties of the system.                                                *)

\* Every accept request sent.
Asking == UNION {m.reqs : m \in {n \in msgs : n.type = "accept_reqs"}}

DeliveredValues(l) == [n \in DOMAIN delivered[l] |-> delivered[l][n].value]

\* The learner that has delivered most.
Furthest ==
    CHOOSE l \in Learners : \A k \in Learners : Len(delivered[k]) <= Len(delivered[l])

Broadcasting ==
    INSTANCE AtomicBroadcast WITH
        Processes  <- Learners,
        Messages   <- Values,
        broadcast  <- submitted,
        order      <- DeliveredValues(Furthest),
        adelivered <- [l \in Learners |-> DeliveredValues(l)]

(* README.md: "LibPaxos2 supplies the Atomic Broadcast primitive": the learners
   deliver, each at its own pace, prefixes of one sequence of submitted values,
   and none twice. *)
ImplementsBroadcast == Broadcasting!Spec

(* The part of it that two leaders break: of two learners, neither delivers in
   some place a value the other does not deliver there. *)
Agreement ==
    \A l, k \in Learners :
        \A n \in DOMAIN delivered[l] \cap DOMAIN delivered[k] :
            delivered[l][n].value = delivered[k][n].value

(* Whoever leads, whatever is lost or repeated, only values that clients
   submitted are delivered. *)
Validity ==
    \A l \in Learners :
        \A n \in DOMAIN delivered[l] : delivered[l][n].value \in submitted

(* Ballots are unique (paxos_config.h: "unique ballot generation"): under one
   ballot at most one value is proposed for an instance. *)
OneValuePerBallot ==
    \A x, y \in Asking : x.iid = y.iid /\ x.ballot = y.ballot => x.value = y.value

(* A value delivered anywhere is the only one the leader ever proposes, or will
   find in a promise, for that instance: nothing can replace it later. *)
DeliveredIsFinal ==
    \A l \in Learners, x \in Asking :
        x.iid \in DOMAIN delivered[l] => x.value = delivered[l][x.iid].value

(* The comment of pro_save_prepare_ack, "Ack from already received!": a promise
   counts once for an acceptor, so that what the leader holds ready for phase 2
   was promised by a quorum of acceptors, whatever the network repeats. *)
PromisedBy(i, b) ==
    {m.acceptor : m \in {n \in msgs :
        n.type = "prepare_acks" /\ \E pa \in n.acks : pa.iid = i /\ pa.ballot = b}}

PromisedByQuorum ==
    \A p \in Proposers :
        \A i \in Iids \cap (leader[p].current_iid .. leader[p].highest_open) :
            Instance(leader[p], i).status = "p1_ready" =>
                Cardinality(PromisedBy(i, Instance(leader[p], i).my_ballot)) >= QUORUM

(* current_iid of the proposer (proposer.c) keeps in step with current_iid of the
   learner below it (learner.c). *)
CurrentIidInStep ==
    \A p \in Proposers : leader[p].current_iid = current_iid[p]

=============================================================================
