--------------------------- MODULE AcceptorAlone ---------------------------
(***************************************************************************)
(* Acceptors driven by proposers and learners that may ask for anything:   *)
(* any batch of well-formed requests, in any order, any number of times.   *)
(* Several leaders at once (lost leader announcements) make every such     *)
(* request possible, so nothing narrower is assumed of the environment.    *)
(***************************************************************************)
EXTENDS Acceptor

CONSTANT MaxRequests  \* bound on the request datagrams in one behaviour

Requests ==
    {m \in msgs : m.type \in {"prepare_reqs", "accept_reqs", "repeat_reqs"}}

\* A datagram of requests, as leader_open_instances_p1, leader_check_p1_pending,
\* leader_open_instances_p2_* and lea_send_repeat_request build them.
SomeRequest(m) ==
    /\ Cardinality(Requests) < MaxRequests
    /\ Send({m})
    /\ UNCHANGED <<store, highest_accepted_iid>>

RequestPrepares ==
    \E reqs \in SUBSET PrepareReq :
        /\ reqs # {} /\ OnePerInstance(reqs)
        /\ SomeRequest([type |-> "prepare_reqs", reqs |-> reqs])

RequestAccepts ==
    \E reqs \in SUBSET AcceptReq :
        /\ reqs # {} /\ OnePerInstance(reqs)
        /\ SomeRequest([type |-> "accept_reqs", reqs |-> reqs])

RequestRepeats ==
    \E iids \in SUBSET Iids :
        /\ iids # {}
        /\ SomeRequest([type |-> "repeat_reqs", iids |-> iids])

AcceptorAloneInit ==
    /\ msgs = {}
    /\ AcceptorInit

AcceptorAloneNext ==
    \/ RequestPrepares
    \/ RequestAccepts
    \/ RequestRepeats
    \/ \E a \in Acceptors : AcceptorStep(a)

AcceptorAloneSpec ==
    AcceptorAloneInit /\ [][AcceptorAloneNext]_acceptorVars

=============================================================================
