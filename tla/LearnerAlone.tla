---------------------------- MODULE LearnerAlone ----------------------------
(***************************************************************************)
(* A learner that any acknowledgement can reach at any time: lost, late,   *)
(* repeated, of any ballot and value.  Acceptors restarted without their   *)
(* store and several leaders at once produce all of these.                 *)
(*                                                                         *)
(* lea_hole_check only sends; it belongs to the systems that compose the   *)
(* learner with acceptors.                                                 *)
(***************************************************************************)
EXTENDS Learner

CONSTANT UpdatingAcceptors  \* those that run with ACCEPTOR_UPDATE_ON_DELIVER

ASSUME LearnerAloneAssumption == UpdatingAcceptors \subseteq Acceptors

\* The value ballot is never read by a learner: any one will do.
SomeAck ==
    {m \in AckMessage : /\ m.value_ballot = m.ballot
                        /\ m.is_final => m.acceptor \in UpdatingAcceptors}

LearnerAloneInit ==
    /\ msgs = {}
    /\ LearnerInit

ReceiveSomeAck(l) ==
    /\ \E m \in SomeAck : HandleAcceptAck(l, m)
    /\ UNCHANGED msgs

LearnerAloneNext == \E l \in Learners : ReceiveSomeAck(l)

learnerAloneVars == <<msgs, learnerVars>>

LearnerAloneSpec ==
    LearnerAloneInit /\ [][LearnerAloneNext]_learnerAloneVars

=============================================================================
