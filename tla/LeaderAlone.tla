---------------------------- MODULE LeaderAlone ----------------------------
(***************************************************************************)
(* The leader on its own, with the rest of the system reduced to what it   *)
(* can do to the leader: acceptors promise, or not, and report no value or *)
(* one they were asked to accept before; instances become decided, and the *)
(* learner of the process delivers the decided ones in order.  Other       *)
(* leaders, if there are any, are the values they propose: any of them may *)
(* be reported or decided anywhere, which is more than Paxos lets happen.  *)
(***************************************************************************)
EXTENDS Leader

CONSTANTS
    Announced,   \* leaders the oracle may announce
    OtherValues  \* values that other leaders propose, for clients of theirs

VARIABLES
    decided,    \* decided[i]: the value instance i is closed with
    submitted,  \* values clients have submitted
    overtaken   \* history: while it led, it was delivered more than it had opened

vars == <<msgs, leaderVars, decided, submitted, overtaken>>

\* The proposer under study, and every accept request it sent.
p == 0

ASSUME LeaderAloneAssumption == p \in Proposers /\ OtherValues \subseteq Values

Asked == UNION {m.reqs : m \in {n \in msgs : n.type = "accept_reqs"}}

\* The ballots of other leaders: a ballot belongs to one proposer.
OthersBallots == {b \in Ballots : b % MAX_N_OF_PROPOSERS # p}

\* What an acceptor may answer to a prepare request.
Promises(pr) ==
    {[iid |-> pr.iid, ballot |-> pr.ballot, value_ballot |-> 0, value |-> NoValue]}
        \cup {[iid |-> pr.iid, ballot |-> pr.ballot,
               value_ballot |-> ar.ballot, value |-> ar.value] :
                 ar \in {a \in Asked : a.iid = pr.iid /\ a.ballot < pr.ballot}}
        \cup {[iid |-> pr.iid, ballot |-> pr.ballot, value_ballot |-> b, value |-> v] :
                 b \in {b \in OthersBallots : b < pr.ballot}, v \in OtherValues}

Init ==
    /\ LeaderInit
    /\ msgs = FirstPrepares
    /\ decided = [i \in Iids |-> NoValue]
    /\ submitted = {}
    /\ overtaken = FALSE

\* A client submits a value once; the leader may have no room for it.
Submit ==
    \E v \in (Values \ OtherValues) \ submitted :
        /\ EnqueueValue(p, v)
        /\ submitted' = IF leader'[p] = leader[p] THEN submitted ELSE submitted \cup {v}
        /\ UNCHANGED <<decided, overtaken>>

\* An acceptor answers some requests of a prepare batch.
ReceivePromises ==
    \E m \in msgs :
        /\ m.type = "prepare_reqs"
        /\ \E acks \in SUBSET UNION {Promises(pr) : pr \in m.reqs} :
              /\ OnePerInstance(acks)
              /\ \E pa \in acks : AcceptsPromise(leader[p], pa)
              /\ HandlePrepareAckBatch(p, [acks |-> acks])
        /\ UNCHANGED <<decided, submitted, overtaken>>

\* The acceptors settle on a value for instance i and the learner of the process
\* sees it; what has become deliverable is delivered at once.
Decide(i) ==
    LET cur == leader[p].current_iid
    IN /\ decided[i] = NoValue
       /\ \E v \in {ar.value : ar \in {a \in Asked : a.iid = i}} \cup OtherValues :
             decided' = [decided EXCEPT ![i] = v]
       /\ \E k \in 0 .. Cardinality(Iids) :
             /\ \A j \in 0 .. k - 1 : cur + j \in Iids /\ decided'[cur + j] # NoValue
             /\ ~ (cur + k \in Iids /\ decided'[cur + k] # NoValue)
             /\ DeliverCallbacks(p, [j \in 1 .. k |-> decided'[cur + j - 1]])
       /\ overtaken' = (overtaken \/ (LEADER_IS_ME(p)
                            /\ leader'[p].current_iid > leader'[p].highest_open + 1))
       /\ UNCHANGED submitted

CheckPhase1 ==
    /\ PeriodicP1Check(p)
    /\ UNCHANGED <<decided, submitted, overtaken>>

CheckPhase2 ==
    /\ PeriodicP2Check(p, {i \in Iids : decided[i] # NoValue})
    /\ UNCHANGED <<decided, submitted, overtaken>>

\* The oracle announces a leader: another one, or this one again.
Announce ==
    /\ \E id \in Announced : HandleOracleMsg(p, id)
    /\ UNCHANGED <<decided, submitted, overtaken>>

Next ==
    \/ Submit
    \/ Announce
    \/ ReceivePromises
    \/ \E i \in Iids : Decide(i)
    \/ CheckPhase1
    \/ CheckPhase2

Spec == Init /\ [][Next]_vars

\* The least the acceptors do: one promise at a time arrives.
ReceivePromise ==
    \E m \in msgs :
        /\ m.type = "prepare_reqs"
        /\ \E pr \in m.reqs : \E pa \in Promises(pr) :
              /\ AcceptsPromise(leader[p], pa)
              /\ HandlePrepareAckBatch(p, [acks |-> {pa}])
        /\ UNCHANGED <<decided, submitted, overtaken>>

\* The timers of libevent fire again and again, and datagrams that are sent
\* again and again are answered in the end.
FairSpec ==
    /\ Spec
    /\ WF_vars(CheckPhase1)
    /\ WF_vars(CheckPhase2)
    /\ WF_vars(ReceivePromise)
    /\ \A i \in Iids : WF_vars(Decide(i))

-----------------------------------------------------------------------------
(* Properties of the leader.                                                *)
(*                                                                          *)
(* leader_deliver returns early for an instance this process has not opened *)
(* (proposer_leader.c:464), so a leader that learns what another one had    *)
(* decided further on ends up with its window behind current_iid.  From     *)
(* then on its counters are wrong, and stay so: leader_shutdown clears from *)
(* current_iid on (proposer_leader.c:577) and leaves what is behind it.     *)
(* The properties that need it are stated of a leader that never was.       *)

L == leader[p]

Window == L.current_iid .. L.highest_open

(* The shape of the leader's state. *)
LeaderTypeOK ==
    /\ L \in LeaderInfo
    /\ msgs \subseteq Message
    /\ current_leader_id[p] \in Announced \cup {p}

InStatus(S) == {i \in Window : Instance(L, i).status \in S}

(* pending_count and open_count count what the window holds, in whatever order
   timeouts, promises, deliveries and announcements came, as long as the window was
   never overtaken: an instance that goes back to phase 1 after a phase 2 timeout is
   both pending and open. *)
PendingAndOpenExact ==
    LEADER_IS_ME(p) /\ ~ overtaken =>
        /\ L.pending_count = Cardinality(InStatus({"p1_pending"}))
        /\ L.open_count = Cardinality({i \in Window : OpenedByMe(Instance(L, i))})

(* So does ready_count, while nobody else leads. *)
ReadyExact == L.ready_count = Cardinality(InStatus({"p1_ready"}))

(* With another leader in between, the counter may end above the instances ready
   (leader_deliver lowers pending_count only), but not below them; and the instances
   in advance, which never were in phase 2, are PROPOSER_PREEXEC_WIN_SIZE at most.
   (The counters hold those that came back from phase 2 as well,
   proposer_leader.c:157, so they may stop the leader early, never late.)  Of a
   leader whose window was never overtaken. *)
ReadyNeverUnderstated ==
    LEADER_IS_ME(p) /\ ~ overtaken =>
        /\ L.ready_count >= Cardinality(InStatus({"p1_ready"}))
        /\ Cardinality({i \in Window : i >= L.next_unused_iid})
               <= PROPOSER_PREEXEC_WIN_SIZE

(* The assertion of leader_open_instances_p1, "ii->status == empty": an instance
   is opened in a slot that holds nothing, whatever leaderships that ended left
   there.  Two conditions, because the code sees to neither: the instance is less
   than a buffer ahead of what is delivered, and the window was never overtaken,
   else leader_shutdown did not clear what was behind. *)
OpensEmptySlots ==
    LEADER_IS_ME(p) /\ ~ overtaken =>
        \A i \in ToOpen(L) :
            i < L.current_iid + PROPOSER_ARRAY_SIZE => Instance(L, i).status = "empty"

(* The other assertions of the code, again for a window that was never overtaken:
   every instance of it is in its slot (leader_check_p1_pending,
   leader_open_instances_p2_expired), an instance that went through phase 2 keeps a
   value to go through it again, and the next unused one has none. *)
AssertionsHold ==
    LEADER_IS_ME(p) /\ ~ overtaken =>
    /\ \A i \in Window : Instance(L, i).iid = i
    /\ \A i \in L.current_iid .. L.next_unused_iid - 1 :
          Instance(L, i).p2_value # NoValue
    /\ Instance(L, L.next_unused_iid).p2_value = NoValue

(* Only one value is ever proposed for an instance, at whatever ballot: timeouts
   and values found in phase 1 never make the leader change its mind. *)
OneValuePerInstance ==
    \A x, y \in Asked : x.iid = y.iid => x.value = y.value

\* In how many places value v is: the pending list, an instance of the window, an
\* instance that was delivered.
Places(v) ==
    Cardinality({n \in DOMAIN L.pending_list : L.pending_list[n] = v})
        + Cardinality({i \in Window : Instance(L, i).p2_value = v})
        + Cardinality({i \in Iids : i < L.current_iid /\ decided[i] = v})

(* A lone leader loses no value and uses none twice: a value taken from a client is
   in the pending list, or assigned to one instance, or delivered. *)
EachValueOnce == \A v \in submitted : Places(v) = 1

(* A leader may lose values with its leadership (vh_shutdown) or to a value found in
   phase 1, but uses none twice either, though leader_deliver puts a value back in
   the list when the instance it was meant for got somebody else's. *)
NeverInTwoPlaces == \A v \in submitted : Places(v) <= 1

(* However timeouts send instances back and forth between the phases, the instances
   in phase 2, or back from it and in phase 1 again, exceed PROPOSER_P2_CONCURRENCY
   by one at most: leader_open_instances_p2_new goes by open_count, not by the
   window.  An instance that leader_periodic_p2_check saw closed no longer counts
   (proposer_leader.c:414-419), and any number of those may wait for delivery. *)
ConcurrencyBounded ==
    ~ overtaken =>
        Cardinality({i \in Window : OpenedByMe(Instance(L, i))})
            <= PROPOSER_P2_CONCURRENCY + 1

(* README.md: "LibPaxos2 supplies the Atomic Broadcast primitive": a value that is
   submitted once is decided, and so delivered, in one instance only. *)
DecidedOnce ==
    \A i, j \in Iids : decided[i] = decided[j] /\ decided[i] # NoValue => i = j

(* A value the leader took from a client is decided in the end: no timeout,
   delivery or full window leaves it, or the leader, stuck. *)
EveryValueDecided ==
    \A v \in Values : v \in submitted ~> \E i \in Iids : decided[i] = v

=============================================================================
