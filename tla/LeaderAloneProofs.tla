------------------------- MODULE LeaderAloneProofs -------------------------
(***************************************************************************)
(* What is proved of a leader on its own, for any number of instances,     *)
(* ballots, values, acceptors and for any settings of paxos_config.h.      *)
(*                                                                         *)
(* The code does not keep the window within one turn of the buffer, so the *)
(* theorems say what holds as long as it is: WindowFits below.  Nor does   *)
(* it keep the window ahead of what is delivered: that is the condition of *)
(* the properties themselves, and a lone leader is proved to meet it.      *)
(***************************************************************************)
EXTENDS LeaderAlone, LeaderProofs

-----------------------------------------------------------------------------
(* The hypotheses and the invariant.                                        *)

\* No two instances of the window share a slot, nor does the next unused one
\* have the slot of an instance of the window.
WindowFits ==
    LEADER_IS_ME(p) =>
        /\ InBuffer(L)
        /\ L.next_unused_iid < L.current_iid + PROPOSER_ARRAY_SIZE

\* Nobody else leads, before, between or besides.
NoRival == Announced \subseteq {p} /\ OtherValues = {}

LeaderInv ==
    /\ DOMAIN leader = Proposers /\ DOMAIN current_leader_id = Proposers
    /\ current_leader_id[p] \in Announced \cup {p}
    /\ decided \in [Iids -> Values \cup {NoValue}]
    /\ WellFormed(msgs)
    /\ IF LEADER_IS_ME(p) THEN Sound(L) ELSE Cleared(L)

\* From one state to the next of a leader: nothing is unassigned, and requests
\* are made for assigned instances only.
Advances ==
    LEADER_IS_ME(p) /\ LEADER_IS_ME(p)' =>
        /\ leader[p].next_unused_iid <= leader'[p].next_unused_iid
        /\ \E M : msgs' = msgs \cup M /\ AsksBelow(leader'[p].next_unused_iid, M)

-----------------------------------------------------------------------------
(* The steps, one lemma for each action.                                    *)

LEMMA CheckPhase1Step ==
    ASSUME LeaderInv, WindowFits, WindowFits', CheckPhase1
    PROVE  LeaderInv' /\ Advances /\ Ahead(leader'[p]) = Ahead(L)
PROOF
  <1>1. LEADER_IS_ME(p) /\ UNCHANGED <<current_leader_id, decided>>
    BY DEF CheckPhase1, PeriodicP1Check
  <1>2. LEADER_IS_ME(p)'
    BY <1>1 DEF LEADER_IS_ME
  <1>3. Sound(L) /\ InBuffer(L) /\ p \in Proposers /\ InBuffer(leader'[p])
    BY <1>1, <1>2, LeaderAloneAssumption DEF LeaderInv, WindowFits, L
  <1>4. PICK E \in SUBSET {i \in Pending(L) : CanRetry(L, i)} :
           /\ leader' = [leader EXCEPT ![p] = OpenInstancesP1(p, CheckP1Pending(L, E))]
           /\ Send(PrepareReqs(CheckP1Pending(L, E), E)
                   \cup PrepareReqs(OpenInstancesP1(p, CheckP1Pending(L, E)),
                                    ToOpen(CheckP1Pending(L, E))))
    BY Zenon DEF CheckPhase1, PeriodicP1Check, L
  <1>. DEFINE J == CheckP1Pending(L, E)
              K == OpenInstancesP1(p, J)
              c == L.current_iid
              M == PrepareReqs(J, E) \cup PrepareReqs(K, ToOpen(J))
  <1>5. leader'[p] = K /\ DOMAIN leader' = Proposers /\ msgs' = msgs \cup M
    BY <1>3, <1>4 DEF LeaderInv, Send
  <1>. HIDE DEF J, K, c, M
  <1>6. /\ Sound(K) /\ Ahead(K) = Ahead(L)
        /\ K.current_iid = L.current_iid
        /\ K.next_unused_iid = L.next_unused_iid
        /\ Coherent(J, c) /\ InBuffer(J)
        /\ J.current_iid = L.current_iid
        /\ WindowFrom(J, c) = WindowFrom(L, c)
        /\ E \subseteq WindowFrom(L, c)
        /\ ToOpen(J) \subseteq WindowFrom(K, c)
    BY <1>3, <1>4, <1>5, PeriodicP1Sound DEF J, K, c
  <1>7. PreparesFor(E, PrepareReqs(J, E))
    <2>1. Fits(J, c)
      BY <1>6 DEF InBuffer, c
    <2>. QED  BY <1>6, <2>1, PreparesSent
  <1>8. PreparesFor(ToOpen(J), PrepareReqs(K, ToOpen(J)))
    <2>1. Fits(K, c) /\ Coherent(K, c)
      BY <1>3, <1>5, <1>6 DEF InBuffer, Sound, c
    <2>. QED  BY <1>6, <2>1, PreparesSent
  <1>9. WellFormed(M) /\ AsksBelow(K.next_unused_iid, M)
    BY <1>7, <1>8, BatchesFormed DEF M
  <1>10. WellFormed(msgs')
    BY <1>5, <1>9, BatchesFormed DEF LeaderInv
  <1>11. L.next_unused_iid <= K.next_unused_iid
    BY <1>3, <1>6 DEF Sound, Coherent, LeaderInfo
  <1>. QED
    BY <1>1, <1>2, <1>5, <1>6, <1>9, <1>10, <1>11 DEF LeaderInv, Advances, L

LEMMA CheckPhase2Step ==
    ASSUME LeaderInv, WindowFits, CheckPhase2
    PROVE  LeaderInv' /\ Advances /\ Ahead(leader'[p]) = Ahead(L)
PROOF
  <1>. DEFINE is_closed == {i \in Iids : decided[i] # NoValue}
              closed == Running(L) \cap is_closed
              c == L.current_iid
  <1>1. LEADER_IS_ME(p) /\ UNCHANGED <<current_leader_id, decided>>
    BY DEF CheckPhase2, PeriodicP2Check
  <1>2. LEADER_IS_ME(p)'
    BY <1>1 DEF LEADER_IS_ME
  <1>3. Sound(L) /\ InBuffer(L) /\ p \in Proposers
    BY <1>1, LeaderAloneAssumption DEF LeaderInv, WindowFits
  <1>4. PICK expired \in SUBSET {i \in Running(L) \ is_closed : CanRetry(L, i)} :
           \E checked \in {CheckP2(L, closed, expired)} :
           \E opened \in {OpenInstancesP2New(checked)} :
              /\ leader' = [leader EXCEPT ![p] = opened]
              /\ Send(PrepareReqs(checked, expired)
                      \cup AcceptReqs(opened, Started(checked)))
    BY Zenon DEF CheckPhase2, PeriodicP2Check, L
  <1>. DEFINE J == CheckP2(L, closed, expired)
              K == OpenInstancesP2New(J)
              M == PrepareReqs(J, expired) \cup AcceptReqs(K, Started(J))
  <1>5. leader'[p] = K /\ DOMAIN leader' = Proposers /\ msgs' = msgs \cup M
    BY <1>3, <1>4 DEF LeaderInv, Send
  <1>. HIDE DEF is_closed
  <1>6. /\ Sound(K) /\ InBuffer(K) /\ Ahead(K) = Ahead(L)
        /\ K.current_iid = L.current_iid
        /\ K.next_unused_iid = L.next_unused_iid + StartCount(J)
        /\ Sound(J) /\ InBuffer(J)
        /\ J.current_iid = L.current_iid /\ J.next_unused_iid = L.next_unused_iid
        /\ WindowFrom(J, c) = WindowFrom(L, c)
        /\ WindowFrom(K, c) = WindowFrom(L, c)
        /\ expired \subseteq WindowFrom(L, c)
    <2>. HIDE DEF closed, J, K, c
    <2>1. J = CheckP2(L, closed, expired) /\ K = OpenInstancesP2New(J)
          /\ closed = Running(L) \cap is_closed /\ c = L.current_iid
      BY DEF closed, J, K, c
    <2>2. Checks(L, J, K, expired)
      BY <1>3, <2>1, PeriodicP2Sound
    <2>. QED  BY <2>1, <2>2 DEF Checks
  <1>. HIDE DEF closed, J, K, c, M
  <1>7. Coherent(J, c) /\ Fits(J, c) /\ Coherent(K, c)
    BY <1>6 DEF Sound, InBuffer, c
  <1>8. PreparesFor(expired, PrepareReqs(J, expired))
    BY <1>6, <1>7, PreparesSent
  <1>9. /\ AcceptsFor(Started(J), AcceptReqs(K, Started(J)))
        /\ \A i \in Started(J) : i < K.next_unused_iid
    <2>1. WindowFrom(K, c) = WindowFrom(J, c)
          /\ K.next_unused_iid = J.next_unused_iid + StartCount(J)
      BY <1>6
    <2>. QED  BY <1>7, <2>1, StartedSent
  <1>10. WellFormed(M) /\ AsksBelow(K.next_unused_iid, M)
    BY <1>8, <1>9, BatchesFormed DEF M
  <1>11. WellFormed(msgs')
    BY <1>5, <1>10, BatchesFormed DEF LeaderInv
  <1>12. L.next_unused_iid <= K.next_unused_iid
    <2>1. StartCount(J) \in Nat /\ L.next_unused_iid \in Nat
      BY <1>3, <1>7, StartCountType DEF Sound, Coherent, LeaderInfo
    <2>. QED  BY <1>6, <2>1
  <1>. QED
    BY <1>1, <1>2, <1>5, <1>6, <1>10, <1>11, <1>12 DEF LeaderInv, Advances, L

(* The answers to a prepare batch are one for each slot at most, too. *)
LEMMA AnswersApart ==
    ASSUME LeaderInv, NEW m \in msgs, m.type = "prepare_reqs",
           NEW acks \in SUBSET UNION {Promises(pr) : pr \in m.reqs},
           OnePerInstance(acks)
    PROVE  acks \in SUBSET PrepareAck /\ Apart(acks)
PROOF
  <1>1. m \in Message /\ Apart(m.reqs)
    BY DEF LeaderInv, WellFormed
  <1>2. m.reqs \in SUBSET PrepareReq
    BY <1>1 DEF Message, AckMessage
  <1>3. \A ar \in Asked : ar \in AcceptReq
    <2>1. ASSUME NEW n \in msgs, n.type = "accept_reqs"
          PROVE  n.reqs \in SUBSET AcceptReq
      <3>1. n \in Message
        BY DEF LeaderInv, WellFormed
      <3>. QED  BY <2>1, <3>1 DEF Message, AckMessage
    <2>. QED  BY <2>1 DEF Asked
  <1>4. ASSUME NEW pa \in acks
        PROVE  pa \in PrepareAck /\ \E pr \in m.reqs : pr.iid = pa.iid
    <2>1. PICK pr \in m.reqs : pa \in Promises(pr)
      OBVIOUS
    <2>2. pr.iid \in Iids /\ pr.ballot \in Ballots
      BY <1>2 DEF PrepareReq
    <2>3. CASE pa = [iid |-> pr.iid, ballot |-> pr.ballot, value_ballot |-> 0,
                     value |-> NoValue]
      BY <2>2, <2>3 DEF PrepareAck
    <2>4. CASE \E b \in Ballots, v \in OtherValues :
                  pa = [iid |-> pr.iid, ballot |-> pr.ballot, value_ballot |-> b, value |-> v]
      BY <2>2, <2>4, LeaderAloneAssumption DEF PrepareAck
    <2>5. CASE \E ar \in Asked :
                  pa = [iid |-> pr.iid, ballot |-> pr.ballot,
                        value_ballot |-> ar.ballot, value |-> ar.value]
      <3>1. PICK ar \in Asked :
                    pa = [iid |-> pr.iid, ballot |-> pr.ballot,
                          value_ballot |-> ar.ballot, value |-> ar.value]
        BY <2>5
      <3>2. ar.ballot \in Ballots /\ ar.value \in Values
        BY <1>3 DEF AcceptReq
      <3>. QED  BY <2>2, <3>1, <3>2 DEF PrepareAck
    <2>. QED  BY <2>1, <2>3, <2>4, <2>5 DEF Promises, OthersBallots
  <1>5. Apart(acks)
    <2>1. ASSUME NEW x \in acks, NEW y \in acks, ProposerSlot(x.iid) = ProposerSlot(y.iid)
          PROVE  x = y
      <3>1. PICK a \in m.reqs : a.iid = x.iid
        BY <1>4
      <3>2. PICK b \in m.reqs : b.iid = y.iid
        BY <1>4
      <3>3. a = b
        BY <1>1, <2>1, <3>1, <3>2 DEF Apart
      <3>. QED  BY <3>1, <3>2, <3>3 DEF OnePerInstance
    <2>. QED  BY <2>1 DEF Apart
  <1>. QED  BY <1>4, <1>5

LEMMA ReceivePromisesStep ==
    ASSUME LeaderInv, WindowFits, ReceivePromises
    PROVE  LeaderInv' /\ Advances /\ Ahead(leader'[p]) = Ahead(L)
PROOF
  <1>1. PICK m \in msgs :
           /\ m.type = "prepare_reqs"
           /\ \E acks \in SUBSET UNION {Promises(pr) : pr \in m.reqs} :
                 /\ OnePerInstance(acks)
                 /\ \E pa \in acks : AcceptsPromise(leader[p], pa)
                 /\ HandlePrepareAckBatch(p, [acks |-> acks])
           /\ UNCHANGED <<decided, submitted, overtaken>>
    BY Zenon DEF ReceivePromises
  <1>2. PICK acks \in SUBSET UNION {Promises(pr) : pr \in m.reqs} :
           OnePerInstance(acks) /\ HandlePrepareAckBatch(p, [acks |-> acks])
    BY <1>1
  <1>3. acks \in SUBSET PrepareAck /\ Apart(acks)
    BY <1>1, <1>2, AnswersApart
  <1>4. /\ LEADER_IS_ME(p) /\ UNCHANGED <<current_leader_id, decided>>
        /\ IF MadeReady(L, acks) = {}
           THEN /\ leader' = [leader EXCEPT ![p] = AfterPromises(L, acks)]
                /\ UNCHANGED msgs
           ELSE \E promised \in {AfterPromises(L, acks)} :
                \E expired \in {OpenInstancesP2Expired(promised)} :
                \E opened \in {OpenInstancesP2New(expired)} :
                   /\ leader' = [leader EXCEPT ![p] = opened]
                   /\ Send(AcceptReqs(expired, ExpiredReady(promised))
                           \cup AcceptReqs(opened, Started(expired)))
    BY <1>1, <1>2 DEF HandlePrepareAckBatch, L
  <1>5. LEADER_IS_ME(p)'
    BY <1>4 DEF LEADER_IS_ME
  <1>6. Sound(L) /\ InBuffer(L) /\ p \in Proposers
    BY <1>4, LeaderAloneAssumption DEF LeaderInv, WindowFits
  <1>7. CASE MadeReady(L, acks) = {}
    <2>. DEFINE K == AfterPromises(L, acks)
    <2>1. leader'[p] = K /\ DOMAIN leader' = Proposers /\ msgs' = msgs \cup {}
      BY <1>4, <1>6, <1>7 DEF LeaderInv
    <2>2. /\ Sound(K) /\ Ahead(K) = Ahead(L)
          /\ K.next_unused_iid = L.next_unused_iid
      BY <1>3, <1>6, <1>7, PromisesSound
    <2>. HIDE DEF K
    <2>3. L.next_unused_iid <= K.next_unused_iid
      BY <1>6, <2>2 DEF Sound, Coherent, LeaderInfo
    <2>4. AsksBelow(K.next_unused_iid, {}) /\ WellFormed(msgs')
      BY <2>1 DEF AsksBelow, LeaderInv
    <2>. QED
      BY <1>4, <1>5, <2>1, <2>2, <2>3, <2>4 DEF LeaderInv, Advances, L
  <1>8. CASE MadeReady(L, acks) # {}
    <2>. DEFINE J == AfterPromises(L, acks)
                N == OpenInstancesP2Expired(J)
                K == OpenInstancesP2New(N)
                M == AcceptReqs(N, ExpiredReady(J)) \cup AcceptReqs(K, Started(N))
                c == L.current_iid
    <2>1. leader'[p] = K /\ DOMAIN leader' = Proposers /\ msgs' = msgs \cup M
      BY <1>4, <1>6, <1>8 DEF LeaderInv, Send
    <2>2. /\ Sound(K) /\ InBuffer(K) /\ Ahead(K) = Ahead(L)
          /\ K.current_iid = L.current_iid
          /\ K.next_unused_iid = L.next_unused_iid + StartCount(N)
          /\ Sound(N) /\ InBuffer(N)
          /\ N.current_iid = L.current_iid /\ N.next_unused_iid = L.next_unused_iid
          /\ WindowFrom(N, c) = WindowFrom(L, c)
          /\ WindowFrom(K, c) = WindowFrom(L, c)
          /\ \A i \in ExpiredReady(J) : i \in WindowFrom(L, c) /\ i < L.next_unused_iid
      <3>. HIDE DEF J, N, K, c
      <3>1. J = AfterPromises(L, acks) /\ N = OpenInstancesP2Expired(J)
            /\ K = OpenInstancesP2New(N) /\ c = L.current_iid
        BY DEF J, N, K, c
      <3>. QED  BY <1>3, <1>6, <3>1, PromiseBatchSound
    <2>. HIDE DEF J, N, K, c, M
    <2>3. Coherent(N, c) /\ Fits(N, c) /\ Coherent(K, c)
      BY <2>2 DEF Sound, InBuffer, c
    <2>4. /\ AcceptsFor(Started(N), AcceptReqs(K, Started(N)))
          /\ \A i \in Started(N) : i < K.next_unused_iid
      <3>1. WindowFrom(K, c) = WindowFrom(N, c)
            /\ K.next_unused_iid = N.next_unused_iid + StartCount(N)
        BY <2>2
      <3>. QED  BY <2>3, <3>1, StartedSent
    <2>5. L.next_unused_iid \in Nat /\ K.next_unused_iid \in Nat
          /\ L.next_unused_iid <= K.next_unused_iid
      <3>1. StartCount(N) \in Nat /\ L.next_unused_iid \in Nat
        BY <1>6, <2>3, StartCountType DEF Sound, Coherent, LeaderInfo
      <3>. QED  BY <2>2, <3>1
    <2>6. /\ AcceptsFor(ExpiredReady(J), AcceptReqs(N, ExpiredReady(J)))
          /\ \A i \in ExpiredReady(J) : i < K.next_unused_iid
      <3>1. ExpiredReady(J) \in SUBSET WindowFrom(N, c)
            /\ \A i \in ExpiredReady(J) : i < N.next_unused_iid
        BY <2>2
      <3>2. AcceptsFor(ExpiredReady(J), AcceptReqs(N, ExpiredReady(J)))
        BY <2>3, <3>1, AcceptsSent
      <3>3. \A i \in ExpiredReady(J) : i \in Nat
        BY <2>3, <3>1, WindowType
      <3>. QED  BY <2>2, <2>5, <3>2, <3>3
    <2>7. WellFormed(M) /\ AsksBelow(K.next_unused_iid, M)
      BY <2>4, <2>6, BatchesFormed DEF M
    <2>8. WellFormed(msgs')
      BY <2>1, <2>7, BatchesFormed DEF LeaderInv
    <2>. QED
      BY <1>4, <1>5, <2>1, <2>2, <2>5, <2>7, <2>8 DEF LeaderInv, Advances, L
  <1>. QED  BY <1>7, <1>8

LEMMA SubmitStep ==
    ASSUME LeaderInv, Submit
    PROVE  /\ LeaderInv' /\ Advances /\ UNCHANGED current_leader_id
           /\ LEADER_IS_ME(p) => Ahead(leader'[p]) = Ahead(L)
PROOF
  <1>1. PICK v \in Values : EnqueueValue(p, v)
    BY Zenon DEF Submit
  <1>2. UNCHANGED <<msgs, current_leader_id, decided>>
    BY <1>1 DEF Submit, EnqueueValue
  <1>3. L \in LeaderInfo /\ p \in Proposers
    BY LeaderAloneAssumption DEF LeaderInv, Sound, Coherent, Cleared
  <1>. DEFINE K == Enqueued(L, v)
  <1>4. leader'[p] = K /\ DOMAIN leader' = Proposers
    BY <1>1, <1>3 DEF EnqueueValue, Enqueued, L, LeaderInv
  <1>. HIDE DEF K
  <1>5. /\ Sound(L) => Sound(K) /\ Ahead(K) = Ahead(L)
        /\ Cleared(L) => Cleared(K)
        /\ K.next_unused_iid = L.next_unused_iid
    BY <1>3, EnqueuedSound DEF K
  <1>6. (LEADER_IS_ME(p) <=> LEADER_IS_ME(p)') /\ WellFormed(msgs)'
    BY <1>2 DEF LEADER_IS_ME, LeaderInv
  <1>7. LeaderInv'
    BY <1>2, <1>4, <1>5, <1>6 DEF LeaderInv, L
  <1>8. Advances
    <2>1. L.next_unused_iid <= K.next_unused_iid
      BY <1>3, <1>5 DEF LeaderInfo
    <2>2. msgs' = msgs \cup {} /\ AsksBelow(K.next_unused_iid, {})
      BY <1>2 DEF AsksBelow
    <2>. QED  BY <1>4, <2>1, <2>2 DEF Advances, L
  <1>9. LEADER_IS_ME(p) => Ahead(leader'[p]) = Ahead(L)
    BY <1>4, <1>5 DEF LeaderInv
  <1>. QED  BY <1>2, <1>7, <1>8, <1>9

LEMMA AnnounceStep ==
    ASSUME LeaderInv, WindowFits', Announce
    PROVE  /\ LeaderInv'
           /\ LEADER_IS_ME(p) /\ LEADER_IS_ME(p)' => UNCHANGED <<msgs, leader>>
           /\ UNCHANGED decided
PROOF
  <1>1. PICK id \in Announced : HandleOracleMsg(p, id)
    BY DEF Announce
  <1>2. UNCHANGED decided /\ p \in Proposers
    BY LeaderAloneAssumption DEF Announce
  <1>3. /\ current_leader_id'[p] = id /\ DOMAIN current_leader_id' = Proposers
        /\ LEADER_IS_ME(p)' <=> id = p
    BY <1>1, <1>2 DEF HandleOracleMsg, LeaderInv, LEADER_IS_ME
  <1>4. CASE LEADER_IS_ME(p) /\ id # p
    <2>1. leader'[p] = SteppedDown(L) /\ DOMAIN leader' = Proposers /\ UNCHANGED msgs
      BY <1>1, <1>2, <1>4 DEF HandleOracleMsg, LeaderInv, L
    <2>2. Cleared(SteppedDown(L))
      BY <1>4, SteppedDownClears DEF LeaderInv, Sound
    <2>3. WellFormed(msgs)'
      BY <2>1 DEF LeaderInv
    <2>. QED  BY <1>2, <1>3, <1>4, <2>1, <2>2, <2>3 DEF LeaderInv, L
  <1>5. CASE ~ LEADER_IS_ME(p) /\ id = p
    <2>. DEFINE K == Promoted(p, L)
                c == L.current_iid
                M == PrepareReqs(K, c .. K.highest_open)
    <2>1. leader'[p] = K /\ DOMAIN leader' = Proposers /\ msgs' = msgs \cup M
      BY <1>1, <1>2, <1>5 DEF HandleOracleMsg, LeaderInv, L, Send
    <2>2. InBuffer(K)
      <3>. HIDE DEF K
      <3>. QED  BY <1>3, <1>5, <2>1 DEF WindowFits, L
    <2>. HIDE DEF K, c, M
    <2>3. /\ Sound(K) /\ K.current_iid = c /\ WindowFrom(K, c) = c .. K.highest_open
      BY <1>2, <1>5, <2>2, PromotedSound DEF LeaderInv, K, c
    <2>4. PreparesFor(c .. K.highest_open, M)
      <3>1. Coherent(K, c) /\ Fits(K, c)
        BY <2>2, <2>3 DEF Sound, InBuffer
      <3>. DEFINE S == c .. K.highest_open
      <3>2. S \in SUBSET WindowFrom(K, c)
        BY <2>3
      <3>. HIDE DEF S
      <3>3. PreparesFor(S, PrepareReqs(K, S))
        BY <3>1, <3>2, PreparesSent
      <3>. QED  BY <3>3 DEF S, M
    <2>5. WellFormed(msgs')
      BY <2>1, <2>4, BatchesFormed DEF LeaderInv
    <2>. QED  BY <1>2, <1>3, <1>5, <2>1, <2>3, <2>5 DEF LeaderInv, L
  <1>6. CASE (LEADER_IS_ME(p) <=> id = p)
    <2>1. UNCHANGED <<leader, msgs>>
      BY <1>1, <1>6 DEF HandleOracleMsg
    <2>2. WellFormed(msgs)' /\ L' = L
      BY <2>1 DEF LeaderInv, L
    <2>. QED  BY <1>2, <1>3, <1>6, <2>1, <2>2 DEF LeaderInv
  <1>. QED  BY <1>4, <1>5, <1>6

\* What is decided the leader has assigned, in this leadership.
Used(D) == \A j \in Iids : D[j] # NoValue => j < L.next_unused_iid

LEMMA DecideStep ==
    ASSUME LeaderInv, WindowFits, NEW i \in Iids, Decide(i),
           ~ overtaken' \/ Used(decided')
    PROVE  /\ LeaderInv' /\ Advances /\ UNCHANGED current_leader_id
           /\ LEADER_IS_ME(p) /\ Used(decided') =>
                  /\ Ahead(leader'[p]) = Ahead(L)
                  /\ ~ overtaken => ~ overtaken'
PROOF
  <1>. DEFINE c == L.current_iid
              vs(k) == [j \in 1 .. k |-> decided'[c + j - 1]]
  <1>1. PICK v \in {ar.value : ar \in {a \in Asked : a.iid = i}} \cup OtherValues :
           decided' = [decided EXCEPT ![i] = v]
    BY DEF Decide
  <1>2. PICK k \in 0 .. Cardinality(Iids) :
           /\ \A j \in 0 .. k - 1 : c + j \in Iids /\ decided'[c + j] # NoValue
           /\ DeliverCallbacks(p, vs(k))
    BY Zenon DEF Decide, L
  <1>3. decided' \in [Iids -> Values \cup {NoValue}]
    <2>1. ASSUME NEW ar \in Asked
          PROVE  ar.value \in Values
      <3>1. PICK n \in msgs : n.type = "accept_reqs" /\ ar \in n.reqs
        BY DEF Asked
      <3>2. n \in Message
        BY DEF LeaderInv, WellFormed
      <3>3. ar \in AcceptReq
        BY <3>1, <3>2 DEF Message, AckMessage
      <3>. QED  BY <3>3 DEF AcceptReq
    <2>2. v \in Values
      BY <2>1, LeaderAloneAssumption
    <2>. QED  BY <1>1, <2>2 DEF LeaderInv
  <1>4. k \in Nat /\ L \in LeaderInfo /\ c \in Nat \ {0} /\ p \in Proposers
    BY LeaderAloneAssumption DEF LeaderInv, Sound, Coherent, Cleared, LeaderInfo
  <1>5. k = Len(vs(k))
    <2>1. \A j \in 1 .. k : decided'[c + j - 1] \in Values \cup {NoValue}
      <3>1. ASSUME NEW j \in 1 .. k
            PROVE  c + j - 1 \in Iids
        <4>1. j - 1 \in 0 .. k - 1 /\ c + (j - 1) = c + j - 1
          BY <1>4
        <4>. QED  BY <1>2, <4>1
      <3>. QED  BY <1>3, <3>1
    <2>2. vs(k) \in [1 .. k -> Values \cup {NoValue}]
      BY <2>1
    <2>. HIDE DEF vs
    <2>. QED  BY <1>4, <2>2
  <1>. DEFINE A == AfterRun(L, LEADER_IS_ME(p), vs(k))
              K == A.info
  <1>6. /\ leader'[p] = K /\ DOMAIN leader' = Proposers
        /\ msgs' = msgs \cup A.sent /\ UNCHANGED current_leader_id
    BY <1>2, <1>4 DEF DeliverCallbacks, LeaderInv, L, Send
  <1>7. LEADER_IS_ME(p) <=> LEADER_IS_ME(p)'
    BY <1>6 DEF LEADER_IS_ME
  <1>8. CASE ~ LEADER_IS_ME(p)
    <2>1. A = AfterRun(L, FALSE, vs(k))
      <3>1. LEADER_IS_ME(p) = FALSE
        BY <1>8 DEF LEADER_IS_ME
      <3>. HIDE DEF vs
      <3>. QED  BY <3>1
    <2>2. Cleared(L)
      BY <1>8 DEF LeaderInv
    <2>. HIDE DEF A, vs
    <2>3. Cleared(K) /\ A.sent = {}
      BY <1>4, <1>5, <2>1, <2>2, RunFollows
    <2>. HIDE DEF K
    <2>4. WellFormed(msgs')
      BY <1>6, <2>3 DEF LeaderInv
    <2>. QED
      BY <1>3, <1>6, <1>7, <1>8, <2>3, <2>4 DEF LeaderInv, Advances, L
  <1>9. CASE LEADER_IS_ME(p)
    <2>1. A = AfterRun(L, TRUE, vs(k)) /\ Sound(L) /\ InBuffer(L)
      BY <1>9 DEF LeaderInv, WindowFits
    <2>. HIDE DEF A, vs
    <2>2. RanTo(L, A, k)
      BY <1>4, <1>5, <2>1, RunLeads
    <2>3. /\ K.current_iid = c + k /\ K.highest_open = L.highest_open
      BY <2>2 DEF RanTo
    <2>4. L.highest_open \in Nat /\ L.next_unused_iid \in Nat
          /\ c <= L.next_unused_iid /\ L.next_unused_iid <= L.highest_open + 1
      BY <2>1 DEF Sound, Coherent, LeaderInfo
    <2>5. ASSUME Used(decided')
          PROVE  c + k <= L.next_unused_iid
      <3>1. \A j \in Iids : decided'[j] # NoValue => j < L.next_unused_iid
        BY <2>5 DEF Used
      <3>2. CASE k = 0
        BY <1>4, <2>4, <3>2
      <3>3. CASE k # 0
        <4>1. k - 1 \in 0 .. k - 1
          BY <1>4, <3>3
        <4>2. c + (k - 1) \in Iids /\ c + (k - 1) < L.next_unused_iid
          BY <1>2, <3>1, <4>1
        <4>. HIDE DEF c
        <4>. QED  BY <1>4, <2>4, <4>2
      <3>. QED  BY <3>2, <3>3
    <2>. DEFINE beyond == c + k > L.highest_open + 1
    <2>13. overtaken' = (overtaken \/ beyond)
      <3>1. overtaken' = (overtaken \/ (LEADER_IS_ME(p)
                             /\ leader'[p].current_iid > leader'[p].highest_open + 1))
        BY Zenon DEF Decide
      <3>. HIDE DEF c, K
      <3>. QED  BY <1>6, <1>9, <2>3, <3>1
    <2>6. ASSUME ~ overtaken'
          PROVE  c + k <= L.highest_open + 1
      <3>1. ~ beyond
        <4>. HIDE DEF beyond
        <4>. QED  BY <2>6, <2>13
      <3>. HIDE DEF c
      <3>. QED  BY <1>4, <2>4, <3>1
    <2>7. c + k <= L.highest_open + 1
      <3>. HIDE DEF c
      <3>. QED  BY <1>4, <2>4, <2>5, <2>6
    <2>8. /\ Sound(K) /\ K.next_unused_iid >= L.next_unused_iid
          /\ AcceptsBelow(K.next_unused_iid, A.sent)
          /\ c + k <= L.next_unused_iid => Ahead(K) = Ahead(L)
      BY <2>2, <2>7 DEF RanTo
    <2>. HIDE DEF K
    <2>9. WellFormed(A.sent) /\ AsksBelow(K.next_unused_iid, A.sent)
      BY <2>8, BatchesFormed
    <2>10. WellFormed(msgs')
      BY <1>6, <2>9, BatchesFormed DEF LeaderInv
    <2>11. LeaderInv'
      BY <1>3, <1>6, <1>7, <1>9, <2>8, <2>10 DEF LeaderInv, L
    <2>12. Advances
      <3>1. L.next_unused_iid <= K.next_unused_iid
        BY <2>4, <2>8 DEF Sound, Coherent, LeaderInfo
      <3>. QED  BY <1>6, <2>9, <3>1 DEF Advances, L
    <2>14. ~ overtaken => ~ overtaken'
      <3>1. ~ beyond
        <4>. HIDE DEF c
        <4>. QED  BY <1>4, <2>4, <2>7
      <3>. HIDE DEF beyond
      <3>. QED  BY <2>13, <3>1
    <2>. QED  BY <1>6, <2>5, <2>8, <2>11, <2>12, <2>14
  <1>. QED  BY <1>8, <1>9

(* init_proposer: the first leader starts with an empty buffer. *)
LEMMA InitLeads ==
    ASSUME Init, WindowFits
    PROVE  LeaderInv /\ LEADER_IS_ME(p) /\ Ahead(L) = 0
PROOF
  <1>1. p \in Proposers /\ current_leader_id[p] = p /\ LEADER_IS_ME(p)
    BY LeaderAloneAssumption DEF Init, LeaderInit, LEADER_IS_ME, p
  <1>2. /\ DOMAIN leader = Proposers /\ DOMAIN current_leader_id = Proposers
        /\ decided \in [Iids -> Values \cup {NoValue}]
    BY DEF Init, LeaderInit
  <1>3. L = Promoted(p, InitialInfo)
    BY <1>1 DEF Init, LeaderInit, L, p
  <1>4. Cleared(InitialInfo)
    <2>1. InitialInfo.proposer_state \in [ProposerSlots -> InstanceInfo]
      BY EmptyType DEF InitialInfo
    <2>2. InitialInfo \in LeaderInfo
      BY <2>1 DEF InitialInfo, LeaderInfo
    <2>. QED  BY <2>2 DEF Cleared, InitialInfo
  <1>5. InBuffer(L)
    BY <1>1 DEF WindowFits
  <1>6. InitialInfo.current_iid = 1
    BY DEF InitialInfo
  <1>7. Sound(L) /\ Ahead(L) = 0 /\ L.current_iid = 1
        /\ WindowFrom(L, 1) = 1 .. L.highest_open
    BY <1>1, <1>3, <1>4, <1>5, <1>6, PromotedSound
  <1>8. WellFormed(msgs)
    <2>1. PreparesFor(1 .. L.highest_open, PrepareReqs(L, 1 .. L.highest_open))
      <3>1. Coherent(L, 1) /\ Fits(L, 1)
        BY <1>5, <1>7 DEF Sound, InBuffer
      <3>. DEFINE S == 1 .. L.highest_open
      <3>2. S \in SUBSET WindowFrom(L, 1)
        BY <1>7
      <3>. HIDE DEF S
      <3>3. PreparesFor(S, PrepareReqs(L, S))
        BY <3>1, <3>2, PreparesSent
      <3>. QED  BY <3>3 DEF S
    <2>2. ASSUME NEW q \in Proposers, q # p
          PROVE  PrepareReqs(leader[q], 1 .. leader[q].highest_open) = {}
      <3>1. leader[q].highest_open = 0
        BY <2>2 DEF Init, LeaderInit, InitialInfo, p
      <3>2. 1 .. leader[q].highest_open = {}
        BY <3>1
      <3>. QED  BY <3>2 DEF PrepareReqs
    <2>3. WellFormed(PrepareReqs(L, 1 .. L.highest_open))
      BY <2>1, BatchesFormed
    <2>4. msgs = UNION {PrepareReqs(leader[q], 1 .. leader[q].highest_open) :
                            q \in Proposers}
      BY DEF Init, FirstPrepares
    <2>5. ASSUME NEW m \in msgs
          PROVE  m \in PrepareReqs(L, 1 .. L.highest_open)
      <3>1. PICK q \in Proposers :
                    m \in PrepareReqs(leader[q], 1 .. leader[q].highest_open)
        BY <2>4
      <3>2. q = p
        BY <2>2, <3>1
      <3>. QED  BY <3>1, <3>2 DEF L
    <2>. QED  BY <2>3, <2>5 DEF WellFormed
  <1>. QED  BY <1>1, <1>2, <1>7, <1>8 DEF LeaderInv

(* A step of the leader, as long as its window fits and is not overtaken. *)
LEMMA LeaderStep ==
    ASSUME LeaderInv, WindowFits, WindowFits', ~ overtaken', [Next]_vars
    PROVE  LeaderInv'
PROOF
  <1>1. CASE Submit
    BY <1>1, SubmitStep
  <1>2. CASE Announce
    BY <1>2, AnnounceStep
  <1>3. CASE ReceivePromises
    BY <1>3, ReceivePromisesStep
  <1>4. CASE \E i \in Iids : Decide(i)
    BY <1>4, DecideStep
  <1>5. CASE CheckPhase1
    BY <1>5, CheckPhase1Step
  <1>6. CASE CheckPhase2
    BY <1>6, CheckPhase2Step
  <1>7. CASE UNCHANGED vars
    <2>1. L' = L /\ (LEADER_IS_ME(p) <=> LEADER_IS_ME(p)') /\ WellFormed(msgs)'
      BY <1>7 DEF vars, leaderVars, L, LEADER_IS_ME, LeaderInv
    <2>. QED  BY <1>7, <2>1 DEF vars, leaderVars, LeaderInv
  <1>. QED
    BY <1>1, <1>2, <1>3, <1>4, <1>5, <1>6, <1>7 DEF Next

-----------------------------------------------------------------------------
(* What the invariant says of a state.                                      *)

(* The window of a leader is the one the lemmas speak of. *)
LEMMA LeadingWindow ==
    ASSUME LeaderInv, LEADER_IS_ME(p)
    PROVE  /\ Sound(L)
           /\ Coherent(L, L.current_iid) /\ Counted(L, L.current_iid)
           /\ Window = WindowFrom(L, L.current_iid) /\ IsFiniteSet(Window)
           /\ InStatus({"p1_pending"}) = PendingFrom(L, L.current_iid)
           /\ InStatus({"p1_ready"}) = ReadyFrom(L, L.current_iid)
           /\ {i \in Window : OpenedByMe(Instance(L, i))} = OpenedFrom(L, L.current_iid)
PROOF
  <1>1. Sound(L) /\ Coherent(L, L.current_iid) /\ Counted(L, L.current_iid)
    BY DEF LeaderInv, Sound
  <1>2. Window = WindowFrom(L, L.current_iid) /\ IsFiniteSet(Window)
    BY <1>1, WindowType DEF Window, WindowFrom
  <1>. QED
    BY <1>1, <1>2 DEF InStatus, PendingFrom, ReadyFrom, OpenedFrom

LEMMA InvType == LeaderInv => LeaderTypeOK
PROOF
  <1>. SUFFICES ASSUME LeaderInv PROVE LeaderTypeOK
    OBVIOUS
  <1>1. L \in LeaderInfo
    BY DEF LeaderInv, Sound, Coherent, Cleared
  <1>2. msgs \subseteq Message
    BY DEF LeaderInv, WellFormed
  <1>. QED  BY <1>1, <1>2 DEF LeaderInv, LeaderTypeOK

LEMMA InvCounts == LeaderInv => PendingAndOpenExact
BY LeadingWindow DEF PendingAndOpenExact, Counted

LEMMA InvReady == LeaderInv => ReadyNeverUnderstated
PROOF
  <1>. SUFFICES ASSUME LeaderInv, LEADER_IS_ME(p) PROVE ReadyNeverUnderstated
    BY DEF ReadyNeverUnderstated
  <1>. DEFINE c == L.current_iid
              h == L.highest_open
              n == L.next_unused_iid
              Early == {i \in Window : i >= L.next_unused_iid}
  <1>1. /\ Coherent(L, c) /\ Counted(L, c)
        /\ InStatus({"p1_ready"}) = ReadyFrom(L, c)
    BY LeadingWindow
  <1>2. c \in Nat /\ h \in Nat /\ n \in Nat /\ c <= n /\ n <= h + 1
    BY <1>1 DEF Coherent, LeaderInfo
  <1>3. Early = n .. h
    <2>1. Window = c .. h
      BY DEF Window
    <2>. HIDE DEF c, h, Window
    <2>. QED  BY <1>2, <2>1
  <1>4. Cardinality(Early) <= PROPOSER_PREEXEC_WIN_SIZE
    <2>1. h + 1 - n <= PROPOSER_PREEXEC_WIN_SIZE /\ PROPOSER_PREEXEC_WIN_SIZE \in Nat
      BY <1>1, LeaderAssumption DEF Counted
    <2>. HIDE DEF h, n, Early
    <2>2. Cardinality(n .. h) = IF n > h THEN 0 ELSE h - n + 1
      BY <1>2, FS_Interval
    <2>3. CASE n > h
      BY <1>3, <2>1, <2>2, <2>3
    <2>4. CASE ~ (n > h)
      BY <1>2, <1>3, <2>1, <2>2, <2>4
    <2>. QED  BY <2>3, <2>4
  <1>. QED  BY <1>1, <1>4 DEF ReadyNeverUnderstated, Counted

LEMMA InvSlots == LeaderInv => OpensEmptySlots
PROOF
  <1>. SUFFICES ASSUME LeaderInv, LEADER_IS_ME(p),
                       NEW i \in ToOpen(L), i < L.current_iid + PROPOSER_ARRAY_SIZE
                PROVE  Instance(L, i).status = "empty"
    BY DEF OpensEmptySlots
  <1>. DEFINE c == L.current_iid
              h == L.highest_open
  <1>1. Coherent(L, c)
    BY LeadingWindow
  <1>2. L \in LeaderInfo /\ c \in Nat \ {0} /\ h \in Nat /\ c <= h + 1
    BY <1>1 DEF Coherent, LeaderInfo
  <1>3. PICK k \in Nat : ToOpen(L) = h + 1 .. h + k
    BY <1>2, ToOpenRange
  <1>4. i \in Nat /\ h < i
    BY <1>2, <1>3
  <1>5. ASSUME NEW j \in WindowFrom(L, c), ProposerSlot(j) = ProposerSlot(i)
        PROVE  FALSE
    <2>1. i \in c .. i /\ j \in c .. i /\ i # j /\ i < c + PROPOSER_ARRAY_SIZE
      BY <1>2, <1>4 DEF WindowFrom
    <2>. HIDE DEF c, h
    <2>. QED  BY <1>2, <1>4, <1>5, <2>1, SlotInjective
  <1>6. ProposerSlot(i) \in ProposerSlots
    BY <1>4, SlotType
  <1>7. Instance(L, i) = EmptyInstance
    BY <1>1, <1>5, <1>6 DEF Coherent, Instance
  <1>. QED  BY <1>7 DEF EmptyInstance

LEMMA InvAssertions == LeaderInv /\ WindowFits => AssertionsHold
PROOF
  <1>. SUFFICES ASSUME LeaderInv, WindowFits, LEADER_IS_ME(p) PROVE AssertionsHold
    BY DEF AssertionsHold
  <1>. DEFINE c == L.current_iid
  <1>1. Coherent(L, c) /\ Window = WindowFrom(L, c)
    BY LeadingWindow
  <1>2. \A i \in Window : Instance(L, i).iid = i
    BY <1>1 DEF Coherent, Holds
  <1>3. ASSUME NEW i \in L.current_iid .. L.next_unused_iid - 1
        PROVE  Instance(L, i).p2_value # NoValue
    <2>1. i \in WindowFrom(L, c) /\ i < L.next_unused_iid
      BY <1>1 DEF WindowFrom, Coherent, LeaderInfo
    <2>. QED  BY <1>1, <2>1 DEF Coherent, Holds
  <1>4. Instance(L, L.next_unused_iid).p2_value = NoValue
    BY <1>1, NextIsUnused DEF WindowFits, InBuffer
  <1>. QED  BY <1>2, <1>3, <1>4 DEF AssertionsHold

LEMMA InvConcurrency == LeaderInv => ConcurrencyBounded
PROOF
  <1>. SUFFICES ASSUME LeaderInv, ~ overtaken PROVE ConcurrencyBounded
    BY DEF ConcurrencyBounded
  <1>1. CASE LEADER_IS_ME(p)
    BY <1>1, LeadingWindow DEF Counted, ConcurrencyBounded
  <1>2. CASE ~ LEADER_IS_ME(p)
    <2>1. Cleared(L) /\ L.current_iid \in Nat /\ L.highest_open \in Nat
      BY <1>2 DEF LeaderInv, Cleared, LeaderInfo
    <2>2. ASSUME NEW i \in Window
          PROVE  ~ OpenedByMe(Instance(L, i))
      <3>1. ProposerSlot(i) \in ProposerSlots
        BY <2>1, SlotType DEF Window
      <3>. QED  BY <2>1, <3>1 DEF Cleared, Instance, EmptyInstance, OpenedByMe
    <2>3. {i \in Window : OpenedByMe(Instance(L, i))} = {}
      BY <2>2
    <2>. QED  BY <2>3, FS_EmptySet, LeaderAssumption DEF ConcurrencyBounded
  <1>. QED  BY <1>1, <1>2

-----------------------------------------------------------------------------
(* Any number of leaders: what holds as long as the window fits and was      *)
(* never overtaken.                                                         *)

LEMMA LeaderInvariant == Spec /\ []WindowFits => [](~ overtaken => LeaderInv)
PROOF
  <1>. DEFINE Kept == ~ overtaken => LeaderInv
  <1>1. Init /\ WindowFits => Kept
    BY InitLeads
  <1>2. Kept /\ WindowFits /\ WindowFits' /\ [Next]_vars => Kept'
    <2>. SUFFICES ASSUME Kept, WindowFits, WindowFits', [Next]_vars, ~ overtaken'
                  PROVE  LeaderInv'
      OBVIOUS
    <2>1. ~ overtaken
      BY Zenon DEF Next, Submit, Announce, ReceivePromises, Decide, CheckPhase1,
                   CheckPhase2, vars
    <2>. QED  BY <2>1, LeaderStep
  <1>. QED  BY <1>1, <1>2, PTL DEF Spec

(* As long as its window was not overtaken, what the leader keeps has its types,
   what it sends is well formed, and it takes itself or an announced proposer for
   the leader. *)
THEOREM LeaderTypeCorrect ==
    Spec /\ []WindowFits => [](~ overtaken => LeaderTypeOK)
BY LeaderInvariant, InvType, PTL

(* pending_count and open_count are exact through timeouts, promises, deliveries,
   changes of leader and instances that others decide, until the window is
   overtaken. *)
THEOREM CountsCorrect ==
    Spec /\ []WindowFits => []PendingAndOpenExact
PROOF
  <1>1. (~ overtaken => LeaderInv) => PendingAndOpenExact
    BY InvCounts DEF PendingAndOpenExact
  <1>. QED  BY <1>1, LeaderInvariant, PTL

(* Until then ready_count is never too low, and the instances prepared in advance
   are PROPOSER_PREEXEC_WIN_SIZE at most. *)
THEOREM ReadyNeverUnderstatedCorrect ==
    Spec /\ []WindowFits => []ReadyNeverUnderstated
PROOF
  <1>1. (~ overtaken => LeaderInv) => ReadyNeverUnderstated
    BY InvReady DEF ReadyNeverUnderstated
  <1>. QED  BY <1>1, LeaderInvariant, PTL

(* Until then the assertion of leader_open_instances_p1 never fails. *)
THEOREM OpensEmptySlotsCorrect ==
    Spec /\ []WindowFits => []OpensEmptySlots
PROOF
  <1>1. (~ overtaken => LeaderInv) => OpensEmptySlots
    BY InvSlots DEF OpensEmptySlots
  <1>. QED  BY <1>1, LeaderInvariant, PTL

(* Nor do the assertions about the instances that have a value. *)
THEOREM AssertionsCorrect ==
    Spec /\ []WindowFits => []AssertionsHold
PROOF
  <1>1. (~ overtaken => LeaderInv) /\ WindowFits => AssertionsHold
    BY InvAssertions DEF AssertionsHold
  <1>. QED  BY <1>1, LeaderInvariant, PTL

(* The instances in phase 2, or back from it, exceed PROPOSER_P2_CONCURRENCY by one
   at most; those seen closed are not among them. *)
THEOREM ConcurrencyCorrect ==
    Spec /\ []WindowFits => []ConcurrencyBounded
PROOF
  <1>1. (~ overtaken => LeaderInv) => ConcurrencyBounded
    BY InvConcurrency DEF ConcurrencyBounded
  <1>. QED  BY <1>1, LeaderInvariant, PTL

-----------------------------------------------------------------------------
(* One leader: if nobody else leads, nothing overtakes the window, and       *)
(* ready_count is exact.                                                    *)

\* Whatever is decided the leader asked for, and counted.
InvAlone ==
    /\ LeaderInv
    /\ LEADER_IS_ME(p)
    /\ Ahead(L) = 0
    /\ AsksBelow(L.next_unused_iid, msgs)
    /\ Used(decided)
    /\ ~ overtaken

(* Requests made for assigned instances stay so. *)
LEMMA AsksAdvance ==
    ASSUME LeaderInv, LeaderInv', LEADER_IS_ME(p), LEADER_IS_ME(p)', Advances,
           AsksBelow(L.next_unused_iid, msgs)
    PROVE  /\ AsksBelow(L.next_unused_iid, msgs)'
           /\ \A j \in Iids : j < L.next_unused_iid => j < L'.next_unused_iid
PROOF
  <1>. DEFINE n == L.next_unused_iid
              n2 == leader'[p].next_unused_iid
  <1>1. n \in Nat /\ n2 \in Nat /\ n <= n2
    <2>1. L \in LeaderInfo /\ leader'[p] \in LeaderInfo
      BY DEF LeaderInv, Sound, Coherent, L
    <2>. QED  BY <2>1 DEF Advances, L, LeaderInfo
  <1>2. PICK M : msgs' = msgs \cup M /\ AsksBelow(n2, M)
    BY DEF Advances
  <1>3. ASSUME NEW m \in msgs, m.type = "accept_reqs", NEW ar \in m.reqs
        PROVE  ar.iid < n2
    <2>1. ar.iid < n
      BY <1>3 DEF AsksBelow
    <2>2. ar.iid \in Nat
      <3>1. m \in Message
        BY DEF LeaderInv, WellFormed
      <3>2. ar \in AcceptReq
        BY <1>3, <3>1 DEF Message, AckMessage
      <3>. QED  BY <3>2, MessagesAssumption DEF AcceptReq
    <2>. HIDE DEF n, n2
    <2>. QED  BY <1>1, <2>1, <2>2
  <1>4. AsksBelow(n2, msgs')
    BY <1>2, <1>3 DEF AsksBelow
  <1>5. \A j \in Iids : j < n => j < n2
    <2>. HIDE DEF n, n2
    <2>. QED  BY <1>1, MessagesAssumption
  <1>. QED  BY <1>4, <1>5 DEF L

LEMMA AloneAdvances ==
    ASSUME InvAlone, LeaderInv', LEADER_IS_ME(p)', Advances,
           Ahead(leader'[p]) = Ahead(L), Used(decided'), ~ overtaken'
    PROVE  InvAlone'
PROOF
  <1>1. LeaderInv /\ LEADER_IS_ME(p) /\ Ahead(L) = 0 /\ AsksBelow(L.next_unused_iid, msgs)
    BY DEF InvAlone
  <1>2. /\ AsksBelow(L.next_unused_iid, msgs)'
        /\ \A j \in Iids : j < L.next_unused_iid => j < L'.next_unused_iid
    BY <1>1, AsksAdvance
  <1>3. Used(decided)'
    BY <1>2 DEF Used
  <1>4. (Ahead(L) = 0)'
    BY <1>1 DEF L
  <1>. QED  BY <1>2, <1>3, <1>4 DEF InvAlone

(* A lone leader has assigned what is decided. *)
LEMMA AloneDecides ==
    ASSUME NoRival, InvAlone, NEW i \in Iids, Decide(i)
    PROVE  Used(decided')
PROOF
  <1>1. PICK ar \in Asked : ar.iid = i /\ decided' = [decided EXCEPT ![i] = ar.value]
    BY DEF Decide, NoRival
  <1>2. PICK m \in msgs : m.type = "accept_reqs" /\ ar \in m.reqs
    BY DEF Asked
  <1>3. i < L.next_unused_iid
    BY <1>1, <1>2 DEF AsksBelow, InvAlone
  <1>4. decided \in [Iids -> Values \cup {NoValue}] /\ Used(decided)
    BY DEF InvAlone, LeaderInv
  <1>. QED  BY <1>1, <1>3, <1>4 DEF Used

(* A step of the leader, as long as its window fits, when nobody else leads. *)
LEMMA AloneStep ==
    ASSUME NoRival, InvAlone, WindowFits, WindowFits', [Next]_vars
    PROVE  InvAlone'
PROOF
  <1>1. LeaderInv /\ LEADER_IS_ME(p) /\ Used(decided)
        /\ AsksBelow(L.next_unused_iid, msgs) /\ ~ overtaken
    BY DEF InvAlone
  <1>2. UNCHANGED current_leader_id => LEADER_IS_ME(p)'
    BY <1>1 DEF LEADER_IS_ME
  <1>3. UNCHANGED decided => Used(decided')
    BY <1>1 DEF Used
  <1>4. CASE Submit
    <2>1. UNCHANGED <<decided, overtaken>>
      BY <1>4, Zenon DEF Submit
    <2>. QED  BY <1>1, <1>2, <1>3, <1>4, <2>1, SubmitStep, AloneAdvances
  <1>5. CASE Announce
    <2>1. PICK id \in Announced : HandleOracleMsg(p, id)
      BY <1>5 DEF Announce
    <2>7. UNCHANGED overtaken
      BY <1>5 DEF Announce
    <2>2. id = p /\ current_leader_id' = [current_leader_id EXCEPT ![p] = id]
      BY <2>1 DEF HandleOracleMsg, NoRival
    <2>3. LEADER_IS_ME(p)'
      BY <1>1, <2>2, LeaderAloneAssumption DEF LEADER_IS_ME, LeaderInv
    <2>4. LeaderInv' /\ UNCHANGED <<msgs, leader, decided>>
      BY <1>1, <1>5, <2>3, AnnounceStep
    <2>5. L' = L
      BY <2>4 DEF L
    <2>. QED  BY <2>3, <2>4, <2>5, <2>7 DEF InvAlone, Used
  <1>6. CASE ReceivePromises
    <2>1. UNCHANGED <<decided, overtaken, current_leader_id>>
      <3>1. UNCHANGED <<decided, overtaken>>
        BY <1>6 DEF ReceivePromises
      <3>2. UNCHANGED current_leader_id
        BY <1>6, Zenon DEF ReceivePromises, HandlePrepareAckBatch
      <3>. QED  BY <3>1, <3>2
    <2>. QED  BY <1>1, <1>2, <1>3, <1>6, <2>1, ReceivePromisesStep, AloneAdvances
  <1>7. ASSUME NEW i \in Iids, Decide(i)
        PROVE  InvAlone'
    <2>1. Used(decided')
      BY <1>7, AloneDecides
    <2>2. ~ overtaken'
      BY <1>1, <1>7, <2>1, DecideStep
    <2>. QED  BY <1>1, <1>2, <1>7, <2>1, <2>2, DecideStep, AloneAdvances
  <1>8. CASE CheckPhase1
    <2>1. UNCHANGED <<decided, overtaken, current_leader_id>>
      BY <1>8 DEF CheckPhase1, PeriodicP1Check
    <2>. QED  BY <1>1, <1>2, <1>3, <1>8, <2>1, CheckPhase1Step, AloneAdvances
  <1>9. CASE CheckPhase2
    <2>1. UNCHANGED <<decided, overtaken, current_leader_id>>
      BY <1>9 DEF CheckPhase2, PeriodicP2Check
    <2>. QED  BY <1>1, <1>2, <1>3, <1>9, <2>1, CheckPhase2Step, AloneAdvances
  <1>10. CASE UNCHANGED vars
    <2>1. UNCHANGED <<msgs, leader, current_leader_id, decided, overtaken>>
      BY <1>10 DEF vars, leaderVars
    <2>2. L' = L /\ LeaderInv'
      <3>1. L' = L /\ WellFormed(msgs)'
        BY <1>1, <2>1 DEF L, LeaderInv
      <3>. QED  BY <1>1, <1>2, <2>1, <3>1 DEF LeaderInv
    <2>3. (Ahead(L) = 0)'
      <3>1. Ahead(leader[p]) = 0
        BY DEF InvAlone, L
      <3>2. Ahead(leader'[p]) = 0
        BY <2>1, <3>1
      <3>. QED  BY <3>2 DEF L
    <2>4. AsksBelow(L.next_unused_iid, msgs)'
      BY <1>1, <2>1, <2>2 DEF AsksBelow
    <2>5. Used(decided)'
      BY <1>1, <2>1, <2>2 DEF Used
    <2>. QED  BY <1>1, <1>2, <2>1, <2>2, <2>3, <2>4, <2>5 DEF InvAlone
  <1>. QED
    BY <1>4, <1>5, <1>6, <1>7, <1>8, <1>9, <1>10 DEF Next

(* With one leader ready_count is exact. *)
LEMMA InvReadyExact == InvAlone => ReadyExact
PROOF
  <1>. SUFFICES ASSUME InvAlone PROVE ReadyExact
    OBVIOUS
  <1>1. /\ Ahead(L) = 0 /\ LeaderInv /\ LEADER_IS_ME(p)
    BY DEF InvAlone
  <1>2. /\ InStatus({"p1_ready"}) = ReadyFrom(L, L.current_iid)
        /\ IsFiniteSet(Window) /\ Coherent(L, L.current_iid)
    BY <1>1, LeadingWindow
  <1>3. L.ready_count \in Int /\ Cardinality(InStatus({"p1_ready"})) \in Nat
    BY <1>2, FS_Subset, FS_CardinalityType DEF InStatus, Coherent, LeaderInfo
  <1>. QED  BY <1>1, <1>2, <1>3 DEF Ahead, Surplus, ReadyExact

LEMMA AloneInit ==
    ASSUME Init, WindowFits
    PROVE  InvAlone
PROOF
  <1>1. LeaderInv /\ LEADER_IS_ME(p) /\ Ahead(L) = 0
    BY InitLeads
  <1>2. AsksBelow(L.next_unused_iid, msgs)
    BY DEF Init, FirstPrepares, PrepareReqs, AsksBelow
  <1>3. Used(decided)
    BY DEF Init, Used
  <1>4. ~ overtaken
    BY DEF Init
  <1>. QED  BY <1>1, <1>2, <1>3, <1>4 DEF InvAlone

LEMMA AloneInvariant ==
    ASSUME NoRival
    PROVE  Spec /\ []WindowFits => []InvAlone
PROOF
  <1>1. Init /\ WindowFits => InvAlone
    BY AloneInit
  <1>2. InvAlone /\ WindowFits /\ WindowFits' /\ [Next]_vars => InvAlone'
    BY AloneStep
  <1>. QED  BY <1>1, <1>2, PTL DEF Spec

(* Nothing is delivered to a lone leader that it has not opened: for it the
   condition of the theorems above is no condition. *)
THEOREM LoneLeaderAhead ==
    ASSUME NoRival
    PROVE  Spec /\ []WindowFits => []~ overtaken
PROOF
  <1>1. InvAlone => ~ overtaken
    BY DEF InvAlone
  <1>. QED  BY <1>1, AloneInvariant, PTL

(* ready_count is exact while nobody else leads. *)
THEOREM ReadyExactCorrect ==
    ASSUME NoRival
    PROVE  Spec /\ []WindowFits => []ReadyExact
BY AloneInvariant, InvReadyExact, PTL

-----------------------------------------------------------------------------
(* What a lone leader does with the values, by the definitions and lemmas that   *)
(* close LeaderProofs.                                                          *)

\* What a lone leader has done with the values so far.
ValueInv == Consistent(L, decided, submitted, msgs)

\* No promise that reports a value is for an instance that was in the slot before,
\* at the ballot the slot has now: handle_prepare_ack would take it for the
\* instance that is there now.  The code does not see to that.
NoStalePromise ==
    \A m \in {n \in msgs : n.type = "prepare_reqs"} :
        \A pa \in UNION {Promises(pr) : pr \in m.reqs} :
            AcceptsPromise(L, pa) /\ pa.value # NoValue =>
                Instance(L, pa.iid).iid = pa.iid

(* Then a promise the leader accepts reports a value only if the leader assigned
   it to that instance. *)
LEMMA AnswersAgree ==
    ASSUME NoRival, InvAlone, ValueInv, NoStalePromise,
           NEW m \in msgs, m.type = "prepare_reqs",
           NEW acks \in SUBSET UNION {Promises(pr) : pr \in m.reqs}
    PROVE  AcksAgree(L, L.current_iid, acks)
PROOF
  <1>. DEFINE c == L.current_iid
  <1>1. LeaderInv /\ LEADER_IS_ME(p) /\ AsksBelow(L.next_unused_iid, msgs)
    BY DEF InvAlone
  <1>2. Coherent(L, c)
    BY <1>1 DEF LeaderInv, Sound
  <1>3. ASSUME NEW i \in WindowFrom(L, c), NEW pa \in AcceptedPromises(L, acks),
               ProposerSlot(pa.iid) = ProposerSlot(i), pa.value # NoValue
        PROVE  i < L.next_unused_iid /\ pa.value = Given(L, i)
    <2>1. pa \in acks /\ AcceptsPromise(L, pa)
      BY DEF AcceptedPromises
    <2>2. PICK pr \in m.reqs : pa \in Promises(pr)
      BY <2>1
    <2>3. PICK ar \in Asked : ar.iid = pr.iid /\ pa.iid = pr.iid /\ pa.value = ar.value
      BY <1>3, <2>2 DEF Promises, NoRival
    <2>4. PICK n \in msgs : n.type = "accept_reqs" /\ ar \in n.reqs
      BY DEF Asked
    <2>5. i \in Iids /\ i \in Nat /\ i \in c .. L.highest_open
      BY <1>2, WindowType DEF WindowFrom
    <2>6. ar.iid = i
      <3>1. Instance(L, pa.iid).iid = pa.iid
        BY <1>3, <2>1 DEF NoStalePromise
      <3>2. Instance(L, i).iid = i
        BY <1>2 DEF Coherent, Holds
      <3>. QED  BY <1>3, <2>3, <3>1, <3>2 DEF Instance
    <2>7. i < L.next_unused_iid
      BY <1>1, <2>4, <2>6 DEF AsksBelow
    <2>8. ar.value = ValueOf(L, decided, i)
      BY <2>4, <2>5, <2>6 DEF ValueInv, Consistent, AsksFor
    <2>9. ~ (i < c)
      <3>1. c \in Nat
        BY <1>2 DEF Coherent
      <3>. HIDE DEF c
      <3>. QED  BY <2>5, <3>1
    <2>. QED  BY <2>3, <2>7, <2>8, <2>9 DEF ValueOf
  <1>. QED  BY <1>3 DEF AcksAgree

(* What the lemmas below start from. *)
LEMMA AloneFacts ==
    ASSUME InvAlone, WindowFits
    PROVE  /\ LeaderInv /\ LEADER_IS_ME(p) /\ p \in Proposers
           /\ Sound(L) /\ InBuffer(L) /\ Coherent(L, L.current_iid)
           /\ L.current_iid \in Nat /\ L.next_unused_iid \in Nat
           /\ AsksBelow(L.next_unused_iid, msgs) /\ UsedBy(L, decided)
PROOF
  <1>1. Sound(L)
    BY DEF InvAlone, LeaderInv
  <1>2. Coherent(L, L.current_iid) /\ L \in LeaderInfo
    BY <1>1 DEF Sound, Coherent
  <1>. QED
    BY <1>1, <1>2, LeaderAloneAssumption
       DEF InvAlone, LeaderInv, WindowFits, LeaderInfo, Used, UsedBy

LEMMA SubmitValues ==
    ASSUME InvAlone, WindowFits, ValueInv, Submit
    PROVE  ValueInv'
PROOF
  <1>1. PICK v \in (Values \ OtherValues) \ submitted :
           /\ EnqueueValue(p, v)
           /\ submitted' = IF leader'[p] = leader[p] THEN submitted ELSE submitted \cup {v}
           /\ UNCHANGED <<decided, overtaken>>
    BY Zenon DEF Submit
  <1>2. LeaderInv /\ p \in Proposers /\ L \in LeaderInfo
    BY AloneFacts DEF Coherent
  <1>. DEFINE K == Enqueued(L, v)
              c == L.current_iid
  <1>3. leader'[p] = K /\ UNCHANGED <<msgs, decided>>
    BY <1>1, <1>2 DEF EnqueueValue, Enqueued, L, LeaderInv
  <1>4. Orderly(L, c) /\ v \notin Held(L, c)
    BY DEF ValueInv, Consistent
  <1>5. K = L \/ TakesValue(L, K, c, v)
    BY <1>2, <1>4, EnqueuedValues
  <1>. HIDE DEF K
  <1>6. CASE K = L
    <2>1. submitted' = submitted /\ L' = L
      BY <1>1, <1>3, <1>6 DEF L
    <2>. QED  BY <1>3, <2>1 DEF ValueInv
  <1>7. CASE K # L /\ TakesValue(L, K, c, v)
    <2>1. submitted' = submitted \cup {v} /\ L' = K
      BY <1>1, <1>3, <1>7 DEF L
    <2>2. Consistent(K, decided, submitted \cup {v}, msgs)
      BY <1>1, <1>7, ConsistentTaken DEF ValueInv
    <2>. QED  BY <1>3, <2>1, <2>2 DEF ValueInv
  <1>. QED  BY <1>5, <1>6, <1>7

(* A timeout of phase 1 or 2, or a batch of promises: values only move. *)
LEMMA MovedValues ==
    ASSUME InvAlone, WindowFits, ValueInv, NEW K, NEW N,
           leader'[p] = K, msgs' = msgs \cup N, UNCHANGED <<decided, submitted>>,
           K.current_iid = L.current_iid, MovesValues(L, K, L.current_iid),
           AsksGiven(K, L.current_iid, N)
    PROVE  ValueInv'
PROOF
  <1>1. /\ L.current_iid \in Nat /\ L.next_unused_iid \in Nat
        /\ AsksBelow(L.next_unused_iid, msgs) /\ UsedBy(L, decided)
    BY AloneFacts
  <1>2. Consistent(L, decided, submitted, msgs)
    BY DEF ValueInv
  <1>3. Consistent(K, decided, submitted, msgs \cup N)
    BY <1>1, <1>2, ConsistentMoved
  <1>. QED  BY <1>3 DEF ValueInv, L

LEMMA CheckPhase1Moves ==
    ASSUME InvAlone, WindowFits, WindowFits', ValueInv, CheckPhase1
    PROVE  ValueInv'
PROOF
  <1>1. LEADER_IS_ME(p) /\ UNCHANGED <<current_leader_id, decided, submitted>>
    BY DEF CheckPhase1, PeriodicP1Check
  <1>2. LEADER_IS_ME(p)'
    BY <1>1 DEF LEADER_IS_ME
  <1>3. LeaderInv /\ Sound(L) /\ InBuffer(L) /\ p \in Proposers /\ InBuffer(leader'[p])
    BY <1>2, AloneFacts DEF WindowFits, L
  <1>4. PICK E \in SUBSET {i \in Pending(L) : CanRetry(L, i)} :
           /\ leader' = [leader EXCEPT ![p] = OpenInstancesP1(p, CheckP1Pending(L, E))]
           /\ Send(PrepareReqs(CheckP1Pending(L, E), E)
                   \cup PrepareReqs(OpenInstancesP1(p, CheckP1Pending(L, E)),
                                    ToOpen(CheckP1Pending(L, E))))
    BY Zenon DEF CheckPhase1, PeriodicP1Check, L
  <1>. DEFINE J == CheckP1Pending(L, E)
              K == OpenInstancesP1(p, J)
              c == L.current_iid
              N == PrepareReqs(J, E) \cup PrepareReqs(K, ToOpen(J))
  <1>5. leader'[p] = K /\ msgs' = msgs \cup N
    BY <1>3, <1>4 DEF LeaderInv, Send
  <1>6. Orderly(L, c)
    BY DEF ValueInv, Consistent
  <1>. HIDE DEF J, K, c
  <1>7. MovesValues(L, K, c)
    BY <1>3, <1>4, <1>5, <1>6, PeriodicP1Values DEF J, K, c
  <1>8. K.current_iid = c
    BY <1>3, <1>4, <1>5, PeriodicP1Sound DEF J, K, c
  <1>9. AsksGiven(K, c, N)
    BY DEF AsksGiven, PrepareReqs
  <1>. HIDE DEF N
  <1>. QED  BY <1>1, <1>5, <1>7, <1>8, <1>9, MovedValues DEF c

LEMMA CheckPhase2Moves ==
    ASSUME InvAlone, WindowFits, ValueInv, CheckPhase2
    PROVE  ValueInv'
PROOF
  <1>. DEFINE is_closed == {i \in Iids : decided[i] # NoValue}
              closed == Running(L) \cap is_closed
              c == L.current_iid
  <1>1. UNCHANGED <<decided, submitted>>
    BY DEF CheckPhase2
  <1>2. LeaderInv /\ Sound(L) /\ InBuffer(L) /\ p \in Proposers
    BY AloneFacts
  <1>3. PICK expired \in SUBSET {i \in Running(L) \ is_closed : CanRetry(L, i)} :
           \E checked \in {CheckP2(L, closed, expired)} :
           \E opened \in {OpenInstancesP2New(checked)} :
              /\ leader' = [leader EXCEPT ![p] = opened]
              /\ Send(PrepareReqs(checked, expired)
                      \cup AcceptReqs(opened, Started(checked)))
    BY Zenon DEF CheckPhase2, PeriodicP2Check, L
  <1>. DEFINE J == CheckP2(L, closed, expired)
              K == OpenInstancesP2New(J)
              N == PrepareReqs(J, expired) \cup AcceptReqs(K, Started(J))
  <1>4. leader'[p] = K /\ msgs' = msgs \cup N
    BY <1>2, <1>3 DEF LeaderInv, Send
  <1>5. Orderly(L, c)
    BY DEF ValueInv, Consistent
  <1>. HIDE DEF is_closed, closed, J, K, c
  <1>6. J = CheckP2(L, closed, expired) /\ K = OpenInstancesP2New(J)
        /\ closed = Running(L) \cap is_closed /\ c = L.current_iid
    BY DEF closed, J, K, c
  <1>7. MovesValues(L, K, c) /\ AsksGiven(K, c, AcceptReqs(K, Started(J)))
    BY <1>2, <1>5, <1>6, PeriodicP2Values
  <1>8. K.current_iid = c
    <2>1. Checks(L, J, K, expired)
      BY <1>2, <1>6, PeriodicP2Sound
    <2>. QED  BY <1>6, <2>1 DEF Checks
  <1>9. AsksGiven(K, c, PrepareReqs(J, expired))
    BY DEF AsksGiven, PrepareReqs
  <1>10. AsksGiven(K, c, N)
    BY <1>7, <1>9, BatchesGiven
  <1>. HIDE DEF N
  <1>. QED  BY <1>1, <1>4, <1>6, <1>7, <1>8, <1>10, MovedValues

LEMMA ReceivePromisesMoves ==
    ASSUME NoRival, InvAlone, WindowFits, ValueInv, NoStalePromise, ReceivePromises
    PROVE  ValueInv'
PROOF
  <1>1. PICK m \in msgs :
           /\ m.type = "prepare_reqs"
           /\ \E acks \in SUBSET UNION {Promises(pr) : pr \in m.reqs} :
                 /\ OnePerInstance(acks)
                 /\ \E pa \in acks : AcceptsPromise(leader[p], pa)
                 /\ HandlePrepareAckBatch(p, [acks |-> acks])
           /\ UNCHANGED <<decided, submitted, overtaken>>
    BY Zenon DEF ReceivePromises
  <1>2. PICK acks \in SUBSET UNION {Promises(pr) : pr \in m.reqs} :
           OnePerInstance(acks) /\ HandlePrepareAckBatch(p, [acks |-> acks])
    BY <1>1
  <1>3. /\ LeaderInv /\ Sound(L) /\ InBuffer(L) /\ p \in Proposers
        /\ Orderly(L, L.current_iid)
    BY AloneFacts DEF ValueInv, Consistent
  <1>4. acks \in SUBSET PrepareAck /\ Apart(acks) /\ AcksAgree(L, L.current_iid, acks)
    BY <1>1, <1>2, <1>3, AnswersApart, AnswersAgree
  <1>5. IF MadeReady(L, acks) = {}
        THEN /\ leader' = [leader EXCEPT ![p] = AfterPromises(L, acks)]
             /\ UNCHANGED msgs
        ELSE \E promised \in {AfterPromises(L, acks)} :
             \E expired \in {OpenInstancesP2Expired(promised)} :
             \E opened \in {OpenInstancesP2New(expired)} :
                /\ leader' = [leader EXCEPT ![p] = opened]
                /\ Send(AcceptReqs(expired, ExpiredReady(promised))
                        \cup AcceptReqs(opened, Started(expired)))
    BY <1>1, <1>2 DEF HandlePrepareAckBatch, L
  <1>. DEFINE J == AfterPromises(L, acks)
              P == OpenInstancesP2Expired(J)
              K == OpenInstancesP2New(P)
              c == L.current_iid
              N == AcceptReqs(P, ExpiredReady(J)) \cup AcceptReqs(K, Started(P))
  <1>6. IF MadeReady(L, acks) = {}
        THEN leader'[p] = J /\ msgs' = msgs \cup {}
        ELSE leader'[p] = K /\ msgs' = msgs \cup N
    BY <1>3, <1>5 DEF LeaderInv, Send
  <1>. HIDE DEF J, P, K, c, N
  <1>7. J = AfterPromises(L, acks) /\ P = OpenInstancesP2Expired(J)
        /\ K = OpenInstancesP2New(P) /\ c = L.current_iid
    BY DEF J, P, K, c
  <1>8. MovesValues(L, J, c) /\ MovesValues(L, K, c) /\ AsksGiven(K, c, N)
    BY <1>3, <1>4, <1>7, PromiseBatchValues DEF N
  <1>9. J.current_iid = c
    BY <1>3, <1>7 DEF AfterPromises, Sound, Coherent, LeaderInfo
  <1>10. CASE MadeReady(L, acks) = {}
    <2>1. AsksGiven(J, c, {})
      BY DEF AsksGiven
    <2>. QED  BY <1>1, <1>6, <1>7, <1>8, <1>9, <1>10, <2>1, MovedValues
  <1>11. CASE MadeReady(L, acks) # {}
    <2>1. K.current_iid = c
      BY <1>3, <1>4, <1>7, <1>11, PromiseBatchSound
    <2>. QED  BY <1>1, <1>6, <1>7, <1>8, <1>11, <2>1, MovedValues
  <1>. QED  BY <1>10, <1>11

LEMMA DecideValues ==
    ASSUME NoRival, InvAlone, WindowFits, ValueInv, NEW i \in Iids, Decide(i)
    PROVE  ValueInv'
PROOF
  <1>. DEFINE c == L.current_iid
              D == decided'
              vs(k) == [j \in 1 .. k |-> D[c + j - 1]]
  <1>1. decided[i] = NoValue /\ UNCHANGED submitted
    BY DEF Decide
  <1>2. PICK ar \in Asked : ar.iid = i /\ D = [decided EXCEPT ![i] = ar.value]
    BY DEF Decide, NoRival
  <1>3. PICK k \in 0 .. Cardinality(Iids) :
           /\ \A j \in 0 .. k - 1 : c + j \in Iids /\ D[c + j] # NoValue
           /\ DeliverCallbacks(p, vs(k))
    BY Zenon DEF Decide, L
  <1>4. /\ LeaderInv /\ LEADER_IS_ME(p) /\ p \in Proposers /\ Sound(L) /\ InBuffer(L)
        /\ c \in Nat /\ L.next_unused_iid \in Nat /\ AsksBelow(L.next_unused_iid, msgs)
        /\ UsedBy(L, D) /\ Orderly(L, c)
    <2>1. Used(decided')
      BY AloneDecides
    <2>. QED  BY <2>1, AloneFacts DEF Used, UsedBy, ValueInv, Consistent
  <1>5. k \in Nat
    OBVIOUS
  <1>6. Consistent(L, D, submitted, msgs)
    <2>1. PICK m \in msgs : m.type = "accept_reqs" /\ ar \in m.reqs
      BY DEF Asked
    <2>2. DOMAIN decided = Iids
      BY <1>4 DEF LeaderInv
    <2>. QED  BY <1>1, <1>2, <2>1, <2>2, ConsistentDecided DEF ValueInv
  <1>. HIDE DEF D
  <1>7. ASSUME NEW j \in 1 .. k
        PROVE  /\ c + j - 1 \in Iids /\ D[c + j - 1] # NoValue
               /\ D[c + j - 1] = ValueOf(L, D, c + j - 1) /\ c + j - 1 < L.next_unused_iid
    <2>1. j - 1 \in 0 .. k - 1 /\ c + (j - 1) = c + j - 1
      <3>. HIDE DEF c
      <3>. QED  BY <1>4, <1>5
    <2>2. c + j - 1 \in Iids /\ D[c + j - 1] # NoValue
      BY <1>3, <2>1
    <2>. QED  BY <1>4, <1>6, <2>2 DEF Consistent, UsedBy
  <1>8. c + k <= L.next_unused_iid
    <2>1. CASE k = 0
      <3>1. c <= L.next_unused_iid
        BY <1>4 DEF Sound, Coherent
      <3>. HIDE DEF c
      <3>. QED  BY <1>4, <1>5, <2>1, <3>1
    <2>2. CASE k # 0
      <3>1. k \in 1 .. k
        BY <1>5, <2>2
      <3>2. c + k - 1 < L.next_unused_iid
        BY <1>7, <3>1
      <3>. HIDE DEF c
      <3>. QED  BY <1>4, <1>5, <3>2
    <2>. QED  BY <2>1, <2>2
  <1>. DEFINE ws == vs(k)
              r == AfterRun(L, TRUE, ws)
  <1>9. /\ ws = [j \in 1 .. k |-> D[c + j - 1]] /\ k = Len(ws)
    <2>. DEFINE taken == {D[c + j - 1] : j \in 1 .. k}
    <2>1. ws \in [1 .. k -> taken]
      OBVIOUS
    <2>2. ws \in Seq(taken)
      <3>. HIDE DEF ws, taken
      <3>. QED  BY <1>5, <2>1
    <2>3. DOMAIN ws = 1 .. k
      OBVIOUS
    <2>4. k = Len(ws)
      <3>. HIDE DEF ws
      <3>. QED  BY <1>5, <2>2, <2>3
    <2>. QED  BY <2>4
  <1>10. leader'[p] = r.info /\ msgs' = msgs \cup r.sent
    <2>1. LEADER_IS_ME(p) = TRUE
      BY <1>4 DEF LEADER_IS_ME
    <2>. HIDE DEF vs
    <2>. QED  BY <1>3, <1>4, <2>1 DEF DeliverCallbacks, LeaderInv, L, Send
  <1>. HIDE DEF vs, ws
  <1>11. GivenInOrder(L, ws, k)
    <2>1. ASSUME NEW j \in 1 .. k
          PROVE  ws[j] = Given(L, c + j - 1)
      <3>1. ~ (c + j - 1 < c)
        <4>. HIDE DEF c
        <4>. QED  BY <1>4, <1>5
      <3>. QED  BY <1>7, <1>9, <3>1 DEF ValueOf
    <2>. QED  BY <1>8, <2>1 DEF GivenInOrder
  <1>12. RanValues(L, r, ws, k)
    BY <1>4, <1>5, <1>9, <1>11, RunValues
  <1>13. RanTo(L, r, k)
    BY <1>4, <1>5, <1>9, RunLeads
  <1>. HIDE DEF r
  <1>14. r.info.current_iid = c + k /\ r.info.next_unused_iid \in Nat
    <2>1. c + k <= L.highest_open + 1
      <3>1. L.next_unused_iid <= L.highest_open + 1 /\ L.highest_open \in Nat
        BY <1>4 DEF Sound, Coherent, LeaderInfo
      <3>. HIDE DEF c
      <3>. QED  BY <1>4, <1>5, <1>8, <3>1
    <2>2. r.info.current_iid = c + k /\ Sound(r.info)
      BY <1>13, <2>1 DEF RanTo
    <2>. QED  BY <2>2 DEF Sound, Coherent, LeaderInfo
  <1>15. \A j \in 1 .. k : c + j - 1 \in Iids /\ D[c + j - 1] # NoValue
                           /\ ws[j] = D[c + j - 1]
    BY <1>7, <1>9
  <1>16. Consistent(r.info, D, submitted, msgs \cup r.sent)
    BY <1>4, <1>5, <1>6, <1>8, <1>12, <1>14, <1>15, ConsistentRun
  <1>. QED  BY <1>1, <1>10, <1>16 DEF ValueInv, L, D

LEMMA InitValues ==
    ASSUME Init, WindowFits
    PROVE  ValueInv
PROOF
  <1>1. LeaderInv /\ LEADER_IS_ME(p) /\ p \in Proposers
    BY InitLeads, LeaderAloneAssumption
  <1>2. L = Promoted(p, InitialInfo) /\ InitialInfo.current_iid = 1
    BY <1>1 DEF Init, LeaderInit, L, p, InitialInfo
  <1>3. Cleared(InitialInfo)
    <2>1. InitialInfo.proposer_state \in [ProposerSlots -> InstanceInfo]
      BY EmptyType DEF InitialInfo
    <2>2. InitialInfo \in LeaderInfo
      BY <2>1 DEF InitialInfo, LeaderInfo
    <2>. QED  BY <2>2 DEF Cleared, InitialInfo
  <1>4. InBuffer(L) /\ Sound(L)
    BY <1>1 DEF WindowFits, LeaderInv
  <1>5. L.current_iid = 1
    BY <1>1, <1>2, <1>3, <1>4, PromotedSound
  <1>6. Orderly(L, 1) /\ Held(L, 1) = {}
    BY <1>1, <1>2, <1>3, <1>4, PromotedValues
  <1>7. Past(L) = {}
    <2>1. \A i \in Iids : ~ (i < 1)
      BY MessagesAssumption
    <2>. QED  BY <1>5, <2>1 DEF Past
  <1>8. decided = [i \in Iids |-> NoValue] /\ submitted = {}
    BY DEF Init
  <1>9. AsksFor(L, decided, msgs)
    <2>1. ASSUME NEW m \in msgs
          PROVE  m.type = "prepare_reqs"
      BY DEF Init, FirstPrepares, PrepareReqs
    <2>. QED  BY <2>1 DEF AsksFor
  <1>. QED  BY <1>5, <1>6, <1>7, <1>8, <1>9 DEF ValueInv, Consistent

LEMMA ValuesStep ==
    ASSUME NoRival, InvAlone, WindowFits, WindowFits', ValueInv, NoStalePromise,
           [Next]_vars
    PROVE  ValueInv'
PROOF
  <1>1. CASE Submit
    BY <1>1, SubmitValues
  <1>2. CASE Announce
    <2>1. PICK id \in Announced : HandleOracleMsg(p, id)
      BY <1>2 DEF Announce
    <2>2. id = p /\ LEADER_IS_ME(p)
      BY <2>1 DEF InvAlone, NoRival
    <2>3. UNCHANGED <<leader, msgs, decided, submitted>>
      BY <1>2, <2>1, <2>2 DEF HandleOracleMsg, Announce
    <2>. QED  BY <2>3 DEF ValueInv, L
  <1>3. CASE ReceivePromises
    BY <1>3, ReceivePromisesMoves
  <1>4. CASE \E i \in Iids : Decide(i)
    BY <1>4, DecideValues
  <1>5. CASE CheckPhase1
    BY <1>5, CheckPhase1Moves
  <1>6. CASE CheckPhase2
    BY <1>6, CheckPhase2Moves
  <1>7. CASE UNCHANGED vars
    BY <1>7 DEF vars, leaderVars, ValueInv, L
  <1>. QED
    BY <1>1, <1>2, <1>3, <1>4, <1>5, <1>6, <1>7 DEF Next

LEMMA ValueInvariant ==
    ASSUME NoRival
    PROVE  Spec /\ []WindowFits /\ []NoStalePromise => [](InvAlone /\ ValueInv)
PROOF
  <1>1. Init /\ WindowFits => ValueInv
    BY InitValues
  <1>2. InvAlone /\ WindowFits /\ WindowFits' /\ ValueInv /\ NoStalePromise /\ [Next]_vars
            => ValueInv'
    BY ValuesStep
  <1>. QED  BY <1>1, <1>2, AloneInvariant, PTL DEF Spec

LEMMA InvOneValue == LeaderInv /\ ValueInv => OneValuePerInstance
PROOF
  <1>. SUFFICES ASSUME LeaderInv, ValueInv PROVE OneValuePerInstance
    OBVIOUS
  <1>1. ASSUME NEW ar \in Asked
        PROVE  ar.value = ValueOf(L, decided, ar.iid)
    <2>1. PICK m \in msgs : m.type = "accept_reqs" /\ ar \in m.reqs
      BY DEF Asked
    <2>2. ar.iid \in Iids
      <3>1. m \in Message
        BY DEF LeaderInv, WellFormed
      <3>2. ar \in AcceptReq
        BY <2>1, <3>1 DEF Message, AckMessage
      <3>. QED  BY <3>2 DEF AcceptReq
    <2>. QED  BY <2>1, <2>2 DEF ValueInv, Consistent, AsksFor
  <1>. QED  BY <1>1 DEF OneValuePerInstance

(* A set with exactly one of something, and one with none. *)
LEMMA CountsOne ==
    ASSUME NEW T
    PROVE  /\ \A x : T = {x} => Cardinality(T) = 1
           /\ T = {} => Cardinality(T) = 0
BY FS_Singleton, FS_EmptySet

LEMMA InvOnce == LeaderInv /\ LEADER_IS_ME(p) /\ ValueInv => EachValueOnce
PROOF
  <1>. SUFFICES ASSUME LeaderInv, LEADER_IS_ME(p), ValueInv, NEW v \in submitted
                PROVE  Cardinality({n \in DOMAIN L.pending_list : L.pending_list[n] = v})
                         + Cardinality({i \in Window : Instance(L, i).p2_value = v})
                         + Cardinality({i \in Iids : i < L.current_iid /\ decided[i] = v}) = 1
    BY DEF EachValueOnce, Places
  <1>. DEFINE c == L.current_iid
              InList == {n \in DOMAIN L.pending_list : L.pending_list[n] = v}
              InWindow == {i \in Window : Instance(L, i).p2_value = v}
              InPast == {i \in Iids : i < L.current_iid /\ decided[i] = v}
  <1>1. Coherent(L, c) /\ Window = WindowFrom(L, c)
    BY LeadingWindow
  <1>2. /\ HeldOnce(L, c)
        /\ \A i \in Past(L) : decided[i] # NoValue /\ decided[i] \notin Held(L, c)
        /\ \A i, j \in Past(L) : decided[i] = decided[j] => i = j
        /\ submitted = Held(L, c) \cup {decided[i] : i \in Past(L)}
    BY DEF ValueInv, Consistent, Orderly
  <1>3. \A v1 \in Held(L, c) : v1 # NoValue
    BY <1>1, AssignedType, MessagesAssumption
  <1>4. v # NoValue
    BY <1>2, <1>3
  <1>5. InPast = {i \in Past(L) : decided[i] = v}
    BY DEF Past
  <1>6. InWindow = {i \in Assigned(L, c) : Given(L, i) = v}
    <2>1. ASSUME NEW i \in WindowFrom(L, c), Given(L, i) = v
          PROVE  i \in Assigned(L, c)
      BY <1>1, <1>4, <2>1, AssignedType
    <2>2. \A i \in Assigned(L, c) : i \in WindowFrom(L, c)
      BY <1>1, AssignedType
    <2>. QED  BY <1>1, <2>1, <2>2 DEF Given
  <1>. HIDE DEF c
  <1>7. CASE \E n \in DOMAIN L.pending_list : L.pending_list[n] = v
    <2>1. PICK n \in DOMAIN L.pending_list : L.pending_list[n] = v
      BY <1>7
    <2>2. InList = {n}
      BY <1>2, <2>1 DEF HeldOnce
    <2>3. InWindow = {}
      BY <1>2, <1>6, <2>1 DEF HeldOnce
    <2>4. InPast = {}
      BY <1>2, <1>5, <2>1 DEF Held, Listed
    <2>. HIDE DEF InList, InWindow, InPast
    <2>5. Cardinality(InList) = 1 /\ Cardinality(InWindow) = 0 /\ Cardinality(InPast) = 0
      BY <2>2, <2>3, <2>4, CountsOne
    <2>. QED  BY <2>5 DEF InList, InWindow, InPast
  <1>8. CASE \E i \in Assigned(L, c) : Given(L, i) = v
    <2>1. PICK i \in Assigned(L, c) : Given(L, i) = v
      BY <1>8
    <2>2. InList = {}
      BY <1>2, <2>1 DEF HeldOnce
    <2>3. InWindow = {i}
      BY <1>2, <1>6, <2>1 DEF HeldOnce
    <2>4. InPast = {}
      BY <1>2, <1>5, <2>1 DEF Held
    <2>. HIDE DEF InList, InWindow, InPast
    <2>5. Cardinality(InList) = 0 /\ Cardinality(InWindow) = 1 /\ Cardinality(InPast) = 0
      BY <2>2, <2>3, <2>4, CountsOne
    <2>. QED  BY <2>5 DEF InList, InWindow, InPast
  <1>9. CASE v \notin Held(L, c)
    <2>1. PICK i \in Past(L) : decided[i] = v
      BY <1>2, <1>9
    <2>2. InList = {}
      BY <1>9 DEF Held, Listed
    <2>3. InWindow = {}
      BY <1>6, <1>9 DEF Held
    <2>4. InPast = {i}
      BY <1>2, <1>5, <2>1
    <2>. HIDE DEF InList, InWindow, InPast
    <2>5. Cardinality(InList) = 0 /\ Cardinality(InWindow) = 0 /\ Cardinality(InPast) = 1
      BY <2>2, <2>3, <2>4, CountsOne
    <2>. QED  BY <2>5 DEF InList, InWindow, InPast
  <1>. QED  BY <1>7, <1>8, <1>9 DEF Held, Listed

(* Whatever times out, is promised, decided or delivered in between, a lone leader
   asks for the same value each time it asks the acceptors for an instance: for
   any number of instances if no stale promise is taken for a new one. *)
THEOREM OneValuePerInstanceCorrect ==
    ASSUME NoRival
    PROVE  Spec /\ []WindowFits /\ []NoStalePromise => []OneValuePerInstance
PROOF
  <1>1. InvAlone /\ ValueInv => OneValuePerInstance
    BY InvOneValue DEF InvAlone
  <1>. QED  BY <1>1, ValueInvariant, PTL

(* A value a client handed to a lone leader waits in the list, or is assigned to
   one instance, or was delivered in one instance: none is lost, none used twice. *)
THEOREM EachValueOnceCorrect ==
    ASSUME NoRival
    PROVE  Spec /\ []WindowFits /\ []NoStalePromise => []EachValueOnce
PROOF
  <1>1. InvAlone /\ ValueInv => EachValueOnce
    BY InvOnce DEF InvAlone
  <1>. QED  BY <1>1, ValueInvariant, PTL

(* What a client submits once to a lone leader is decided in one instance at most.
   A stale promise is all that can break this, and can: the code takes it for the
   instance that reuses the slot. *)
THEOREM DecidedOnceCorrect ==
    ASSUME NoRival
    PROVE  Spec /\ []WindowFits /\ []NoStalePromise => []DecidedOnce
PROOF
  <1>1. InvAlone /\ WindowFits /\ ValueInv => DecidedOnce
    <2>. SUFFICES ASSUME InvAlone, WindowFits, ValueInv,
                         NEW i \in Iids, NEW j \in Iids,
                         decided[i] = decided[j], decided[i] # NoValue
                  PROVE  i = j
      BY DEF DecidedOnce
    <2>. DEFINE c == L.current_iid
    <2>1. /\ HeldOnce(L, c)
          /\ \A k \in Iids : decided[k] # NoValue => decided[k] = ValueOf(L, decided, k)
          /\ \A k \in Past(L) : decided[k] \notin Held(L, c)
          /\ \A k, n \in Past(L) : decided[k] = decided[n] => k = n
      BY DEF ValueInv, Consistent, Orderly
    <2>2. ASSUME NEW k \in Iids, decided[k] # NoValue, k \notin Past(L)
          PROVE  k \in Assigned(L, c) /\ decided[k] = Given(L, k)
      <3>1. c \in Nat /\ L.next_unused_iid \in Nat /\ k < L.next_unused_iid /\ k \in Nat
        BY <2>2, AloneFacts, MessagesAssumption DEF UsedBy
      <3>2. ~ (k < c)
        BY <2>2 DEF Past
      <3>3. decided[k] = Given(L, k)
        BY <2>1, <2>2, <3>2 DEF ValueOf
      <3>4. k \in c .. L.next_unused_iid - 1
        <4>. HIDE DEF c
        <4>. QED  BY <3>1, <3>2
      <3>. QED  BY <3>3, <3>4 DEF Assigned
    <2>3. \A k \in Iids : decided[k] # NoValue /\ k \notin Past(L) => decided[k] \in Held(L, c)
      BY <2>2 DEF Held
    <2>. HIDE DEF c
    <2>4. CASE i \in Past(L) \/ j \in Past(L)
      BY <2>1, <2>3, <2>4
    <2>5. CASE i \notin Past(L) /\ j \notin Past(L)
      <3>1. i \in Assigned(L, c) /\ j \in Assigned(L, c) /\ Given(L, i) = Given(L, j)
        BY <2>2, <2>5
      <3>. QED  BY <2>1, <3>1 DEF HeldOnce
    <2>. QED  BY <2>4, <2>5
  <1>. QED  BY <1>1, ValueInvariant, PTL

=============================================================================
