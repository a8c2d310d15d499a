---------------------------- MODULE PaxosProofs ----------------------------
(***************************************************************************)
(* What is proved of the whole system: acceptors that restart, proposers   *)
(* that lead, step down and lead again, learners below them, and a network *)
(* that loses, repeats and reorders.  The lemmas about a component's       *)
(* handlers come from the modules of its proofs.                           *)
(***************************************************************************)
EXTENDS Paxos, AcceptorProofs, LearnerProofs, LeaderProofs

-----------------------------------------------------------------------------
(* The proposer and the learner below it count the same deliveries, whoever  *)
(* leads and whatever the window of a leader looks like.                     *)

\* From record L to record K current_iid stays.
SameCurrent(L, K) == DOMAIN K = DOMAIN L /\ K.current_iid = L.current_iid

HasCurrent(L) == "current_iid" \in DOMAIN L

(* No function of the leader but the deliver callback assigns current_iid. *)
LEMMA CurrentStays ==
    ASSUME NEW L, HasCurrent(L)
    PROVE  /\ \A p : SameCurrent(L, OpenInstancesP1(p, L))
           /\ \A E : SameCurrent(L, CheckP1Pending(L, E))
           /\ SameCurrent(L, OpenInstancesP2Expired(L))
           /\ SameCurrent(L, OpenInstancesP2New(L))
           /\ \A C, E : SameCurrent(L, CheckP2(L, C, E))
           /\ \A acks : SameCurrent(L, AfterPromises(L, acks))
           /\ \A i, v : SameCurrent(L, CloseInstance(L, i, v))
           /\ \A p : SameCurrent(L, Promoted(p, L))
           /\ SameCurrent(L, SteppedDown(L))
           /\ \A v : SameCurrent(L, Enqueued(L, v))
PROOF
  <1>1. \A p : SameCurrent(L, OpenInstancesP1(p, L))
    BY DEF HasCurrent, SameCurrent, OpenInstancesP1
  <1>2. \A E : SameCurrent(L, CheckP1Pending(L, E))
    BY DEF HasCurrent, SameCurrent, CheckP1Pending
  <1>3. SameCurrent(L, OpenInstancesP2Expired(L))
    BY DEF HasCurrent, SameCurrent, OpenInstancesP2Expired
  <1>4. SameCurrent(L, OpenInstancesP2New(L))
    BY DEF HasCurrent, SameCurrent, OpenInstancesP2New
  <1>5. \A C, E : SameCurrent(L, CheckP2(L, C, E))
    BY DEF HasCurrent, SameCurrent, CheckP2
  <1>6. \A acks : SameCurrent(L, AfterPromises(L, acks))
    BY DEF HasCurrent, SameCurrent, AfterPromises
  <1>7. \A i, v : SameCurrent(L, CloseInstance(L, i, v))
    BY DEF HasCurrent, SameCurrent, CloseInstance
  <1>8. \A p : SameCurrent(L, Promoted(p, L))
    BY DEF HasCurrent, SameCurrent, Promoted, OpenInstancesP1
  <1>9. SameCurrent(L, SteppedDown(L))
    BY DEF HasCurrent, SameCurrent, SteppedDown
  <1>10. \A v : SameCurrent(L, Enqueued(L, v))
    BY DEF HasCurrent, SameCurrent, Enqueued
  <1>. QED
    BY <1>1, <1>2, <1>3, <1>4, <1>5, <1>6, <1>7, <1>8, <1>9, <1>10

(* One after the other. *)
LEMMA CurrentStaysTwice ==
    ASSUME NEW L, NEW J, NEW K, HasCurrent(L), SameCurrent(L, J)
    PROVE  HasCurrent(J) /\ (SameCurrent(J, K) => SameCurrent(L, K))
BY DEF SameCurrent, HasCurrent

(* The deliver callback moves it on by one. *)
LEMMA DeliveredCurrent ==
    ASSUME NEW L, HasCurrent(L), NEW me, NEW i, NEW v, NEW K, K = Delivered(L, me, i, v)
    PROVE  HasCurrent(K) /\ K.current_iid = i + 1
PROOF
  <1>. DEFINE J == IF ~ me \/ NotOpened(L, i) THEN L
                   ELSE OpenInstancesP2New(CloseInstance(L, i, v))
  <1>1. HasCurrent(J)
    <2>1. HasCurrent(CloseInstance(L, i, v))
      BY CurrentStays DEF SameCurrent, HasCurrent
    <2>2. HasCurrent(OpenInstancesP2New(CloseInstance(L, i, v)))
      BY <2>1, CurrentStays DEF SameCurrent, HasCurrent
    <2>. QED  BY <2>2
  <1>2. K = [J EXCEPT !.current_iid = i + 1]
    BY DEF Delivered
  <1>. HIDE DEF J
  <1>. QED  BY <1>1, <1>2 DEF HasCurrent

(* A run of them by as many as there are values. *)
LEMMA RunCurrent ==
    ASSUME NEW L, HasCurrent(L), L.current_iid \in Nat, NEW me, NEW vs,
           NEW k, k \in Nat, k = Len(vs)
    PROVE  LET K == AfterRun(L, me, vs).info
           IN HasCurrent(K) /\ K.current_iid = L.current_iid + k
PROOF
  <1>. DEFINE c == L.current_iid
  <1>1. PICK f : Runs(f, L, me, vs, k) /\ AfterRun(L, me, vs) = f[k]
    <2>1. HasRun(L, me, vs, k)
      BY RunExists
    <2>. QED  BY <2>1, Zenon DEF HasRun
  <1>. DEFINE After(n) == HasCurrent(f[n].info) /\ f[n].info.current_iid = c + n
              S == {n \in Nat : n <= k => After(n)}
  <1>2. 0 \in S
    <2>1. f[0].info = L
      BY <1>1 DEF Runs
    <2>. QED  BY <2>1
  <1>3. ASSUME NEW n \in Nat, n \in S
        PROVE  n + 1 \in S
    <2>. SUFFICES ASSUME n + 1 <= k PROVE After(n + 1)
      OBVIOUS
    <2>. DEFINE J == f[n].info
                i == J.current_iid
                v == vs[n + 1]
    <2>1. After(n)
      BY <1>3
    <2>2. f[n + 1] = RunStep(f[n], me, v)
      <3>1. n + 1 \in 1 .. k /\ (n + 1) - 1 = n
        OBVIOUS
      <3>. QED  BY <1>1, <3>1 DEF Runs
    <2>3. f[n + 1].info = Delivered(J, me, i, v)
      BY <2>2 DEF RunStep
    <2>4. HasCurrent(f[n + 1].info) /\ f[n + 1].info.current_iid = i + 1
      <3>1. HasCurrent(J)
        BY <2>1
      <3>. HIDE DEF J, i, v
      <3>. QED  BY <2>3, <3>1, DeliveredCurrent
    <2>5. i = c + n /\ c \in Nat
      BY <2>1
    <2>6. i + 1 = c + (n + 1)
      <3>. HIDE DEF i, c
      <3>. QED  BY <2>5
    <2>. QED  BY <2>4, <2>6
  <1>4. Nat \subseteq S
    <2>. HIDE DEF S
    <2>. QED  BY <1>2, <1>3, NumberInduction
  <1>5. After(k)
    BY <1>4
  <1>. QED  BY <1>1, <1>5

\* The least that is needed of the types: this holds whatever is sent.
CountsAgree ==
    /\ DOMAIN leader = Proposers /\ DOMAIN delivered = Learners
    /\ DOMAIN current_iid = Learners
    /\ \A p \in Proposers : HasCurrent(leader[p])
    /\ \A l \in Learners : current_iid[l] \in Nat /\ \E S : delivered[l] \in Seq(S)
    /\ CurrentIidInStep

(* What an acknowledgement, well formed or not, adds to the sequence delivered. *)
LEMMA AckDelivers ==
    ASSUME CountsAgree, NEW l \in Learners, NEW m, HandleAcceptAck(l, m)
    PROVE  /\ DOMAIN delivered' = Learners /\ DOMAIN current_iid' = Learners
           /\ \A x \in Learners \ {l} :
                 delivered'[x] = delivered[x] /\ current_iid'[x] = current_iid[x]
           /\ \E k \in Nat : /\ current_iid'[l] = current_iid[l] + k
                             /\ Len(delivered'[l]) - Len(delivered[l]) = k
                             /\ \E S : delivered'[l] \in Seq(S)
PROOF
  <1>1. PICK T : delivered[l] \in Seq(T)
    BY DEF CountsAgree
  <1>2. CASE Ignored(l, m) \/ Recorded(l, m)
    <2>1. UNCHANGED <<current_iid, delivered>>
      BY <1>2 DEF Ignored, Recorded
    <2>2. Len(delivered[l]) \in Nat /\ Len(delivered'[l]) - Len(delivered[l]) = 0
      BY <1>1, <2>1
    <2>3. current_iid'[l] = current_iid[l] + 0 /\ DOMAIN current_iid' = Learners
          /\ \A x \in Learners : current_iid'[x] = current_iid[x]
      BY <2>1 DEF CountsAgree
    <2>4. DOMAIN delivered' = Learners /\ \A x \in Learners : delivered'[x] = delivered[x]
      BY <2>1 DEF CountsAgree
    <2>5. \E S : delivered'[l] \in Seq(S)
      BY <1>1, <2>4
    <2>6. 0 \in Nat
      OBVIOUS
    <2>. QED  BY <2>2, <2>3, <2>4, <2>5, <2>6
  <1>3. ASSUME NEW a \in Acceptors, NEW k \in 0 .. LEARNER_ARRAY_SIZE,
               Closes(l, m, a, k)
        PROVE  /\ DOMAIN delivered' = Learners /\ DOMAIN current_iid' = Learners
               /\ \A x \in Learners \ {l} :
                     delivered'[x] = delivered[x] /\ current_iid'[x] = current_iid[x]
               /\ \E j \in Nat : /\ current_iid'[l] = current_iid[l] + j
                                 /\ Len(delivered'[l]) - Len(delivered[l]) = j
                                 /\ \E S : delivered'[l] \in Seq(S)
    <2>. DEFINE run == [j \in 1 .. k |->
               DeliveredValue(ClosedBuffer(l, m, a)[SlotOf(current_iid[l] + j - 1)])]
                U == {run[j] : j \in 1 .. k}
    <2>1. /\ delivered' = [delivered EXCEPT ![l] = @ \o run]
          /\ current_iid' = [current_iid EXCEPT ![l] = @ + k]
      BY <1>3 DEF Closes, Completes
    <2>2. k \in Nat
      BY LearnerAssumption
    <2>3. run \in [1 .. k -> U] /\ DOMAIN run = 1 .. k
      OBVIOUS
    <2>. HIDE DEF run, U
    <2>4. run \in Seq(U) /\ Len(run) = k
      BY <2>2, <2>3
    <2>5. run \in Seq(T \cup U) /\ delivered[l] \in Seq(T \cup U)
      BY <1>1, <2>4
    <2>6. delivered[l] \o run \in Seq(T \cup U)
          /\ Len(delivered[l] \o run) - Len(delivered[l]) = k
      BY <2>2, <2>4, <2>5
    <2>7. delivered'[l] = delivered[l] \o run /\ current_iid'[l] = current_iid[l] + k
      BY <2>1 DEF CountsAgree
    <2>. QED  BY <2>1, <2>2, <2>6, <2>7 DEF CountsAgree
  <1>. QED  BY <1>2, <1>3 DEF HandleAcceptAck

(* An acknowledgement moves both on, by the values it delivers. *)
LEMMA AckCounts ==
    ASSUME CountsAgree, NEW l \in Learners, ReceiveAcceptAck(l)
    PROVE  CountsAgree'
PROOF
  <1>. DEFINE more == Len(delivered'[l]) - Len(delivered[l])
              vs == [n \in 1 .. more |-> delivered'[l][Len(delivered[l]) + n].value]
  <1>1. PICK m \in msgs : HandleAcceptAck(l, m)
    BY DEF ReceiveAcceptAck
  <1>2. IF l \in Proposers /\ delivered'[l] # delivered[l]
        THEN DeliverCallbacks(l, vs) ELSE leader' = leader
    BY Zenon DEF ReceiveAcceptAck, leaderVars
  <1>3. /\ DOMAIN delivered' = Learners /\ DOMAIN current_iid' = Learners
        /\ \A x \in Learners \ {l} :
              delivered'[x] = delivered[x] /\ current_iid'[x] = current_iid[x]
    BY <1>1, AckDelivers
  <1>4. PICK k \in Nat : /\ current_iid'[l] = current_iid[l] + k
                         /\ more = k
                         /\ \E S : delivered'[l] \in Seq(S)
    BY <1>1, AckDelivers
  <1>5. /\ \A x \in Learners : current_iid'[x] \in Nat /\ \E S : delivered'[x] \in Seq(S)
    BY <1>3, <1>4 DEF CountsAgree
  <1>6. /\ DOMAIN leader' = Proposers
        /\ \A p \in Proposers :
              HasCurrent(leader'[p]) /\ leader'[p].current_iid = current_iid'[p]
    <2>1. CASE l \in Proposers /\ delivered'[l] # delivered[l]
      <3>. DEFINE r == AfterRun(leader[l], LEADER_IS_ME(l), vs)
      <3>1. leader' = [leader EXCEPT ![l] = r.info]
        <4>1. DeliverCallbacks(l, vs)
          BY <1>2, <2>1
        <4>. HIDE DEF vs
        <4>. QED  BY <4>1 DEF DeliverCallbacks
      <3>2. k = Len(vs)
        <4>. HIDE DEF more
        <4>1. DOMAIN vs = 1 .. k /\ vs \in [1 .. k -> {vs[n] : n \in 1 .. k}]
          BY <1>4
        <4>. HIDE DEF vs
        <4>. QED  BY <4>1
      <3>3. HasCurrent(leader[l]) /\ leader[l].current_iid = current_iid[l]
            /\ current_iid[l] \in Nat
        BY <2>1 DEF CountsAgree, CurrentIidInStep
      <3>4. HasCurrent(r.info) /\ r.info.current_iid = current_iid[l] + k
        <4>. HIDE DEF vs
        <4>. QED  BY <3>2, <3>3, RunCurrent
      <3>5. \A p \in Proposers \ {l} : p \in Learners /\ current_iid'[p] = current_iid[p]
        BY <1>3, PaxosAssumption
      <3>6. current_iid'[l] = current_iid[l] + k
        BY <1>4
      <3>. HIDE DEF r
      <3>. QED  BY <2>1, <3>1, <3>4, <3>5, <3>6 DEF CountsAgree, CurrentIidInStep
    <2>2. CASE ~ (l \in Proposers /\ delivered'[l] # delivered[l])
      <3>1. leader' = leader
        BY <1>2, <2>2
      <3>2. ASSUME NEW p \in Proposers
            PROVE  current_iid'[p] = current_iid[p]
        <4>1. p \in Learners
          BY PaxosAssumption
        <4>2. CASE p = l
          <5>1. delivered'[l] = delivered[l]
            BY <2>2, <4>2
          <5>2. k = 0
            <6>1. PICK S : delivered[l] \in Seq(S)
              BY DEF CountsAgree
            <6>2. Len(delivered[l]) \in Nat
              BY <6>1
            <6>. QED  BY <1>4, <5>1, <6>2
          <5>. QED  BY <1>4, <4>1, <4>2, <5>2 DEF CountsAgree
        <4>3. CASE p # l
          BY <1>3, <4>1, <4>3
        <4>. QED  BY <4>2, <4>3
      <3>. QED  BY <3>1, <3>2 DEF CountsAgree, CurrentIidInStep
    <2>. QED  BY <2>1, <2>2
  <1>. QED  BY <1>3, <1>5, <1>6 DEF CountsAgree, CurrentIidInStep

(* What a proposer does by itself leaves current_iid alone. *)
LEMMA ProposerCounts ==
    ASSUME CountsAgree, NEW p \in Proposers, UNCHANGED learnerVars,
           NEW K, SameCurrent(leader[p], K), leader' = [leader EXCEPT ![p] = K]
    PROVE  CountsAgree'
BY DEF CountsAgree, CurrentIidInStep, learnerVars, SameCurrent, HasCurrent

(* Every event keeps the two in step. *)
LEMMA CountsStep ==
    ASSUME CountsAgree, [Next]_vars
    PROVE  CountsAgree'
PROOF
  <1>1. ASSUME UNCHANGED <<learnerVars, leader>>
        PROVE  CountsAgree'
    BY <1>1 DEF CountsAgree, CurrentIidInStep, learnerVars
  <1>2. ASSUME NEW a \in Acceptors, AcceptorEvent(a)
        PROVE  CountsAgree'
    BY <1>1, <1>2 DEF AcceptorEvent, leaderVars
  <1>3. ASSUME NEW l \in Learners, ReceiveAcceptAck(l)
        PROVE  CountsAgree'
    BY <1>3, AckCounts
  <1>4. ASSUME NEW l \in Learners, CheckHoles(l)
        PROVE  CountsAgree'
    <2>1. UNCHANGED <<learnerVars, leader>>
      BY <1>4 DEF CheckHoles, HoleCheck, leaderVars
    <2>. QED  BY <1>1, <2>1
  <1>5. ASSUME NEW p \in Proposers, ReceivePromises(p)
        PROVE  CountsAgree'
    <2>1. PICK m \in msgs : HandlePrepareAckBatch(p, m)
      BY <1>5 DEF ReceivePromises
    <2>. DEFINE J == AfterPromises(leader[p], m.acks)
                M == OpenInstancesP2Expired(J)
    <2>2. /\ UNCHANGED learnerVars
          /\ \/ leader' = [leader EXCEPT ![p] = J]
             \/ leader' = [leader EXCEPT ![p] = OpenInstancesP2New(M)]
      BY <1>5, <2>1, Zenon DEF ReceivePromises, HandlePrepareAckBatch
    <2>3. SameCurrent(leader[p], J)
      BY CurrentStays DEF CountsAgree
    <2>4. HasCurrent(leader[p]) /\ HasCurrent(J)
      BY <2>3, CurrentStaysTwice DEF CountsAgree
    <2>. HIDE DEF J
    <2>5. SameCurrent(leader[p], M) /\ HasCurrent(M)
      BY <2>3, <2>4, CurrentStays, CurrentStaysTwice
    <2>. HIDE DEF M
    <2>6. SameCurrent(leader[p], OpenInstancesP2New(M))
      BY <2>4, <2>5, CurrentStays, CurrentStaysTwice
    <2>. QED  BY <2>2, <2>3, <2>6, ProposerCounts
  <1>6. ASSUME NEW p \in Proposers, CheckPhase1(p)
        PROVE  CountsAgree'
    <2>1. PICK E : leader' = [leader EXCEPT ![p] =
                                OpenInstancesP1(p, CheckP1Pending(leader[p], E))]
      BY <1>6, Zenon DEF CheckPhase1, PeriodicP1Check
    <2>. DEFINE J == CheckP1Pending(leader[p], E)
    <2>2. SameCurrent(leader[p], J) /\ HasCurrent(leader[p])
      BY CurrentStays DEF CountsAgree
    <2>. HIDE DEF J
    <2>3. SameCurrent(leader[p], OpenInstancesP1(p, J))
      BY <2>2, CurrentStays, CurrentStaysTwice
    <2>4. UNCHANGED learnerVars
      BY <1>6 DEF CheckPhase1
    <2>. QED  BY <2>1, <2>3, <2>4, ProposerCounts DEF J
  <1>7. ASSUME NEW p \in Proposers, CheckPhase2(p)
        PROVE  CountsAgree'
    <2>1. PICK C, E : leader' = [leader EXCEPT ![p] =
                                   OpenInstancesP2New(CheckP2(leader[p], C, E))]
      BY <1>7, Zenon DEF CheckPhase2, PeriodicP2Check
    <2>. DEFINE J == CheckP2(leader[p], C, E)
    <2>2. SameCurrent(leader[p], J) /\ HasCurrent(leader[p])
      BY CurrentStays DEF CountsAgree
    <2>. HIDE DEF J
    <2>3. SameCurrent(leader[p], OpenInstancesP2New(J))
      BY <2>2, CurrentStays, CurrentStaysTwice
    <2>4. UNCHANGED learnerVars
      BY <1>7 DEF CheckPhase2
    <2>. QED  BY <2>1, <2>3, <2>4, ProposerCounts DEF J
  <1>8. ASSUME NEW p \in Proposers, Submit(p)
        PROVE  CountsAgree'
    <2>1. PICK v : EnqueueValue(p, v)
      BY <1>8 DEF Submit
    <2>2. leader' = [leader EXCEPT ![p] = Enqueued(leader[p], v)]
      BY <2>1 DEF EnqueueValue, Enqueued
    <2>3. SameCurrent(leader[p], Enqueued(leader[p], v))
      BY CurrentStays DEF CountsAgree
    <2>4. UNCHANGED learnerVars
      BY <1>8 DEF Submit
    <2>. QED  BY <2>2, <2>3, <2>4, ProposerCounts
  <1>9. ASSUME NEW p \in Proposers, Announce(p)
        PROVE  CountsAgree'
    <2>1. PICK id \in Announced : HandleOracleMsg(p, id)
      BY <1>9 DEF Announce
    <2>2. UNCHANGED learnerVars
      BY <1>9 DEF Announce
    <2>3. \/ leader' = [leader EXCEPT ![p] = SteppedDown(leader[p])]
          \/ leader' = [leader EXCEPT ![p] = Promoted(p, leader[p])]
          \/ leader' = leader
      BY <2>1 DEF HandleOracleMsg
    <2>4. SameCurrent(leader[p], SteppedDown(leader[p]))
          /\ SameCurrent(leader[p], Promoted(p, leader[p]))
      BY CurrentStays DEF CountsAgree
    <2>. QED  BY <1>1, <2>2, <2>3, <2>4, ProposerCounts
  <1>10. CASE UNCHANGED vars
    BY <1>1, <1>10 DEF vars, leaderVars
  <1>. QED
    BY <1>2, <1>3, <1>4, <1>5, <1>6, <1>7, <1>8, <1>9, <1>10 DEF Next

(* Both start at 1. *)
LEMMA CountsInit ==
    ASSUME Init
    PROVE  CountsAgree
PROOF
  <1>1. HasCurrent(InitialInfo) /\ InitialInfo.current_iid = 1
    BY DEF HasCurrent, InitialInfo
  <1>2. ASSUME NEW p \in Proposers
        PROVE  SameCurrent(InitialInfo, leader[p])
    <2>1. SameCurrent(InitialInfo, Promoted(p, InitialInfo))
      BY <1>1, CurrentStays
    <2>2. SameCurrent(InitialInfo, InitialInfo)
      BY DEF SameCurrent
    <2>. QED  BY <2>1, <2>2 DEF Init, LeaderInit
  <1>3. /\ DOMAIN leader = Proposers
        /\ \A p \in Proposers : HasCurrent(leader[p]) /\ leader[p].current_iid = 1
    BY <1>1, <1>2 DEF Init, LeaderInit, SameCurrent, HasCurrent
  <1>4. /\ DOMAIN delivered = Learners /\ DOMAIN current_iid = Learners
        /\ \A l \in Learners : current_iid[l] = 1 /\ delivered[l] \in Seq({})
    BY DEF Init, LearnerInit
  <1>. QED  BY <1>3, <1>4, PaxosAssumption DEF CountsAgree, CurrentIidInStep

(* current_iid of proposer.c and current_iid of learner.c never differ between two
   events, for any number of leaders at once, any window and any datagrams. *)
THEOREM CurrentIidInStepCorrect == Spec => []CurrentIidInStep
PROOF
  <1>1. Init => CountsAgree
    BY CountsInit
  <1>2. CountsAgree /\ [Next]_vars => CountsAgree'
    BY CountsStep
  <1>3. CountsAgree => CurrentIidInStep
    BY DEF CountsAgree
  <1>. QED  BY <1>1, <1>2, <1>3, PTL DEF Spec

-----------------------------------------------------------------------------
(* The values of a leader that nobody competes with.                        *)

\* What holds of a leader between two events: D is what the learner below it
\* delivered, C what clients submitted, M what was sent.  A value submitted when
\* the list is full is dropped, so the leader knows some of C.
Led(L, D, C, M) ==
    /\ Sound(L)
    /\ AsksBelow(L.next_unused_iid, M)
    /\ UsedBy(L, D)
    /\ \E S \in SUBSET C : Consistent(L, D, S, M)

(* What the handlers rely on. *)
LEMMA LedFacts ==
    ASSUME NEW L, NEW D, NEW C, NEW M, Led(L, D, C, M)
    PROVE  /\ Sound(L) /\ Coherent(L, L.current_iid) /\ Orderly(L, L.current_iid)
           /\ L.current_iid \in Nat \ {0} /\ L.next_unused_iid \in Nat
           /\ L.highest_open \in Nat /\ L \in LeaderInfo
           /\ L.current_iid <= L.next_unused_iid
           /\ L.next_unused_iid <= L.highest_open + 1
BY DEF Led, Sound, Coherent, Consistent, LeaderInfo

(* What is asked for below an instance is asked for below a later one. *)
LEMMA AsksBelowLater ==
    ASSUME NEW M, WellFormed(M), NEW n \in Nat, NEW k \in Nat, n <= k, AsksBelow(n, M)
    PROVE  AsksBelow(k, M)
PROOF
  <1>1. ASSUME NEW m \in M, m.type = "accept_reqs", NEW ar \in m.reqs
        PROVE  ar.iid < k
    <2>1. ar.iid < n
      BY <1>1 DEF AsksBelow
    <2>2. ar.iid \in Nat
      <3>1. m \in Message
        BY DEF WellFormed
      <3>2. ar \in AcceptReq
        BY <1>1, <3>1, MessageShapes
      <3>. QED  BY <3>2, MessagesAssumption DEF AcceptReq
    <2>. QED  BY <2>1, <2>2
  <1>. QED  BY <1>1 DEF AsksBelow

(* Values move from the list into instances, and are asked for there. *)
LEMMA LedMoves ==
    ASSUME NEW L, NEW D, NEW C, NEW M, Led(L, D, C, M), WellFormed(M),
           NEW K, Sound(K), K.current_iid = L.current_iid,
           MovesValues(L, K, L.current_iid),
           NEW N, AsksGiven(K, L.current_iid, N)
    PROVE  Led(K, D, C, M \cup N)
PROOF
  <1>1. /\ L.current_iid \in Nat /\ L.next_unused_iid \in Nat
        /\ AsksBelow(L.next_unused_iid, M) /\ UsedBy(L, D)
    BY LedFacts DEF Led
  <1>2. K.next_unused_iid \in Nat /\ L.next_unused_iid <= K.next_unused_iid
    BY DEF Sound, Coherent, LeaderInfo, MovesValues
  <1>3. PICK S \in SUBSET C : Consistent(L, D, S, M)
    BY DEF Led
  <1>4. Consistent(K, D, S, M \cup N)
    BY <1>1, <1>3, ConsistentMoved
  <1>5. AsksBelow(K.next_unused_iid, N)
    <2>1. ASSUME NEW m \in N, m.type = "accept_reqs", NEW ar \in m.reqs
          PROVE  ar.iid < K.next_unused_iid
      <3>1. ar.iid \in Assigned(K, L.current_iid)
        BY <2>1 DEF AsksGiven
      <3>. QED  BY <1>1, <1>2, <3>1 DEF Assigned
    <2>. QED  BY <2>1 DEF AsksBelow
  <1>6. AsksBelow(K.next_unused_iid, M \cup N)
    <2>1. AsksBelow(K.next_unused_iid, M)
      BY <1>1, <1>2, AsksBelowLater
    <2>. QED  BY <1>5, <2>1, BatchesFormed
  <1>7. UsedBy(K, D)
    BY <1>1, <1>2, MessagesAssumption DEF UsedBy
  <1>. QED  BY <1>3, <1>4, <1>6, <1>7 DEF Led

(* leader_periodic_p1_check *)
LEMMA LedP1Check ==
    ASSUME NEW p \in Proposers, NEW L, NEW D, NEW C, NEW M,
           Led(L, D, C, M), WellFormed(M), InBuffer(L),
           NEW E \in SUBSET {i \in Pending(L) : CanRetry(L, i)},
           NEW J, J = CheckP1Pending(L, E), NEW K, K = OpenInstancesP1(p, J), InBuffer(K),
           NEW N, N = PrepareReqs(J, E) \cup PrepareReqs(K, ToOpen(J))
    PROVE  Led(K, D, C, M \cup N) /\ WellFormed(N) /\ K.current_iid = L.current_iid
PROOF
  <1>. DEFINE c == L.current_iid
  <1>1. Sound(L) /\ Orderly(L, c)
    BY LedFacts
  <1>2. /\ Sound(K) /\ K.current_iid = c
        /\ Coherent(J, c) /\ InBuffer(J) /\ J.current_iid = c
        /\ WindowFrom(J, c) = WindowFrom(L, c)
        /\ E \subseteq WindowFrom(L, c)
        /\ ToOpen(J) \subseteq WindowFrom(K, c)
    BY <1>1, PeriodicP1Sound
  <1>3. MovesValues(L, K, c)
    BY <1>1, PeriodicP1Values
  <1>. HIDE DEF c
  <1>4. Fits(J, c) /\ Fits(K, c) /\ Coherent(K, c)
    BY <1>2 DEF InBuffer, Sound
  <1>5. PreparesFor(E, PrepareReqs(J, E))
    BY <1>2, <1>4, PreparesSent
  <1>6. PreparesFor(ToOpen(J), PrepareReqs(K, ToOpen(J)))
    BY <1>2, <1>4, PreparesSent
  <1>7. WellFormed(N)
    BY <1>5, <1>6, BatchesFormed
  <1>8. AsksGiven(K, c, N)
    BY <1>5, <1>6, BatchesGiven
  <1>9. Led(K, D, C, M \cup N)
    BY <1>2, <1>3, <1>8, LedMoves DEF c
  <1>. QED  BY <1>2, <1>7, <1>9 DEF c

\* leader_periodic_p2_check leaves a leader.
P2CheckLed(L, D, C, M, closed, expired) ==
    LET J == CheckP2(L, closed, expired)
        K == OpenInstancesP2New(J)
        N == PrepareReqs(J, expired) \cup AcceptReqs(K, Started(J))
    IN Led(K, D, C, M \cup N) /\ WellFormed(N)

(* leader_periodic_p2_check *)
LEMMA LedP2Check ==
    ASSUME NEW L, NEW D, NEW C, NEW M, Led(L, D, C, M), WellFormed(M), InBuffer(L),
           NEW is_closed,
           NEW expired \in SUBSET {i \in Running(L) \ is_closed : CanRetry(L, i)}
    PROVE  P2CheckLed(L, D, C, M, Running(L) \cap is_closed, expired)
PROOF
  <1>. DEFINE c == L.current_iid
              closed == Running(L) \cap is_closed
              J == CheckP2(L, closed, expired)
              K == OpenInstancesP2New(J)
              N == PrepareReqs(J, expired) \cup AcceptReqs(K, Started(J))
  <1>1. Sound(L) /\ Orderly(L, c)
    BY LedFacts
  <1>2. Checks(L, J, K, expired)
    BY <1>1, PeriodicP2Sound
  <1>3. MovesValues(L, K, c) /\ AsksGiven(K, c, AcceptReqs(K, Started(J)))
    BY <1>1, PeriodicP2Values
  <1>4. /\ Sound(K) /\ K.current_iid = c /\ Sound(J) /\ InBuffer(J) /\ J.current_iid = c
        /\ K.next_unused_iid = J.next_unused_iid + StartCount(J)
        /\ WindowFrom(J, c) = WindowFrom(L, c) /\ WindowFrom(K, c) = WindowFrom(L, c)
        /\ expired \subseteq WindowFrom(L, c)
    BY <1>2 DEF Checks
  <1>. HIDE DEF c
  <1>5. Coherent(J, c) /\ Fits(J, c) /\ Coherent(K, c)
    BY <1>4 DEF Sound, InBuffer
  <1>6. PreparesFor(expired, PrepareReqs(J, expired))
    BY <1>4, <1>5, PreparesSent
  <1>7. AcceptsFor(Started(J), AcceptReqs(K, Started(J)))
    BY <1>4, <1>5, StartedSent
  <1>8. WellFormed(N)
    BY <1>6, <1>7, BatchesFormed
  <1>9. AsksGiven(K, c, N)
    BY <1>3, <1>6, BatchesGiven
  <1>10. Led(K, D, C, M \cup N)
    BY <1>3, <1>4, <1>9, LedMoves DEF c
  <1>. QED  BY <1>8, <1>10 DEF P2CheckLed

(* handle_prepare_ack_batch: leader and requests afterwards. *)
LEMMA LedPromises ==
    ASSUME NEW L, NEW D, NEW C, NEW M, Led(L, D, C, M), WellFormed(M), InBuffer(L),
           NEW acks \in SUBSET PrepareAck, Apart(acks), AcksAgree(L, L.current_iid, acks),
           NEW J, J = AfterPromises(L, acks), NEW P, P = OpenInstancesP2Expired(J),
           NEW K, K = OpenInstancesP2New(P),
           NEW N, N = AcceptReqs(P, ExpiredReady(J)) \cup AcceptReqs(K, Started(P))
    PROVE  /\ Led(K, D, C, M \cup N) /\ WellFormed(N) /\ K.current_iid = L.current_iid
           /\ MadeReady(L, acks) = {} => Led(J, D, C, M) /\ J.current_iid = L.current_iid
PROOF
  <1>. DEFINE c == L.current_iid
  <1>1. Sound(L) /\ Orderly(L, c)
    BY LedFacts
  <1>2. /\ Sound(K) /\ K.current_iid = c /\ Sound(P) /\ InBuffer(P) /\ P.current_iid = c
        /\ P.next_unused_iid = L.next_unused_iid
        /\ K.next_unused_iid = P.next_unused_iid + StartCount(P)
        /\ WindowFrom(P, c) = WindowFrom(L, c) /\ WindowFrom(K, c) = WindowFrom(L, c)
        /\ \A i \in ExpiredReady(J) : i \in WindowFrom(L, c) /\ i < L.next_unused_iid
    BY <1>1, PromiseBatchSound
  <1>3. MovesValues(L, J, c) /\ MovesValues(L, K, c) /\ AsksGiven(K, c, N)
    BY <1>1, PromiseBatchValues
  <1>. HIDE DEF c
  <1>4. Coherent(P, c) /\ Fits(P, c) /\ Coherent(K, c)
    BY <1>2 DEF Sound, InBuffer
  <1>5. AcceptsFor(Started(P), AcceptReqs(K, Started(P)))
    BY <1>2, <1>4, StartedSent
  <1>6. AcceptsFor(ExpiredReady(J), AcceptReqs(P, ExpiredReady(J)))
    <2>1. ExpiredReady(J) \in SUBSET WindowFrom(P, c)
          /\ \A i \in ExpiredReady(J) : i < P.next_unused_iid
      BY <1>2
    <2>. QED  BY <1>4, <2>1, AcceptsSent
  <1>7. WellFormed(N)
    BY <1>5, <1>6, BatchesFormed
  <1>8. Led(K, D, C, M \cup N)
    BY <1>2, <1>3, LedMoves DEF c
  <1>9. ASSUME MadeReady(L, acks) = {}
        PROVE  Led(J, D, C, M) /\ J.current_iid = c
    <2>1. Sound(J) /\ J.current_iid = L.current_iid
      BY <1>1, <1>9, PromisesSound
    <2>2. AsksGiven(J, L.current_iid, {})
      BY DEF AsksGiven
    <2>3. Led(J, D, C, M \cup {})
      BY <1>3, <2>1, <2>2, LedMoves DEF c
    <2>. QED  BY <2>1, <2>3 DEF c
  <1>. QED  BY <1>2, <1>7, <1>8, <1>9 DEF c

(* vh_enqueue_value, or a value dropped because the list is full *)
LEMMA LedTakes ==
    ASSUME NEW L, NEW D, NEW C, NEW M, Led(L, D, C, M),
           NEW v \in Values, v \notin C, NEW K, K = Enqueued(L, v)
    PROVE  Led(K, D, C \cup {v}, M) /\ K.current_iid = L.current_iid
PROOF
  <1>1. L \in LeaderInfo /\ Sound(L) /\ Orderly(L, L.current_iid)
    BY LedFacts
  <1>2. PICK S \in SUBSET C : Consistent(L, D, S, M)
    BY DEF Led
  <1>3. /\ Sound(K) /\ K.next_unused_iid = L.next_unused_iid
        /\ K.current_iid = L.current_iid
    BY <1>1, EnqueuedSound
  <1>4. v \notin S /\ v \notin Held(L, L.current_iid)
    BY <1>2 DEF Consistent
  <1>5. K = L \/ TakesValue(L, K, L.current_iid, v)
    BY <1>1, <1>4, EnqueuedValues
  <1>6. \E T \in SUBSET (C \cup {v}) : Consistent(K, D, T, M)
    <2>1. CASE K = L
      <3>1. S \in SUBSET (C \cup {v})
        OBVIOUS
      <3>. QED  BY <1>2, <2>1, <3>1
    <2>2. CASE TakesValue(L, K, L.current_iid, v)
      <3>1. Consistent(K, D, S \cup {v}, M)
        BY <1>2, <1>4, <2>2, ConsistentTaken
      <3>2. S \cup {v} \in SUBSET (C \cup {v})
        OBVIOUS
      <3>. QED  BY <3>1, <3>2
    <2>. QED  BY <1>5, <2>1, <2>2
  <1>7. AsksBelow(K.next_unused_iid, M) /\ UsedBy(K, D)
    BY <1>3 DEF Led, UsedBy
  <1>. QED  BY <1>3, <1>6, <1>7 DEF Led

\* The values vs are delivered next, on top of D, which makes it E; acceptors were
\* asked for each of them in its instance.
AskedIn(M, i, v) ==
    \E m \in M : m.type = "accept_reqs" /\ \E ar \in m.reqs : ar.iid = i /\ ar.value = v

Learns(L, D, E, vs, M) ==
    /\ \A n \in DOMAIN vs : AskedIn(M, L.current_iid + n - 1, vs[n])
    /\ \A i \in Iids :
          E[i] = IF L.current_iid <= i /\ i < L.current_iid + Len(vs)
                 THEN vs[i - L.current_iid + 1] ELSE D[i]

(* What is asked for is a value for an instance. *)
LEMMA AskedInType ==
    ASSUME NEW M, M \subseteq Message, NEW i, NEW v, AskedIn(M, i, v)
    PROVE  i \in Iids /\ i \in Nat \ {0} /\ v \in Values /\ v # NoValue
PROOF
  <1>1. PICK m \in M : m.type = "accept_reqs"
                       /\ \E ar \in m.reqs : ar.iid = i /\ ar.value = v
    BY DEF AskedIn
  <1>2. PICK ar \in m.reqs : ar.iid = i /\ ar.value = v
    BY <1>1
  <1>3. ar \in AcceptReq
    BY <1>1, <1>2, MessageShapes
  <1>. QED  BY <1>2, <1>3, MessagesAssumption DEF AcceptReq

(* A leader that leads has one value for what it asks for. *)
LEMMA LedAsks ==
    ASSUME NEW L, NEW D, NEW S, NEW M, WellFormed(M), Consistent(L, D, S, M),
           AsksBelow(L.next_unused_iid, M), NEW i, NEW v, AskedIn(M, i, v)
    PROVE  v = ValueOf(L, D, i) /\ i < L.next_unused_iid
PROOF
  <1>1. PICK m \in M : m.type = "accept_reqs"
                       /\ \E ar \in m.reqs : ar.iid = i /\ ar.value = v
    BY DEF AskedIn
  <1>2. PICK ar \in m.reqs : ar.iid = i /\ ar.value = v
    BY <1>1
  <1>3. i \in Iids
    BY AskedInType DEF WellFormed
  <1>. QED  BY <1>1, <1>2, <1>3 DEF Consistent, AsksFor, AsksBelow

(* What the learner delivers is what the leader asked for, so that it fits what the
   leader knows before the deliver callback is called. *)
LEMMA LearnedFits ==
    ASSUME NEW L, NEW D, NEW E, NEW S, NEW M, NEW vs, NEW k \in Nat, k = Len(vs),
           DOMAIN vs = 1 .. k, L.current_iid \in Nat \ {0}, WellFormed(M),
           Consistent(L, D, S, M), AsksBelow(L.next_unused_iid, M), UsedBy(L, D),
           Learns(L, D, E, vs, M)
    PROVE  /\ Consistent(L, E, S, M) /\ UsedBy(L, E)
           /\ \A n \in 1 .. k :
                 /\ L.current_iid + n - 1 \in Iids /\ vs[n] # NoValue
                 /\ vs[n] = E[L.current_iid + n - 1]
                 /\ vs[n] = Given(L, L.current_iid + n - 1)
                 /\ L.current_iid + n - 1 < L.next_unused_iid
PROOF
  <1>. DEFINE c == L.current_iid
              Learned(i) == c <= i /\ i < c + k
  <1>1. ASSUME NEW n \in 1 .. k
        PROVE  /\ c + n - 1 \in Iids /\ vs[n] # NoValue
               /\ vs[n] = E[c + n - 1]
               /\ vs[n] = Given(L, c + n - 1) /\ c + n - 1 < L.next_unused_iid
    <2>1. AskedIn(M, c + n - 1, vs[n])
      BY DEF Learns
    <2>. DEFINE i == c + n - 1
    <2>2. i \in Iids /\ vs[n] # NoValue
      <3>. HIDE DEF i
      <3>. QED  BY <2>1, AskedInType DEF i, WellFormed
    <2>3. vs[n] = ValueOf(L, D, i) /\ i < L.next_unused_iid
      <3>. HIDE DEF i
      <3>. QED  BY <2>1, LedAsks DEF i
    <2>4. ~ (i < c) /\ c <= i /\ i < c + k /\ i - c + 1 = n
      <3>. HIDE DEF c
      <3>. QED  BY DEF c
    <2>5. E[i] = vs[i - c + 1]
      BY <2>2, <2>4 DEF Learns
    <2>. HIDE DEF i
    <2>. QED  BY <2>2, <2>3, <2>4, <2>5 DEF ValueOf, i
  <1>2. ASSUME NEW i \in Iids
        PROVE  IF Learned(i) THEN E[i] = Given(L, i) /\ i < L.next_unused_iid ELSE E[i] = D[i]
    <2>1. CASE Learned(i)
      <3>1. i \in Nat
        BY MessagesAssumption
      <3>2. i - c + 1 \in 1 .. k /\ c + (i - c + 1) - 1 = i
        <4>. HIDE DEF c
        <4>. QED  BY <2>1, <3>1 DEF c
      <3>3. vs[i - c + 1] = Given(L, i) /\ i < L.next_unused_iid
        BY <1>1, <3>2
      <3>. QED  BY <2>1, <3>3 DEF Learns
    <2>. QED  BY <2>1 DEF Learns
  <1>3. ASSUME NEW i \in Iids, i < c
        PROVE  E[i] = D[i]
    <2>1. ~ Learned(i)
      BY <1>3, MessagesAssumption
    <2>. QED  BY <1>2, <2>1
  <1>4. ASSUME NEW i \in Iids
        PROVE  ValueOf(L, E, i) = ValueOf(L, D, i)
    BY <1>3 DEF ValueOf
  <1>5. ASSUME NEW i \in Iids, E[i] # NoValue
        PROVE  E[i] = ValueOf(L, E, i) /\ i < L.next_unused_iid
    <2>1. CASE Learned(i)
      <3>1. ~ (i < c)
        BY <2>1, MessagesAssumption
      <3>. QED  BY <1>2, <2>1, <3>1 DEF ValueOf
    <2>2. CASE ~ Learned(i)
      <3>1. E[i] = D[i]
        BY <1>2, <2>2
      <3>. QED  BY <1>4, <1>5, <3>1 DEF Consistent, UsedBy
    <2>. QED  BY <2>1, <2>2
  <1>6. AsksFor(L, E, M)
    BY <1>4 DEF Consistent, AsksFor
  <1>7. \A i \in Past(L) : E[i] = D[i] /\ i \in Iids
    BY <1>3 DEF Past
  <1>8. Consistent(L, E, S, M)
    <2>1. {E[i] : i \in Past(L)} = {D[i] : i \in Past(L)}
      BY <1>7
    <2>2. S = Held(L, L.current_iid) \cup {E[i] : i \in Past(L)}
      BY <2>1 DEF Consistent
    <2>3. /\ \A i \in Past(L) : E[i] # NoValue /\ E[i] \notin Held(L, L.current_iid)
          /\ \A i, j \in Past(L) : E[i] = E[j] => i = j
      BY <1>7 DEF Consistent
    <2>. QED  BY <1>5, <1>6, <2>2, <2>3 DEF Consistent
  <1>. QED  BY <1>1, <1>5, <1>8 DEF UsedBy

\* What a run of deliveries leaves: a leader, and accept requests sent.
RunLed(r, E, C, M) ==
    /\ Led(r.info, E, C, M \cup r.sent) /\ WellFormed(r.sent)
    /\ \A m \in r.sent : m.type = "accept_reqs"

(* pro_deliver_callback, for each value of a run. *)
LEMMA LedRun ==
    ASSUME NEW L, NEW D, NEW C, NEW M, Led(L, D, C, M), WellFormed(M), InBuffer(L),
           NEW vs, NEW k \in Nat, k = Len(vs), DOMAIN vs = 1 .. k,
           NEW E, Learns(L, D, E, vs, M), NEW r, r = AfterRun(L, TRUE, vs)
    PROVE  RunLed(r, E, C, M)
PROOF
  <1>. DEFINE c == L.current_iid
  <1>1. /\ Sound(L) /\ Orderly(L, c) /\ c \in Nat \ {0} /\ L.next_unused_iid \in Nat
        /\ L.highest_open \in Nat /\ c <= L.next_unused_iid
        /\ L.next_unused_iid <= L.highest_open + 1
    BY LedFacts
  <1>2. AsksBelow(L.next_unused_iid, M) /\ UsedBy(L, D)
    BY DEF Led
  <1>3. PICK S \in SUBSET C : Consistent(L, D, S, M)
    BY DEF Led
  <1>4. /\ Consistent(L, E, S, M) /\ UsedBy(L, E)
        /\ \A n \in 1 .. k :
              /\ c + n - 1 \in Iids /\ vs[n] # NoValue
              /\ vs[n] = E[c + n - 1]
              /\ vs[n] = Given(L, c + n - 1) /\ c + n - 1 < L.next_unused_iid
    BY <1>1, <1>2, <1>3, LearnedFits
  <1>5. c + k <= L.next_unused_iid
    <2>1. CASE k = 0
      <3>. HIDE DEF c
      <3>. QED  BY <1>1, <2>1
    <2>2. CASE k # 0
      <3>1. k \in 1 .. k
        BY <2>2
      <3>2. c + k - 1 < L.next_unused_iid
        BY <1>4, <3>1
      <3>. HIDE DEF c
      <3>. QED  BY <1>1, <3>2
    <2>. QED  BY <2>1, <2>2
  <1>6. GivenInOrder(L, vs, k)
    BY <1>4, <1>5 DEF GivenInOrder
  <1>7. RanValues(L, r, vs, k)
    BY <1>1, <1>6, RunValues
  <1>8. RanTo(L, r, k)
    BY <1>1, RunLeads
  <1>9. c + k <= L.highest_open + 1
    <2>. HIDE DEF c
    <2>. QED  BY <1>1, <1>5
  <1>10. /\ Sound(r.info) /\ r.info.current_iid = c + k
         /\ r.info.next_unused_iid >= L.next_unused_iid
         /\ AcceptsBelow(r.info.next_unused_iid, r.sent)
    BY <1>8, <1>9 DEF RanTo
  <1>11. r.info.next_unused_iid \in Nat
    BY <1>10 DEF Sound, Coherent, LeaderInfo
  <1>12. WellFormed(r.sent) /\ AsksBelow(r.info.next_unused_iid, r.sent)
    BY <1>10, BatchesFormed
  <1>13. AsksBelow(r.info.next_unused_iid, M \cup r.sent)
    <2>1. L.next_unused_iid <= r.info.next_unused_iid
      BY <1>1, <1>10, <1>11
    <2>2. AsksBelow(r.info.next_unused_iid, M)
      BY <1>1, <1>2, <1>11, <2>1, AsksBelowLater
    <2>. QED  BY <1>12, <2>2, BatchesFormed
  <1>14. /\ Consistent(L, E, S, M) /\ UsedBy(L, E)
         /\ \A j \in 1 .. k : L.current_iid + j - 1 \in Iids
                               /\ E[L.current_iid + j - 1] # NoValue
                               /\ vs[j] = E[L.current_iid + j - 1]
    BY <1>4
  <1>15. Consistent(r.info, E, S, M \cup r.sent)
    <2>1. /\ L.current_iid \in Nat /\ L.next_unused_iid \in Nat
          /\ L.current_iid + k <= L.next_unused_iid
          /\ r.info.current_iid = L.current_iid + k /\ r.info.next_unused_iid \in Nat
      BY <1>1, <1>5, <1>10, <1>11
    <2>. HIDE DEF c
    <2>. QED  BY ONLY <2>1, <1>2, <1>7, <1>14, k \in Nat, ConsistentRun
  <1>16. ASSUME NEW i \in Iids, E[i] # NoValue
         PROVE  i < r.info.next_unused_iid
    <2>1. i < L.next_unused_iid /\ i \in Nat
      BY <1>14, <1>16, MessagesAssumption DEF UsedBy
    <2>2. /\ L.next_unused_iid \in Nat /\ r.info.next_unused_iid \in Nat
          /\ L.next_unused_iid <= r.info.next_unused_iid
      BY <1>1, <1>10, <1>11
    <2>. QED  BY ONLY <2>1, <2>2
  <1>17. UsedBy(r.info, E)
    BY <1>16 DEF UsedBy
  <1>18. \A m \in r.sent : m.type = "accept_reqs"
    BY <1>10 DEF AcceptsBelow
  <1>. QED  BY <1>3, <1>10, <1>12, <1>13, <1>15, <1>17, <1>18 DEF Led, RunLed

(* init_proposer: a proposer starts with an empty buffer. *)
LEMMA InitialCleared == Cleared(InitialInfo) /\ InitialInfo.current_iid = 1
PROOF
  <1>1. InitialInfo.proposer_state \in [ProposerSlots -> InstanceInfo]
    BY EmptyType DEF InitialInfo
  <1>2. InitialInfo \in LeaderInfo
    BY <1>1 DEF InitialInfo, LeaderInfo
  <1>. QED  BY <1>2 DEF Cleared, InitialInfo

(* init_proposer: the first leader starts with nothing asked for. *)
LEMMA LedInit ==
    ASSUME NEW p \in Proposers, NEW K, K = Promoted(p, InitialInfo), InBuffer(K),
           NEW D, \A i \in Iids : D[i] = NoValue, NEW S,
           NEW M, M = PrepareReqs(K, 1 .. K.highest_open)
    PROVE  Led(K, D, S, M) /\ WellFormed(M)
PROOF
  <1>1. Cleared(InitialInfo) /\ InitialInfo.current_iid = 1
    BY InitialCleared
  <1>2. Sound(K) /\ K.current_iid = 1 /\ WindowFrom(K, 1) = 1 .. K.highest_open
    BY <1>1, PromotedSound
  <1>3. Orderly(K, 1) /\ Held(K, 1) = {}
    BY <1>1, <1>2, PromotedValues
  <1>4. PreparesFor(1 .. K.highest_open, M)
    <2>1. Coherent(K, 1) /\ Fits(K, 1)
      BY <1>2 DEF Sound, InBuffer
    <2>. DEFINE T == 1 .. K.highest_open
    <2>2. T \in SUBSET WindowFrom(K, 1) /\ M = PrepareReqs(K, T)
      BY <1>2
    <2>. HIDE DEF T
    <2>3. PreparesFor(T, M)
      BY <2>1, <2>2, PreparesSent
    <2>. QED  BY <2>3 DEF T
  <1>5. Past(K) = {}
    <2>1. \A i \in Iids : ~ (i < 1)
      BY MessagesAssumption
    <2>. QED  BY <1>2, <2>1 DEF Past
  <1>6. AsksFor(K, D, M)
    BY <1>4 DEF AsksFor, PreparesFor
  <1>7. Consistent(K, D, {}, M)
    BY <1>2, <1>3, <1>5, <1>6 DEF Consistent
  <1>8. WellFormed(M) /\ AsksBelow(K.next_unused_iid, M)
    BY <1>4, BatchesFormed
  <1>. QED  BY <1>2, <1>7, <1>8 DEF Led, UsedBy

-----------------------------------------------------------------------------
(* One leader at most.  The values are then the same wherever they are kept: in  *)
(* the requests of the leader, the records and answers of the acceptors, and the *)
(* acknowledgements and deliveries of the learners.                              *)

\* A batch of promises for a batch of prepare requests is for as many slots.
Shaped(reqs, acks) ==
    (Apart(reqs) => Apart(acks)) /\ (IsFiniteSet(reqs) => IsFiniteSet(acks))

\* What m reports acceptors were asked for among M; a batch of promises answers a
\* batch of prepare requests.
Reports(M, m) ==
    /\ m.type = "accept_ack" => AskedIn(M, m.iid, m.value)
    /\ m.type = "prepare_acks" =>
          /\ \E n \in M : n.type = "prepare_reqs" /\ Shaped(n.reqs, m.acks)
          /\ \A pa \in m.acks : pa.value # NoValue => AskedIn(M, pa.iid, pa.value)

ReportsAsked ==
    /\ \A m \in msgs : Reports(msgs, m)
    /\ \A a \in Acceptors, i \in Iids :
          store[a][i].value # NoValue => AskedIn(msgs, i, store[a][i].value)

(* A request once sent stays sent. *)
LEMMA AskedInStays ==
    ASSUME NEW M, NEW N, M \subseteq N
    PROVE  /\ \A i, v : AskedIn(M, i, v) => AskedIn(N, i, v)
           /\ \A m : Reports(M, m) => Reports(N, m)
PROOF
  <1>1. \A i, v : AskedIn(M, i, v) => AskedIn(N, i, v)
    BY DEF AskedIn
  <1>. QED  BY <1>1 DEF Reports

(* Messages of other types ask for nothing. *)
LEMMA AskedInSame ==
    ASSUME NEW M, NEW N, M \subseteq N, \A m \in N \ M : m.type # "accept_reqs"
    PROVE  \A i, v : AskedIn(N, i, v) <=> AskedIn(M, i, v)
BY DEF AskedIn

\* What an acceptor adds to the messages, and to what it keeps.
Answers(M, N) ==
    /\ M \subseteq N
    /\ \A m \in N \ M : m.type \in {"prepare_acks", "accept_ack"} /\ Reports(M, m)

(* It is enough to look at the records a step changes and the messages it adds. *)
LEMMA AnswersFrame ==
    ASSUME ReportsAsked, Answers(msgs, msgs'),
           \A a \in Acceptors, i \in Iids :
               \/ store'[a][i].value = NoValue
               \/ store'[a][i].value = store[a][i].value
               \/ AskedIn(msgs, i, store'[a][i].value)
    PROVE  ReportsAsked'
PROOF
  <1>1. \A i, v : AskedIn(msgs, i, v) => AskedIn(msgs', i, v)
    BY AskedInStays DEF Answers
  <1>2. \A m \in msgs' : Reports(msgs', m)
    <2>1. \A m \in msgs' : Reports(msgs, m)
      BY DEF Answers, ReportsAsked
    <2>. QED  BY <2>1, AskedInStays DEF Answers
  <1>3. \A a \in Acceptors, i \in Iids :
            store'[a][i].value # NoValue => AskedIn(msgs', i, store'[a][i].value)
    BY <1>1 DEF ReportsAsked
  <1>. QED  BY <1>2, <1>3 DEF ReportsAsked

(* handle_prepare_req_batch: a promise reports the value of the record. *)
LEMMA PrepareAnswers ==
    ASSUME AcceptorInv, ReportsAsked,
           NEW a \in Acceptors, HandlePrepareReqBatch(a)
    PROVE  Answers(msgs, msgs') /\ ReportsAsked'
PROOF
  <1>1. PICK m \in msgs :
            /\ m.type = "prepare_reqs"
            /\ store' = [store EXCEPT ![a] = AfterPrepares(a, m.reqs)]
            /\ Send({[type |-> "prepare_acks", acceptor |-> a,
                      acks |-> {PrepareAckOf(pr.iid, AfterPrepares(a, m.reqs)[pr.iid]) :
                                   pr \in Granted(a, m.reqs)}]})
    BY Zenon DEF HandlePrepareReqBatch
  <1>. DEFINE recs == AfterPrepares(a, m.reqs)
              acks == {PrepareAckOf(pr.iid, recs[pr.iid]) :
                           pr \in Granted(a, m.reqs)}
  <1>2. m.reqs \in SUBSET PrepareReq
    BY <1>1, MessageShapes DEF AcceptorInv, AcceptorTypeOK
  <1>3. ASSUME NEW i \in Iids
        PROVE  recs[i].value = store[a][i].value
    <2>1. \/ recs[i] = store[a][i]
          \/ \E pr \in Granted(a, m.reqs) : recs[i] = SavedPrepare(store[a][i], pr)
      BY <1>2, AfterPreparesLemma DEF AcceptorInv
    <2>2. ASSUME NEW pr, recs[i] = SavedPrepare(store[a][i], pr)
          PROVE  recs[i].value = store[a][i].value
      <3>. HIDE DEF recs
      <3>. QED  BY <2>2 DEF SavedPrepare
    <2>. QED  BY <2>1, <2>2, Zenon
  <1>4. /\ store'[a] = recs
        /\ \A b \in Acceptors \ {a} : store'[b] = store[b]
    BY <1>1 DEF AcceptorInv, AcceptorTypeOK
  <1>5. ASSUME NEW pa \in acks
        PROVE  \E pr \in Granted(a, m.reqs) :
                  /\ pa = PrepareAckOf(pr.iid, recs[pr.iid])
                  /\ pr \in m.reqs /\ pr.iid \in Iids
                  /\ pa.iid = pr.iid /\ pa.value = store[a][pr.iid].value
    <2>1. PICK pr \in Granted(a, m.reqs) : pa = PrepareAckOf(pr.iid, recs[pr.iid])
      OBVIOUS
    <2>2. pr \in m.reqs /\ pr.iid \in Iids
      BY <1>2 DEF Granted, PrepareReq
    <2>3. pa.iid = pr.iid /\ pa.value = store[a][pr.iid].value
      BY <1>3, <2>1, <2>2 DEF PrepareAckOf
    <2>. QED  BY <2>1, <2>2, <2>3
  <1>6. \A pa \in acks : pa.value # NoValue => AskedIn(msgs, pa.iid, pa.value)
    <2>. HIDE DEF acks, recs
    <2>. QED  BY <1>5 DEF ReportsAsked
  <1>7. Shaped(m.reqs, acks)
    <2>1. ASSUME Apart(m.reqs), NEW x \in acks, NEW y \in acks,
                 ProposerSlot(x.iid) = ProposerSlot(y.iid)
          PROVE  x = y
      <3>1. PICK pr \in m.reqs : x = PrepareAckOf(pr.iid, recs[pr.iid]) /\ x.iid = pr.iid
        BY <1>5
      <3>2. PICK ps \in m.reqs : y = PrepareAckOf(ps.iid, recs[ps.iid]) /\ y.iid = ps.iid
        BY <1>5
      <3>3. pr = ps
        BY <2>1, <3>1, <3>2 DEF Apart
      <3>. QED  BY <3>1, <3>2, <3>3
    <2>2. ASSUME IsFiniteSet(m.reqs)  PROVE IsFiniteSet(acks)
      <3>. DEFINE ack(pr) == PrepareAckOf(pr.iid, recs[pr.iid])
                  G == Granted(a, m.reqs)
                  f == [pr \in G |-> ack(pr)]
      <3>1. IsFiniteSet(G)
        BY <2>2, FS_Subset DEF Granted
      <3>2. acks = {ack(pr) : pr \in G}
        OBVIOUS
      <3>. HIDE DEF ack, G, acks
      <3>3. f \in Surjection(G, acks)
        BY <3>2 DEF Surjection
      <3>. QED  BY <3>1, <3>3, FS_Surjection
    <2>. QED  BY <2>1, <2>2 DEF Shaped, Apart
  <1>8. Answers(msgs, msgs')
    <2>. HIDE DEF acks
    <2>1. msgs' = msgs \cup {[type |-> "prepare_acks", acceptor |-> a, acks |-> acks]}
      BY <1>1 DEF Send, acks
    <2>. QED  BY <1>1, <1>6, <1>7, <2>1 DEF Answers, Reports
  <1>9. \A b \in Acceptors, i \in Iids : store'[b][i].value = store[b][i].value
    <2>. HIDE DEF recs
    <2>. QED  BY <1>3, <1>4
  <1>. QED  BY <1>8, <1>9, AnswersFrame

(* handle_accept_req_batch: what is stored and acknowledged is the request itself. *)
LEMMA AcceptAnswers ==
    ASSUME AcceptorInv, ReportsAsked,
           NEW a \in Acceptors, HandleAcceptReqBatch(a)
    PROVE  Answers(msgs, msgs') /\ ReportsAsked'
PROOF
  <1>1. PICK m \in msgs :
            /\ m.type = "accept_reqs"
            /\ store' = [store EXCEPT ![a] = AfterAccepts(a, m.reqs)]
            /\ Send({AcceptAck(a, ar.iid, AfterAccepts(a, m.reqs)[ar.iid]) :
                        ar \in Applied(a, m.reqs)})
    BY Zenon DEF HandleAcceptReqBatch
  <1>. DEFINE recs == AfterAccepts(a, m.reqs)
  <1>2. m.reqs \in SUBSET AcceptReq
    BY <1>1, MessageShapes DEF AcceptorInv, AcceptorTypeOK
  <1>3. /\ \A i \in Iids :
             \/ recs[i] = store[a][i]
             \/ \E ar \in Applied(a, m.reqs) : ar.iid = i /\ recs[i] = SavedAccept(ar)
        /\ \A ar \in Applied(a, m.reqs) :
             \E x \in Applied(a, m.reqs) :
                 x.iid = ar.iid /\ recs[ar.iid] = SavedAccept(x)
    BY <1>2, AfterAcceptsLemma DEF AcceptorInv
  <1>4. /\ store'[a] = recs
        /\ \A b \in Acceptors \ {a} : store'[b] = store[b]
    BY <1>1 DEF AcceptorInv, AcceptorTypeOK
  <1>5. ASSUME NEW x \in Applied(a, m.reqs)
        PROVE  SavedAccept(x).value = x.value /\ AskedIn(msgs, x.iid, x.value)
    <2>1. x \in m.reqs
      BY DEF Applied
    <2>2. AskedIn(msgs, x.iid, x.value)
      BY <1>1, <2>1 DEF AskedIn
    <2>. QED  BY <2>2 DEF SavedAccept
  <1>6. ASSUME NEW n \in msgs' \ msgs
        PROVE  n.type = "accept_ack" /\ AskedIn(msgs, n.iid, n.value)
    <2>1. PICK ar \in Applied(a, m.reqs) : n = AcceptAck(a, ar.iid, recs[ar.iid])
      BY <1>1 DEF Send
    <2>2. PICK x \in Applied(a, m.reqs) :
              x.iid = ar.iid /\ recs[ar.iid] = SavedAccept(x)
      BY <1>3
    <2>3. n.type = "accept_ack" /\ n.iid = x.iid /\ n.value = x.value
      BY <1>5, <2>1, <2>2 DEF AcceptAck
    <2>. QED  BY <1>5, <2>3
  <1>7. Answers(msgs, msgs')
    <2>1. msgs \subseteq msgs'
      BY <1>1 DEF Send
    <2>. QED  BY <1>6, <2>1 DEF Answers, Reports
  <1>8. ASSUME NEW b \in Acceptors, NEW i \in Iids
        PROVE  \/ store'[b][i].value = store[b][i].value
               \/ AskedIn(msgs, i, store'[b][i].value)
    <2>1. CASE store'[b][i] = store[b][i]
      BY <2>1
    <2>2. CASE b = a /\ recs[i] # store[a][i]
      <3>1. PICK x \in Applied(a, m.reqs) : x.iid = i /\ recs[i] = SavedAccept(x)
        BY <1>3, <2>2
      <3>2. store'[b][i].value = x.value
        BY <1>4, <1>5, <2>2, <3>1
      <3>. QED  BY <1>5, <3>1, <3>2
    <2>. QED  BY <1>4, <2>1, <2>2
  <1>. QED  BY <1>7, <1>8, AnswersFrame

(* Repeats send what is stored. *)
LEMMA RepeatAnswers ==
    ASSUME AcceptorInv, ReportsAsked, NEW a \in Acceptors,
           HandleRepeatReqBatch(a) \/ PeriodicRepeater(a)
    PROVE  Answers(msgs, msgs') /\ ReportsAsked'
PROOF
  <1>1. msgs \subseteq msgs' /\ UNCHANGED store
    BY DEF HandleRepeatReqBatch, PeriodicRepeater, Send
  <1>2. ASSUME NEW n \in msgs' \ msgs
        PROVE  \E i \in Iids : HoldsValue(store[a][i]) /\ n = AcceptAck(a, i, store[a][i])
    <2>1. CASE HandleRepeatReqBatch(a)
      <3>1. PICK m \in msgs :
                /\ m.type = "repeat_reqs"
                /\ Send({AcceptAck(a, i, store[a][i]) :
                            i \in {j \in m.iids : HoldsValue(store[a][j])}})
        BY <2>1, Zenon DEF HandleRepeatReqBatch
      <3>2. m.iids \in SUBSET Iids
        BY <3>1, MessageShapes DEF AcceptorInv, AcceptorTypeOK
      <3>. QED  BY <3>1, <3>2 DEF Send
    <2>2. CASE PeriodicRepeater(a)
      <3>1. /\ highest_accepted_iid[a] \in Iids
            /\ HoldsValue(store[a][highest_accepted_iid[a]])
        BY <2>2, Numbers DEF PeriodicRepeater, AcceptorInv, AcceptorTypeOK,
                             RepeaterFindsValue
      <3>. QED  BY <2>2, <3>1 DEF PeriodicRepeater, Send
    <2>. QED  BY <2>1, <2>2
  <1>3. ASSUME NEW n \in msgs' \ msgs
        PROVE  n.type = "accept_ack" /\ AskedIn(msgs, n.iid, n.value)
    BY <1>2 DEF AcceptAck, HoldsValue, ReportsAsked
  <1>4. Answers(msgs, msgs')
    BY <1>1, <1>3 DEF Answers, Reports
  <1>. QED  BY <1>1, <1>4, AnswersFrame

(* A restart loses records, and what the learner delivers was acknowledged. *)
LEMMA OtherAnswers ==
    ASSUME AcceptorInv, ReportsAsked, NEW a \in Acceptors,
           DeliverCallback(a) \/ \E recover \in BOOLEAN : Restart(a, recover)
    PROVE  Answers(msgs, msgs') /\ ReportsAsked'
PROOF
  <1>1. UNCHANGED msgs
    BY DEF DeliverCallback, Restart
  <1>2. Answers(msgs, msgs')
    BY <1>1 DEF Answers
  <1>3. CASE DeliverCallback(a)
    <2>1. PICK ack \in msgs : ack.type = "accept_ack"
                              /\ store' = [store EXCEPT ![a][ack.iid] = SavedFinal(ack)]
      BY <1>3 DEF DeliverCallback
    <2>2. AskedIn(msgs, ack.iid, ack.value) /\ SavedFinal(ack).value = ack.value
      BY <2>1 DEF ReportsAsked, Reports, SavedFinal
    <2>3. \A b \in Acceptors, i \in Iids :
             \/ store'[b][i] = store[b][i]
             \/ i = ack.iid /\ store'[b][i] = SavedFinal(ack)
      BY <2>1 DEF AcceptorInv, AcceptorTypeOK
    <2>. QED  BY <1>2, <2>2, <2>3, AnswersFrame
  <1>4. CASE \E recover \in BOOLEAN : Restart(a, recover)
    <2>1. \A b \in Acceptors, i \in Iids :
              store'[b][i] = store[b][i] \/ store'[b][i] = NoRecord
      BY <1>4 DEF Restart, AcceptorInv, AcceptorTypeOK
    <2>2. \A b \in Acceptors, i \in Iids :
              store'[b][i].value = NoValue \/ store'[b][i].value = store[b][i].value
      BY <2>1, RecordFields
    <2>. QED  BY <1>2, <2>2, AnswersFrame
  <1>. QED  BY <1>3, <1>4

(* An acceptor answers with what was asked for, asks for nothing itself, and keeps
   what was asked for. *)
LEMMA AcceptorAnswers ==
    ASSUME AcceptorInv, ReportsAsked,
           NEW a \in Acceptors, AcceptorStep(a)
    PROVE  Answers(msgs, msgs') /\ ReportsAsked'
BY PrepareAnswers, AcceptAnswers, RepeatAnswers, OtherAnswers DEF AcceptorStep

(* Sending anything else than an answer disturbs none of it. *)
LEMMA SendReports ==
    ASSUME ReportsAsked, NEW N, Send(N), UNCHANGED store,
           \A m \in N : m.type \notin {"prepare_acks", "accept_ack"}
    PROVE  ReportsAsked'
PROOF
  <1>1. msgs' = msgs \cup N
    BY DEF Send
  <1>2. \A i, v : AskedIn(msgs, i, v) => AskedIn(msgs', i, v)
    BY <1>1, AskedInStays
  <1>3. ASSUME NEW m \in msgs' PROVE Reports(msgs', m)
    <2>1. CASE m \in msgs
      BY <1>1, <2>1, AskedInStays DEF ReportsAsked
    <2>2. CASE m \in N
      BY <2>2 DEF Reports
    <2>. QED  BY <1>1, <2>1, <2>2
  <1>. QED  BY <1>2, <1>3 DEF ReportsAsked

\* What a learner keeps and what it delivered was asked for among M.
LearnsFrom(M) ==
    /\ \A l \in Learners, s \in Slots, a \in Acceptors :
          learner_state[l][s].acks[a] # NoRecord =>
              AskedIn(M, learner_state[l][s].iid, learner_state[l][s].acks[a].value)
    /\ \A l \in Learners : \A n \in DOMAIN delivered[l] :
          AskedIn(M, n, delivered[l][n].value)

(* More messages leave it so. *)
LEMMA LearnsFromMore ==
    ASSUME NEW M, NEW N, M \subseteq N, LearnsFrom(M)
    PROVE  LearnsFrom(N)
PROOF
  <1>1. \A i, v : AskedIn(M, i, v) => AskedIn(N, i, v)
    BY AskedInStays
  <1>. QED  BY <1>1 DEF LearnsFrom

(* The slot of an acknowledgement that is in the window holds nothing yet, or the
   instance acknowledged. *)
LEMMA SlotOfAck ==
    ASSUME LearnerTypeOK, SlotsInWindow, NEW l \in Learners, NEW m \in AckMessage,
           ~ OutsideWindow(l, m), NEW a \in Acceptors, SlotFor(l, m).acks[a] # NoRecord
    PROVE  SlotFor(l, m).iid = m.iid
PROOF
  <1>. DEFINE slot == SlotFor(l, m)
              c == current_iid[l]
  <1>1. SlotOf(m.iid) \in Slots /\ slot \in Slot /\ slot = learner_state[l][SlotOf(m.iid)]
    BY SlotForType DEF SlotFor
  <1>2. slot # EmptySlot
    BY EmptySlotType
  <1>3. /\ SlotOf(slot.iid) = SlotOf(m.iid)
        /\ c <= slot.iid /\ slot.iid < c + LEARNER_ARRAY_SIZE
    BY <1>1, <1>2 DEF SlotsInWindow
  <1>4. m.iid \in Nat /\ slot.iid \in Nat /\ c \in Nat /\ LEARNER_ARRAY_SIZE \in Nat
    <2>1. slot.iid \in Iids \cup {0}
      BY <1>1 DEF Slot
    <2>2. Iids \cup {0} \subseteq Nat
      BY MessagesAssumption
    <2>. QED  BY <2>1, <2>2, AckMessageType, LearnerAssumption DEF LearnerTypeOK
  <1>5. c <= m.iid /\ m.iid < c + LEARNER_ARRAY_SIZE
    BY <1>4 DEF OutsideWindow
  <1>. HIDE DEF slot, c
  <1>6. slot.iid = m.iid
    BY <1>3, <1>4, <1>5, SlotOfInjective
  <1>. QED  BY <1>6 DEF slot

(* What an acknowledgement closes its instance with was asked for. *)
LEMMA ClosedFrom ==
    ASSUME LearnerTypeOK, SlotsInWindow, NEW M, LearnsFrom(M),
           NEW l \in Learners, NEW m \in AckMessage, AskedIn(M, m.iid, m.value),
           ~ OutsideWindow(l, m), NEW a \in Acceptors,
           IsValidIndex(Updated(SlotFor(l, m), m), a)
    PROVE  AskedIn(M, m.iid, ClosedBuffer(l, m, a)[SlotOf(m.iid)].final_value.value)
PROOF
  <1>. DEFINE old == SlotFor(l, m)
              new == Updated(old, m)
  <1>1. /\ ClosedBuffer(l, m, a)[SlotOf(m.iid)].final_value = new.acks[a]
        /\ new.acks[a] \in Record
    BY ClosedBufferType
  <1>2. new.acks[a] = IF a = m.acceptor THEN AckRecord(m) ELSE old.acks[a]
    BY SlotForType
  <1>3. CASE a = m.acceptor
    <2>1. new.acks[a].value = m.value
      BY <1>2, <1>3 DEF AckRecord
    <2>. QED  BY <1>1, <2>1
  <1>4. CASE a # m.acceptor
    <2>1. new.acks[a] = old.acks[a] /\ old.acks[a] # NoRecord
      BY <1>1, <1>2, <1>4, RecordNotNull
    <2>2. old.iid = m.iid
      BY <2>1, SlotOfAck
    <2>3. SlotOf(m.iid) \in Slots /\ old = learner_state[l][SlotOf(m.iid)]
      BY SlotForType DEF SlotFor
    <2>4. AskedIn(M, old.iid, old.acks[a].value)
      BY <2>1, <2>3 DEF LearnsFrom
    <2>. QED  BY <1>1, <2>1, <2>2, <2>4
  <1>. QED  BY <1>3, <1>4

(* Slot by slot, what is stored. *)
LEMMA StoresFrom ==
    ASSUME LearnerInv, NEW M, LearnsFrom(M), NEW l \in Learners, NEW m \in AckMessage,
           AskedIn(M, m.iid, m.value), HandleAcceptAck(l, m),
           NEW x \in Learners, NEW s \in Slots, NEW a \in Acceptors,
           learner_state'[x][s].acks[a] # NoRecord
    PROVE  AskedIn(M, learner_state'[x][s].iid, learner_state'[x][s].acks[a].value)
PROOF
  <1>. DEFINE old == learner_state[x][s]
              new == learner_state'[x][s]
  <1>1. LearnerTypeOK /\ SlotsInWindow
    BY DEF LearnerInv
  <1>2. CASE new = old
    BY <1>2 DEF LearnsFrom
  <1>3. CASE new # old
    <2>1. x = l /\ (new = EmptySlot \/ SlotTakes(l, m, s))
      BY <1>1, <1>3, SlotStep DEF SlotKept, SlotEmptied
    <2>2. SlotTakes(l, m, s)
      BY <2>1, EmptySlotType
    <2>3. s = SlotOf(m.iid) /\ Taken(l, m, old, new) /\ ~ OutsideWindow(l, m)
      BY <1>1, <2>1, <2>2, TakenSlot DEF SlotTakes
    <2>4. new.iid = m.iid
          /\ new.acks[a] = IF a = m.acceptor THEN AckRecord(m) ELSE old.acks[a]
      BY <2>3 DEF Taken
    <2>5. CASE a = m.acceptor
      <3>1. new.acks[a].value = m.value
        BY <2>4, <2>5 DEF AckRecord
      <3>. QED  BY <2>4, <3>1
    <2>6. CASE a # m.acceptor
      <3>1. old = SlotFor(l, m) /\ old.acks[a] # NoRecord /\ new.acks[a] = old.acks[a]
        BY <2>1, <2>3, <2>4, <2>6 DEF SlotFor
      <3>2. old.iid = m.iid
        BY <1>1, <2>3, <3>1, SlotOfAck
      <3>3. AskedIn(M, old.iid, old.acks[a].value)
        BY <3>1 DEF LearnsFrom
      <3>. QED  BY <2>4, <3>1, <3>2, <3>3
    <2>. QED  BY <2>5, <2>6
  <1>. QED  BY <1>2, <1>3

(* The instances of a delivered run, in their slots. *)
LEMMA RunFrom ==
    ASSUME LearnerInv, NEW M, LearnsFrom(M), NEW l \in Learners, NEW m \in AckMessage,
           AskedIn(M, m.iid, m.value), NEW a \in Acceptors,
           NEW k \in 0 .. LEARNER_ARRAY_SIZE, Closes(l, m, a, k), NEW j \in 0 .. k - 1
    PROVE  AskedIn(M, current_iid[l] + j,
                   ClosedBuffer(l, m, a)[SlotOf(current_iid[l] + j)].final_value.value)
PROOF
  <1>. DEFINE c == current_iid[l]
              i == c + j
              s == SlotOf(i)
              closed == ClosedBuffer(l, m, a)[s]
  <1>1. LearnerTypeOK /\ SlotsInWindow /\ ClosedOnEvidence
    BY DEF LearnerInv
  <1>2. /\ k \in Nat /\ k <= LEARNER_ARRAY_SIZE /\ j \in Nat /\ j < k
        /\ LEARNER_ARRAY_SIZE \in Nat /\ c \in Nat
    BY <1>1, LearnerAssumption DEF LearnerTypeOK
  <1>3. i \in Nat /\ c <= i /\ i < c + LEARNER_ARRAY_SIZE
    <2>. HIDE DEF c
    <2>. QED  BY <1>2 DEF i
  <1>4. s \in Slots
    BY <1>1, RunSlotsType
  <1>5. m.iid = c /\ IsClosed(closed) /\ ~ OutsideWindow(l, m)
        /\ IsValidIndex(Updated(SlotFor(l, m), m), a)
    <2>1. m.iid = c
      BY <1>2 DEF Closes, Completes
    <2>2. ClosedRun(l, ClosedBuffer(l, m, a), k)
      BY <2>1 DEF Closes, Completes
    <2>. QED  BY <2>1, <2>2 DEF Closes, Completes, ClosedRun
  <1>6. CASE s = SlotOf(m.iid)
    <2>1. i = m.iid
      <3>1. m.iid \in Nat /\ c <= m.iid /\ m.iid < c + LEARNER_ARRAY_SIZE
        BY <1>2, <1>3, <1>5, AckMessageType
      <3>. HIDE DEF c, i
      <3>. QED  BY <1>2, <1>3, <1>6, <3>1, SlotOfInjective DEF s
    <2>2. AskedIn(M, m.iid, ClosedBuffer(l, m, a)[SlotOf(m.iid)].final_value.value)
      BY <1>1, <1>5, ClosedFrom
    <2>. QED  BY <2>1, <2>2
  <1>7. CASE s # SlotOf(m.iid)
    <2>. DEFINE slot == learner_state[l][s]
    <2>1. closed = slot
      BY <1>1, <1>4, <1>5, <1>7, ClosedBufferType
    <2>2. IsClosed(slot)
      BY <1>5, <2>1
    <2>3. PICK b \in Acceptors : slot.acks[b] = slot.final_value
      BY <1>1, <1>4, <2>2 DEF ClosedOnEvidence
    <2>4. AskedIn(M, slot.iid, slot.final_value.value)
      BY <1>4, <2>2, <2>3 DEF LearnsFrom, IsClosed
    <2>5. slot.iid = i
      <3>1. /\ SlotOf(slot.iid) = s /\ c <= slot.iid
            /\ slot.iid < c + LEARNER_ARRAY_SIZE
        BY <1>1, <1>4, <2>2, EmptySlotType DEF SlotsInWindow
      <3>2. slot.iid \in Nat
        <4>1. slot \in Slot
          BY <1>1, <1>4 DEF LearnerTypeOK
        <4>2. slot.iid \in Iids \cup {0}
          BY <4>1 DEF Slot
        <4>3. Iids \cup {0} \subseteq Nat
          BY MessagesAssumption
        <4>. QED  BY <4>2, <4>3
      <3>. HIDE DEF slot, c, i
      <3>. QED  BY <1>2, <1>3, <3>1, <3>2, SlotOfInjective DEF s
    <2>. QED  BY <2>1, <2>4, <2>5
  <1>. QED  BY <1>6, <1>7

(* Place by place, what is delivered. *)
LEMMA DeliversFrom ==
    ASSUME LearnerInv, DeliveredBelowCurrent, NEW M, LearnsFrom(M),
           NEW l \in Learners, NEW m \in AckMessage,
           AskedIn(M, m.iid, m.value), HandleAcceptAck(l, m),
           NEW x \in Learners, NEW n \in DOMAIN delivered'[x]
    PROVE  AskedIn(M, n, delivered'[x][n].value)
PROOF
  <1>1. LearnerTypeOK
    BY DEF LearnerInv
  <1>2. CASE delivered'[x] = delivered[x]
    BY <1>2 DEF LearnsFrom
  <1>3. CASE delivered'[x] # delivered[x]
    <2>1. x = l
      BY <1>1, <1>3, DeliveryStep
    <2>2. PICK a \in Acceptors, k \in 0 .. LEARNER_ARRAY_SIZE : Closes(l, m, a, k)
      BY <1>3 DEF HandleAcceptAck, Ignored, Recorded
    <2>. DEFINE c == current_iid[l]
                old == delivered[l]
                run == [j \in 1 .. k |->
                   DeliveredValue(ClosedBuffer(l, m, a)[SlotOf(current_iid[l] + j - 1)])]
    <2>3. run \in Seq(DeliveredType) /\ Len(run) = k /\ k \in Nat
      <3>1. k \in Nat /\ DOMAIN run = 1 .. k
        BY LearnerAssumption
      <3>. QED  BY <1>1, <2>2, <3>1, DeliveredRunType
    <2>4. /\ delivered'[l] = old \o run /\ old \in Seq(DeliveredType)
          /\ Len(old) = c - 1 /\ c \in Nat \ {0}
      BY <1>1, <2>2 DEF Closes, Completes, LearnerTypeOK, DeliveredBelowCurrent, DeliveredType
    <2>5. n \in 1 .. Len(old) + k
      <3>. HIDE DEF run, old, c
      <3>. QED  BY <2>1, <2>3, <2>4
    <2>6. CASE n \in 1 .. Len(old)
      <3>1. n \in DOMAIN old /\ delivered'[l][n] = old[n]
        <4>. HIDE DEF run, old, c
        <4>. QED  BY <2>3, <2>4, <2>6
      <3>. QED  BY <2>1, <3>1 DEF LearnsFrom
    <2>7. CASE n \notin 1 .. Len(old)
      <3>. DEFINE j == n - Len(old)
      <3>1. j \in 1 .. k /\ Len(old) + j = n
        <4>. HIDE DEF old, c, run
        <4>. QED  BY <2>3, <2>4, <2>5, <2>7
      <3>2. delivered'[l][n] = run[j]
        <4>. HIDE DEF old, c, run, j
        <4>. QED  BY <2>3, <2>4, <3>1, ConcatLookup
      <3>3. j - 1 \in 0 .. k - 1 /\ c + (j - 1) = n /\ c + j - 1 = c + (j - 1)
        <4>. HIDE DEF old, c, run, j
        <4>. QED  BY <2>3, <2>4, <3>1
      <3>4. AskedIn(M, c + (j - 1), ClosedBuffer(l, m, a)[SlotOf(c + (j - 1))].final_value.value)
        <4>. HIDE DEF j
        <4>. QED  BY <2>2, <3>3, RunFrom
      <3>5. run[j].value = ClosedBuffer(l, m, a)[SlotOf(c + (j - 1))].final_value.value
        BY <3>1, <3>3 DEF DeliveredValue
      <3>. QED  BY <2>1, <3>2, <3>3, <3>4, <3>5
    <2>. QED  BY <2>6, <2>7
  <1>. QED  BY <1>2, <1>3

(* An acknowledgement of what was asked for keeps it so. *)
LEMMA AckLearns ==
    ASSUME LearnerInv, DeliveredBelowCurrent, NEW M, LearnsFrom(M),
           NEW l \in Learners, NEW m \in AckMessage,
           AskedIn(M, m.iid, m.value), HandleAcceptAck(l, m)
    PROVE  LearnsFrom(M)'
BY StoresFrom, DeliversFrom DEF LearnsFrom

\* Among M each instance is asked for one value of C, and each value for one instance.
AskedOnce(M, C) ==
    \A i, j, v, w : AskedIn(M, i, v) /\ AskedIn(M, j, w) =>
        (i = j <=> v = w) /\ v \in C

(* It is so while the leader leads. *)
LEMMA LedOnce ==
    ASSUME NEW L, NEW D, NEW C, NEW M, Led(L, D, C, M), WellFormed(M)
    PROVE  AskedOnce(M, C)
PROOF
  <1>. DEFINE c == L.current_iid
              l == L.next_unused_iid
  <1>1. PICK S \in SUBSET C : Consistent(L, D, S, M)
    BY DEF Led
  <1>2. AsksBelow(l, M) /\ c \in Nat \ {0} /\ l \in Nat
    BY LedFacts DEF Led
  <1>3. ASSUME NEW i, NEW v, AskedIn(M, i, v)
        PROVE  /\ v \in S
               /\ \/ i \in Past(L) /\ v = D[i] /\ v \notin Held(L, c)
                  \/ i \in Assigned(L, c) /\ v = Given(L, i) /\ v \in Held(L, c)
    <2>1. i \in Iids /\ i \in Nat
      BY <1>3, AskedInType DEF WellFormed
    <2>2. v = ValueOf(L, D, i) /\ i < l
      BY <1>1, <1>2, <1>3, LedAsks
    <2>3. CASE i < c
      <3>1. i \in Past(L) /\ v = D[i]
        BY <2>1, <2>2, <2>3 DEF Past, ValueOf
      <3>. QED  BY <1>1, <3>1 DEF Consistent
    <2>4. CASE ~ (i < c)
      <3>1. i \in Assigned(L, c)
        <4>. HIDE DEF c, l
        <4>1. i \in c .. l - 1
          BY <1>2, <2>1, <2>2, <2>4
        <4>. QED  BY <4>1 DEF Assigned, l
      <3>2. v = Given(L, i)
        BY <2>2, <2>4 DEF ValueOf
      <3>3. v \in Held(L, c)
        BY <3>1, <3>2 DEF Held
      <3>. QED  BY <1>1, <3>1, <3>2, <3>3 DEF Consistent
    <2>. QED  BY <2>3, <2>4
  <1>4. /\ \A i, j \in Past(L) : D[i] = D[j] => i = j
        /\ \A i, j \in Assigned(L, c) : Given(L, i) = Given(L, j) => i = j
    BY <1>1 DEF Consistent, Orderly, HeldOnce
  <1>5. ASSUME NEW i, NEW j, NEW v, NEW w, AskedIn(M, i, v), AskedIn(M, j, w)
        PROVE  (i = j <=> v = w) /\ v \in C
    <2>1. v \in C
      BY <1>1, <1>3, <1>5
    <2>2. ASSUME i = j PROVE v = w
      BY <1>1, <1>2, <1>5, <2>2, LedAsks
    <2>3. ASSUME v = w PROVE i = j
      BY <1>3, <1>4, <1>5, <2>3
    <2>. QED  BY <2>1, <2>2, <2>3
  <1>. QED  BY <1>5 DEF AskedOnce

\* Proposer 0 leads from the start, and nobody else ever does: either the oracle
\* keeps announcing proposer 0, or it announces somebody who runs no proposer here.
OneLeader ==
    /\ 0 \in Proposers
    /\ Announced \subseteq {0} \/ Announced \cap Proposers = {}

\* What the learner below proposer 0 delivered, by instance.
Known ==
    [i \in Iids |-> IF i \in DOMAIN delivered[0] THEN delivered[0][i].value ELSE NoValue]

Follows(q) == ~ LEADER_IS_ME(q) /\ Cleared(leader[q])

Leading ==
    IF LEADER_IS_ME(0) THEN Led(leader[0], Known, submitted, msgs)
                       ELSE 0 \notin Announced /\ Cleared(leader[0])

\* The inductive invariant, component by component.
NetInv     == AcceptorInv /\ WellFormed(msgs) /\ ReportsAsked
DeliverInv == LearnerInv /\ DeliveredBelowCurrent /\ LearnsFrom(msgs)
LeadInv ==
    /\ DOMAIN current_leader_id = Proposers
    /\ \A q \in Proposers \ {0} : Follows(q)
    /\ Leading
    /\ AskedOnce(msgs, submitted)

PaxosInv == NetInv /\ DeliverInv /\ CountsAgree /\ LeadInv

\* None of N is an answer of an acceptor.
OnlyRequests(N) ==
    WellFormed(N) /\ \A m \in N : m.type \notin {"prepare_acks", "accept_ack"}

(* OnlyRequests reach the network. *)
LEMMA NetSends ==
    ASSUME NetInv, NEW N, OnlyRequests(N), Send(N), UNCHANGED storeVars
    PROVE  NetInv'
PROOF
  <1>1. N \in SUBSET Message
    BY DEF OnlyRequests, WellFormed
  <1>2. AcceptorInv'
    BY <1>1, SendInv DEF NetInv, storeVars
  <1>3. WellFormed(msgs')
    <2>1. WellFormed(msgs \cup N)
      BY BatchesFormed DEF NetInv, OnlyRequests
    <2>. QED  BY <2>1 DEF Send
  <1>4. ReportsAsked'
    BY SendReports DEF NetInv, OnlyRequests, storeVars
  <1>. QED  BY <1>2, <1>3, <1>4 DEF NetInv, WellFormed

(* The learners stay as they are. *)
LEMMA DeliverStays ==
    ASSUME DeliverInv, UNCHANGED learnerVars, msgs \subseteq msgs'
    PROVE  DeliverInv' /\ Known' = Known
PROOF
  <1>1. LearnsFrom(msgs')
    BY LearnsFromMore DEF DeliverInv
  <1>2. UNCHANGED <<highest_iid_seen, current_iid, highest_iid_closed, learner_state,
                    delivered>>
    BY DEF learnerVars
  <1>3. LearnsFrom(msgs)'
    BY <1>1, <1>2 DEF LearnsFrom
  <1>4. LearnerInv' /\ DeliveredBelowCurrent'
    <2>1. LearnerTypeOK' /\ SlotsInWindow' /\ DeliveredBelowCurrent'
      BY <1>2 DEF DeliverInv, LearnerInv, LearnerTypeOK, SlotsInWindow,
                  DeliveredBelowCurrent
    <2>2. NoMissedQuorum' /\ ClosedOnEvidence'
      BY <1>2 DEF DeliverInv, LearnerInv, NoMissedQuorum, ClosedOnEvidence
    <2>3. NothingHeldBack' /\ ClosedBelowHighest'
      BY <1>2 DEF DeliverInv, LearnerInv, NothingHeldBack, LearnerIsClosed,
                  ClosedBelowHighest
    <2>. QED  BY <2>1, <2>2, <2>3 DEF LearnerInv
  <1>. QED  BY <1>2, <1>3, <1>4 DEF DeliverInv, Known

(* More submitted values, and messages that ask for nothing, change nothing for it. *)
LEMMA LedMore ==
    ASSUME NEW L, NEW D, NEW C, NEW M, Led(L, D, C, M),
           NEW N, M \subseteq N, \A m \in N \ M : m.type # "accept_reqs",
           NEW B, C \subseteq B
    PROVE  Led(L, D, B, N)
PROOF
  <1>1. AsksBelow(L.next_unused_iid, N)
    BY DEF Led, AsksBelow
  <1>2. PICK S \in SUBSET C : Consistent(L, D, S, M)
    BY DEF Led
  <1>3. AsksFor(L, D, N)
    BY <1>2 DEF Consistent, AsksFor
  <1>4. Consistent(L, D, S, N) /\ S \in SUBSET B
    BY <1>2, <1>3 DEF Consistent
  <1>. QED  BY <1>1, <1>4 DEF Led

(* A step of proposer 0 while it leads. *)
LEMMA LeadStep ==
    ASSUME LeadInv, OneLeader, DOMAIN leader = Proposers, WellFormed(msgs'),
           LEADER_IS_ME(0), UNCHANGED current_leader_id,
           NEW K, leader' = [leader EXCEPT ![0] = K], Led(K, Known', submitted', msgs')
    PROVE  LeadInv'
PROOF
  <1>1. leader'[0] = K /\ \A q \in Proposers \ {0} : leader'[q] = leader[q]
    BY DEF OneLeader
  <1>2. AskedOnce(msgs', submitted')
    BY LedOnce
  <1>3. Leading' /\ \A q \in Proposers \ {0} : Follows(q)'
    BY <1>1 DEF Leading, LeadInv, Follows, LEADER_IS_ME
  <1>. QED  BY <1>2, <1>3 DEF LeadInv, AskedOnce, AskedIn

(* A step in which nothing is asked for, and proposer 0 leads as before or not at
   all. *)
LEMMA LeadFrame ==
    ASSUME LeadInv, msgs \subseteq msgs',
           \A m \in msgs' \ msgs : m.type # "accept_reqs", submitted \subseteq submitted',
           DOMAIN current_leader_id' = Proposers,
           \A q \in Proposers \ {0} : Follows(q)',
           \/ /\ leader'[0] = leader[0] /\ current_leader_id'[0] = current_leader_id[0]
              /\ Known' = Known
           \/ current_leader_id'[0] # 0 /\ 0 \notin Announced /\ Cleared(leader'[0])
    PROVE  LeadInv'
PROOF
  <1>1. AskedOnce(msgs', submitted')
    <2>1. \A i, v : AskedIn(msgs', i, v) <=> AskedIn(msgs, i, v)
      BY AskedInSame
    <2>. QED  BY <2>1 DEF LeadInv, AskedOnce
  <1>2. Leading'
    <2>1. CASE current_leader_id'[0] # 0 /\ 0 \notin Announced /\ Cleared(leader'[0])
      BY <2>1 DEF Leading, LEADER_IS_ME
    <2>2. CASE /\ leader'[0] = leader[0] /\ current_leader_id'[0] = current_leader_id[0]
               /\ Known' = Known
      <3>1. CASE LEADER_IS_ME(0)
        <4>1. Led(leader[0], Known, submitted, msgs)
          BY <3>1 DEF LeadInv, Leading
        <4>2. Led(leader[0], Known, submitted', msgs')
          BY <4>1, LedMore
        <4>. QED  BY <2>2, <3>1, <4>2 DEF Leading, LEADER_IS_ME
      <3>2. CASE ~ LEADER_IS_ME(0)
        BY <2>2, <3>2 DEF LeadInv, Leading, LEADER_IS_ME
      <3>. QED  BY <3>1, <3>2
    <2>. QED  BY <2>1, <2>2
  <1>. QED  BY <1>1, <1>2 DEF LeadInv, AskedOnce, AskedIn

\* What the steps below preserve; CountsStep preserves CountsAgree.
Preserved == NetInv' /\ DeliverInv' /\ LeadInv'

(* What an acceptor does: its answers repeat what it was asked. *)
LEMMA AcceptorPreserves ==
    ASSUME PaxosInv, NEW a \in Acceptors, AcceptorEvent(a)
    PROVE  Preserved
PROOF
  <1>1. AcceptorStep(a) /\ UNCHANGED <<learnerVars, leaderVars, submitted>>
    BY DEF AcceptorEvent, AcceptorStep
  <1>2. AcceptorInv' /\ Answers(msgs, msgs') /\ ReportsAsked'
    BY <1>1, AcceptorStepInv, AcceptorAnswers DEF PaxosInv, NetInv
  <1>3. /\ msgs \subseteq msgs'
        /\ \A m \in msgs' \ msgs : m.type \in {"prepare_acks", "accept_ack"}
    BY <1>2 DEF Answers
  <1>4. WellFormed(msgs)'
    <2>1. msgs' \subseteq Message
      BY <1>2 DEF AcceptorInv, AcceptorTypeOK
    <2>2. \A m \in msgs' : m.type = "prepare_reqs" => m \in msgs
      BY <1>3
    <2>. QED  BY <2>1, <2>2 DEF PaxosInv, NetInv, WellFormed
  <1>5. DeliverInv' /\ Known' = Known
    BY <1>1, <1>3, DeliverStays DEF PaxosInv
  <1>6. LeadInv'
    <2>1. leader' = leader /\ current_leader_id' = current_leader_id
      BY <1>1 DEF leaderVars
    <2>2. \A q \in Proposers \ {0} : Follows(q)'
      BY <2>1 DEF PaxosInv, LeadInv, Follows, LEADER_IS_ME
    <2>3. DOMAIN current_leader_id' = Proposers
      BY <2>1 DEF PaxosInv, LeadInv
    <2>. QED  BY <1>1, <1>3, <1>5, <2>1, <2>2, <2>3, LeadFrame DEF PaxosInv
  <1>. QED  BY <1>2, <1>4, <1>5, <1>6 DEF Preserved, NetInv

(* lea_hole_check asks for repeats, and for nothing else. *)
LEMMA HolesPreserve ==
    ASSUME PaxosInv, NEW l \in Learners, CheckHoles(l)
    PROVE  Preserved
PROOF
  <1>1. PICK from, to : Send({RepeatRequest(l, from, to)})
    BY DEF CheckHoles, HoleCheck
  <1>. DEFINE N == {RepeatRequest(l, from, to)}
  <1>2. OnlyRequests(N)
    <2>1. \A m \in N : m.type = "repeat_reqs" /\ m \in Message
      BY DEF RepeatRequest, Message
    <2>. QED  BY <2>1 DEF OnlyRequests, WellFormed
  <1>3. UNCHANGED <<storeVars, learnerVars, leaderVars, submitted>>
    BY DEF CheckHoles, HoleCheck
  <1>4. /\ msgs \subseteq msgs'
        /\ \A m \in msgs' \ msgs : m.type # "accept_reqs"
    BY <1>1 DEF Send, RepeatRequest
  <1>5. NetInv'
    BY <1>1, <1>2, <1>3, NetSends DEF PaxosInv
  <1>6. DeliverInv' /\ Known' = Known
    BY <1>3, <1>4, DeliverStays DEF PaxosInv
  <1>7. LeadInv'
    <2>1. leader' = leader /\ current_leader_id' = current_leader_id
      BY <1>3 DEF leaderVars
    <2>2. \A q \in Proposers \ {0} : Follows(q)'
      BY <2>1 DEF PaxosInv, LeadInv, Follows, LEADER_IS_ME
    <2>3. DOMAIN current_leader_id' = Proposers
      BY <2>1 DEF PaxosInv, LeadInv
    <2>. QED  BY <1>3, <1>4, <1>6, <2>1, <2>2, <2>3, LeadFrame DEF PaxosInv
  <1>. QED  BY <1>5, <1>6, <1>7 DEF Preserved

\* The window of the leader lies within one turn of the buffer, and no promise that
\* reports a value is for an instance that was in the slot before, at the ballot the
\* slot has now.  The code sees to neither.
WindowFits == LEADER_IS_ME(0) => InBuffer(leader[0])

NoStalePromise ==
    LEADER_IS_ME(0) =>
        \A m \in {n \in msgs : n.type = "prepare_acks"} : \A pa \in m.acks :
            AcceptsPromise(leader[0], pa) /\ pa.value # NoValue =>
                Instance(leader[0], pa.iid).iid = pa.iid

(* Only proposer 0 leads. *)
LEMMA LeaderIsFirst ==
    ASSUME PaxosInv, OneLeader, WindowFits, NEW p \in Proposers, LEADER_IS_ME(p)
    PROVE  /\ p = 0 /\ InBuffer(leader[0]) /\ WellFormed(msgs)
           /\ Led(leader[0], Known, submitted, msgs)
BY DEF PaxosInv, LeadInv, NetInv, Leading, Follows, WindowFits

(* A promise the leader accepts reports a value only if the leader assigned it to
   that instance. *)
LEMMA PromisesAgree ==
    ASSUME NetInv, NoStalePromise, LEADER_IS_ME(0),
           Led(leader[0], Known, submitted, msgs),
           NEW m \in msgs, m.type = "prepare_acks"
    PROVE  AcksAgree(leader[0], leader[0].current_iid, m.acks)
PROOF
  <1>. DEFINE L == leader[0]
              c == L.current_iid
  <1>1. Coherent(L, c) /\ c \in Nat \ {0}
    BY LedFacts
  <1>2. AsksBelow(L.next_unused_iid, msgs) /\ WellFormed(msgs)
    BY DEF Led, NetInv
  <1>3. PICK S \in SUBSET submitted : Consistent(L, Known, S, msgs)
    BY DEF Led
  <1>4. ASSUME NEW i \in WindowFrom(L, c), NEW pa \in AcceptedPromises(L, m.acks),
               ProposerSlot(pa.iid) = ProposerSlot(i), pa.value # NoValue
        PROVE  i < L.next_unused_iid /\ pa.value = Given(L, i)
    <2>1. pa \in m.acks /\ AcceptsPromise(L, pa)
      BY DEF AcceptedPromises
    <2>2. AskedIn(msgs, pa.iid, pa.value)
      BY <1>4, <2>1 DEF NetInv, ReportsAsked, Reports
    <2>3. Instance(L, pa.iid).iid = pa.iid
      BY <1>4, <2>1 DEF NoStalePromise
    <2>4. Instance(L, i).iid = i
      BY <1>1 DEF Coherent, Holds
    <2>5. pa.iid = i
      BY <1>4, <2>3, <2>4 DEF Instance
    <2>6. pa.value = ValueOf(L, Known, i) /\ i < L.next_unused_iid
      <3>. HIDE DEF L
      <3>. QED  BY <1>2, <1>3, <2>2, <2>5, LedAsks
    <2>7. ~ (i < c)
      <3>1. i \in Nat /\ c <= i
        <4>. HIDE DEF L, c
        <4>. QED  BY <1>1, WindowType
      <3>. HIDE DEF c
      <3>. QED  BY <1>1, <3>1
    <2>. QED  BY <2>6, <2>7 DEF ValueOf
  <1>. QED  BY <1>4 DEF AcksAgree

(* What the three handlers of the leader that only send requests have in common. *)
LEMMA LeaderSends ==
    ASSUME PaxosInv, OneLeader, LEADER_IS_ME(0),
           UNCHANGED <<storeVars, learnerVars, submitted, current_leader_id>>,
           NEW N, OnlyRequests(N), Send(N),
           NEW K, leader' = [leader EXCEPT ![0] = K],
           Led(K, Known, submitted, msgs \cup N)
    PROVE  Preserved
PROOF
  <1>1. NetInv'
    BY NetSends DEF PaxosInv
  <1>2. msgs' = msgs \cup N /\ submitted' = submitted
    BY DEF Send
  <1>3. DeliverInv' /\ Known' = Known
    BY <1>2, DeliverStays DEF PaxosInv
  <1>4. WellFormed(msgs')
    BY <1>1 DEF NetInv, WellFormed
  <1>5. Led(K, Known', submitted', msgs')
    BY <1>2, <1>3
  <1>6. LeadInv /\ DOMAIN leader = Proposers
    BY DEF PaxosInv, CountsAgree
  <1>7. LeadInv'
    BY <1>4, <1>5, <1>6, LeadStep
  <1>. QED  BY <1>1, <1>3, <1>7 DEF Preserved

(* Requests are what the batches of the leader are. *)
LEMMA BatchTypes ==
    /\ \A L, S : \A m \in PrepareReqs(L, S) : m.type = "prepare_reqs"
    /\ \A L, S : \A m \in AcceptReqs(L, S) : m.type = "accept_reqs"
BY DEF PrepareReqs, AcceptReqs

(* leader_periodic_p1_check *)
LEMMA Phase1Preserves ==
    ASSUME PaxosInv, OneLeader, WindowFits, WindowFits',
           NEW p \in Proposers, CheckPhase1(p)
    PROVE  Preserved
PROOF
  <1>1. LEADER_IS_ME(p) /\ UNCHANGED <<storeVars, learnerVars, submitted, current_leader_id>>
    BY DEF CheckPhase1, PeriodicP1Check
  <1>2. /\ p = 0 /\ InBuffer(leader[0]) /\ WellFormed(msgs)
        /\ Led(leader[0], Known, submitted, msgs)
    BY <1>1, LeaderIsFirst
  <1>3. PICK E \in SUBSET {i \in Pending(leader[0]) : CanRetry(leader[0], i)} :
            /\ leader' = [leader EXCEPT ![0] =
                             OpenInstancesP1(0, CheckP1Pending(leader[0], E))]
            /\ Send(PrepareReqs(CheckP1Pending(leader[0], E), E)
                    \cup PrepareReqs(OpenInstancesP1(0, CheckP1Pending(leader[0], E)),
                                     ToOpen(CheckP1Pending(leader[0], E))))
    BY <1>2, Zenon DEF CheckPhase1, PeriodicP1Check
  <1>. DEFINE J == CheckP1Pending(leader[0], E)
              K == OpenInstancesP1(0, J)
              N == PrepareReqs(J, E) \cup PrepareReqs(K, ToOpen(J))
  <1>4. leader'[0] = K
    BY <1>3 DEF PaxosInv, CountsAgree, OneLeader
  <1>5. InBuffer(K)
    BY <1>1, <1>2, <1>4 DEF WindowFits, LEADER_IS_ME
  <1>6. Led(K, Known, submitted, msgs \cup N) /\ WellFormed(N)
    BY <1>2, <1>5, LedP1Check DEF OneLeader
  <1>7. OnlyRequests(N)
    BY <1>6, BatchTypes DEF OnlyRequests
  <1>. HIDE DEF N
  <1>8. Send(N)
    BY <1>3 DEF N
  <1>. HIDE DEF K
  <1>9. leader' = [leader EXCEPT ![0] = K]
    BY <1>3 DEF K
  <1>. QED  BY <1>1, <1>2, <1>6, <1>7, <1>8, <1>9, LeaderSends

(* leader_periodic_p2_check *)
LEMMA Phase2Preserves ==
    ASSUME PaxosInv, OneLeader, WindowFits, NEW p \in Proposers, CheckPhase2(p)
    PROVE  Preserved
PROOF
  <1>1. LEADER_IS_ME(p) /\ UNCHANGED <<storeVars, learnerVars, submitted, current_leader_id>>
    BY DEF CheckPhase2, PeriodicP2Check
  <1>2. /\ p = 0 /\ InBuffer(leader[0]) /\ WellFormed(msgs)
        /\ Led(leader[0], Known, submitted, msgs)
    BY <1>1, LeaderIsFirst
  <1>. DEFINE L == leader[0]
              is_closed == {i \in Iids : LearnerIsClosed(0, i)}
              closed == Running(L) \cap is_closed
  <1>3. PICK E \in SUBSET {i \in Running(L) \ is_closed : CanRetry(L, i)} :
            /\ leader' = [leader EXCEPT ![0] = OpenInstancesP2New(CheckP2(L, closed, E))]
            /\ Send(PrepareReqs(CheckP2(L, closed, E), E)
                    \cup AcceptReqs(OpenInstancesP2New(CheckP2(L, closed, E)),
                                    Started(CheckP2(L, closed, E))))
    BY <1>2, Zenon DEF CheckPhase2, PeriodicP2Check
  <1>. DEFINE J == CheckP2(L, closed, E)
              K == OpenInstancesP2New(J)
              N == PrepareReqs(J, E) \cup AcceptReqs(K, Started(J))
  <1>4. Led(K, Known, submitted, msgs \cup N) /\ WellFormed(N)
    <2>1. P2CheckLed(L, Known, submitted, msgs, closed, E)
      <3>. HIDE DEF L, is_closed
      <3>. QED  BY <1>2, LedP2Check DEF L
    <2>. HIDE DEF L, closed
    <2>. QED  BY <2>1 DEF P2CheckLed
  <1>5. OnlyRequests(N)
    BY <1>4, BatchTypes DEF OnlyRequests
  <1>. HIDE DEF N
  <1>6. Send(N)
    BY <1>3 DEF N
  <1>. HIDE DEF K
  <1>7. leader' = [leader EXCEPT ![0] = K]
    BY <1>3 DEF K
  <1>. QED  BY <1>1, <1>2, <1>4, <1>5, <1>6, <1>7, LeaderSends

(* handle_prepare_ack_batch *)
LEMMA PromisesPreserve ==
    ASSUME PaxosInv, OneLeader, WindowFits, NoStalePromise,
           NEW p \in Proposers, ReceivePromises(p)
    PROVE  Preserved
PROOF
  <1>1. PICK m \in msgs : m.type = "prepare_acks" /\ HandlePrepareAckBatch(p, m)
    BY DEF ReceivePromises
  <1>2. LEADER_IS_ME(p) /\ UNCHANGED <<storeVars, learnerVars, submitted, current_leader_id>>
    BY <1>1 DEF ReceivePromises, HandlePrepareAckBatch
  <1>3. /\ p = 0 /\ InBuffer(leader[0]) /\ WellFormed(msgs)
        /\ Led(leader[0], Known, submitted, msgs)
    BY <1>2, LeaderIsFirst
  <1>. DEFINE L == leader[0]
              J == AfterPromises(L, m.acks)
              P == OpenInstancesP2Expired(J)
              K == OpenInstancesP2New(P)
              N == AcceptReqs(P, ExpiredReady(J)) \cup AcceptReqs(K, Started(P))
  <1>4. m.acks \in SUBSET PrepareAck /\ Apart(m.acks)
    <2>1. PICK n \in msgs : n.type = "prepare_reqs" /\ Shaped(n.reqs, m.acks)
      BY <1>1 DEF PaxosInv, NetInv, ReportsAsked, Reports
    <2>2. Apart(n.reqs)
      BY <1>3, <2>1 DEF WellFormed
    <2>. QED  BY <1>1, <1>3, <2>1, <2>2, MessageShapes DEF WellFormed, Shaped
  <1>5. AcksAgree(L, L.current_iid, m.acks)
    BY <1>1, <1>2, <1>3, PromisesAgree DEF PaxosInv
  <1>6. /\ Led(K, Known, submitted, msgs \cup N) /\ WellFormed(N)
        /\ MadeReady(L, m.acks) = {} => Led(J, Known, submitted, msgs)
    <2>. HIDE DEF L
    <2>. QED  BY <1>3, <1>4, <1>5, LedPromises DEF L
  <1>7. CASE MadeReady(L, m.acks) = {}
    <2>1. leader' = [leader EXCEPT ![0] = J] /\ msgs' = msgs
      BY <1>1, <1>3, <1>7 DEF HandlePrepareAckBatch
    <2>. HIDE DEF J
    <2>2. Send({}) /\ OnlyRequests({}) /\ msgs \cup {} = msgs
      BY <2>1 DEF Send, OnlyRequests, WellFormed
    <2>. QED  BY <1>2, <1>3, <1>6, <1>7, <2>1, <2>2, LeaderSends
  <1>8. CASE MadeReady(L, m.acks) # {}
    <2>1. leader' = [leader EXCEPT ![0] = K] /\ Send(N)
      BY <1>1, <1>3, <1>8, Zenon DEF HandlePrepareAckBatch
    <2>2. OnlyRequests(N)
      BY <1>6, BatchTypes DEF OnlyRequests
    <2>. HIDE DEF K, N
    <2>. QED  BY <1>2, <1>3, <1>6, <2>1, <2>2, LeaderSends
  <1>. QED  BY <1>7, <1>8

(* vh_enqueue_value: a proposer that does not lead only lengthens its list. *)
LEMMA SubmitPreserves ==
    ASSUME PaxosInv, OneLeader, NEW p \in Proposers, Submit(p)
    PROVE  Preserved
PROOF
  <1>1. PICK v \in Values \ submitted : EnqueueValue(p, v) /\ submitted' = submitted \cup {v}
    BY DEF Submit
  <1>. DEFINE K == Enqueued(leader[p], v)
  <1>2. leader' = [leader EXCEPT ![p] = K]
    BY <1>1 DEF EnqueueValue, Enqueued
  <1>3. UNCHANGED <<storeVars, learnerVars, msgs, current_leader_id>>
    BY <1>1 DEF Submit, EnqueueValue
  <1>4. NetInv' /\ DeliverInv' /\ Known' = Known
    <2>1. Send({}) /\ OnlyRequests({})
      BY <1>3 DEF Send, OnlyRequests, WellFormed
    <2>. QED  BY <1>3, <2>1, NetSends, DeliverStays DEF PaxosInv
  <1>. HIDE DEF K
  <1>5. leader'[p] = K /\ \A q \in Proposers \ {p} : leader'[q] = leader[q]
    BY <1>2 DEF PaxosInv, CountsAgree
  <1>6. LeadInv /\ DOMAIN leader = Proposers /\ WellFormed(msgs)
    BY DEF PaxosInv, CountsAgree, NetInv
  <1>7. LeadInv'
    <2>1. CASE p = 0 /\ LEADER_IS_ME(0)
      <3>1. Led(leader[0], Known, submitted, msgs)
        BY <1>6, <2>1 DEF LeadInv, Leading
      <3>2. Led(K, Known, submitted \cup {v}, msgs)
        BY <2>1, <3>1, LedTakes DEF K
      <3>. QED  BY <1>1, <1>2, <1>3, <1>4, <1>6, <2>1, <3>2, LeadStep
    <2>2. CASE ~ (p = 0 /\ LEADER_IS_ME(0))
      <3>1. Cleared(leader[p])
        BY <1>6, <2>2 DEF LeadInv, Leading, Follows
      <3>2. Cleared(K)
        BY <3>1, EnqueuedSound DEF Cleared, K
      <3>3. \A q \in Proposers \ {0} : Follows(q)'
        BY <1>3, <1>5, <1>6, <3>2 DEF LeadInv, Follows, LEADER_IS_ME
      <3>4. \/ /\ leader'[0] = leader[0] /\ current_leader_id'[0] = current_leader_id[0]
               /\ Known' = Known
            \/ current_leader_id'[0] # 0 /\ 0 \notin Announced /\ Cleared(leader'[0])
        BY <1>3, <1>4, <1>5, <1>6, <2>2, <3>2
           DEF LeadInv, Leading, LEADER_IS_ME, OneLeader
      <3>5. DOMAIN current_leader_id' = Proposers /\ submitted \subseteq submitted'
            /\ msgs' = msgs
        BY <1>1, <1>3, <1>6 DEF LeadInv
      <3>. QED  BY <1>6, <3>3, <3>4, <3>5, LeadFrame
    <2>. QED  BY <2>1, <2>2
  <1>. QED  BY <1>4, <1>7 DEF Preserved

(* pro_handle_oracle_msg: leader_shutdown clears the buffer for good. *)
LEMMA AnnouncePreserves ==
    ASSUME PaxosInv, OneLeader, NEW p \in Proposers, Announce(p)
    PROVE  Preserved
PROOF
  <1>1. PICK id \in Announced : HandleOracleMsg(p, id)
    BY DEF Announce
  <1>2. UNCHANGED <<storeVars, learnerVars, submitted>>
    BY DEF Announce
  <1>3. LeadInv /\ DOMAIN leader = Proposers
    BY DEF PaxosInv, CountsAgree
  <1>4. p # 0 => ~ LEADER_IS_ME(p) /\ id # p
    BY <1>3 DEF LeadInv, Follows, OneLeader
  <1>5. p = 0 /\ ~ LEADER_IS_ME(0) => id # 0
    BY <1>3 DEF LeadInv, Leading
  <1>6. /\ current_leader_id' = [current_leader_id EXCEPT ![p] = id]
        /\ UNCHANGED msgs
        /\ IF LEADER_IS_ME(p) /\ id # p
           THEN leader' = [leader EXCEPT ![p] = SteppedDown(leader[p])]
           ELSE leader' = leader
    BY <1>1, <1>4, <1>5 DEF HandleOracleMsg
  <1>7. NetInv' /\ DeliverInv' /\ Known' = Known
    <2>1. Send({}) /\ OnlyRequests({})
      BY <1>6 DEF Send, OnlyRequests, WellFormed
    <2>. QED  BY <1>2, <1>6, <2>1, NetSends, DeliverStays DEF PaxosInv
  <1>8. /\ DOMAIN current_leader_id' = Proposers /\ current_leader_id'[p] = id
        /\ \A q \in Proposers \ {p} : current_leader_id'[q] = current_leader_id[q]
    BY <1>3, <1>6 DEF LeadInv
  <1>9. \A q \in Proposers \ {0} : leader'[q] = leader[q]
    <2>1. CASE p = 0
      <3>1. \/ leader' = [leader EXCEPT ![0] = SteppedDown(leader[0])]
            \/ leader' = leader
        BY <1>6, <2>1
      <3>. QED  BY <1>3, <3>1
    <2>2. CASE p # 0
      <3>1. leader' = leader
        BY <1>4, <1>6, <2>2
      <3>. QED  BY <3>1
    <2>. QED  BY <2>1, <2>2
  <1>10. \A q \in Proposers \ {0} : Follows(q)'
    BY <1>3, <1>4, <1>8, <1>9 DEF LeadInv, Follows, LEADER_IS_ME
  <1>11. \/ /\ leader'[0] = leader[0] /\ current_leader_id'[0] = current_leader_id[0]
            /\ Known' = Known
         \/ current_leader_id'[0] # 0 /\ 0 \notin Announced /\ Cleared(leader'[0])
    <2>1. CASE p # 0
      BY <1>4, <1>6, <1>7, <1>8, <2>1 DEF OneLeader
    <2>2. CASE p = 0 /\ LEADER_IS_ME(0) /\ id = 0
      BY <1>6, <1>7, <1>8, <2>2 DEF LEADER_IS_ME
    <2>3. CASE p = 0 /\ LEADER_IS_ME(0) /\ id # 0
      <3>1. Coherent(leader[0], leader[0].current_iid)
        BY <1>3, <2>3, LedFacts DEF LeadInv, Leading
      <3>2. Cleared(SteppedDown(leader[0]))
        BY <3>1, SteppedDownClears
      <3>3. leader'[0] = SteppedDown(leader[0])
        BY <1>3, <1>6, <2>3 DEF OneLeader
      <3>4. 0 \notin Announced
        BY <2>3 DEF OneLeader
      <3>. QED  BY <1>8, <2>3, <3>2, <3>3, <3>4
    <2>4. CASE p = 0 /\ ~ LEADER_IS_ME(0)
      <3>1. 0 \notin Announced /\ Cleared(leader[0])
        BY <1>3, <2>4 DEF LeadInv, Leading
      <3>. QED  BY <1>5, <1>6, <1>8, <2>4, <3>1
    <2>. QED  BY <2>1, <2>2, <2>3, <2>4
  <1>12. LeadInv'
    BY <1>2, <1>3, <1>6, <1>8, <1>10, <1>11, LeadFrame
  <1>. QED  BY <1>7, <1>12 DEF Preserved

(* What the learner of proposer 0 delivers, as its proposer is told. *)
LEMMA LearnerTells ==
    ASSUME DeliverInv, CountsAgree, 0 \in Proposers, NEW m \in AckMessage,
           AskedIn(msgs, m.iid, m.value), HandleAcceptAck(0, m),
           NEW k, k = Len(delivered'[0]) - Len(delivered[0]),
           NEW vs, vs = [n \in 1 .. k |-> delivered'[0][Len(delivered[0]) + n].value],
           \A n \in DOMAIN delivered'[0] : AskedIn(msgs, n, delivered'[0][n].value)
    PROVE  k \in Nat /\ Len(vs) = k /\ DOMAIN vs = 1 .. k
           /\ Learns(leader[0], Known, Known', vs, msgs)
PROOF
  <1>. DEFINE old == delivered[0]
              new == delivered'[0]
              c == leader[0].current_iid
  <1>1. LearnerTypeOK /\ LearnerTypeOK' /\ 0 \in Learners
    <2>1. LearnerTypeOK /\ 0 \in Learners
      BY PaxosAssumption DEF DeliverInv, LearnerInv
    <2>. QED  BY <2>1, AckTypeStep
  <1>2. Len(old) <= Len(new) /\ \A n \in 1 .. Len(old) : new[n] = old[n]
    BY <1>1, DeliveryStep
  <1>3. \E S, T : old \in Seq(S) /\ new \in Seq(T)
    BY <1>1, Zenon DEF LearnerTypeOK
  <1>4. c = current_iid[0] /\ current_iid[0] \in Nat
    BY <1>1 DEF CountsAgree, CurrentIidInStep
  <1>5. Len(old) = current_iid[0] - 1
    BY <1>1 DEF DeliverInv, DeliveredBelowCurrent
  <1>6. k = Len(new) - Len(old)
    OBVIOUS
  <1>7. vs = [n \in 1 .. k |-> new[Len(old) + n].value]
    OBVIOUS
  <1>8. \A n \in DOMAIN new : AskedIn(msgs, n, new[n].value)
    OBVIOUS
  <1>9. Known = [i \in Iids |-> IF i \in DOMAIN old THEN old[i].value ELSE NoValue]
    BY DEF Known
  <1>10. Known' = [i \in Iids |-> IF i \in DOMAIN new THEN new[i].value ELSE NoValue]
    BY DEF Known
  <1>. HIDE DEF old, new, c
  <1>. DEFINE o == Len(old)
              e == Len(new)
  <1>11. DOMAIN old = 1 .. o /\ DOMAIN new = 1 .. e /\ o \in Nat /\ e \in Nat
    BY ONLY <1>3
  <1>12. (\A n \in 1 .. o : new[n] = old[n]) /\ vs = [n \in 1 .. k |-> new[o + n].value]
    BY <1>2, <1>7
  <1>13. k \in Nat /\ e = o + k /\ c = o + 1 /\ o \in Nat /\ e \in Nat /\ c \in Nat
    <2>1. o <= e /\ o = current_iid[0] - 1 /\ k = e - o
      BY <1>2, <1>5, <1>6
    <2>2. o \in Nat /\ e \in Nat
      BY <1>11
    <2>. HIDE DEF o, e
    <2>. DEFINE z == current_iid[0]
    <2>3. c = z /\ z \in Nat /\ o = z - 1
      BY <1>4, <2>1
    <2>. HIDE DEF z
    <2>. QED  BY ONLY <2>1, <2>2, <2>3
  <1>. HIDE DEF o, e
  <1>14. DOMAIN vs = 1 .. k /\ Len(vs) = k
    BY ONLY <1>12, <1>13
  <1>15. ASSUME NEW n \in 1 .. k
         PROVE  vs[n] = new[o + n].value /\ o + n \in 1 .. e /\ c + n - 1 = o + n
    <2>1. o + n \in 1 .. e /\ c + n - 1 = o + n
      BY ONLY <1>13, n \in 1 .. k
    <2>. QED  BY <1>12, <2>1
  <1>16. \A n \in DOMAIN vs : AskedIn(msgs, c + n - 1, vs[n])
    <2>1. ASSUME NEW n \in 1 .. k  PROVE  AskedIn(msgs, c + n - 1, vs[n])
      <3>1. AskedIn(msgs, o + n, new[o + n].value)
        BY <1>8, <1>11, <1>15
      <3>. QED  BY <1>15, <3>1
    <2>. QED  BY <1>14, <2>1
  <1>17. ASSUME NEW i \in Iids
         PROVE  Known'[i] = IF c <= i /\ i < c + k THEN vs[i - c + 1] ELSE Known[i]
    <2>1. i \in Nat \ {0}
      BY MessagesAssumption
    <2>2. /\ Known[i] = IF i \in 1 .. o THEN old[i].value ELSE NoValue
          /\ Known'[i] = IF i \in 1 .. e THEN new[i].value ELSE NoValue
      BY <1>9, <1>10, <1>11
    <2>3. CASE c <= i /\ i < c + k
      <3>1. i - c + 1 \in 1 .. k /\ o + (i - c + 1) = i /\ i \in 1 .. e
        BY ONLY <1>13, <2>1, <2>3
      <3>2. vs[i - c + 1] = new[i].value
        BY <1>15, <3>1
      <3>. QED  BY <2>2, <2>3, <3>1, <3>2
    <2>4. CASE ~ (c <= i /\ i < c + k)
      <3>1. i \in 1 .. e <=> i \in 1 .. o
        BY ONLY <1>13, <2>1, <2>4
      <3>. QED  BY <1>12, <2>2, <2>4, <3>1
    <2>. QED  BY <2>3, <2>4
  <1>. QED  BY <1>13, <1>14, <1>16, <1>17 DEF Learns, c

(* handle_accept_ack, with pro_deliver_callback for each value it delivers. *)
LEMMA AckPreserves ==
    ASSUME PaxosInv, OneLeader, WindowFits, NEW l \in Learners, ReceiveAcceptAck(l)
    PROVE  Preserved
PROOF
  <1>1. PICK m \in msgs : m.type = "accept_ack" /\ HandleAcceptAck(l, m)
    BY DEF ReceiveAcceptAck
  <1>2. /\ m \in AckMessage /\ AskedIn(msgs, m.iid, m.value)
        /\ UNCHANGED <<storeVars, submitted>>
    <2>1. m \in AckMessage
      <3>1. m \in Message
        BY DEF PaxosInv, NetInv, WellFormed
      <3>. QED  BY <1>1, <3>1 DEF Message
    <2>. QED  BY <1>1, <2>1 DEF PaxosInv, NetInv, ReportsAsked, Reports, ReceiveAcceptAck
  <1>3. LearnerInv /\ LearnerTypeOK /\ DeliveredBelowCurrent /\ DeliverInv /\ CountsAgree
        /\ LearnsFrom(msgs) /\ NetInv /\ WellFormed(msgs) /\ LeadInv
    BY DEF PaxosInv, DeliverInv, LearnerInv, NetInv
  <1>4. LearnerInv' /\ DeliveredBelowCurrent'
    BY <1>1, <1>2, <1>3, LearnerStepInv, DeliveredCountStep
  <1>5. PICK M : M = msgs
    OBVIOUS
  <1>6. LearnsFrom(M)'
    <2>1. LearnsFrom(M) /\ AskedIn(M, m.iid, m.value)
      BY <1>2, <1>3, <1>5
    <2>. QED  BY <1>1, <1>2, <1>3, <2>1, AckLearns
  <1>7. \A x \in Learners \ {l} : delivered'[x] = delivered[x]
    BY <1>1, <1>2, <1>3, DeliveryStep
  <1>8. ASSUME msgs \subseteq msgs'  PROVE DeliverInv'
    <2>1. \A i, v : AskedIn(M, i, v) => AskedIn(msgs', i, v)
      BY <1>5, <1>8, AskedInStays
    <2>2. LearnsFrom(msgs)'
      BY <1>6, <2>1 DEF LearnsFrom
    <2>. QED  BY <1>4, <2>2 DEF DeliverInv
  <1>9. \A q \in Proposers \ {0} : ~ LEADER_IS_ME(q) /\ Cleared(leader[q])
    BY <1>3 DEF LeadInv, Follows
  <1>. DEFINE k == Len(delivered'[l]) - Len(delivered[l])
              vs == [n \in 1 .. k |-> delivered'[l][Len(delivered[l]) + n].value]
              r == AfterRun(leader[l], LEADER_IS_ME(l), vs)
  <1>10. CASE ~ (l \in Proposers /\ delivered'[l] # delivered[l])
    <2>1. UNCHANGED <<msgs, leaderVars>>
      BY <1>10 DEF ReceiveAcceptAck
    <2>2. msgs' = msgs /\ leader' = leader /\ current_leader_id' = current_leader_id
          /\ submitted' = submitted
      BY <1>2, <2>1 DEF leaderVars
    <2>3. NetInv'
      <3>1. Send({}) /\ OnlyRequests({})
        BY <2>2 DEF Send, OnlyRequests, WellFormed
      <3>. QED  BY <1>2, <1>3, <3>1, NetSends
    <2>4. Known' = Known
      <3>1. delivered'[0] = delivered[0]
        BY <1>7, <1>10, PaxosAssumption DEF OneLeader
      <3>. QED  BY <3>1 DEF Known
    <2>5. LeadInv'
      <3>1. \A q \in Proposers \ {0} : Follows(q)'
        BY <1>9, <2>2 DEF Follows, LEADER_IS_ME
      <3>2. DOMAIN current_leader_id' = Proposers
        BY <1>3, <2>2 DEF LeadInv
      <3>. QED  BY <1>3, <2>2, <2>4, <3>1, <3>2, LeadFrame
    <2>. QED  BY <1>8, <2>2, <2>3, <2>5 DEF Preserved
  <1>11. CASE l \in Proposers /\ delivered'[l] # delivered[l]
    <2>1. /\ leader' = [leader EXCEPT ![l] = r.info] /\ Send(r.sent)
          /\ UNCHANGED current_leader_id
      <3>1. DeliverCallbacks(l, vs)
        BY <1>11 DEF ReceiveAcceptAck
      <3>. QED  BY <3>1, Zenon DEF DeliverCallbacks
    <2>2. msgs \subseteq msgs'
      BY <2>1 DEF Send
    <2>3. DOMAIN leader = Proposers /\ DOMAIN current_leader_id = Proposers /\ 0 \in Proposers
      BY <1>3 DEF CountsAgree, LeadInv, OneLeader
    <2>4. CASE LEADER_IS_ME(l)
      <3>1. l = 0 /\ InBuffer(leader[0]) /\ Led(leader[0], Known, submitted, msgs)
        BY <1>11, <2>4, LeaderIsFirst
      <3>2. \A n \in DOMAIN delivered'[0] : AskedIn(msgs, n, delivered'[0][n].value)
        <4>1. 0 \in Learners
          BY <1>11, <3>1
        <4>. QED  BY <1>5, <1>6, <4>1 DEF LearnsFrom
      <3>3. k \in Nat /\ Len(vs) = k /\ DOMAIN vs = 1 .. k
            /\ Learns(leader[0], Known, Known', vs, msgs)
        BY <1>1, <1>2, <1>3, <2>3, <3>1, <3>2, LearnerTells
      <3>. HIDE DEF k, vs
      <3>4. r = AfterRun(leader[0], TRUE, vs)
        BY <2>4, <3>1
      <3>. HIDE DEF r
      <3>5. /\ Led(r.info, Known', submitted, msgs \cup r.sent) /\ WellFormed(r.sent)
            /\ \A n \in r.sent : n.type = "accept_reqs"
        <4>1. RunLed(r, Known', submitted, msgs)
          BY <1>3, <3>1, <3>3, <3>4, LedRun
        <4>. QED  BY <4>1 DEF RunLed
      <3>6. OnlyRequests(r.sent)
        BY <3>5 DEF OnlyRequests
      <3>7. NetInv'
        BY <1>2, <1>3, <2>1, <3>6, NetSends
      <3>8. LeadInv'
        <4>1. WellFormed(msgs')
          BY <3>7 DEF NetInv, WellFormed
        <4>2. Led(r.info, Known', submitted', msgs')
          BY <1>2, <2>1, <3>5 DEF Send
        <4>. QED  BY <1>3, <2>1, <2>3, <2>4, <3>1, <4>1, <4>2, LeadStep
      <3>. QED  BY <1>8, <2>2, <3>7, <3>8 DEF Preserved
    <2>5. CASE ~ LEADER_IS_ME(l)
      <3>1. Cleared(leader[l]) /\ (l = 0 => 0 \notin Announced)
        BY <1>9, <1>3, <1>11, <2>5 DEF LeadInv, Leading
      <3>2. Len(vs) \in Nat
        <4>1. k \in Nat
          <5>1. LearnerTypeOK'
            BY <1>4 DEF LearnerInv
          <5>2. Len(delivered[l]) \in Nat /\ Len(delivered'[l]) \in Nat
            BY <1>3, <5>1 DEF LearnerTypeOK
          <5>3. Len(delivered[l]) <= Len(delivered'[l])
            BY <1>1, <1>2, <1>3, DeliveryStep
          <5>. DEFINE o == Len(delivered[l])
                      e == Len(delivered'[l])
          <5>. HIDE DEF o, e
          <5>4. o \in Nat /\ e \in Nat /\ o <= e /\ k = e - o
            BY <5>2, <5>3 DEF o, e
          <5>. HIDE DEF k
          <5>. QED  BY <5>4
        <4>. HIDE DEF k
        <4>. QED  BY <4>1
      <3>. HIDE DEF k, vs
      <3>3. r.sent = {} /\ Cleared(r.info)
        <4>1. PICK n : n = Len(vs)
          OBVIOUS
        <4>2. r = AfterRun(leader[l], FALSE, vs)
          BY <2>5 DEF LEADER_IS_ME
        <4>. HIDE DEF r
        <4>. QED  BY <3>1, <3>2, <4>1, <4>2, RunFollows
      <3>. HIDE DEF r
      <3>4. msgs' = msgs /\ leader'[l] = r.info
            /\ \A q \in Proposers \ {l} : leader'[q] = leader[q]
        BY <1>11, <2>1, <2>3, <3>3 DEF Send
      <3>5. NetInv'
        <4>1. Send({}) /\ OnlyRequests({})
          BY <3>4 DEF Send, OnlyRequests, WellFormed
        <4>. QED  BY <1>2, <1>3, <4>1, NetSends
      <3>6. \A q \in Proposers \ {0} : Follows(q)'
        BY <1>9, <2>1, <3>3, <3>4 DEF Follows, LEADER_IS_ME
      <3>7. \/ /\ leader'[0] = leader[0] /\ current_leader_id'[0] = current_leader_id[0]
               /\ Known' = Known
            \/ current_leader_id'[0] # 0 /\ 0 \notin Announced /\ Cleared(leader'[0])
        <4>1. CASE l = 0
          BY <2>1, <2>5, <3>1, <3>3, <3>4, <4>1 DEF LEADER_IS_ME
        <4>2. CASE l # 0
          <5>1. 0 \in Learners
            BY <2>3, PaxosAssumption
          <5>2. delivered'[0] = delivered[0] /\ leader'[0] = leader[0]
            BY <1>7, <2>3, <3>4, <4>2, <5>1
          <5>. QED  BY <2>1, <5>2 DEF Known
        <4>. QED  BY <4>1, <4>2
      <3>8. LeadInv'
        BY <1>2, <1>3, <2>1, <2>3, <3>4, <3>6, <3>7, LeadFrame
      <3>. QED  BY <1>8, <2>2, <3>5, <3>8 DEF Preserved
    <2>. QED  BY <2>4, <2>5
  <1>. QED  BY <1>10, <1>11

-----------------------------------------------------------------------------
(* The theorems about one leader.                                            *)

(* init_acceptor, init_proposer, init_learner: nothing is asked for yet. *)
LEMMA PaxosInit ==
    ASSUME Init, OneLeader, WindowFits
    PROVE  PaxosInv
PROOF
  <1>1. /\ AcceptorInit /\ LearnerInit /\ LeaderInit /\ msgs = FirstPrepares
        /\ submitted = {} /\ 0 \in Proposers /\ 0 \in Learners
    BY PaxosAssumption DEF Init, OneLeader
  <1>2. /\ DOMAIN current_leader_id = Proposers /\ LEADER_IS_ME(0)
        /\ leader[0] = Promoted(0, InitialInfo)
        /\ \A q \in Proposers \ {0} : ~ LEADER_IS_ME(q) /\ leader[q] = InitialInfo
    BY <1>1 DEF LeaderInit, LEADER_IS_ME
  <1>3. msgs = PrepareReqs(leader[0], 1 .. leader[0].highest_open)
    <2>1. ASSUME NEW q \in Proposers \ {0}
          PROVE  PrepareReqs(leader[q], 1 .. leader[q].highest_open) = {}
      <3>1. leader[q].highest_open = 0
        BY <1>2 DEF InitialInfo
      <3>2. 1 .. leader[q].highest_open = {}
        BY <3>1
      <3>. QED  BY <3>2 DEF PrepareReqs
    <2>. DEFINE Batch(q) == PrepareReqs(leader[q], 1 .. leader[q].highest_open)
    <2>2. msgs = UNION {Batch(q) : q \in Proposers}
      BY <1>1 DEF FirstPrepares
    <2>3. 0 \in Proposers /\ \A q \in Proposers \ {0} : Batch(q) = {}
      BY <1>1, <2>1
    <2>. HIDE DEF Batch
    <2>4. msgs = Batch(0)
      BY ONLY <2>2, <2>3
    <2>. QED  BY <2>4 DEF Batch
  <1>4. Known = [i \in Iids |-> NoValue]
    <2>1. DOMAIN delivered[0] = {}
      BY <1>1 DEF LearnerInit
    <2>. QED  BY <2>1 DEF Known
  <1>5. Led(leader[0], Known, submitted, msgs) /\ WellFormed(msgs)
    <2>1. \A i \in Iids : Known[i] = NoValue
      BY <1>4
    <2>. QED  BY <1>1, <1>2, <1>3, <2>1, LedInit DEF WindowFits
  <1>6. \A m \in msgs : m.type = "prepare_reqs"
    BY <1>3, BatchTypes
  <1>7. NetInv
    <2>1. AcceptorInv
      BY <1>1, <1>5, AcceptorInitInv DEF WellFormed
    <2>2. \A a \in Acceptors, i \in Iids : store[a][i].value = NoValue
      BY <1>1 DEF AcceptorInit, NoRecord
    <2>. QED  BY <1>5, <1>6, <2>1, <2>2 DEF NetInv, ReportsAsked, Reports
  <1>8. DeliverInv
    <2>1. LearnerInv /\ DeliveredBelowCurrent
      BY <1>1, LearnerInitInv, DeliveredCountInit
    <2>2. /\ \A l \in Learners, s \in Slots, a \in Acceptors :
                learner_state[l][s].acks[a] = NoRecord
          /\ \A l \in Learners : DOMAIN delivered[l] = {}
      BY <1>1 DEF LearnerInit, EmptySlot
    <2>. QED  BY <2>1, <2>2 DEF DeliverInv, LearnsFrom
  <1>9. LeadInv
    <2>1. AskedOnce(msgs, submitted)
      BY <1>5, LedOnce
    <2>2. \A q \in Proposers \ {0} : Follows(q)
      BY <1>2, InitialCleared DEF Follows
    <2>. QED  BY <1>2, <1>5, <2>1, <2>2 DEF LeadInv, Leading
  <1>. QED  BY <1>7, <1>8, <1>9, CountsInit DEF PaxosInv

(* Every event keeps the invariant. *)
LEMMA PaxosStep ==
    ASSUME PaxosInv, OneLeader, WindowFits, NoStalePromise, [Next]_vars,
           \A p \in Proposers : CheckPhase1(p) => WindowFits'
    PROVE  PaxosInv'
PROOF
  <1>1. CountsAgree'
    BY CountsStep DEF PaxosInv
  <1>2. ASSUME NEW a \in Acceptors, AcceptorEvent(a)  PROVE  Preserved
    BY <1>2, AcceptorPreserves
  <1>3. ASSUME NEW l \in Learners, ReceiveAcceptAck(l) \/ CheckHoles(l)
        PROVE  Preserved
    BY <1>3, AckPreserves, HolesPreserve
  <1>4. ASSUME NEW p \in Proposers,
               ReceivePromises(p) \/ CheckPhase1(p) \/ CheckPhase2(p)
        PROVE  Preserved
    BY <1>4, PromisesPreserve, Phase1Preserves, Phase2Preserves
  <1>5. ASSUME NEW p \in Proposers, Submit(p) \/ Announce(p)
        PROVE  Preserved
    BY <1>5, SubmitPreserves, AnnouncePreserves
  <1>6. ASSUME UNCHANGED vars  PROVE  Preserved
    <2>1. UNCHANGED <<storeVars, learnerVars, msgs, leader, current_leader_id, submitted>>
      BY <1>6 DEF vars, storeVars, leaderVars
    <2>2. NetInv'
      <3>1. Send({}) /\ OnlyRequests({})
        BY <2>1 DEF Send, OnlyRequests, WellFormed
      <3>. QED  BY <2>1, <3>1, NetSends DEF PaxosInv
    <2>3. DeliverInv' /\ Known' = Known
      BY <2>1, DeliverStays DEF PaxosInv
    <2>4. LeadInv'
      <3>1. DOMAIN current_leader_id' = Proposers /\ \A q \in Proposers \ {0} : Follows(q)'
        BY <2>1 DEF PaxosInv, LeadInv, Follows, LEADER_IS_ME
      <3>. QED  BY <2>1, <2>3, <3>1, LeadFrame DEF PaxosInv
    <2>. QED  BY <2>2, <2>3, <2>4 DEF Preserved
  <1>7. Preserved
    BY <1>2, <1>3, <1>4, <1>5, <1>6, Zenon DEF Next
  <1>. QED  BY <1>1, <1>7 DEF PaxosInv, Preserved

(* What is delivered was asked for, and is all that ever is for its instance. *)
LEMMA InvFinal ==
    ASSUME PaxosInv
    PROVE  DeliveredIsFinal /\ Validity /\ Agreement
PROOF
  <1>1. AskedOnce(msgs, submitted)
    BY DEF PaxosInv, LeadInv
  <1>2. \A l \in Learners : \A n \in DOMAIN delivered[l] :
            AskedIn(msgs, n, delivered[l][n].value)
    BY DEF PaxosInv, DeliverInv, LearnsFrom
  <1>3. \A x \in Asking : AskedIn(msgs, x.iid, x.value)
    BY DEF Asking, AskedIn
  <1>4. DeliveredIsFinal
    BY <1>1, <1>2, <1>3 DEF DeliveredIsFinal, AskedOnce
  <1>5. Validity
    BY <1>1, <1>2 DEF Validity, AskedOnce
  <1>6. Agreement
    BY <1>1, <1>2 DEF Agreement, AskedOnce
  <1>. QED  BY <1>4, <1>5, <1>6

(* The invariant of the whole system: with one leader, whose window keeps within one
   turn of its buffer and who takes no promise for what the slot held before. *)
THEOREM PaxosInvariant ==
    ASSUME OneLeader
    PROVE  Spec /\ []WindowFits /\ []NoStalePromise => []PaxosInv
PROOF
  <1>1. Init /\ WindowFits => PaxosInv
    BY PaxosInit
  <1>2. PaxosInv /\ WindowFits /\ WindowFits' /\ NoStalePromise /\ [Next]_vars => PaxosInv'
    BY PaxosStep
  <1>. QED  BY <1>1, <1>2, PTL DEF Spec

(* handle_accept_ack delivers a value that nothing replaces any more, neither a
   promise nor a later proposal of the leader. *)
THEOREM DeliveredIsFinalCorrect ==
    ASSUME OneLeader
    PROVE  Spec /\ []WindowFits /\ []NoStalePromise => []DeliveredIsFinal
PROOF
  <1>1. PaxosInv => DeliveredIsFinal
    BY InvFinal
  <1>. QED  BY <1>1, PaxosInvariant, PTL

(* No two learners deliver different values in the same place. *)
THEOREM AgreementCorrect ==
    ASSUME OneLeader
    PROVE  Spec /\ []WindowFits /\ []NoStalePromise => []Agreement
PROOF
  <1>1. PaxosInv => Agreement
    BY InvFinal
  <1>. QED  BY <1>1, PaxosInvariant, PTL

-----------------------------------------------------------------------------
(* Atomic broadcast: what learners deliver are prefixes of one sequence.     *)

\* The values of a sequence of deliveries; D has one for each learner.
ValuesOf(s)   == [n \in DOMAIN s |-> s[n].value]
Most(D, l)    == \A k \in Learners : Len(D[k]) <= Len(D[l])
FurthestOf(D) == CHOOSE l \in Learners : Most(D, l)

SequencesOf(D) == \A l \in Learners : \E S : D[l] \in Seq(S)

\* Some learner has delivered most, even among infinitely many.
SomeFurthest == \E l \in Learners : Most(delivered, l)

(* One value for each delivery. *)
LEMMA ValuesLength ==
    ASSUME NEW S, NEW s \in Seq(S)
    PROVE  /\ Len(s) \in Nat /\ DOMAIN s = 1 .. Len(s)
           /\ Len(ValuesOf(s)) = Len(s) /\ DOMAIN ValuesOf(s) = 1 .. Len(s)
           /\ \A n \in 1 .. Len(s) : ValuesOf(s)[n] = s[n].value
BY DEF ValuesOf

\* What ADeliver(l) asks for, when learner l goes from D to E.
Ordered(D, E, l) ==
    LET old == ValuesOf(D[FurthestOf(D)])
        new == ValuesOf(E[FurthestOf(E)])
    IN /\ Broadcasting!Extends(ValuesOf(E[l]), ValuesOf(D[l]))
       /\ Broadcasting!Extends(new, ValuesOf(E[l]))
       /\ \/ new = old
          \/ Broadcasting!Extends(new, old) /\ new = ValuesOf(E[l])

(* A learner that delivers more follows the others, or goes ahead of them all. *)
LEMMA DeliversNext ==
    ASSUME NEW D, NEW E, NEW l \in Learners, SequencesOf(D), SequencesOf(E),
           \E k \in Learners : Most(D, k),
           \A k \in Learners \ {l} : E[k] = D[k],
           Len(D[l]) <= Len(E[l]), \A n \in 1 .. Len(D[l]) : E[l][n] = D[l][n],
           \A j, k \in Learners : \A n \in DOMAIN E[j] \cap DOMAIN E[k] :
               E[j][n].value = E[k][n].value
    PROVE  (\E k \in Learners : Most(E, k)) /\ Ordered(D, E, l)
PROOF
  <1>. DEFINE f == FurthestOf(D)
              g == FurthestOf(E)
  <1>1. f \in Learners /\ Most(D, f)
    BY DEF FurthestOf
  <1>2. \A k \in Learners :
            /\ Len(D[k]) \in Nat /\ DOMAIN D[k] = 1 .. Len(D[k])
            /\ Len(ValuesOf(D[k])) = Len(D[k]) /\ DOMAIN ValuesOf(D[k]) = 1 .. Len(D[k])
            /\ \A n \in 1 .. Len(D[k]) : ValuesOf(D[k])[n] = D[k][n].value
    BY ValuesLength DEF SequencesOf
  <1>3. \A k \in Learners :
            /\ Len(E[k]) \in Nat /\ DOMAIN E[k] = 1 .. Len(E[k])
            /\ Len(ValuesOf(E[k])) = Len(E[k]) /\ DOMAIN ValuesOf(E[k]) = 1 .. Len(E[k])
            /\ \A n \in 1 .. Len(E[k]) : ValuesOf(E[k])[n] = E[k][n].value
    BY ValuesLength DEF SequencesOf
  <1>4. \A k \in Learners : /\ Len(D[k]) <= Len(E[k])
                            /\ \A n \in 1 .. Len(D[k]) : E[k][n] = D[k][n]
    BY <1>2
  <1>5. \E k \in Learners : Most(E, k)
    <2>1. CASE Len(E[l]) <= Len(D[f])
      <3>1. \A k \in Learners : Len(E[k]) <= Len(D[f])
        BY <1>1, <2>1 DEF Most
      <3>2. \A k \in Learners : Len(E[k]) <= Len(E[f])
        BY <1>1, <1>2, <1>3, <1>4, <3>1
      <3>. QED  BY <1>1, <3>2 DEF Most
    <2>2. CASE ~ (Len(E[l]) <= Len(D[f]))
      <3>1. \A k \in Learners \ {l} : Len(E[k]) <= Len(E[l])
        BY <1>1, <1>2, <1>3, <2>2 DEF Most
      <3>2. Len(E[l]) <= Len(E[l])
        BY <1>3
      <3>. QED  BY <3>1, <3>2 DEF Most
    <2>. QED  BY <2>1, <2>2
  <1>6. g \in Learners /\ Most(E, g)
    BY <1>5 DEF FurthestOf
  <1>. HIDE DEF f, g
  <1>7. Broadcasting!Extends(ValuesOf(E[l]), ValuesOf(D[l]))
    BY <1>2, <1>3, <1>4, SMTT(30) DEF Broadcasting!Extends
  <1>8. ASSUME NEW j \in Learners, NEW k \in Learners, Len(E[j]) <= Len(E[k])
        PROVE  Broadcasting!Extends(ValuesOf(E[k]), ValuesOf(E[j]))
    <2>1. 1 .. Len(E[j]) \subseteq 1 .. Len(E[k])
      BY <1>3, <1>8
    <2>2. \A n \in 1 .. Len(E[j]) : E[k][n].value = E[j][n].value
      BY <1>3, <2>1
    <2>3. ASSUME NEW n \in DOMAIN ValuesOf(E[j])
          PROVE  ValuesOf(E[k])[n] = ValuesOf(E[j])[n]
      <3>1. n \in 1 .. Len(E[j]) /\ n \in 1 .. Len(E[k])
        BY <1>3, <2>1
      <3>2. ValuesOf(E[k])[n] = E[k][n].value /\ ValuesOf(E[j])[n] = E[j][n].value
        BY <1>3, <3>1
      <3>. QED  BY <2>2, <3>1, <3>2
    <2>4. Len(ValuesOf(E[j])) <= Len(ValuesOf(E[k]))
      BY <1>3, <1>8
    <2>. QED  BY <2>3, <2>4 DEF Broadcasting!Extends
  <1>9. Broadcasting!Extends(ValuesOf(E[g]), ValuesOf(E[l]))
    BY <1>6, <1>8 DEF Most
  <1>10. Broadcasting!Extends(ValuesOf(E[g]), ValuesOf(D[f]))
    <2>1. Broadcasting!Extends(ValuesOf(E[g]), ValuesOf(E[f]))
      BY <1>1, <1>6, <1>8 DEF Most
    <2>2. Len(D[f]) <= Len(E[f]) /\ Len(E[f]) <= Len(E[g])
      BY <1>1, <1>4, <1>6 DEF Most
    <2>3. Len(D[f]) <= Len(E[g]) /\ 1 .. Len(D[f]) \subseteq 1 .. Len(E[f])
      BY <1>1, <1>2, <1>3, <1>6, <2>2
    <2>4. \A n \in 1 .. Len(D[f]) : ValuesOf(E[g])[n] = ValuesOf(D[f])[n]
      BY <1>1, <1>2, <1>3, <1>4, <2>1, <2>3, SMTT(30) DEF Broadcasting!Extends
    <2>. QED  BY <1>1, <1>2, <1>3, <1>6, <2>3, <2>4 DEF Broadcasting!Extends
  <1>11. ValuesOf(E[g]) = ValuesOf(D[f]) \/ ValuesOf(E[g]) = ValuesOf(E[l])
    <2>1. CASE g = l
      BY <2>1
    <2>2. CASE g # l
      <3>1. Len(E[g]) = Len(D[f])
        <4>1. E[g] = D[g] /\ Len(D[g]) <= Len(D[f])
          BY <1>1, <1>6, <2>2 DEF Most
        <4>2. Len(D[f]) <= Len(E[g])
          <5>1. Len(D[f]) <= Len(E[f]) /\ Len(E[f]) <= Len(E[g])
            BY <1>1, <1>4, <1>6 DEF Most
          <5>. QED  BY <1>1, <1>2, <1>3, <1>6, <5>1
        <4>. QED  BY <1>1, <1>2, <1>3, <1>6, <4>1, <4>2
      <3>2. \A n \in 1 .. Len(D[f]) : ValuesOf(E[g])[n] = ValuesOf(D[f])[n]
        BY <1>1, <1>2, <1>10 DEF Broadcasting!Extends
      <3>3. ValuesOf(E[g]) = [n \in 1 .. Len(D[f]) |-> ValuesOf(E[g])[n]]
            /\ ValuesOf(D[f]) = [n \in 1 .. Len(D[f]) |-> ValuesOf(D[f])[n]]
        BY <1>1, <1>2, <1>3, <1>6, <3>1 DEF ValuesOf
      <3>. QED  BY <3>2, <3>3
    <2>. QED  BY <2>1, <2>2
  <1>. QED  BY <1>5, <1>7, <1>9, <1>10, <1>11 DEF Ordered, f, g

\* What the invariant says of the sequences delivered.
EachOnce ==
    \A l \in Learners : \A n, k \in DOMAIN delivered[l] :
        delivered[l][n].value = delivered[l][k].value => n = k

Handed == Agreement /\ Validity /\ EachOnce /\ SequencesOf(delivered)

(* They agree, were submitted, and hold no value twice. *)
LEMMA InvHanded ==
    ASSUME PaxosInv
    PROVE  Handed
PROOF
  <1>1. EachOnce
    BY DEF EachOnce, PaxosInv, LeadInv, AskedOnce, DeliverInv, LearnsFrom
  <1>2. SequencesOf(delivered)
    BY DEF SequencesOf, PaxosInv, CountsAgree
  <1>. QED  BY <1>1, <1>2, InvFinal DEF Handed


(* handle_accept_ack is a step of ADeliver. *)
LEMMA AckBroadcasts ==
    ASSUME PaxosInv, Handed, Handed', SomeFurthest, NEW l \in Learners, ReceiveAcceptAck(l)
    PROVE  SomeFurthest' /\ Broadcasting!ADeliver(l)
PROOF
  <1>1. PICK m \in msgs : m.type = "accept_ack" /\ HandleAcceptAck(l, m)
    BY DEF ReceiveAcceptAck
  <1>2. m \in AckMessage /\ submitted' = submitted
    <2>1. m \in Message
      BY DEF PaxosInv, NetInv, WellFormed
    <2>. QED  BY <1>1, <2>1 DEF Message, ReceiveAcceptAck
  <1>3. /\ Len(delivered[l]) <= Len(delivered'[l])
        /\ \A n \in 1 .. Len(delivered[l]) : delivered'[l][n] = delivered[l][n]
        /\ \A x \in Learners \ {l} : delivered'[x] = delivered[x]
    BY <1>1, <1>2, DeliveryStep DEF PaxosInv, DeliverInv, LearnerInv
  <1>4. PICK D, E : D = delivered /\ E = delivered'
    OBVIOUS
  <1>5. (\E k \in Learners : Most(E, k)) /\ Ordered(D, E, l)
    <2>1. SequencesOf(D) /\ SequencesOf(E) /\ \E k \in Learners : Most(D, k)
      BY <1>4 DEF Handed, SequencesOf, SomeFurthest, Most
    <2>2. \A j, k \in Learners : \A n \in DOMAIN E[j] \cap DOMAIN E[k] :
              E[j][n].value = E[k][n].value
      BY <1>4 DEF Handed, Agreement
    <2>3. /\ \A k \in Learners \ {l} : E[k] = D[k]
          /\ Len(D[l]) <= Len(E[l]) /\ \A n \in 1 .. Len(D[l]) : E[l][n] = D[l][n]
      BY <1>3, <1>4
    <2>. QED  BY <2>1, <2>2, <2>3, DeliversNext
  <1>6. SomeFurthest'
    BY <1>4, <1>5 DEF SomeFurthest, Most
  <1>. DEFINE old  == [k \in Learners |-> ValuesOf(D[k])]
              new  == [k \in Learners |-> ValuesOf(E[k])]
              from == ValuesOf(D[FurthestOf(D)])
              to   == ValuesOf(E[FurthestOf(E)])
  <1>7. /\ DeliveredValues(Furthest) = from /\ [k \in Learners |-> DeliveredValues(k)] = old
        /\ DeliveredValues(Furthest)' = to
        /\ [k \in Learners |-> DeliveredValues(k)]' = new
    BY <1>4 DEF DeliveredValues, ValuesOf, Furthest, FurthestOf, Most
  <1>8. /\ Broadcasting!Extends(new[l], old[l]) /\ Broadcasting!Extends(to, new[l])
        /\ \A r \in Learners \ {l} : new[r] = old[r]
        /\ to = from \/ (Broadcasting!Extends(to, from) /\ to = new[l])
    <2>1. new[l] = ValuesOf(E[l]) /\ old[l] = ValuesOf(D[l])
      OBVIOUS
    <2>2. \A r \in Learners \ {l} : new[r] = old[r]
      BY <1>3, <1>4
    <2>. HIDE DEF new, old
    <2>. QED  BY <1>5, <2>1, <2>2 DEF Ordered
  <1>9. /\ \A n \in DOMAIN new[l] : new[l][n] \in submitted
        /\ \A n, k \in DOMAIN new[l] : new[l][n] = new[l][k] => n = k
    BY <1>2, <1>4 DEF Handed, Validity, EachOnce, ValuesOf
  <1>. HIDE DEF old, new, from, to
  <1>10. Broadcasting!ADeliver(l)
    BY <1>2, <1>7, <1>8, <1>9 DEF Broadcasting!ADeliver
  <1>. QED  BY <1>6, <1>10

(* Submitting is ABroadcast, and nothing else shows. *)
LEMMA BroadcastStep ==
    ASSUME PaxosInv, Handed, Handed', SomeFurthest, [Next]_vars
    PROVE  SomeFurthest' /\ [Broadcasting!Next]_(Broadcasting!abVars)
PROOF
  <1>1. ASSUME UNCHANGED delivered
        PROVE  /\ SomeFurthest' /\ DeliveredValues(Furthest)' = DeliveredValues(Furthest)
               /\ [l \in Learners |-> DeliveredValues(l)]' =
                      [l \in Learners |-> DeliveredValues(l)]
    BY <1>1 DEF SomeFurthest, Most, DeliveredValues, Furthest
  <1>2. ASSUME UNCHANGED <<delivered, submitted>>
        PROVE  SomeFurthest' /\ UNCHANGED Broadcasting!abVars
    BY <1>1, <1>2 DEF Broadcasting!abVars
  <1>3. CASE \E l \in Learners : ReceiveAcceptAck(l)
    BY <1>3, AckBroadcasts DEF Broadcasting!Next
  <1>4. CASE \E p \in Proposers : Submit(p)
    <2>1. /\ \E v \in Values \ submitted : submitted' = submitted \cup {v}
          /\ UNCHANGED delivered
      BY <1>4 DEF Submit, learnerVars
    <2>. QED  BY <1>1, <2>1 DEF Broadcasting!Next, Broadcasting!ABroadcast
  <1>5. CASE \E a \in Acceptors : AcceptorEvent(a)
    <2>1. UNCHANGED <<delivered, submitted>>
      BY <1>5 DEF AcceptorEvent, learnerVars
    <2>. QED  BY <1>2, <2>1
  <1>6. CASE \E l \in Learners : CheckHoles(l)
    <2>1. UNCHANGED <<delivered, submitted>>
      BY <1>6 DEF CheckHoles, HoleCheck, learnerVars
    <2>. QED  BY <1>2, <2>1
  <1>7. CASE \E p \in Proposers :
                 ReceivePromises(p) \/ CheckPhase1(p) \/ CheckPhase2(p) \/ Announce(p)
    <2>1. UNCHANGED <<delivered, submitted>>
      BY <1>7 DEF ReceivePromises, CheckPhase1, CheckPhase2, Announce, learnerVars
    <2>. QED  BY <1>2, <2>1
  <1>8. CASE UNCHANGED vars
    <2>1. UNCHANGED <<delivered, submitted>>
      BY <1>8 DEF vars, learnerVars
    <2>. QED  BY <1>2, <2>1
  <1>. QED  BY <1>3, <1>4, <1>5, <1>6, <1>7, <1>8, Zenon DEF Next

(* Nothing submitted, nothing delivered. *)
LEMMA BroadcastInit ==
    ASSUME Init, OneLeader
    PROVE  SomeFurthest /\ Broadcasting!Init
PROOF
  <1>1. submitted = {} /\ 0 \in Learners /\ \A l \in Learners : delivered[l] = <<>>
    BY PaxosAssumption DEF Init, LearnerInit, OneLeader
  <1>2. SomeFurthest
    BY <1>1 DEF SomeFurthest, Most
  <1>3. Furthest \in Learners
    BY <1>2 DEF Furthest, SomeFurthest, Most
  <1>4. \A l \in Learners : DeliveredValues(l) = <<>>
    BY <1>1 DEF DeliveredValues
  <1>. QED  BY <1>1, <1>2, <1>3, <1>4 DEF Broadcasting!Init

(* README.md: "LibPaxos2 supplies the Atomic Broadcast primitive": every event of the
   processes and of the network is a step of it, or nothing that shows. *)
THEOREM BroadcastImplemented ==
    ASSUME OneLeader
    PROVE  Spec /\ []WindowFits /\ []NoStalePromise => ImplementsBroadcast
PROOF
  <1>1. Init => SomeFurthest /\ Broadcasting!Init
    BY BroadcastInit
  <1>2. PaxosInv => Handed
    BY InvHanded
  <1>3. PaxosInv /\ Handed /\ Handed' /\ SomeFurthest /\ [Next]_vars
            => SomeFurthest' /\ [Broadcasting!Next]_(Broadcasting!abVars)
    BY BroadcastStep
  <1>. QED  BY <1>1, <1>2, <1>3, PaxosInvariant, PTL
            DEF Spec, ImplementsBroadcast, Broadcasting!Spec

-----------------------------------------------------------------------------
(* Whoever leads: any number of proposers at once, in turns, with windows of  *)
(* any width.  Two leaders may then decide an instance twice, but every value *)
(* anywhere in the system was submitted by a client.                          *)

\* Batches of prepare requests are finite, and accept requests are for values of C.
AsksFrom(M, C) ==
    /\ \A m \in M : m.type = "prepare_reqs" => IsFiniteSet(m.reqs)
    /\ \A i, v : AskedIn(M, i, v) => v \in C

\* The invariant, component by component.
SourcedNet  == AcceptorInv /\ ReportsAsked /\ AsksFrom(msgs, submitted)
LegalLeaders ==
    /\ DOMAIN current_leader_id = Proposers
    /\ submitted \subseteq Values
    /\ \A p \in Proposers : Legal(leader[p], LEADER_IS_ME(p), submitted)

AnyLeaderInv == SourcedNet /\ DeliverInv /\ CountsAgree /\ LegalLeaders

\* What the steps below preserve; CountsStep preserves CountsAgree.
Remains == SourcedNet' /\ DeliverInv' /\ LegalLeaders'

(* A batch of the leader reaches the network. *)
LEMMA NetAsks ==
    ASSUME SourcedNet, NEW N, AsksOf(N, submitted), Send(N), UNCHANGED storeVars,
           submitted \subseteq submitted'
    PROVE  SourcedNet'
PROOF
  <1>1. N \in SUBSET Message /\ \A m \in N : m.type \notin {"prepare_acks", "accept_ack"}
    BY DEF AsksOf
  <1>2. AcceptorInv'
    BY <1>1, SendInv DEF SourcedNet, storeVars
  <1>3. ReportsAsked'
    BY <1>1, SendReports DEF SourcedNet, storeVars
  <1>4. AsksFrom(msgs', submitted')
    <2>1. msgs' = msgs \cup N
      BY DEF Send
    <2>2. \A m \in msgs' : m.type = "prepare_reqs" => IsFiniteSet(m.reqs)
      BY <2>1 DEF SourcedNet, AsksFrom, AsksOf
    <2>3. ASSUME NEW i, NEW v, AskedIn(msgs', i, v)  PROVE v \in submitted
      <3>1. AskedIn(msgs, i, v) \/ AskedIn(N, i, v)
        BY <2>1, <2>3 DEF AskedIn
      <3>2. AskedIn(N, i, v) => v \in submitted
        BY DEF AskedIn, AsksOf
      <3>. QED  BY <3>1, <3>2 DEF SourcedNet, AsksFrom
    <2>. QED  BY <2>2, <2>3 DEF AsksFrom
  <1>. QED  BY <1>2, <1>3, <1>4 DEF SourcedNet, AsksFrom, AskedIn

(* A step of one proposer. *)
LEMMA OneLegal ==
    ASSUME AnyLeaderInv, NEW p \in Proposers,
           UNCHANGED <<storeVars, learnerVars, submitted, current_leader_id>>,
           NEW N, AsksOf(N, submitted), Send(N),
           NEW K, leader' = [leader EXCEPT ![p] = K], Legal(K, LEADER_IS_ME(p), submitted)
    PROVE  Remains
PROOF
  <1>1. SourcedNet'
    BY NetAsks DEF AnyLeaderInv
  <1>2. DeliverInv'
    BY DeliverStays DEF AnyLeaderInv, Send
  <1>3. /\ leader'[p] = K /\ \A q \in Proposers \ {p} : leader'[q] = leader[q]
        /\ submitted' = submitted /\ current_leader_id' = current_leader_id
    BY DEF AnyLeaderInv, CountsAgree
  <1>4. LegalLeaders'
    BY <1>3 DEF AnyLeaderInv, LegalLeaders, LEADER_IS_ME
  <1>. QED  BY <1>1, <1>2, <1>4 DEF Remains

(* What an acceptor does. *)
LEMMA AcceptorRemains ==
    ASSUME AnyLeaderInv, NEW a \in Acceptors, AcceptorEvent(a)
    PROVE  Remains
PROOF
  <1>1. AcceptorStep(a) /\ UNCHANGED <<learnerVars, leaderVars, submitted>>
    BY DEF AcceptorEvent, AcceptorStep
  <1>2. AcceptorInv' /\ Answers(msgs, msgs') /\ ReportsAsked'
    BY <1>1, AcceptorStepInv, AcceptorAnswers DEF AnyLeaderInv, SourcedNet
  <1>3. /\ msgs \subseteq msgs'
        /\ \A m \in msgs' \ msgs : m.type \in {"prepare_acks", "accept_ack"}
    BY <1>2 DEF Answers
  <1>4. SourcedNet'
    <2>1. \A i, v : AskedIn(msgs', i, v) <=> AskedIn(msgs, i, v)
      BY <1>3, AskedInSame
    <2>2. AsksFrom(msgs', submitted')
      BY <1>1, <1>3, <2>1 DEF AnyLeaderInv, SourcedNet, AsksFrom
    <2>. QED  BY <1>2, <2>2 DEF SourcedNet, AsksFrom, AskedIn
  <1>5. DeliverInv'
    BY <1>1, <1>3, DeliverStays DEF AnyLeaderInv
  <1>6. LegalLeaders'
    BY <1>1 DEF AnyLeaderInv, LegalLeaders, LEADER_IS_ME, leaderVars
  <1>. QED  BY <1>4, <1>5, <1>6 DEF Remains

(* lea_hole_check *)
LEMMA HolesRemain ==
    ASSUME AnyLeaderInv, NEW l \in Learners, CheckHoles(l)
    PROVE  Remains
PROOF
  <1>1. PICK from, to : Send({RepeatRequest(l, from, to)})
    BY DEF CheckHoles, HoleCheck
  <1>. DEFINE N == {RepeatRequest(l, from, to)}
  <1>2. UNCHANGED <<storeVars, learnerVars, leaderVars, submitted>>
    BY DEF CheckHoles, HoleCheck
  <1>3. N \in SUBSET Message /\ \A m \in N : m.type = "repeat_reqs"
    BY DEF RepeatRequest, Message
  <1>4. SourcedNet'
    <2>1. msgs' = msgs \cup N
      BY <1>1 DEF Send
    <2>. HIDE DEF N
    <2>2. Send(N)
      BY <2>1 DEF Send
    <2>3. AcceptorInv' /\ ReportsAsked'
      BY <1>2, <1>3, <2>2, SendInv, SendReports DEF AnyLeaderInv, SourcedNet, storeVars
    <2>4. \A i, v : AskedIn(msgs', i, v) <=> AskedIn(msgs, i, v)
      BY <1>3, <2>1, AskedInSame
    <2>5. AsksFrom(msgs', submitted')
      BY <1>2, <1>3, <2>1, <2>4 DEF AnyLeaderInv, SourcedNet, AsksFrom
    <2>. QED  BY <2>3, <2>5 DEF SourcedNet, AsksFrom, AskedIn
  <1>5. DeliverInv'
    BY <1>1, <1>2, DeliverStays DEF AnyLeaderInv, Send
  <1>6. LegalLeaders'
    BY <1>2 DEF AnyLeaderInv, LegalLeaders, LEADER_IS_ME, leaderVars
  <1>. QED  BY <1>4, <1>5, <1>6 DEF Remains

(* leader_periodic_p1_check *)
LEMMA Phase1Remains ==
    ASSUME AnyLeaderInv, NEW p \in Proposers, CheckPhase1(p)
    PROVE  Remains
PROOF
  <1>1. LEADER_IS_ME(p) /\ UNCHANGED <<storeVars, learnerVars, submitted, current_leader_id>>
    BY DEF CheckPhase1, PeriodicP1Check
  <1>2. PICK E \in SUBSET {i \in Pending(leader[p]) : CanRetry(leader[p], i)} :
            /\ leader' = [leader EXCEPT ![p] =
                             OpenInstancesP1(p, CheckP1Pending(leader[p], E))]
            /\ Send(PrepareReqs(CheckP1Pending(leader[p], E), E)
                    \cup PrepareReqs(OpenInstancesP1(p, CheckP1Pending(leader[p], E)),
                                     ToOpen(CheckP1Pending(leader[p], E))))
    BY Zenon DEF CheckPhase1, PeriodicP1Check
  <1>. DEFINE L == leader[p]
              J == CheckP1Pending(L, E)
              K == OpenInstancesP1(p, J)
              N == PrepareReqs(J, E) \cup PrepareReqs(K, ToOpen(J))
  <1>3. Legal(L, TRUE, submitted) /\ submitted \subseteq Values
    BY <1>1 DEF AnyLeaderInv, LegalLeaders
  <1>4. E \in SUBSET {i \in Pending(L) : CanRetry(L, i)}
    OBVIOUS
  <1>5. leader' = [leader EXCEPT ![p] = K] /\ Send(N)
    BY <1>2
  <1>6. Legal(K, TRUE, submitted) /\ AsksOf(N, submitted)
    <2>. HIDE DEF L
    <2>. QED  BY <1>3, <1>4, Phase1Legal
  <1>. HIDE DEF K, N
  <1>7. Legal(K, LEADER_IS_ME(p), submitted)
    BY <1>1, <1>6
  <1>. QED  BY <1>1, <1>5, <1>6, <1>7, OneLegal

(* leader_periodic_p2_check *)
LEMMA Phase2Remains ==
    ASSUME AnyLeaderInv, NEW p \in Proposers, CheckPhase2(p)
    PROVE  Remains
PROOF
  <1>1. LEADER_IS_ME(p) /\ UNCHANGED <<storeVars, learnerVars, submitted, current_leader_id>>
    BY DEF CheckPhase2, PeriodicP2Check
  <1>. DEFINE L == leader[p]
              is_closed == {i \in Iids : LearnerIsClosed(p, i)}
              closed == Running(L) \cap is_closed
  <1>2. PICK E \in SUBSET {i \in Running(L) \ is_closed : CanRetry(L, i)} :
            /\ leader' = [leader EXCEPT ![p] = OpenInstancesP2New(CheckP2(L, closed, E))]
            /\ Send(PrepareReqs(CheckP2(L, closed, E), E)
                    \cup AcceptReqs(OpenInstancesP2New(CheckP2(L, closed, E)),
                                    Started(CheckP2(L, closed, E))))
    BY Zenon DEF CheckPhase2, PeriodicP2Check
  <1>. DEFINE J == CheckP2(L, closed, E)
              K == OpenInstancesP2New(J)
              N == PrepareReqs(J, E) \cup AcceptReqs(K, Started(J))
  <1>3. Legal(L, TRUE, submitted) /\ submitted \subseteq Values
    BY <1>1 DEF AnyLeaderInv, LegalLeaders
  <1>4. Settles(L, closed, E)
    BY DEF Settles, CanRetry
  <1>5. leader' = [leader EXCEPT ![p] = K] /\ Send(N)
    BY <1>2
  <1>6. Legal(K, TRUE, submitted) /\ AsksOf(N, submitted)
    <2>. HIDE DEF L, closed
    <2>. QED  BY <1>3, <1>4, Phase2Legal
  <1>. HIDE DEF K, N
  <1>7. Legal(K, LEADER_IS_ME(p), submitted)
    BY <1>1, <1>6
  <1>. QED  BY <1>1, <1>5, <1>6, <1>7, OneLegal

(* handle_prepare_ack_batch: a promise reports a value that was asked for, by this
   leader or by another, and so one that was submitted. *)
LEMMA PromisesRemain ==
    ASSUME AnyLeaderInv, NEW p \in Proposers, ReceivePromises(p)
    PROVE  Remains
PROOF
  <1>1. PICK m \in msgs : m.type = "prepare_acks" /\ HandlePrepareAckBatch(p, m)
    BY DEF ReceivePromises
  <1>2. LEADER_IS_ME(p) /\ UNCHANGED <<storeVars, learnerVars, submitted, current_leader_id>>
    BY <1>1 DEF ReceivePromises, HandlePrepareAckBatch
  <1>. DEFINE L == leader[p]
              acks == m.acks
              J == AfterPromises(L, acks)
              P == OpenInstancesP2Expired(J)
              K == OpenInstancesP2New(P)
              N == AcceptReqs(P, ExpiredReady(J)) \cup AcceptReqs(K, Started(P))
  <1>3. Legal(L, TRUE, submitted) /\ submitted \subseteq Values
    BY <1>2 DEF AnyLeaderInv, LegalLeaders
  <1>4. acks \in SUBSET PrepareAck
    BY <1>1, MessageShapes DEF AnyLeaderInv, SourcedNet, AcceptorInv, AcceptorTypeOK
  <1>5. IsFiniteSet(acks)
    <2>1. PICK n \in msgs : n.type = "prepare_reqs" /\ Shaped(n.reqs, acks)
      BY <1>1 DEF AnyLeaderInv, SourcedNet, ReportsAsked, Reports
    <2>. QED  BY <2>1 DEF AnyLeaderInv, SourcedNet, AsksFrom, Shaped
  <1>6. \A pa \in acks : pa.value \in submitted \cup {NoValue}
    <2>1. \A pa \in acks : pa.value # NoValue => AskedIn(msgs, pa.iid, pa.value)
      BY <1>1 DEF AnyLeaderInv, SourcedNet, ReportsAsked, Reports
    <2>. QED  BY <2>1 DEF AnyLeaderInv, SourcedNet, AsksFrom
  <1>7. Legal(J, TRUE, submitted) /\ Legal(K, TRUE, submitted) /\ AsksOf(N, submitted)
    <2>. HIDE DEF L, acks
    <2>. QED  BY <1>3, <1>4, <1>5, <1>6, PromiseBatchLegal
  <1>8. CASE MadeReady(L, m.acks) = {}
    <2>1. leader' = [leader EXCEPT ![p] = J] /\ msgs' = msgs
      BY <1>1, <1>8 DEF HandlePrepareAckBatch
    <2>. HIDE DEF J
    <2>2. Send({}) /\ AsksOf({}, submitted)
      BY <2>1 DEF Send, AsksOf
    <2>3. Legal(J, LEADER_IS_ME(p), submitted)
      BY <1>2, <1>7
    <2>. QED  BY <1>2, <2>1, <2>2, <2>3, OneLegal
  <1>9. CASE MadeReady(L, m.acks) # {}
    <2>1. leader' = [leader EXCEPT ![p] = K] /\ Send(N)
      BY <1>1, <1>9, Zenon DEF HandlePrepareAckBatch
    <2>. HIDE DEF K, N
    <2>2. Legal(K, LEADER_IS_ME(p), submitted)
      BY <1>2, <1>7
    <2>. QED  BY <1>2, <1>7, <2>1, <2>2, OneLegal
  <1>. QED  BY <1>8, <1>9

(* vh_enqueue_value: the value was just submitted. *)
LEMMA SubmitRemains ==
    ASSUME AnyLeaderInv, NEW p \in Proposers, Submit(p)
    PROVE  Remains
PROOF
  <1>1. PICK v \in Values \ submitted : EnqueueValue(p, v) /\ submitted' = submitted \cup {v}
    BY DEF Submit
  <1>. DEFINE K == Enqueued(leader[p], v)
  <1>2. leader' = [leader EXCEPT ![p] = K]
    BY <1>1 DEF EnqueueValue, Enqueued
  <1>3. UNCHANGED <<storeVars, learnerVars, msgs, current_leader_id>>
    BY <1>1 DEF Submit, EnqueueValue
  <1>4. SourcedNet' /\ DeliverInv'
    <2>1. Send({}) /\ AsksOf({}, submitted)
      BY <1>3 DEF Send, AsksOf
    <2>2. SourcedNet'
      BY <1>1, <1>3, <2>1, NetAsks DEF AnyLeaderInv
    <2>. QED  BY <1>3, <2>2, DeliverStays DEF AnyLeaderInv
  <1>5. leader'[p] = K /\ \A q \in Proposers \ {p} : leader'[q] = leader[q]
    BY <1>2 DEF AnyLeaderInv, CountsAgree
  <1>6. ASSUME NEW q \in Proposers
        PROVE  Legal(leader'[q], LEADER_IS_ME(q), submitted \cup {v})
    <2>1. Legal(leader[q], LEADER_IS_ME(q), submitted)
      BY DEF AnyLeaderInv, LegalLeaders
    <2>2. LEADER_IS_ME(q) \in BOOLEAN
      BY DEF LEADER_IS_ME
    <2>3. CASE q = p
      <3>1. Legal(K, LEADER_IS_ME(q), submitted \cup {v})
        BY <2>1, <2>2, <2>3, EnqueuedLegal
      <3>. QED  BY <1>5, <2>3, <3>1
    <2>4. CASE q # p
      <3>1. Legal(leader[q], LEADER_IS_ME(q), submitted \cup {v})
        BY <2>1, LegalMore
      <3>. QED  BY <1>5, <2>4, <3>1
    <2>. QED  BY <2>3, <2>4
  <1>7. LegalLeaders'
    BY <1>1, <1>3, <1>6 DEF AnyLeaderInv, LegalLeaders, LEADER_IS_ME
  <1>. QED  BY <1>4, <1>7 DEF Remains

(* What a proposer promotes itself from: the instance before the one it opens was
   asked for, or there is none. *)
LEMMA LastIsInstance ==
    ASSUME AnyLeaderInv, NEW p \in Proposers
    PROVE  leader[p].current_iid - 1 \in Iids \cup {0}
PROOF
  <1>1. p \in Learners /\ LearnerTypeOK
    BY PaxosAssumption DEF AnyLeaderInv, DeliverInv, LearnerInv
  <1>. DEFINE n == leader[p].current_iid - 1
              ds == delivered[p]
  <1>2. Len(ds) = n /\ ds \in Seq(DeliveredType)
    <2>1. leader[p].current_iid = current_iid[p]
      BY DEF AnyLeaderInv, CountsAgree, CurrentIidInStep
    <2>2. Len(ds) = current_iid[p] - 1
      BY <1>1 DEF AnyLeaderInv, DeliverInv, DeliveredBelowCurrent
    <2>. QED  BY <1>1, <2>1, <2>2 DEF LearnerTypeOK, DeliveredType
  <1>. HIDE DEF n
  <1>3. CASE n = 0
    BY <1>3 DEF n
  <1>4. CASE n # 0
    <2>1. n \in DOMAIN ds
      <3>. HIDE DEF ds
      <3>. QED  BY <1>2, <1>4
    <2>2. AskedIn(msgs, n, ds[n].value)
      BY <1>1, <2>1 DEF AnyLeaderInv, DeliverInv, LearnsFrom
    <2>3. msgs \subseteq Message
      BY DEF AnyLeaderInv, SourcedNet, AcceptorInv, AcceptorTypeOK
    <2>4. n \in Iids
      <3>. HIDE DEF ds
      <3>. QED  BY <2>2, <2>3, AskedInType
    <2>. QED  BY <2>4 DEF n
  <1>. QED  BY <1>3, <1>4

(* pro_handle_oracle_msg: leader_init and leader_shutdown. *)
LEMMA AnnounceRemains ==
    ASSUME AnyLeaderInv, NEW p \in Proposers, Announce(p)
    PROVE  Remains
PROOF
  <1>1. PICK id \in Announced : HandleOracleMsg(p, id)
    BY DEF Announce
  <1>2. UNCHANGED <<storeVars, learnerVars, submitted>>
    BY DEF Announce
  <1>3. /\ Legal(leader[p], LEADER_IS_ME(p), submitted) /\ submitted \subseteq Values
        /\ DOMAIN current_leader_id = Proposers /\ DOMAIN leader = Proposers
    BY DEF AnyLeaderInv, LegalLeaders, CountsAgree
  <1>4. current_leader_id' = [current_leader_id EXCEPT ![p] = id]
    BY <1>1 DEF HandleOracleMsg
  <1>5. /\ DOMAIN current_leader_id' = Proposers /\ current_leader_id'[p] = id
        /\ \A q \in Proposers \ {p} : current_leader_id'[q] = current_leader_id[q]
    BY <1>3, <1>4
  <1>. DEFINE me == LEADER_IS_ME(p)
  <1>6. ASSUME NEW N, Send(N), AsksOf(N, submitted),
               NEW K, leader'[p] = K, \A q \in Proposers \ {p} : leader'[q] = leader[q],
               Legal(K, id = p, submitted)
        PROVE  Remains
    <2>1. SourcedNet'
      BY <1>2, <1>6, NetAsks DEF AnyLeaderInv
    <2>2. DeliverInv'
      BY <1>2, <1>6, DeliverStays DEF AnyLeaderInv, Send
    <2>3. LegalLeaders'
      BY <1>2, <1>5, <1>6 DEF AnyLeaderInv, LegalLeaders, LEADER_IS_ME
    <2>. QED  BY <2>1, <2>2, <2>3 DEF Remains
  <1>7. CASE me /\ id # p
    <2>. DEFINE K == SteppedDown(leader[p])
    <2>1. leader' = [leader EXCEPT ![p] = K] /\ UNCHANGED msgs
      BY <1>1, <1>7 DEF HandleOracleMsg
    <2>2. Legal(K, FALSE, submitted)
      <3>1. Legal(leader[p], TRUE, submitted)
        BY <1>3, <1>7
      <3>. QED  BY <1>3, <3>1, SteppedDownLegal
    <2>. HIDE DEF K
    <2>3. Send({}) /\ AsksOf({}, submitted)
      BY <2>1 DEF Send, AsksOf
    <2>4. Legal(K, id = p, submitted)
      BY <1>7, <2>2
    <2>. QED  BY <1>3, <1>6, <2>1, <2>3, <2>4
  <1>8. CASE ~ me /\ id = p
    <2>. DEFINE L == leader[p]
                K == Promoted(p, L)
                N == PrepareReqs(K, L.current_iid .. K.highest_open)
    <2>1. leader' = [leader EXCEPT ![p] = K] /\ Send(N)
      <3>1. /\ leader' = [leader EXCEPT ![p] = K]
            /\ Send(PrepareReqs(leader'[p], L.current_iid .. leader'[p].highest_open))
        BY <1>1, <1>8 DEF HandleOracleMsg
      <3>2. leader'[p] = K
        BY <1>3, <3>1
      <3>. QED  BY <3>1, <3>2
    <2>2. Legal(L, FALSE, submitted) /\ L.current_iid - 1 \in Iids \cup {0}
      <3>1. Legal(L, FALSE, submitted)
        BY <1>3, <1>8 DEF Legal
      <3>. QED  BY <3>1, LastIsInstance
    <2>3. Legal(K, TRUE, submitted) /\ AsksOf(N, submitted)
      <3>. HIDE DEF L
      <3>. QED  BY <1>3, <2>2, PromotedLegal
    <2>. HIDE DEF K, N
    <2>4. Legal(K, id = p, submitted)
      BY <1>8, <2>3
    <2>. QED  BY <1>3, <1>6, <2>1, <2>3, <2>4
  <1>9. CASE me <=> id = p
    <2>1. UNCHANGED <<leader, msgs>>
      BY <1>1, <1>9 DEF HandleOracleMsg
    <2>2. Send({}) /\ AsksOf({}, submitted)
      BY <2>1 DEF Send, AsksOf
    <2>3. Legal(leader[p], id = p, submitted)
      BY <1>3, <1>9 DEF Legal
    <2>. QED  BY <1>6, <2>1, <2>2, <2>3
  <1>. QED  BY <1>7, <1>8, <1>9

(* handle_accept_ack, with pro_deliver_callback for each value it delivers. *)
LEMMA AckRemains ==
    ASSUME AnyLeaderInv, NEW l \in Learners, ReceiveAcceptAck(l)
    PROVE  Remains
PROOF
  <1>1. PICK m \in msgs : m.type = "accept_ack" /\ HandleAcceptAck(l, m)
    BY DEF ReceiveAcceptAck
  <1>2. LearnerInv /\ LearnerTypeOK /\ DeliveredBelowCurrent /\ LearnsFrom(msgs)
        /\ SourcedNet /\ LegalLeaders /\ submitted \subseteq Values
    BY DEF AnyLeaderInv, DeliverInv, LearnerInv, LegalLeaders
  <1>3. /\ m \in AckMessage /\ AskedIn(msgs, m.iid, m.value)
        /\ UNCHANGED <<storeVars, submitted>>
    <2>1. m \in AckMessage
      <3>1. m \in Message
        BY <1>2 DEF SourcedNet, AcceptorInv, AcceptorTypeOK
      <3>. QED  BY <1>1, <3>1 DEF Message
    <2>. QED  BY <1>1, <1>2, <2>1 DEF SourcedNet, ReportsAsked, Reports, ReceiveAcceptAck
  <1>4. LearnerInv' /\ LearnerTypeOK' /\ DeliveredBelowCurrent'
    BY <1>1, <1>2, <1>3, LearnerStepInv, DeliveredCountStep DEF LearnerInv
  <1>5. ASSUME msgs \subseteq msgs'  PROVE DeliverInv'
    <2>1. PICK M : M = msgs
      OBVIOUS
    <2>2. LearnsFrom(M)'
      <3>1. LearnsFrom(M) /\ AskedIn(M, m.iid, m.value)
        BY <1>2, <1>3, <2>1
      <3>. QED  BY <1>1, <1>2, <1>3, <3>1, AckLearns
    <2>3. \A i, v : AskedIn(M, i, v) => AskedIn(msgs', i, v)
      BY <1>5, <2>1, AskedInStays
    <2>4. LearnsFrom(msgs)'
      BY <2>2, <2>3 DEF LearnsFrom
    <2>. QED  BY <1>4, <2>4 DEF DeliverInv
  <1>6. ASSUME NEW N, Send(N), AsksOf(N, submitted), UNCHANGED current_leader_id,
               \A q \in Proposers : Legal(leader'[q], LEADER_IS_ME(q), submitted)
        PROVE  Remains
    <2>1. SourcedNet'
      BY <1>2, <1>3, <1>6, NetAsks
    <2>2. DeliverInv'
      BY <1>5, <1>6 DEF Send
    <2>3. LegalLeaders'
      BY <1>2, <1>3, <1>6 DEF LegalLeaders, LEADER_IS_ME
    <2>. QED  BY <2>1, <2>2, <2>3 DEF Remains
  <1>. DEFINE k == Len(delivered'[l]) - Len(delivered[l])
              vs == [n \in 1 .. k |-> delivered'[l][Len(delivered[l]) + n].value]
              me == LEADER_IS_ME(l)
              r == AfterRun(leader[l], me, vs)
  <1>7. CASE ~ (l \in Proposers /\ delivered'[l] # delivered[l])
    <2>1. UNCHANGED <<msgs, leader, current_leader_id>>
      BY <1>7 DEF ReceiveAcceptAck, leaderVars
    <2>2. Send({}) /\ AsksOf({}, submitted)
      BY <2>1 DEF Send, AsksOf
    <2>. QED  BY <1>2, <1>6, <2>1, <2>2 DEF LegalLeaders
  <1>8. CASE l \in Proposers /\ delivered'[l] # delivered[l]
    <2>1. /\ leader' = [leader EXCEPT ![l] = r.info] /\ Send(r.sent)
          /\ UNCHANGED current_leader_id
      <3>1. DeliverCallbacks(l, vs)
        BY <1>8 DEF ReceiveAcceptAck
      <3>. QED  BY <3>1, Zenon DEF DeliverCallbacks
    <2>2. k \in Nat /\ k = Len(vs)
      <3>. DEFINE o == Len(delivered[l])
                  e == Len(delivered'[l])
      <3>1. o \in Nat /\ e \in Nat /\ o <= e
        <4>1. o \in Nat /\ e \in Nat
          BY <1>2, <1>4 DEF LearnerTypeOK
        <4>. QED  BY <1>1, <1>2, <1>3, <4>1, DeliveryStep
      <3>. HIDE DEF o, e
      <3>2. k \in Nat
        BY <3>1 DEF o, e
      <3>. HIDE DEF k
      <3>. QED  BY <3>2
    <2>3. Legal(leader[l], me, submitted) /\ me \in BOOLEAN
      BY <1>2, <1>8 DEF LegalLeaders, LEADER_IS_ME
    <2>. HIDE DEF k, vs, me
    <2>4. RanLegal(r, me, submitted)
      BY <1>2, <2>2, <2>3, RunLegal
    <2>. HIDE DEF r
    <2>5. Legal(r.info, me, submitted) /\ AsksOf(r.sent, submitted)
      BY <2>4 DEF RanLegal
    <2>6. ASSUME NEW q \in Proposers
          PROVE  Legal(leader'[q], LEADER_IS_ME(q), submitted)
      <3>1. leader'[q] = IF q = l THEN r.info ELSE leader[q]
        BY <2>1 DEF AnyLeaderInv, CountsAgree
      <3>. QED  BY <1>2, <2>5, <3>1 DEF LegalLeaders, me
    <2>. QED  BY <1>6, <2>1, <2>5, <2>6
  <1>. QED  BY <1>7, <1>8

(* init_acceptor, init_proposer, init_learner: the first leader, if there is one,
   has opened its window, and nothing is asked for. *)
LEMMA AnyLeaderInit ==
    ASSUME Init
    PROVE  AnyLeaderInv
PROOF
  <1>1. /\ AcceptorInit /\ LearnerInit /\ LeaderInit /\ msgs = FirstPrepares
        /\ submitted = {} /\ {} \subseteq Values
    BY DEF Init
  <1>2. Legal(InitialInfo, FALSE, {}) /\ InitialInfo.current_iid = 1
    BY InitialLegal
  <1>3. ASSUME NEW q \in Proposers
        PROVE  /\ Legal(leader[q], LEADER_IS_ME(q), {})
               /\ AsksOf(PrepareReqs(leader[q], 1 .. leader[q].highest_open), {})
    <2>1. CASE q = 0
      <3>. DEFINE I == InitialInfo
                  K == Promoted(q, I)
      <3>1. leader[q] = K /\ LEADER_IS_ME(q) = TRUE
        BY <1>1, <2>1 DEF LeaderInit, LEADER_IS_ME
      <3>2. Legal(I, FALSE, {}) /\ I.current_iid - 1 \in Iids \cup {0} /\ I.current_iid = 1
        <4>1. I.current_iid - 1 = 0
          <5>. HIDE DEF I
          <5>. QED  BY <1>2 DEF I
        <4>. QED  BY <1>2, <4>1
      <3>3. Legal(K, TRUE, {}) /\ AsksOf(PrepareReqs(K, I.current_iid .. K.highest_open), {})
        <4>. HIDE DEF I
        <4>. QED  BY <1>1, <3>2, PromotedLegal
      <3>. HIDE DEF I, K
      <3>. QED  BY <3>1, <3>2, <3>3
    <2>2. CASE q # 0
      <3>1. leader[q] = InitialInfo /\ LEADER_IS_ME(q) = FALSE
        BY <1>1, <2>2 DEF LeaderInit, LEADER_IS_ME
      <3>2. 1 .. leader[q].highest_open = {}
        BY <3>1 DEF InitialInfo
      <3>3. AsksOf(PrepareReqs(leader[q], 1 .. leader[q].highest_open), {})
        BY <3>2 DEF PrepareReqs, AsksOf
      <3>. QED  BY <1>2, <3>1, <3>3
    <2>. QED  BY <2>1, <2>2
  <1>4. AsksOf(msgs, {})
    <2>1. msgs = UNION {PrepareReqs(leader[q], 1 .. leader[q].highest_open) :
                            q \in Proposers}
      BY <1>1 DEF FirstPrepares
    <2>. QED  BY <1>3, <2>1 DEF AsksOf
  <1>5. SourcedNet
    <2>1. AcceptorInv
      BY <1>1, <1>4, AcceptorInitInv DEF AsksOf
    <2>2. \A a \in Acceptors, i \in Iids : store[a][i].value = NoValue
      BY <1>1 DEF AcceptorInit, NoRecord
    <2>3. ReportsAsked
      BY <1>4, <2>2 DEF AsksOf, ReportsAsked, Reports
    <2>4. AsksFrom(msgs, submitted)
      BY <1>1, <1>4 DEF AsksOf, AsksFrom, AskedIn
    <2>. QED  BY <2>1, <2>3, <2>4 DEF SourcedNet
  <1>6. DeliverInv
    <2>1. LearnerInv /\ DeliveredBelowCurrent
      BY <1>1, LearnerInitInv, DeliveredCountInit
    <2>2. /\ \A l \in Learners, s \in Slots, a \in Acceptors :
                learner_state[l][s].acks[a] = NoRecord
          /\ \A l \in Learners : DOMAIN delivered[l] = {}
      BY <1>1 DEF LearnerInit, EmptySlot
    <2>. QED  BY <2>1, <2>2 DEF DeliverInv, LearnsFrom
  <1>7. LegalLeaders
    <2>1. DOMAIN current_leader_id = Proposers
      BY <1>1 DEF LeaderInit
    <2>. QED  BY <1>1, <1>3, <2>1 DEF LegalLeaders
  <1>. QED  BY <1>5, <1>6, <1>7, CountsInit DEF AnyLeaderInv

(* Every event keeps the invariant. *)
LEMMA AnyLeaderStep ==
    ASSUME AnyLeaderInv, [Next]_vars
    PROVE  AnyLeaderInv'
PROOF
  <1>1. CountsAgree'
    BY CountsStep DEF AnyLeaderInv
  <1>2. ASSUME NEW a \in Acceptors, AcceptorEvent(a)  PROVE  Remains
    BY <1>2, AcceptorRemains
  <1>3. ASSUME NEW l \in Learners, ReceiveAcceptAck(l) \/ CheckHoles(l)
        PROVE  Remains
    BY <1>3, AckRemains, HolesRemain
  <1>4. ASSUME NEW p \in Proposers,
               ReceivePromises(p) \/ CheckPhase1(p) \/ CheckPhase2(p)
        PROVE  Remains
    BY <1>4, PromisesRemain, Phase1Remains, Phase2Remains
  <1>5. ASSUME NEW p \in Proposers, Submit(p) \/ Announce(p)
        PROVE  Remains
    BY <1>5, SubmitRemains, AnnounceRemains
  <1>6. ASSUME UNCHANGED vars  PROVE  Remains
    <2>1. UNCHANGED <<storeVars, learnerVars, msgs, leader, current_leader_id, submitted>>
      BY <1>6 DEF vars, storeVars, leaderVars
    <2>2. Send({}) /\ AsksOf({}, submitted)
      BY <2>1 DEF Send, AsksOf
    <2>3. SourcedNet'
      BY <2>1, <2>2, NetAsks DEF AnyLeaderInv
    <2>4. DeliverInv'
      BY <2>1, DeliverStays DEF AnyLeaderInv
    <2>5. LegalLeaders'
      BY <2>1 DEF AnyLeaderInv, LegalLeaders, LEADER_IS_ME
    <2>. QED  BY <2>3, <2>4, <2>5 DEF Remains
  <1>7. Remains
    BY <1>2, <1>3, <1>4, <1>5, <1>6, Zenon DEF Next
  <1>. QED  BY <1>1, <1>7 DEF AnyLeaderInv, Remains

(* Every behaviour of the system, with any number of leaders at once, keeps it. *)
THEOREM AnyLeaderInvariant == Spec => []AnyLeaderInv
PROOF
  <1>1. Init => AnyLeaderInv
    BY AnyLeaderInit
  <1>2. AnyLeaderInv /\ [Next]_vars => AnyLeaderInv'
    BY AnyLeaderStep
  <1>. QED  BY <1>1, <1>2, PTL DEF Spec

(* handle_accept_ack delivers only what was submitted, whoever leads, however wide
   the window, whatever is lost, repeated or reordered, across restarts. *)
THEOREM ValidityCorrect == Spec => []Validity
PROOF
  <1>1. AnyLeaderInv => Validity
    <2>. SUFFICES ASSUME AnyLeaderInv, NEW l \in Learners, NEW n \in DOMAIN delivered[l]
                  PROVE  delivered[l][n].value \in submitted
      BY DEF Validity
    <2>1. AskedIn(msgs, n, delivered[l][n].value)
      BY DEF AnyLeaderInv, DeliverInv, LearnsFrom
    <2>. QED  BY <2>1 DEF AnyLeaderInv, SourcedNet, AsksFrom
  <1>. QED  BY <1>1, AnyLeaderInvariant, PTL

(* What AcceptorAlone and LearnerAlone show of an acceptor and of a learner under
   any datagrams holds of them in the system, under those its proposers send. *)
THEOREM ComponentsCorrect == Spec => [](AcceptorInv /\ LearnerInv)
PROOF
  <1>1. AnyLeaderInv => AcceptorInv /\ LearnerInv
    BY DEF AnyLeaderInv, SourcedNet, DeliverInv
  <1>. QED  BY <1>1, AnyLeaderInvariant, PTL

=============================================================================
