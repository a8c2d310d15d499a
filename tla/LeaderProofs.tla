---------------------------- MODULE LeaderProofs ----------------------------
(***************************************************************************)
(* What each function of the leader does to its window and counters,       *)
(* proved from the operators of Leader alone, so that any system built     *)
(* from Leader can cite it: for any buffer size, window, concurrency,      *)
(* queue length, instances, ballots and values, and any promises.          *)
(***************************************************************************)
EXTENDS Leader, NumberLemmas, FiniteSetTheorems

-----------------------------------------------------------------------------
(* What holds of a leader between two functions.  c is the instance that the
   window starts at: current_iid, or the one after it while leader_deliver is
   at work.                                                                 *)

WindowFrom(L, c) == c .. L.highest_open

\* The window lies within one turn of the buffer.  The code does not see to that.
Fits(L, c) == L.highest_open < c + PROPOSER_ARRAY_SIZE

PendingFrom(L, c) == {i \in WindowFrom(L, c) : Instance(L, i).status = "p1_pending"}
ReadyFrom(L, c)   == {i \in WindowFrom(L, c) : Instance(L, i).status = "p1_ready"}
OpenedFrom(L, c)  == {i \in WindowFrom(L, c) : OpenedByMe(Instance(L, i))}

\* What the slot of an instance holds: up to next_unused_iid the leader has
\* assigned a value, from there on the instance is in phase 1 and has none.
Holds(L, i) ==
    /\ Instance(L, i).iid = i
    /\ Instance(L, i).my_ballot \in Ballots
    /\ IF i < L.next_unused_iid
       THEN /\ Instance(L, i).status # "empty"
            /\ Instance(L, i).p2_value # NoValue
       ELSE /\ Instance(L, i).status \in {"p1_pending", "p1_ready"}
            /\ Instance(L, i).p2_value = NoValue

\* The window and the buffer agree.
Coherent(L, c) ==
    /\ L \in LeaderInfo
    /\ c \in Nat \ {0}
    /\ c <= L.next_unused_iid
    /\ L.next_unused_iid <= L.highest_open + 1
    /\ WindowFrom(L, c) \subseteq Iids
    /\ \A i \in WindowFrom(L, c) : Holds(L, i)
    /\ \A s \in ProposerSlots :
          (\A i \in WindowFrom(L, c) : ProposerSlot(i) # s) =>
              L.proposer_state[s] = EmptyInstance

\* The counters count, except that ready_count may be too high, and the limits
\* of the settings are kept.
Counted(L, c) ==
    /\ L.pending_count = Cardinality(PendingFrom(L, c))
    /\ L.open_count = Cardinality(OpenedFrom(L, c))
    /\ L.ready_count >= Cardinality(ReadyFrom(L, c))
    /\ L.open_count <= PROPOSER_P2_CONCURRENCY + 1
    /\ L.highest_open + 1 - L.next_unused_iid <= PROPOSER_PREEXEC_WIN_SIZE

\* The buffer of a proposer that does not lead.
Cleared(L) ==
    /\ L \in LeaderInfo
    /\ \A s \in ProposerSlots : L.proposer_state[s] = EmptyInstance

\* How many instances ready_count is ahead.
Surplus(L, c) == L.ready_count - Cardinality(ReadyFrom(L, c))

\* No instance with a value is left ready: it goes on to phase 2 at once.
Quiet(L, c) ==
    \A i \in c .. L.next_unused_iid - 1 : Instance(L, i).status # "p1_ready"

-----------------------------------------------------------------------------
(* The circular buffer.                                                     *)

(* GET_PRO_INSTANCE stays inside the buffer. *)
LEMMA SlotType ==
    ASSUME NEW i \in Nat
    PROVE  ProposerSlot(i) \in ProposerSlots
BY LeaderAssumption DEF ProposerSlot, ProposerSlots

(* The instances of a window are instances, and finitely many. *)
LEMMA WindowType ==
    ASSUME NEW L, NEW c, Coherent(L, c)
    PROVE  /\ c \in Nat \ {0} /\ L.highest_open \in Nat
           /\ IsFiniteSet(WindowFrom(L, c))
           /\ \A i \in WindowFrom(L, c) :
                 /\ i \in Iids /\ i \in Nat \ {0}
                 /\ c <= i /\ i <= L.highest_open
                 /\ ProposerSlot(i) \in ProposerSlots
                 /\ Instance(L, i) \in InstanceInfo
                 /\ Instance(L, i) = L.proposer_state[ProposerSlot(i)]
PROOF
  <1>1. c \in Nat \ {0} /\ L.highest_open \in Nat /\ WindowFrom(L, c) \subseteq Iids
        /\ L.proposer_state \in [ProposerSlots -> InstanceInfo]
    BY DEF Coherent, LeaderInfo
  <1>2. IsFiniteSet(WindowFrom(L, c))
    BY <1>1, FS_Interval DEF WindowFrom
  <1>3. ASSUME NEW i \in WindowFrom(L, c)
        PROVE  i \in Nat \ {0} /\ c <= i /\ i <= L.highest_open
    BY <1>1 DEF WindowFrom
  <1>. QED  BY <1>1, <1>2, <1>3, SlotType DEF Instance

(* Two instances of a window that fits never share a slot. *)
LEMMA SlotInjective ==
    ASSUME NEW h \in Nat, NEW c \in Nat, h < c + PROPOSER_ARRAY_SIZE,
           NEW i \in c .. h, NEW j \in c .. h, ProposerSlot(i) = ProposerSlot(j)
    PROVE  i = j
PROOF
  <1>1. PROPOSER_ARRAY_SIZE \in Nat \ {0}
    BY LeaderAssumption
  <1>2. i \in Nat /\ j \in Nat /\ c <= i /\ c <= j /\ i < c + PROPOSER_ARRAY_SIZE
        /\ j < c + PROPOSER_ARRAY_SIZE
    BY <1>1
  <1>3. i % PROPOSER_ARRAY_SIZE = j % PROPOSER_ARRAY_SIZE
    BY DEF ProposerSlot
  <1>. QED  BY <1>1, <1>2, <1>3, RemainderInjective

(* What Changed looks up for the slot of one of its instances is that instance. *)
LEMMA ChosenSlot ==
    ASSUME NEW L, NEW c, Coherent(L, c), Fits(L, c),
           NEW S \in SUBSET WindowFrom(L, c), NEW i \in S
    PROVE  (CHOOSE j \in S : ProposerSlot(j) = ProposerSlot(i)) = i
PROOF
  <1>1. \A j \in S : ProposerSlot(j) = ProposerSlot(i) => j = i
    BY WindowType, SlotInjective DEF Fits, WindowFrom
  <1>. QED  BY <1>1

\* From L to K only the slots of S changed.
Keeps(L, K, c, S) ==
    /\ K.proposer_state = [s \in ProposerSlots |-> K.proposer_state[s]]
    /\ \A i \in WindowFrom(L, c) \ S : Instance(K, i) = Instance(L, i)
    /\ \A s \in ProposerSlots :
          (\A i \in WindowFrom(L, c) : ProposerSlot(i) # s) =>
              K.proposer_state[s] = L.proposer_state[s]

(* The slots of the other instances are other slots. *)
LEMMA OtherSlots ==
    ASSUME NEW L, NEW c, Coherent(L, c), Fits(L, c),
           NEW S \in SUBSET WindowFrom(L, c)
    PROVE  /\ \A i \in WindowFrom(L, c) \ S : ~ \E j \in S : ProposerSlot(j) = ProposerSlot(i)
           /\ \A s \in ProposerSlots :
                 (\A i \in WindowFrom(L, c) : ProposerSlot(i) # s) =>
                     ~ \E j \in S : ProposerSlot(j) = s
BY WindowType, SlotInjective DEF Fits, WindowFrom

(* The buffer stays one if the changed slots do. *)
LEMMA BufferType ==
    ASSUME NEW L, NEW K, NEW c, Coherent(L, c), Fits(L, c),
           NEW S \in SUBSET WindowFrom(L, c), Keeps(L, K, c, S),
           \A i \in S : Instance(K, i) \in InstanceInfo
    PROVE  K.proposer_state \in [ProposerSlots -> InstanceInfo]
PROOF
  <1>1. ASSUME NEW s \in ProposerSlots
        PROVE  K.proposer_state[s] \in InstanceInfo
    <2>1. CASE \E i \in WindowFrom(L, c) : ProposerSlot(i) = s
      BY <2>1, WindowType DEF Keeps, Instance
    <2>2. CASE \A i \in WindowFrom(L, c) : ProposerSlot(i) # s
      BY <2>2 DEF Keeps, Coherent, LeaderInfo
    <2>. QED  BY <2>1, <2>2
  <1>2. K.proposer_state = [s \in ProposerSlots |-> K.proposer_state[s]]
    BY DEF Keeps
  <1>. QED  BY <1>1, <1>2

(* Coherence is kept where the changed slots are coherent. *)
LEMMA CoherentKept ==
    ASSUME NEW L, NEW K, NEW c, Coherent(L, c), Fits(L, c),
           K \in LeaderInfo, K.highest_open = L.highest_open,
           c <= K.next_unused_iid, K.next_unused_iid <= L.highest_open + 1,
           NEW S \in SUBSET WindowFrom(L, c), Keeps(L, K, c, S),
           \A i \in WindowFrom(L, c) \ S :
               i < K.next_unused_iid <=> i < L.next_unused_iid,
           \A i \in S : Holds(K, i)
    PROVE  Coherent(K, c) /\ Fits(K, c) /\ WindowFrom(K, c) = WindowFrom(L, c)
PROOF
  <1>1. WindowFrom(K, c) = WindowFrom(L, c) /\ Fits(K, c)
    BY DEF WindowFrom, Fits
  <1>2. \A i \in WindowFrom(L, c) \ S : Holds(K, i)
    BY DEF Keeps, Holds, Coherent
  <1>3. \A i \in WindowFrom(L, c) : Holds(K, i)
    BY <1>2
  <1>. QED  BY <1>1, <1>3 DEF Coherent, Keeps

-----------------------------------------------------------------------------
(* The records the functions leave in a slot.                               *)

\* An instance that starts phase 1 again, one that is opened, and one of phase 2
\* that is completed or goes back to phase 1.
Retried(ii) ==
    [ii EXCEPT !.promises_count = 0, !.p1_value_ballot = 0,
               !.p1_value = NoValue, !.my_ballot = NEXT_BALLOT(@)]
Opened(i, b) ==
    [EmptyInstance EXCEPT !.iid = i, !.status = "p1_pending", !.my_ballot = b]
Completed(ii) == [ii EXCEPT !.status = "p2_completed"]
SentBack(ii)  == [ii EXCEPT !.status = "p1_pending", !.my_ballot = NEXT_BALLOT(@)]

LEMMA RetriedType ==
    ASSUME NEW ii \in InstanceInfo, NEXT_BALLOT(ii.my_ballot) \in Ballots
    PROVE  /\ Retried(ii) \in InstanceInfo
           /\ Retried(ii).iid = ii.iid
           /\ Retried(ii).my_ballot = NEXT_BALLOT(ii.my_ballot)
           /\ Retried(ii).status = ii.status
           /\ Retried(ii).p1_value = NoValue
           /\ Retried(ii).p2_value = ii.p2_value
PROOF
  <1>. DEFINE b == NEXT_BALLOT(ii.my_ballot)
  <1>1. Retried(ii) = [ii EXCEPT !.promises_count = 0, !.p1_value_ballot = 0,
                                 !.p1_value = NoValue, !.my_ballot = b]
    BY DEF Retried, InstanceInfo
  <1>2. b \in Ballots
    OBVIOUS
  <1>. HIDE DEF b
  <1>3. Retried(ii) =
           [iid |-> ii.iid, status |-> ii.status, my_ballot |-> b,
            promises_count |-> 0, p1_value |-> NoValue, p1_value_ballot |-> 0,
            p2_value |-> ii.p2_value]
    BY <1>1 DEF InstanceInfo
  <1>4. Retried(ii) \in InstanceInfo
    BY <1>2, <1>3 DEF InstanceInfo
  <1>5. /\ Retried(ii).iid = ii.iid
        /\ Retried(ii).my_ballot = b
        /\ Retried(ii).status = ii.status
        /\ Retried(ii).p1_value = NoValue
        /\ Retried(ii).p2_value = ii.p2_value
    BY <1>3
  <1>. QED  BY <1>4, <1>5 DEF b

LEMMA OpenedType ==
    ASSUME NEW i \in Iids, NEW b \in Ballots
    PROVE  /\ Opened(i, b) \in InstanceInfo
           /\ Opened(i, b).iid = i /\ Opened(i, b).my_ballot = b
           /\ Opened(i, b).status = "p1_pending"
           /\ Opened(i, b).p1_value = NoValue
           /\ Opened(i, b).p2_value = NoValue
BY DEF InstanceInfo, Status, Opened, EmptyInstance

LEMMA SettledType ==
    ASSUME NEW ii \in InstanceInfo
    PROVE  /\ Completed(ii) \in InstanceInfo
           /\ Completed(ii).iid = ii.iid /\ Completed(ii).my_ballot = ii.my_ballot
           /\ Completed(ii).status = "p2_completed"
           /\ Completed(ii).p1_value = ii.p1_value
           /\ Completed(ii).p2_value = ii.p2_value
           /\ NEXT_BALLOT(ii.my_ballot) \in Ballots =>
                 /\ SentBack(ii) \in InstanceInfo
                 /\ SentBack(ii).iid = ii.iid
                 /\ SentBack(ii).my_ballot = NEXT_BALLOT(ii.my_ballot)
                 /\ SentBack(ii).status = "p1_pending"
                 /\ SentBack(ii).p1_value = ii.p1_value
                 /\ SentBack(ii).p2_value = ii.p2_value
PROOF
  <1>. DEFINE b == NEXT_BALLOT(ii.my_ballot)
  <1>1. SentBack(ii) = [ii EXCEPT !.status = "p1_pending", !.my_ballot = b]
    BY DEF SentBack, InstanceInfo
  <1>2. /\ Completed(ii) \in InstanceInfo
        /\ Completed(ii).iid = ii.iid /\ Completed(ii).my_ballot = ii.my_ballot
        /\ Completed(ii).status = "p2_completed"
        /\ Completed(ii).p1_value = ii.p1_value
        /\ Completed(ii).p2_value = ii.p2_value
    BY DEF Completed, InstanceInfo, Status
  <1>3. ASSUME b \in Ballots
        PROVE  /\ SentBack(ii) \in InstanceInfo
               /\ SentBack(ii).iid = ii.iid
               /\ SentBack(ii).my_ballot = b
               /\ SentBack(ii).status = "p1_pending"
               /\ SentBack(ii).p1_value = ii.p1_value
               /\ SentBack(ii).p2_value = ii.p2_value
    <2>. HIDE DEF b
    <2>. QED  BY <1>1, <1>3 DEF InstanceInfo, Status
  <1>. QED  BY <1>2, <1>3 DEF b

(* leader_execute_p2 *)
LEMMA ExecuteType ==
    ASSUME NEW ii \in InstanceInfo, NEW next \in Values \cup {NoValue}
    PROVE  /\ ExecuteP2(ii, next) \in InstanceInfo
           /\ ExecuteP2(ii, next).iid = ii.iid
           /\ ExecuteP2(ii, next).my_ballot = ii.my_ballot
           /\ ExecuteP2(ii, next).status = "p2_pending"
           /\ ExecuteP2(ii, next).p1_value = NoValue
           /\ ExecuteP2(ii, next).p2_value =
                 IF ii.p1_value # NoValue THEN ii.p1_value
                 ELSE IF ii.p2_value # NoValue THEN ii.p2_value ELSE next
BY DEF InstanceInfo, Status, ExecuteP2

(* handle_prepare_ack *)
LEMMA PromiseType ==
    ASSUME NEW ii \in InstanceInfo, NEW pa \in PrepareAck
    PROVE  LET jj == HandlePrepareAck(ii, pa)
           IN /\ jj \in InstanceInfo
              /\ jj.iid = ii.iid /\ jj.my_ballot = ii.my_ballot
              /\ jj.status \in {ii.status, "p1_ready"}
              /\ jj.p1_value \in {ii.p1_value, pa.value}
              /\ jj.p2_value = ii.p2_value
PROOF
  <1>. DEFINE saved == SavePrepareAck(ii, pa)
              jj == HandlePrepareAck(ii, pa)
              st == IF saved.promises_count < QUORUM THEN saved.status ELSE "p1_ready"
  <1>1. /\ saved \in InstanceInfo
        /\ saved.iid = ii.iid /\ saved.my_ballot = ii.my_ballot
        /\ saved.status = ii.status /\ saved.p2_value = ii.p2_value
        /\ saved.p1_value \in {ii.p1_value, pa.value}
    <2>1. /\ pa.value \in Values \cup {NoValue}
          /\ pa.value_ballot \in Ballots \cup {0}
      BY DEF PrepareAck
    <2>. DEFINE found == pa.value # NoValue /\ pa.value_ballot > ii.p1_value_ballot
                val == IF found THEN pa.value ELSE ii.p1_value
                vb  == IF found THEN pa.value_ballot ELSE ii.p1_value_ballot
                n   == ii.promises_count + 1
    <2>2. val \in Values \cup {NoValue} /\ val \in {ii.p1_value, pa.value} /\ vb \in Ballots \cup {0} /\ n \in Nat
      BY <2>1 DEF InstanceInfo
    <2>3. saved = [ii EXCEPT !.promises_count = n, !.p1_value = val, !.p1_value_ballot = vb]
      BY DEF SavePrepareAck, InstanceInfo
    <2>. HIDE DEF saved, val, vb, n
    <2>. QED  BY <2>2, <2>3 DEF InstanceInfo
  <1>2. jj = [saved EXCEPT !.status = st]
    BY <1>1 DEF HandlePrepareAck, InstanceInfo
  <1>3. st \in Status /\ st \in {ii.status, "p1_ready"}
    BY <1>1 DEF Status, InstanceInfo
  <1>. HIDE DEF saved, jj, st
  <1>4. /\ jj \in InstanceInfo
        /\ jj.iid = saved.iid /\ jj.my_ballot = saved.my_ballot
        /\ jj.status = st /\ jj.p2_value = saved.p2_value
        /\ jj.p1_value = saved.p1_value
    BY <1>1, <1>2, <1>3 DEF InstanceInfo
  <1>. QED  BY <1>1, <1>3, <1>4 DEF jj

(* pro_clear_instance_info *)
LEMMA EmptyType == EmptyInstance \in InstanceInfo
BY DEF EmptyInstance, InstanceInfo, Status

-----------------------------------------------------------------------------
(* Phase 1.                                                                 *)

\* Only the buffer changed.
OnlySlots(L, K) == K = [L EXCEPT !.proposer_state = K.proposer_state]

(* leader_check_p1_pending: the expired instances start phase 1 again with the
   next ballot. *)
LEMMA CheckP1Effect ==
    ASSUME NEW L, NEW c, Coherent(L, c), Fits(L, c),
           NEW E \in SUBSET PendingFrom(L, c),
           \A i \in E : NEXT_BALLOT(Instance(L, i).my_ballot) \in Ballots,
           NEW K, K = CheckP1Pending(L, E)
    PROVE  /\ OnlySlots(L, K) /\ Coherent(K, c) /\ Fits(K, c)
           /\ WindowFrom(K, c) = WindowFrom(L, c)
           /\ \A i \in E : Instance(K, i) = Retried(Instance(L, i))
           /\ Keeps(L, K, c, E)
PROOF
  <1>1. E \in SUBSET WindowFrom(L, c) /\ L \in LeaderInfo
    BY DEF PendingFrom, Coherent
  <1>2. OnlySlots(L, K)
    BY <1>1 DEF OnlySlots, CheckP1Pending, LeaderInfo
  <1>3. ASSUME NEW i \in E
        PROVE  Instance(K, i) = Retried(Instance(L, i))
    BY <1>1, WindowType, ChosenSlot
       DEF CheckP1Pending, Changed, Instance, LeaderInfo, Retried
  <1>4. Keeps(L, K, c, E)
    BY <1>1, WindowType, OtherSlots DEF CheckP1Pending, Changed, Instance, LeaderInfo, Keeps
  <1>5. ASSUME NEW i \in E
        PROVE  Instance(K, i) \in InstanceInfo /\ Holds(K, i)
    <2>1. Instance(L, i) \in InstanceInfo /\ Holds(L, i)
      BY <1>1, WindowType DEF Coherent
    <2>2. K.next_unused_iid = L.next_unused_iid
      BY <1>1, <1>2 DEF OnlySlots, LeaderInfo
    <2>3. NEXT_BALLOT(Instance(L, i).my_ballot) \in Ballots
      OBVIOUS
    <2>4. /\ Instance(K, i) \in InstanceInfo
          /\ Instance(K, i).iid = Instance(L, i).iid
          /\ Instance(K, i).my_ballot \in Ballots
          /\ Instance(K, i).status = Instance(L, i).status
          /\ Instance(K, i).p2_value = Instance(L, i).p2_value
      BY <1>3, <2>1, <2>3, RetriedType
    <2>. QED  BY <2>1, <2>2, <2>4 DEF Holds
  <1>6. K \in LeaderInfo
    <2>1. K.proposer_state \in [ProposerSlots -> InstanceInfo]
      BY <1>1, <1>4, <1>5, BufferType
    <2>. QED  BY <1>1, <1>2, <2>1 DEF OnlySlots, LeaderInfo
  <1>7. /\ K.highest_open = L.highest_open /\ K.next_unused_iid = L.next_unused_iid
    BY <1>1, <1>2 DEF OnlySlots, LeaderInfo
  <1>8. Coherent(K, c) /\ Fits(K, c) /\ WindowFrom(K, c) = WindowFrom(L, c)
    <2>1. c <= K.next_unused_iid /\ K.next_unused_iid <= L.highest_open + 1
      BY <1>7 DEF Coherent
    <2>. QED  BY <1>1, <1>4, <1>5, <1>6, <1>7, <2>1, CoherentKept
  <1>. QED  BY <1>2, <1>3, <1>4, <1>8

(* leader_open_instances_p1 opens the instances that follow the window, as many
   as phase 1 lacks of PROPOSER_PREEXEC_WIN_SIZE at most. *)
LEMMA ToOpenRange ==
    ASSUME NEW L, L \in LeaderInfo
    PROVE  \E k \in Nat :
              /\ ToOpen(L) = L.highest_open + 1 .. L.highest_open + k
              /\ Cardinality(ToOpen(L)) = k
              /\ ToOpen(L) \subseteq Iids
              /\ k > 0 => k + L.pending_count + L.ready_count <= PROPOSER_PREEXEC_WIN_SIZE
PROOF
  <1>. DEFINE h == L.highest_open
              active == L.pending_count + L.ready_count
              n == PROPOSER_PREEXEC_WIN_SIZE - active
  <1>1. h \in Nat /\ active \in Int /\ PROPOSER_PREEXEC_WIN_SIZE \in Nat \ {0}
        /\ L.pending_count \in Int /\ L.ready_count \in Int
    BY LeaderAssumption DEF LeaderInfo
  <1>2. ASSUME NEW k \in Nat
        PROVE  Cardinality(h + 1 .. h + k) = k
    <2>1. h + 1 \in Int /\ h + k \in Int /\ (h + 1 > h + k <=> k = 0)
          /\ (h + k) - (h + 1) + 1 = k
      BY <1>1
    <2>. QED  BY <2>1, FS_Interval
  <1>3. CASE active >= PROPOSER_PREEXEC_WIN_SIZE \div 2
    <2>1. ToOpen(L) = {} /\ h + 1 .. h + 0 = {}
      BY <1>1, <1>3 DEF ToOpen
    <2>2. Cardinality(ToOpen(L)) = 0
      BY <2>1, FS_EmptySet
    <2>. QED  BY <2>1, <2>2
  <1>4. CASE ~ (active >= PROPOSER_PREEXEC_WIN_SIZE \div 2)
    <2>1. ToOpen(L) = (h + 1 .. h + n) \cap Iids
      BY <1>4 DEF ToOpen
    <2>2. n \in Nat
      <3>1. PROPOSER_PREEXEC_WIN_SIZE \div 2 \in Int
            /\ PROPOSER_PREEXEC_WIN_SIZE \div 2 <= PROPOSER_PREEXEC_WIN_SIZE
        BY <1>1
      <3>. QED  BY <1>1, <1>4, <3>1
    <2>. HIDE DEF n, active, h
    <2>3. \E k \in 0 .. n : (h + 1 .. h + n) \cap Iids = h + 1 .. h + k
      <3>. DEFINE T == {j \in 0 .. n : j = n \/ h + 1 + j \notin Iids}
      <3>1. T \subseteq Nat /\ n \in T
        BY <2>2
      <3>2. PICK k \in T : \A j \in T : k <= j
        <4>. HIDE DEF T
        <4>. QED  BY <3>1, LeastNumber
      <3>3. k \in 0 .. n /\ k \in Nat
        BY <2>2
      <3>4. ASSUME NEW i \in h + 1 .. h + k
            PROVE  i \in (h + 1 .. h + n) \cap Iids
        <4>1. i - (h + 1) \in 0 .. n /\ i - (h + 1) < k
          BY <1>1, <2>2, <3>3
        <4>2. i - (h + 1) \notin T
          BY <3>2, <4>1
        <4>3. h + 1 + (i - (h + 1)) = i
          BY <1>1
        <4>. QED  BY <1>1, <2>2, <3>3, <4>1, <4>2, <4>3
      <3>5. ASSUME NEW i \in (h + 1 .. h + n) \cap Iids
            PROVE  i \in h + 1 .. h + k
        <4>. SUFFICES ASSUME ~ (i <= h + k) PROVE FALSE
          BY <1>1, <2>2, <3>3
        <4>1. k # n /\ h + 1 + k \notin Iids
          BY <1>1, <2>2, <3>3
        <4>2. h + 1 + k \in 1 .. i
          BY <1>1, <2>2, <3>3
        <4>. QED  BY <4>1, <4>2, LeaderAssumption
      <3>. QED  BY <3>3, <3>4, <3>5
    <2>4. PICK k \in 0 .. n : (h + 1 .. h + n) \cap Iids = h + 1 .. h + k
      BY <2>3
    <2>5. k \in Nat /\ k + L.pending_count + L.ready_count <= PROPOSER_PREEXEC_WIN_SIZE
      BY <1>1, <2>2 DEF n, active
    <2>. QED  BY <1>2, <2>1, <2>4, <2>5 DEF h
  <1>. QED  BY <1>3, <1>4

(* The instances that leader_open_instances_p1 opens. *)
LEMMA OpenP1Effect ==
    ASSUME NEW p \in Proposers, NEW L, NEW c, Coherent(L, c),
           NEW K, K = OpenInstancesP1(p, L), Fits(K, c)
    PROVE  /\ Coherent(K, c)
           /\ K.highest_open = L.highest_open + Cardinality(ToOpen(L))
           /\ K.pending_count = L.pending_count + Cardinality(ToOpen(L))
           /\ K.current_iid = L.current_iid /\ K.ready_count = L.ready_count
           /\ K.next_unused_iid = L.next_unused_iid /\ K.open_count = L.open_count
           /\ K.pending_list = L.pending_list
           /\ WindowFrom(K, c) = WindowFrom(L, c) \cup ToOpen(L)
           /\ WindowFrom(L, c) \cap ToOpen(L) = {}
           /\ \A i \in ToOpen(L) :
                 i \in Iids /\ Instance(K, i) = Opened(i, FIRST_BALLOT(p))
           /\ \A i \in WindowFrom(L, c) : Instance(K, i) = Instance(L, i)
PROOF
  <1>. DEFINE S == ToOpen(L)
  <1>1. L \in LeaderInfo /\ c \in Nat \ {0} /\ c <= L.next_unused_iid
        /\ L.next_unused_iid <= L.highest_open + 1
        /\ L.highest_open \in Nat /\ L.next_unused_iid \in Nat
    BY DEF Coherent, LeaderInfo
  <1>2. PICK k \in Nat :
           /\ S = L.highest_open + 1 .. L.highest_open + k
           /\ Cardinality(S) = k /\ S \subseteq Iids
    BY <1>1, ToOpenRange
  <1>3. /\ K.highest_open = L.highest_open + Cardinality(S)
        /\ K.pending_count = L.pending_count + Cardinality(S)
        /\ K.current_iid = L.current_iid /\ K.ready_count = L.ready_count
        /\ K.next_unused_iid = L.next_unused_iid /\ K.open_count = L.open_count
        /\ K.pending_list = L.pending_list
    BY <1>1 DEF OpenInstancesP1, LeaderInfo
  <1>. HIDE DEF S
  <1>4. K.highest_open \in Nat /\ K.highest_open < c + PROPOSER_ARRAY_SIZE
    BY <1>1, <1>2, <1>3 DEF Fits
  <1>5. WindowFrom(K, c) = WindowFrom(L, c) \cup S /\ WindowFrom(L, c) \cap S = {}
    BY <1>1, <1>2, <1>3 DEF WindowFrom
  <1>6. \A i, j \in WindowFrom(K, c) : ProposerSlot(i) = ProposerSlot(j) => i = j
    BY <1>1, <1>4, SlotInjective DEF WindowFrom
  <1>7. \A i \in WindowFrom(K, c) : i \in Nat /\ ProposerSlot(i) \in ProposerSlots
    BY <1>1, <1>4, SlotType DEF WindowFrom
  <1>8. ASSUME NEW i \in S
        PROVE  Instance(K, i) = Opened(i, FIRST_BALLOT(p))
    <2>1. (CHOOSE j \in S : ProposerSlot(j) = ProposerSlot(i)) = i
      BY <1>5, <1>6
    <2>2. L.proposer_state[ProposerSlot(i)] = EmptyInstance
      <3>1. \A j \in WindowFrom(L, c) : ProposerSlot(j) # ProposerSlot(i)
        BY <1>5, <1>6
      <3>. QED  BY <1>5, <1>7, <3>1 DEF Coherent
    <2>. QED
      BY <1>1, <1>5, <1>7, <2>1, <2>2 DEF OpenInstancesP1, Changed, Instance, LeaderInfo, S, Opened
  <1>9. ASSUME NEW s \in ProposerSlots, \A i \in S : ProposerSlot(i) # s
        PROVE  K.proposer_state[s] = L.proposer_state[s]
    BY <1>1, <1>9 DEF OpenInstancesP1, Changed, LeaderInfo, S
  <1>10. \A i \in WindowFrom(L, c) : Instance(K, i) = Instance(L, i)
    BY <1>5, <1>6, <1>7, <1>9 DEF Instance
  <1>11. FIRST_BALLOT(p) \in Ballots
    BY LeaderAssumption DEF FIRST_BALLOT
  <1>12. K.proposer_state \in [ProposerSlots -> InstanceInfo]
    <2>1. ASSUME NEW s \in ProposerSlots
          PROVE  K.proposer_state[s] \in InstanceInfo
      <3>1. CASE \A i \in S : ProposerSlot(i) # s
        BY <1>1, <1>9, <3>1 DEF LeaderInfo
      <3>2. ASSUME NEW i \in S, ProposerSlot(i) = s
            PROVE  K.proposer_state[s] \in InstanceInfo
        <4>1. K.proposer_state[s] = Instance(K, i) /\ i \in Iids
          BY <1>2, <3>2 DEF Instance
        <4>. QED  BY <1>8, <1>11, <3>2, <4>1, OpenedType
      <3>. QED  BY <3>1, <3>2
    <2>2. K.proposer_state = [s \in ProposerSlots |-> K.proposer_state[s]]
      BY <1>1 DEF OpenInstancesP1, Changed, LeaderInfo
    <2>. QED  BY <2>1, <2>2
  <1>13. K \in LeaderInfo
    <2>1. K.pending_count \in Int
      BY <1>1, <1>2, <1>3 DEF LeaderInfo
    <2>2. K = [current_iid |-> K.current_iid, proposer_state |-> K.proposer_state,
               pending_count |-> K.pending_count, ready_count |-> K.ready_count,
               highest_open |-> K.highest_open, next_unused_iid |-> K.next_unused_iid,
               open_count |-> K.open_count, pending_list |-> K.pending_list]
      BY <1>1 DEF OpenInstancesP1, LeaderInfo
    <2>. QED  BY <1>1, <1>3, <1>4, <1>12, <2>1, <2>2 DEF LeaderInfo
  <1>14. ASSUME NEW i \in WindowFrom(K, c)
         PROVE  Holds(K, i)
    <2>1. CASE i \in WindowFrom(L, c)
      BY <1>3, <1>10, <2>1 DEF Coherent, Holds
    <2>2. CASE i \in S
      <3>1. ~ (i < K.next_unused_iid)
        BY <1>1, <1>2, <1>3, <2>2
      <3>2. /\ Instance(K, i).iid = i /\ Instance(K, i).my_ballot = FIRST_BALLOT(p)
            /\ Instance(K, i).status = "p1_pending" /\ Instance(K, i).p2_value = NoValue
        BY <1>2, <1>8, <1>11, <2>2, OpenedType
      <3>. HIDE DEF FIRST_BALLOT
      <3>. QED  BY <1>11, <3>1, <3>2 DEF Holds
    <2>. QED  BY <1>5, <2>1, <2>2
  <1>15. ASSUME NEW s \in ProposerSlots, \A i \in WindowFrom(K, c) : ProposerSlot(i) # s
         PROVE  K.proposer_state[s] = EmptyInstance
    BY <1>5, <1>9, <1>15 DEF Coherent
  <1>16. WindowFrom(K, c) \subseteq Iids
    BY <1>2, <1>5 DEF Coherent
  <1>17. Coherent(K, c)
    BY <1>1, <1>2, <1>3, <1>13, <1>14, <1>15, <1>16 DEF Coherent
  <1>. QED  BY <1>2, <1>3, <1>5, <1>8, <1>10, <1>17 DEF S

-----------------------------------------------------------------------------
(* Phase 2.                                                                 *)

(* leader_open_instances_p2_expired: the instances of the window that came back
   from phase 1 go on to phase 2 with a value. *)
LEMMA P2ExpiredEffect ==
    ASSUME NEW L, NEW c, Coherent(L, c), Fits(L, c), c = L.current_iid,
           NEW K, K = OpenInstancesP2Expired(L)
    PROVE  /\ Coherent(K, c) /\ Fits(K, c) /\ WindowFrom(K, c) = WindowFrom(L, c)
           /\ ExpiredReady(L) = {i \in ReadyFrom(L, c) : i < L.next_unused_iid}
           /\ K.current_iid = L.current_iid /\ K.pending_count = L.pending_count
           /\ K.ready_count = L.ready_count - Cardinality(ExpiredReady(L))
           /\ K.highest_open = L.highest_open
           /\ K.next_unused_iid = L.next_unused_iid /\ K.open_count = L.open_count
           /\ K.pending_list = L.pending_list
           /\ \A i \in ExpiredReady(L) : Instance(K, i) = ExecuteP2(Instance(L, i), NoValue)
           /\ Keeps(L, K, c, ExpiredReady(L))
PROOF
  <1>. DEFINE S == ExpiredReady(L)
  <1>1. L \in LeaderInfo /\ c \in Nat \ {0} /\ c <= L.next_unused_iid
        /\ L.next_unused_iid <= L.highest_open + 1
        /\ L.highest_open \in Nat /\ L.next_unused_iid \in Nat
    BY DEF Coherent, LeaderInfo
  <1>2. /\ S = {i \in ReadyFrom(L, c) : i < L.next_unused_iid}
        /\ S \in SUBSET WindowFrom(L, c)
    BY <1>1 DEF ExpiredReady, ReadyFrom, WindowFrom
  <1>3. /\ K.current_iid = L.current_iid /\ K.pending_count = L.pending_count
        /\ K.ready_count = L.ready_count - Cardinality(S)
        /\ K.highest_open = L.highest_open
        /\ K.next_unused_iid = L.next_unused_iid /\ K.open_count = L.open_count
        /\ K.pending_list = L.pending_list
    BY <1>1 DEF OpenInstancesP2Expired, LeaderInfo
  <1>4. ASSUME NEW i \in S
        PROVE  Instance(K, i) = ExecuteP2(Instance(L, i), NoValue)
    BY <1>1, <1>2, WindowType, ChosenSlot
       DEF OpenInstancesP2Expired, Changed, Instance, LeaderInfo
  <1>5. Keeps(L, K, c, S)
    BY <1>1, <1>2, WindowType, OtherSlots
       DEF OpenInstancesP2Expired, Changed, Instance, LeaderInfo, Keeps
  <1>. HIDE DEF S
  <1>6. ASSUME NEW i \in S
        PROVE  Instance(K, i) \in InstanceInfo /\ Holds(K, i)
    <2>1. Instance(L, i) \in InstanceInfo /\ Holds(L, i) /\ i < L.next_unused_iid
      BY <1>2, WindowType DEF Coherent
    <2>2. Instance(L, i).p1_value \in Values \cup {NoValue}
          /\ Instance(L, i).p2_value # NoValue
      BY <2>1 DEF InstanceInfo, Holds
    <2>3. /\ Instance(K, i) \in InstanceInfo
          /\ Instance(K, i).iid = Instance(L, i).iid
          /\ Instance(K, i).my_ballot = Instance(L, i).my_ballot
          /\ Instance(K, i).status = "p2_pending"
          /\ Instance(K, i).p2_value # NoValue
      BY <1>4, <2>1, <2>2, ExecuteType
    <2>. QED  BY <1>3, <2>1, <2>3 DEF Holds
  <1>7. K \in LeaderInfo
    <2>1. K.proposer_state \in [ProposerSlots -> InstanceInfo]
      BY <1>2, <1>5, <1>6, BufferType
    <2>2. K.ready_count \in Int
      <3>1. IsFiniteSet(S)
        BY <1>2, WindowType, FS_Subset
      <3>. QED  BY <1>1, <1>3, <3>1, FS_CardinalityType DEF LeaderInfo
    <2>3. K = [current_iid |-> K.current_iid, proposer_state |-> K.proposer_state,
               pending_count |-> K.pending_count, ready_count |-> K.ready_count,
               highest_open |-> K.highest_open, next_unused_iid |-> K.next_unused_iid,
               open_count |-> K.open_count, pending_list |-> K.pending_list]
      BY <1>1 DEF OpenInstancesP2Expired, LeaderInfo
    <2>. QED  BY <1>1, <1>3, <2>1, <2>2, <2>3 DEF LeaderInfo
  <1>8. Coherent(K, c) /\ Fits(K, c) /\ WindowFrom(K, c) = WindowFrom(L, c)
    BY <1>1, <1>2, <1>3, <1>5, <1>6, <1>7, CoherentKept
  <1>. QED  BY <1>2, <1>3, <1>4, <1>5, <1>8 DEF S

\* What leader_periodic_p2_check finds closed and what expired.
Settles(L, closed, expired) ==
    /\ closed \subseteq Running(L) /\ expired \subseteq Running(L)
    /\ closed \cap expired = {}
    /\ \A i \in expired : NEXT_BALLOT(Instance(L, i).my_ballot) \in Ballots

\* What the check does.
P2Checked(L, K, c, closed, expired) ==
    /\ Coherent(K, c) /\ Fits(K, c) /\ WindowFrom(K, c) = WindowFrom(L, c)
    /\ closed \cup expired \subseteq WindowFrom(L, c)
    /\ K.current_iid = L.current_iid
    /\ K.pending_count = L.pending_count + Cardinality(expired)
    /\ K.ready_count = L.ready_count /\ K.highest_open = L.highest_open
    /\ K.next_unused_iid = L.next_unused_iid
    /\ K.open_count = L.open_count - Cardinality(closed)
    /\ K.pending_list = L.pending_list
    /\ \A i \in closed : Instance(K, i) = Completed(Instance(L, i))
    /\ \A i \in expired : Instance(K, i) = SentBack(Instance(L, i))
    /\ Keeps(L, K, c, closed \cup expired)

(* leader_periodic_p2_check: what is closed is completed, what is expired goes
   back to phase 1. *)
LEMMA CheckP2Effect ==
    ASSUME NEW L, NEW c, Coherent(L, c), Fits(L, c), c = L.current_iid,
           NEW closed, NEW expired, Settles(L, closed, expired),
           NEW K, K = CheckP2(L, closed, expired)
    PROVE  P2Checked(L, K, c, closed, expired)
PROOF
  <1>. DEFINE S == closed \cup expired
  <1>1. L \in LeaderInfo /\ c \in Nat \ {0} /\ c <= L.next_unused_iid
        /\ L.next_unused_iid <= L.highest_open + 1
        /\ L.highest_open \in Nat /\ L.next_unused_iid \in Nat
    BY DEF Coherent, LeaderInfo
  <1>2. /\ S \in SUBSET WindowFrom(L, c)
        /\ \A i \in S : i < L.next_unused_iid
    BY <1>1 DEF Running, WindowFrom, Settles
  <1>3. /\ K.current_iid = L.current_iid
        /\ K.pending_count = L.pending_count + Cardinality(expired)
        /\ K.ready_count = L.ready_count /\ K.highest_open = L.highest_open
        /\ K.next_unused_iid = L.next_unused_iid
        /\ K.open_count = L.open_count - Cardinality(closed)
        /\ K.pending_list = L.pending_list
    BY <1>1 DEF CheckP2, LeaderInfo
  <1>. DEFINE Settled(i, ii) ==
                  IF i \in closed THEN Completed(ii) ELSE SentBack(ii)
              Chosen(s) == CHOOSE i \in S : ProposerSlot(i) = s
  <1>buf. K.proposer_state =
            [s \in ProposerSlots |->
                IF \E i \in S : ProposerSlot(i) = s
                THEN Settled(Chosen(s), L.proposer_state[s])
                ELSE L.proposer_state[s]]
    BY <1>1 DEF CheckP2, Changed, LeaderInfo, Completed, SentBack
  <1>4. ASSUME NEW i \in S
        PROVE  Instance(K, i) =
                  IF i \in closed
                  THEN Completed(Instance(L, i)) ELSE SentBack(Instance(L, i))
    <2>1. i \in WindowFrom(L, c)
      BY <1>2
    <2>2. ProposerSlot(i) \in ProposerSlots
          /\ Instance(L, i) = L.proposer_state[ProposerSlot(i)]
      BY <2>1, WindowType
    <2>3. Chosen(ProposerSlot(i)) = i
      BY <1>2, ChosenSlot
    <2>4. Instance(K, i) = IF \E j \in S : ProposerSlot(j) = ProposerSlot(i)
                           THEN Settled(i, Instance(L, i)) ELSE Instance(L, i)
      <3>. HIDE DEF Settled
      <3>. QED  BY <1>buf, <2>2, <2>3, Zenon DEF Instance
    <2>. QED  BY <2>4, Zenon
  <1>5. Keeps(L, K, c, S)
    <2>1. K.proposer_state = [s \in ProposerSlots |-> K.proposer_state[s]]
      BY <1>buf
    <2>2. ASSUME NEW s \in ProposerSlots, ~ \E j \in S : ProposerSlot(j) = s
          PROVE  K.proposer_state[s] = L.proposer_state[s]
      <3>. HIDE DEF Settled, Chosen
      <3>. QED  BY <1>buf, <2>2
    <2>. HIDE DEF S
    <2>. QED  BY <1>2, <2>1, <2>2, WindowType, OtherSlots DEF Keeps, Instance
  <1>6. ASSUME NEW i \in S
        PROVE  Instance(K, i) \in InstanceInfo /\ Holds(K, i)
    <2>1. Instance(L, i) \in InstanceInfo /\ Holds(L, i) /\ i < L.next_unused_iid
      BY <1>2, WindowType DEF Coherent
    <2>2. /\ Instance(K, i) \in InstanceInfo
          /\ Instance(K, i).iid = Instance(L, i).iid
          /\ Instance(K, i).my_ballot \in Ballots
          /\ Instance(K, i).status # "empty"
          /\ Instance(K, i).p2_value = Instance(L, i).p2_value
      <3>1. CASE i \in closed
        BY <1>4, <2>1, <3>1, SettledType DEF Holds
      <3>2. CASE i \in expired
        BY <1>4, <2>1, <3>2, SettledType DEF Settles
      <3>. QED  BY <3>1, <3>2
    <2>. QED  BY <1>3, <2>1, <2>2 DEF Holds
  <1>. HIDE DEF S
  <1>7. K \in LeaderInfo
    <2>1. K.proposer_state \in [ProposerSlots -> InstanceInfo]
      BY <1>2, <1>5, <1>6, BufferType
    <2>2. K.pending_count \in Int /\ K.open_count \in Int
      <3>1. closed \in SUBSET WindowFrom(L, c) /\ expired \in SUBSET WindowFrom(L, c)
        BY <1>2 DEF S
      <3>2. IsFiniteSet(closed) /\ IsFiniteSet(expired)
        BY <3>1, WindowType, FS_Subset
      <3>. QED  BY <1>1, <1>3, <3>2, FS_CardinalityType DEF LeaderInfo
    <2>3. K = [current_iid |-> K.current_iid, proposer_state |-> K.proposer_state,
               pending_count |-> K.pending_count, ready_count |-> K.ready_count,
               highest_open |-> K.highest_open, next_unused_iid |-> K.next_unused_iid,
               open_count |-> K.open_count, pending_list |-> K.pending_list]
      BY <1>1 DEF CheckP2, LeaderInfo
    <2>. QED  BY <1>1, <1>3, <2>1, <2>2, <2>3 DEF LeaderInfo
  <1>8. Coherent(K, c) /\ Fits(K, c) /\ WindowFrom(K, c) = WindowFrom(L, c)
    BY <1>1, <1>2, <1>3, <1>5, <1>6, <1>7, CoherentKept
  <1>9. /\ \A i \in closed : Instance(K, i) = Completed(Instance(L, i))
        /\ \A i \in expired : Instance(K, i) = SentBack(Instance(L, i))
    BY <1>4 DEF S, Settles
  <1>10. closed \cup expired \subseteq WindowFrom(L, c)
    BY <1>2 DEF S
  <1>. QED  BY <1>3, <1>5, <1>8, <1>9, <1>10 DEF S, P2Checked

(* leader_open_instances_p2_new starts as many instances as it can, and the count
   kept in open_count stays within one of PROPOSER_P2_CONCURRENCY. *)
LEMMA StartCountType ==
    ASSUME NEW L, L \in LeaderInfo, NEW k, k = StartCount(L)
    PROVE  /\ k \in Nat
           /\ k > 0 => L.open_count >= 0
           /\ \A j \in 0 .. k - 1 : CanStart(L, j)
PROOF
  <1>1. L.open_count \in Int /\ PROPOSER_P2_CONCURRENCY \in Nat
    BY LeaderAssumption DEF LeaderInfo
  <1>2. CASE ManyActive(L)
    <2>1. k = 0
      BY <1>2 DEF StartCount
    <2>. QED  BY <2>1
  <1>3. CASE ~ ManyActive(L)
    <2>1. L.open_count >= 0
      BY <1>1, <1>3 DEF ManyActive
    <2>. DEFINE T == {j \in Nat : ~ CanStart(L, j)}
    <2>2. PROPOSER_P2_CONCURRENCY + 1 \in T
      BY <1>1, <2>1 DEF CanStart
    <2>3. PICK n \in T : \A m \in T : n <= m
      <3>. HIDE DEF T
      <3>1. T \subseteq Nat
        BY DEF T
      <3>. QED  BY <2>2, <3>1, LeastNumber
    <2>4. n \in 0 .. PROPOSER_P2_CONCURRENCY + 1
          /\ (\A j \in 0 .. n - 1 : CanStart(L, j)) /\ ~ CanStart(L, n)
      <3>1. n \in Nat /\ n <= PROPOSER_P2_CONCURRENCY + 1
        BY <2>2, <2>3
      <3>2. ASSUME NEW j \in 0 .. n - 1 PROVE CanStart(L, j)
        <4>1. j \in Nat /\ ~ (n <= j)
          BY <3>1
        <4>. QED  BY <2>3, <4>1
      <3>. QED  BY <1>1, <2>3, <3>1, <3>2
    <2>5. k = CHOOSE n_1 \in 0 .. PROPOSER_P2_CONCURRENCY + 1 :
                 /\ \A j \in 0 .. n_1 - 1 : CanStart(L, j)
                 /\ ~ CanStart(L, n_1)
      BY <1>3 DEF StartCount
    <2>. HIDE DEF CanStart
    <2>6. k \in 0 .. PROPOSER_P2_CONCURRENCY + 1 /\ \A j \in 0 .. k - 1 : CanStart(L, j)
      BY <2>4, <2>5, Zenon
    <2>. QED  BY <1>1, <2>1, <2>6
  <1>. QED  BY <1>2, <1>3

(* The instances started are the next ones, and were ready in their slots. *)
LEMMA StartedAre ==
    ASSUME NEW L, L \in LeaderInfo, NEW k, k = StartCount(L)
    PROVE  /\ Started(L) = L.next_unused_iid .. L.next_unused_iid + k - 1
           /\ Cardinality(Started(L)) = k
           /\ \A i \in Started(L) :
                 /\ i \in Nat
                 /\ Instance(L, i).status = "p1_ready" /\ Instance(L, i).iid = i
PROOF
  <1>. DEFINE n == L.next_unused_iid
  <1>1. n \in Nat
    BY DEF LeaderInfo
  <1>2. k \in Nat /\ \A j \in 0 .. k - 1 : CanStart(L, j)
    BY StartCountType
  <1>. HIDE DEF n
  <1>3. Started(L) = n .. n + k - 1
    <2>1. Started(L) = {n + j : j \in 0 .. k - 1}
      BY DEF Started, n
    <2>2. ASSUME NEW i \in n .. n + k - 1
          PROVE  \E j \in 0 .. k - 1 : i = n + j
      <3>1. i - n \in 0 .. k - 1 /\ i = n + (i - n)
        BY <1>1, <1>2
      <3>. QED  BY <3>1
    <2>3. ASSUME NEW j \in 0 .. k - 1
          PROVE  n + j \in n .. n + k - 1
      BY <1>1, <1>2
    <2>. QED  BY <2>1, <2>2, <2>3
  <1>4. ASSUME NEW i \in Started(L)
        PROVE  i \in Nat /\ Instance(L, i).status = "p1_ready" /\ Instance(L, i).iid = i
    <2>1. i \in n .. n + k - 1
      BY <1>3
    <2>2. i - n \in 0 .. k - 1 /\ n + (i - n) = i /\ i \in Nat
      BY <1>1, <1>2, <2>1
    <2>. QED  BY <1>2, <2>2 DEF CanStart, n
  <1>5. Cardinality(Started(L)) = k
    <2>1. n \in Int /\ n + k - 1 \in Int /\ (n > n + k - 1 <=> k = 0)
          /\ (n + k - 1) - n + 1 = k
      BY <1>1, <1>2
    <2>. QED  BY <1>3, <2>1, FS_Interval
  <1>. QED  BY <1>3, <1>4, <1>5 DEF n

(* In a coherent window they are instances of the window. *)
LEMMA StartedRange ==
    ASSUME NEW L, NEW c, Coherent(L, c), NEW k, k = StartCount(L)
    PROVE  /\ Started(L) = L.next_unused_iid .. L.next_unused_iid + k - 1
           /\ L.next_unused_iid + k <= L.highest_open + 1
           /\ Started(L) \in SUBSET ReadyFrom(L, c)
           /\ Cardinality(Started(L)) = k
           /\ k > 0 => L.open_count + k <= PROPOSER_P2_CONCURRENCY + 1
PROOF
  <1>. DEFINE n == L.next_unused_iid
              h == L.highest_open
  <1>1. L \in LeaderInfo /\ n \in Nat /\ h \in Nat /\ c \in Nat \ {0} /\ c <= n
        /\ L.open_count \in Int /\ PROPOSER_P2_CONCURRENCY \in Nat /\ n <= h + 1
    BY LeaderAssumption DEF Coherent, LeaderInfo
  <1>2. k \in Nat /\ \A j \in 0 .. k - 1 : CanStart(L, j)
    BY <1>1, StartCountType
  <1>3. /\ Started(L) = n .. n + k - 1 /\ Cardinality(Started(L)) = k
        /\ \A i \in Started(L) :
              i \in Nat /\ Instance(L, i).status = "p1_ready" /\ Instance(L, i).iid = i
    BY <1>1, StartedAre
  <1>. HIDE DEF n, h
  <1>4. ASSUME NEW i \in Started(L)
        PROVE  i \in ReadyFrom(L, c) /\ i <= h
    <2>1. i \in Nat /\ Instance(L, i).status = "p1_ready" /\ Instance(L, i).iid = i
      BY <1>3
    <2>2. ProposerSlot(i) \in ProposerSlots
      BY <2>1, SlotType
    <2>3. PICK j \in WindowFrom(L, c) : ProposerSlot(j) = ProposerSlot(i)
      <3>. SUFFICES ASSUME \A j \in WindowFrom(L, c) : ProposerSlot(j) # ProposerSlot(i)
                    PROVE  FALSE
        OBVIOUS
      <3>1. Instance(L, i) = EmptyInstance
        BY <2>2 DEF Coherent, Instance
      <3>. QED  BY <2>1, <3>1 DEF EmptyInstance
    <2>4. Instance(L, i) = Instance(L, j) /\ Instance(L, j).iid = j
      BY <2>3 DEF Instance, Coherent, Holds
    <2>5. i = j
      BY <2>1, <2>4
    <2>. QED  BY <1>1, <2>1, <2>3, <2>5 DEF ReadyFrom, WindowFrom, h
  <1>5. n + k <= h + 1
    <2>1. CASE k = 0
      BY <1>1, <2>1
    <2>2. CASE k > 0
      <3>1. n + k - 1 \in n .. n + k - 1
        BY <1>1, <1>2, <2>2
      <3>2. n + k - 1 <= h
        BY <1>3, <1>4, <3>1
      <3>. QED  BY <1>1, <1>2, <3>2
    <2>. QED  BY <1>2, <2>1, <2>2
  <1>6. ASSUME k > 0
        PROVE  L.open_count + k <= PROPOSER_P2_CONCURRENCY + 1
    <2>1. CanStart(L, k - 1)
      <3>1. k - 1 \in 0 .. k - 1
        BY <1>2, <1>6
      <3>. QED  BY <1>2, <3>1
    <2>2. L.open_count + (k - 1) <= PROPOSER_P2_CONCURRENCY
      BY <2>1 DEF CanStart
    <2>. QED  BY <1>1, <1>2, <2>2
  <1>. QED  BY <1>3, <1>4, <1>5, <1>6 DEF n, h

(* What an instance takes from the pending list if phase 1 found it no value. *)
NextValue(L, i) ==
    IF Instance(L, i).p1_value = NoValue
    THEN L.pending_list[TakenBefore(L, i - L.next_unused_iid) + 1]
    ELSE NoValue

(* There is a value for each instance started, one of the list. *)
LEMMA NextValueFrom ==
    ASSUME NEW L, L \in LeaderInfo, NEW C, L.pending_list \in Seq(C), NEW i \in Started(L)
    PROVE  /\ NextValue(L, i) \in C \cup {NoValue}
           /\ Instance(L, i).p1_value = NoValue => NextValue(L, i) \in C
PROOF
  <1>1. L.next_unused_iid \in Nat
    BY DEF LeaderInfo
  <1>2. StartCount(L) \in Nat /\ \A j \in 0 .. StartCount(L) - 1 : CanStart(L, j)
    BY StartCountType
  <1>3. PICK j \in 0 .. StartCount(L) - 1 : i = L.next_unused_iid + j
    BY DEF Started
  <1>4. j \in Nat /\ i - L.next_unused_iid = j
    BY <1>1, <1>2, <1>3
  <1>5. ASSUME Instance(L, i).p1_value = NoValue
        PROVE  NextValue(L, i) \in C
    <2>1. TakenBefore(L, j) < Len(L.pending_list)
      BY <1>2, <1>3, <1>5 DEF CanStart, NoValueFound
    <2>2. TakenBefore(L, j) \in Nat
      <3>1. {n \in 0 .. j - 1 : NoValueFound(L, n)} \in SUBSET (0 .. j - 1)
        OBVIOUS
      <3>2. IsFiniteSet(0 .. j - 1)
        BY <1>4, FS_Interval
      <3>3. IsFiniteSet({n \in 0 .. j - 1 : NoValueFound(L, n)})
        BY <3>1, <3>2, FS_Subset
      <3>. QED  BY <3>3, FS_CardinalityType DEF TakenBefore
    <2>3. TakenBefore(L, j) + 1 \in 1 .. Len(L.pending_list)
      BY <2>1, <2>2
    <2>4. NextValue(L, i) = L.pending_list[TakenBefore(L, j) + 1]
      BY <1>4, <1>5 DEF NextValue
    <2>. HIDE DEF TakenBefore
    <2>. QED  BY <2>3, <2>4
  <1>. QED  BY <1>5 DEF NextValue

LEMMA NextValueType ==
    ASSUME NEW L, NEW c, Coherent(L, c), NEW i \in Started(L)
    PROVE  /\ NextValue(L, i) \in Values \cup {NoValue}
           /\ Instance(L, i).p1_value = NoValue => NextValue(L, i) \in Values
PROOF
  <1>1. L \in LeaderInfo /\ L.pending_list \in Seq(Values)
    BY DEF Coherent, LeaderInfo
  <1>. QED  BY <1>1, NextValueFrom

(* leader_open_instances_p2_new *)
LEMMA P2NewEffect ==
    ASSUME NEW L, NEW c, Coherent(L, c), Fits(L, c),
           NEW K, K = OpenInstancesP2New(L), NEW k, k = StartCount(L)
    PROVE  /\ Coherent(K, c) /\ Fits(K, c) /\ WindowFrom(K, c) = WindowFrom(L, c)
           /\ K.current_iid = L.current_iid /\ K.pending_count = L.pending_count
           /\ K.ready_count = L.ready_count - k /\ K.highest_open = L.highest_open
           /\ K.next_unused_iid = L.next_unused_iid + k
           /\ K.open_count = L.open_count + k
           /\ K.pending_list = SubSeq(L.pending_list, TakenBefore(L, k) + 1,
                                      Len(L.pending_list))
           /\ \A i \in Started(L) :
                 Instance(K, i) = ExecuteP2(Instance(L, i), NextValue(L, i))
           /\ Keeps(L, K, c, Started(L))
PROOF
  <1>. DEFINE S == Started(L)
              Chosen(s) == CHOOSE i \in S : ProposerSlot(i) = s
              Executed(i, ii) ==
                  ExecuteP2(ii, IF ii.p1_value = NoValue
                                THEN L.pending_list[TakenBefore(L, i - L.next_unused_iid) + 1]
                                ELSE NoValue)
  <1>1. L \in LeaderInfo /\ c \in Nat \ {0} /\ c <= L.next_unused_iid
        /\ L.next_unused_iid <= L.highest_open + 1
        /\ L.highest_open \in Nat /\ L.next_unused_iid \in Nat
        /\ L.ready_count \in Int /\ L.open_count \in Int
        /\ L.pending_list \in Seq(Values)
    BY DEF Coherent, LeaderInfo
  <1>2. /\ S = L.next_unused_iid .. L.next_unused_iid + k - 1
        /\ L.next_unused_iid + k <= L.highest_open + 1
        /\ S \in SUBSET WindowFrom(L, c)
        /\ k \in Nat
    BY <1>1, StartedRange, StartCountType DEF ReadyFrom
  <1>3. /\ K.current_iid = L.current_iid /\ K.pending_count = L.pending_count
        /\ K.ready_count = L.ready_count - k /\ K.highest_open = L.highest_open
        /\ K.next_unused_iid = L.next_unused_iid + k
        /\ K.open_count = L.open_count + k
        /\ K.pending_list = SubSeq(L.pending_list, TakenBefore(L, k) + 1,
                                   Len(L.pending_list))
    BY <1>1 DEF OpenInstancesP2New, LeaderInfo
  <1>4. K.proposer_state =
            [s \in ProposerSlots |->
                IF \E i \in S : ProposerSlot(i) = s
                THEN Executed(Chosen(s), L.proposer_state[s])
                ELSE L.proposer_state[s]]
    BY <1>1 DEF OpenInstancesP2New, Changed, LeaderInfo
  <1>5. ASSUME NEW i \in S
        PROVE  Instance(K, i) = ExecuteP2(Instance(L, i), NextValue(L, i))
    <2>1. i \in WindowFrom(L, c)
      BY <1>2
    <2>2. ProposerSlot(i) \in ProposerSlots
          /\ Instance(L, i) = L.proposer_state[ProposerSlot(i)]
      BY <2>1, WindowType
    <2>3. Chosen(ProposerSlot(i)) = i
      BY <1>2, ChosenSlot
    <2>4. Instance(K, i) = IF \E j \in S : ProposerSlot(j) = ProposerSlot(i)
                           THEN Executed(i, Instance(L, i)) ELSE Instance(L, i)
      <3>. HIDE DEF Executed
      <3>. QED  BY <1>4, <2>2, <2>3, Zenon DEF Instance
    <2>5. Instance(K, i) = Executed(i, Instance(L, i))
      <3>. HIDE DEF Executed
      <3>. QED  BY <2>4
    <2>. QED  BY <2>5, Zenon DEF NextValue
  <1>6. Keeps(L, K, c, S)
    <2>1. K.proposer_state = [s \in ProposerSlots |-> K.proposer_state[s]]
      BY <1>4
    <2>2. ASSUME NEW s \in ProposerSlots, ~ \E j \in S : ProposerSlot(j) = s
          PROVE  K.proposer_state[s] = L.proposer_state[s]
      <3>. HIDE DEF Executed, Chosen
      <3>. QED  BY <1>4, <2>2
    <2>3. S \in SUBSET WindowFrom(L, c)
      BY <1>2
    <2>. HIDE DEF S
    <2>. QED  BY <2>1, <2>2, <2>3, WindowType, OtherSlots DEF Keeps, Instance
  <1>7. ASSUME NEW i \in S
        PROVE  Instance(K, i) \in InstanceInfo /\ Holds(K, i)
    <2>1. Instance(L, i) \in InstanceInfo /\ Holds(L, i) /\ i \in WindowFrom(L, c)
      BY <1>2, WindowType DEF Coherent
    <2>2. NextValue(L, i) \in Values \cup {NoValue}
          /\ (Instance(L, i).p1_value = NoValue => NextValue(L, i) \in Values)
      BY NextValueType
    <2>3. /\ Instance(K, i) \in InstanceInfo
          /\ Instance(K, i).iid = Instance(L, i).iid
          /\ Instance(K, i).my_ballot = Instance(L, i).my_ballot
          /\ Instance(K, i).status = "p2_pending"
          /\ Instance(K, i).p2_value # NoValue
      BY <1>5, <2>1, <2>2, ExecuteType, MessagesAssumption
    <2>4. i < K.next_unused_iid
      BY <1>1, <1>2, <1>3
    <2>. QED  BY <2>1, <2>3, <2>4 DEF Holds
  <1>. HIDE DEF S
  <1>8. K \in LeaderInfo
    <2>1. K.proposer_state \in [ProposerSlots -> InstanceInfo]
      BY <1>2, <1>6, <1>7, BufferType
    <2>2. K.ready_count \in Int /\ K.open_count \in Int /\ K.next_unused_iid \in Nat
      <3>1. /\ k \in Nat /\ K.ready_count = L.ready_count - k
            /\ K.open_count = L.open_count + k /\ K.next_unused_iid = L.next_unused_iid + k
            /\ L.ready_count \in Int /\ L.open_count \in Int /\ L.next_unused_iid \in Nat
        BY <1>1, <1>2, <1>3
      <3>. QED  BY ONLY <3>1
    <2>3. K.pending_list \in Seq(Values)
      <3>1. TakenBefore(L, k) \in Nat
        <4>1. {n \in 0 .. k - 1 : NoValueFound(L, n)} \in SUBSET (0 .. k - 1)
          OBVIOUS
        <4>2. IsFiniteSet(0 .. k - 1)
          BY <1>2, FS_Interval
        <4>3. IsFiniteSet({n \in 0 .. k - 1 : NoValueFound(L, n)})
          BY <4>1, <4>2, FS_Subset
        <4>. QED  BY <4>3, FS_CardinalityType DEF TakenBefore
      <3>. QED  BY <1>1, <1>3, <3>1
    <2>4. K = [current_iid |-> K.current_iid, proposer_state |-> K.proposer_state,
               pending_count |-> K.pending_count, ready_count |-> K.ready_count,
               highest_open |-> K.highest_open, next_unused_iid |-> K.next_unused_iid,
               open_count |-> K.open_count, pending_list |-> K.pending_list]
      BY <1>1 DEF OpenInstancesP2New, LeaderInfo
    <2>. QED  BY <1>1, <1>3, <2>1, <2>2, <2>3, <2>4 DEF LeaderInfo
  <1>9. ASSUME NEW i \in WindowFrom(L, c) \ S
        PROVE  i < K.next_unused_iid <=> i < L.next_unused_iid
    <2>1. i \in Nat
      BY WindowType
    <2>2. ~ (i \in L.next_unused_iid .. L.next_unused_iid + k - 1)
      BY <1>2
    <2>. QED  BY <1>1, <1>2, <1>3, <2>1, <2>2
  <1>10. Coherent(K, c) /\ Fits(K, c) /\ WindowFrom(K, c) = WindowFrom(L, c)
    <2>1. c <= K.next_unused_iid /\ K.next_unused_iid <= L.highest_open + 1
          /\ K.highest_open = L.highest_open
      BY <1>1, <1>2, <1>3
    <2>. QED  BY <1>2, <1>6, <1>7, <1>8, <1>9, <2>1, CoherentKept
  <1>. QED  BY <1>3, <1>5, <1>6, <1>10 DEF S

-----------------------------------------------------------------------------
(* Promises.                                                                *)

\* The elements of a batch are for different slots.
Apart(reqs) ==
    \A x, y \in reqs : ProposerSlot(x.iid) = ProposerSlot(y.iid) => x = y

\* The instances of the window that a batch of promises reaches, be it by a late
\* promise for an instance that was in the slot before, and the promise for each.
Promised(L, c, acks) ==
    {i \in WindowFrom(L, c) :
        \E pa \in AcceptedPromises(L, acks) : ProposerSlot(pa.iid) = ProposerSlot(i)}

PromiseFor(L, acks, i) ==
    CHOOSE pa \in AcceptedPromises(L, acks) : ProposerSlot(pa.iid) = ProposerSlot(i)

\* Those a batch makes ready.
BecomesReady(L, c, acks) ==
    {i \in Promised(L, c, acks) :
        HandlePrepareAck(Instance(L, i), PromiseFor(L, acks, i)).status = "p1_ready"}

(* A promise that is accepted is for a pending instance of the window. *)
LEMMA PromisedInstance ==
    ASSUME NEW L, NEW c, Coherent(L, c), Fits(L, c),
           NEW acks \in SUBSET PrepareAck, Apart(acks)
    PROVE  /\ \A pa \in AcceptedPromises(L, acks) :
                 /\ pa \in PrepareAck /\ ProposerSlot(pa.iid) \in ProposerSlots
                 /\ \E i \in Promised(L, c, acks) :
                       ProposerSlot(i) = ProposerSlot(pa.iid)
           /\ \A i \in Promised(L, c, acks) :
                 /\ i \in PendingFrom(L, c)
                 /\ PromiseFor(L, acks, i) \in AcceptedPromises(L, acks)
                 /\ ProposerSlot(PromiseFor(L, acks, i).iid) = ProposerSlot(i)
                 /\ \A pa \in AcceptedPromises(L, acks) :
                       ProposerSlot(pa.iid) = ProposerSlot(i) =>
                           pa = PromiseFor(L, acks, i)
PROOF
  <1>1. ASSUME NEW pa \in AcceptedPromises(L, acks)
        PROVE  /\ pa \in PrepareAck /\ ProposerSlot(pa.iid) \in ProposerSlots
               /\ Instance(L, pa.iid).status = "p1_pending"
               /\ pa \in acks
               /\ \E i \in Promised(L, c, acks) :
                     ProposerSlot(i) = ProposerSlot(pa.iid)
    <2>1. pa \in acks /\ pa \in PrepareAck /\ Instance(L, pa.iid).status = "p1_pending"
      BY DEF AcceptedPromises, AcceptsPromise
    <2>2. ProposerSlot(pa.iid) \in ProposerSlots
      <3>1. pa.iid \in Nat
        BY <2>1, MessagesAssumption DEF PrepareAck
      <3>. QED  BY <3>1, SlotType
    <2>3. PICK i \in WindowFrom(L, c) : ProposerSlot(i) = ProposerSlot(pa.iid)
      <3>. SUFFICES ASSUME \A i \in WindowFrom(L, c) : ProposerSlot(i) # ProposerSlot(pa.iid)
                    PROVE  FALSE
        OBVIOUS
      <3>1. Instance(L, pa.iid) = EmptyInstance
        BY <2>2 DEF Coherent, Instance
      <3>. QED  BY <2>1, <3>1 DEF EmptyInstance
    <2>. QED  BY <2>1, <2>2, <2>3 DEF Promised
  <1>2. ASSUME NEW i \in Promised(L, c, acks)
        PROVE  /\ i \in PendingFrom(L, c)
               /\ PromiseFor(L, acks, i) \in AcceptedPromises(L, acks)
               /\ ProposerSlot(PromiseFor(L, acks, i).iid) = ProposerSlot(i)
               /\ \A pa \in AcceptedPromises(L, acks) :
                     ProposerSlot(pa.iid) = ProposerSlot(i) =>
                         pa = PromiseFor(L, acks, i)
    <2>1. i \in WindowFrom(L, c)
          /\ \E pa \in AcceptedPromises(L, acks) : ProposerSlot(pa.iid) = ProposerSlot(i)
      BY DEF Promised
    <2>2. PromiseFor(L, acks, i) \in AcceptedPromises(L, acks)
          /\ ProposerSlot(PromiseFor(L, acks, i).iid) = ProposerSlot(i)
      BY <2>1 DEF PromiseFor
    <2>3. Instance(L, i).status = "p1_pending"
      BY <1>1, <2>2 DEF Instance
    <2>. QED  BY <1>1, <2>1, <2>2, <2>3 DEF PendingFrom, Apart
  <1>. QED  BY <1>1, <1>2

(* The counts of handle_prepare_ack_batch go by promises; they are as many as the
   instances that become ready. *)
LEMMA MadeReadyCount ==
    ASSUME NEW L, NEW c, Coherent(L, c), Fits(L, c),
           NEW acks \in SUBSET PrepareAck, Apart(acks)
    PROVE  Cardinality(MadeReady(L, acks)) = Cardinality(BecomesReady(L, c, acks))
PROOF
  <1>. DEFINE M == MadeReady(L, acks)
              B == BecomesReady(L, c, acks)
              f == [i \in B |-> PromiseFor(L, acks, i)]
  <1>1. ASSUME NEW i \in B
        PROVE  /\ i \in Promised(L, c, acks) /\ i \in WindowFrom(L, c)
               /\ PromiseFor(L, acks, i) \in M
    <2>1. i \in Promised(L, c, acks)
          /\ HandlePrepareAck(Instance(L, i), PromiseFor(L, acks, i)).status = "p1_ready"
      BY DEF BecomesReady
    <2>2. Instance(L, PromiseFor(L, acks, i).iid) = Instance(L, i)
      BY <2>1, PromisedInstance DEF Instance
    <2>. QED  BY <2>1, <2>2, PromisedInstance DEF MadeReady, Promised
  <1>2. ASSUME NEW pa \in M
        PROVE  \E i \in B : PromiseFor(L, acks, i) = pa
    <2>1. pa \in AcceptedPromises(L, acks)
          /\ HandlePrepareAck(Instance(L, pa.iid), pa).status = "p1_ready"
      BY DEF MadeReady
    <2>2. PICK i \in Promised(L, c, acks) : ProposerSlot(i) = ProposerSlot(pa.iid)
      BY <2>1, PromisedInstance
    <2>3. pa = PromiseFor(L, acks, i) /\ Instance(L, pa.iid) = Instance(L, i)
      BY <2>1, <2>2, PromisedInstance DEF Instance
    <2>. QED  BY <2>1, <2>2, <2>3 DEF BecomesReady
  <1>3. ASSUME NEW i \in B, NEW j \in B, PromiseFor(L, acks, i) = PromiseFor(L, acks, j)
        PROVE  i = j
    <2>1. ProposerSlot(i) = ProposerSlot(j)
      BY <1>1, <1>3, PromisedInstance
    <2>2. L.highest_open \in Nat /\ c \in Nat /\ L.highest_open < c + PROPOSER_ARRAY_SIZE
          /\ i \in c .. L.highest_open /\ j \in c .. L.highest_open
      BY <1>1, WindowType DEF Fits, WindowFrom
    <2>. QED  BY <2>1, <2>2, SlotInjective
  <1>4. IsFiniteSet(B)
    <2>1. B \in SUBSET WindowFrom(L, c)
      BY <1>1
    <2>. QED  BY <2>1, WindowType, FS_Subset
  <1>. HIDE DEF M, B
  <1>5. f \in Bijection(B, M)
    BY <1>1, <1>2, <1>3 DEF Bijection, Injection, Surjection, IsInjective
  <1>6. ExistsBijection(B, M)
    BY <1>5 DEF ExistsBijection
  <1>. QED  BY <1>4, <1>6, FS_Bijection DEF M, B

(* handle_prepare_ack_batch, up to its calls of phase 2. *)
LEMMA PromisesEffect ==
    ASSUME NEW L, NEW c, Coherent(L, c), Fits(L, c),
           NEW acks \in SUBSET PrepareAck, Apart(acks),
           NEW K, K = AfterPromises(L, acks)
    PROVE  /\ Coherent(K, c) /\ Fits(K, c) /\ WindowFrom(K, c) = WindowFrom(L, c)
           /\ K.current_iid = L.current_iid
           /\ K.pending_count = L.pending_count - Cardinality(BecomesReady(L, c, acks))
           /\ K.ready_count = L.ready_count + Cardinality(BecomesReady(L, c, acks))
           /\ K.highest_open = L.highest_open
           /\ K.next_unused_iid = L.next_unused_iid /\ K.open_count = L.open_count
           /\ K.pending_list = L.pending_list
           /\ \A i \in Promised(L, c, acks) :
                 Instance(K, i) = HandlePrepareAck(Instance(L, i), PromiseFor(L, acks, i))
           /\ Keeps(L, K, c, Promised(L, c, acks))
PROOF
  <1>. DEFINE acc == AcceptedPromises(L, acks)
              S == Promised(L, c, acks)
              R == {pa.iid : pa \in acc}
              Chosen(s) == CHOOSE i \in R : ProposerSlot(i) = s
              Saved(i, ii) == HandlePrepareAck(ii, CHOOSE pa \in acc : pa.iid = i)
  <1>1. L \in LeaderInfo /\ c \in Nat \ {0} /\ c <= L.next_unused_iid
        /\ L.next_unused_iid <= L.highest_open + 1
        /\ L.highest_open \in Nat /\ L.next_unused_iid \in Nat
        /\ L.ready_count \in Int /\ L.pending_count \in Int
    BY DEF Coherent, LeaderInfo
  <1>2. S \in SUBSET WindowFrom(L, c)
    BY DEF Promised
  <1>3. /\ K.current_iid = L.current_iid
        /\ K.pending_count = L.pending_count - Cardinality(BecomesReady(L, c, acks))
        /\ K.ready_count = L.ready_count + Cardinality(BecomesReady(L, c, acks))
        /\ K.highest_open = L.highest_open
        /\ K.next_unused_iid = L.next_unused_iid /\ K.open_count = L.open_count
        /\ K.pending_list = L.pending_list
    <2>1. /\ K.pending_count = L.pending_count - Cardinality(MadeReady(L, acks))
          /\ K.ready_count = L.ready_count + Cardinality(MadeReady(L, acks))
      BY <1>1 DEF AfterPromises, LeaderInfo
    <2>2. /\ K.current_iid = L.current_iid
          /\ K.highest_open = L.highest_open
          /\ K.next_unused_iid = L.next_unused_iid /\ K.open_count = L.open_count
          /\ K.pending_list = L.pending_list
      BY <1>1 DEF AfterPromises, LeaderInfo
    <2>. QED  BY <2>1, <2>2, MadeReadyCount
  <1>4. K.proposer_state =
            [s \in ProposerSlots |->
                IF \E i \in R : ProposerSlot(i) = s
                THEN Saved(Chosen(s), L.proposer_state[s])
                ELSE L.proposer_state[s]]
    BY <1>1 DEF AfterPromises, Changed, LeaderInfo
  <1>5. ASSUME NEW i \in S
        PROVE  Instance(K, i) = HandlePrepareAck(Instance(L, i), PromiseFor(L, acks, i))
    <2>. DEFINE pa == PromiseFor(L, acks, i)
                s == ProposerSlot(i)
    <2>1. pa \in acc /\ ProposerSlot(pa.iid) = s
          /\ \A x \in acc : ProposerSlot(x.iid) = s => x = pa
      BY PromisedInstance
    <2>2. s \in ProposerSlots /\ Instance(L, i) = L.proposer_state[s]
      BY <1>2, WindowType
    <2>. HIDE DEF pa, s, acc
    <2>3. Chosen(s) = pa.iid
      BY <2>1
    <2>4. (CHOOSE x \in acc : x.iid = pa.iid) = pa
      BY <2>1
    <2>5. Instance(K, i) = Saved(pa.iid, Instance(L, i))
      <3>1. \E j \in R : ProposerSlot(j) = s
        BY <2>1
      <3>2. Instance(K, i) = K.proposer_state[s]
        BY DEF Instance, s
      <3>. HIDE DEF Saved, Chosen
      <3>. QED  BY <1>4, <2>2, <2>3, <3>1, <3>2
    <2>. QED  BY <2>4, <2>5 DEF pa
  <1>6. Keeps(L, K, c, S)
    <2>1. K.proposer_state = [s \in ProposerSlots |-> K.proposer_state[s]]
      BY <1>4
    <2>2. ASSUME NEW s \in ProposerSlots, \A i \in S : ProposerSlot(i) # s
          PROVE  K.proposer_state[s] = L.proposer_state[s]
      <3>1. ~ \E i \in R : ProposerSlot(i) = s
        BY <2>2, PromisedInstance
      <3>. HIDE DEF Saved, Chosen, R
      <3>. QED  BY <1>4, <3>1
    <2>. HIDE DEF S
    <2>3. ASSUME NEW i \in WindowFrom(L, c) \ S
          PROVE  Instance(K, i) = Instance(L, i)
      <3>1. \A j \in S : ProposerSlot(j) # ProposerSlot(i)
        BY <1>2, OtherSlots
      <3>. QED  BY <2>2, <3>1, WindowType DEF Instance
    <2>4. ASSUME NEW s \in ProposerSlots, \A i \in WindowFrom(L, c) : ProposerSlot(i) # s
          PROVE  K.proposer_state[s] = L.proposer_state[s]
      BY <1>2, <2>2, <2>4
    <2>. QED  BY <2>1, <2>3, <2>4 DEF Keeps
  <1>7. ASSUME NEW i \in S
        PROVE  Instance(K, i) \in InstanceInfo /\ Holds(K, i)
    <2>1. Instance(L, i) \in InstanceInfo /\ Holds(L, i)
          /\ Instance(L, i).status = "p1_pending"
          /\ PromiseFor(L, acks, i) \in PrepareAck
      BY <1>2, WindowType, PromisedInstance DEF Coherent, PendingFrom
    <2>2. /\ Instance(K, i) \in InstanceInfo
          /\ Instance(K, i).iid = Instance(L, i).iid
          /\ Instance(K, i).my_ballot = Instance(L, i).my_ballot
          /\ Instance(K, i).status \in {"p1_pending", "p1_ready"}
          /\ Instance(K, i).p2_value = Instance(L, i).p2_value
      BY <1>5, <2>1, PromiseType
    <2>. QED  BY <1>3, <2>1, <2>2 DEF Holds
  <1>. HIDE DEF S
  <1>8. K \in LeaderInfo
    <2>1. K.proposer_state \in [ProposerSlots -> InstanceInfo]
      BY <1>2, <1>6, <1>7, BufferType
    <2>2. K.ready_count \in Int /\ K.pending_count \in Int
      <3>1. BecomesReady(L, c, acks) \in SUBSET WindowFrom(L, c)
        BY <1>2 DEF BecomesReady, S
      <3>2. Cardinality(BecomesReady(L, c, acks)) \in Nat
        BY <3>1, WindowType, FS_Subset, FS_CardinalityType
      <3>. QED  BY <1>1, <1>3, <3>2
    <2>3. K = [current_iid |-> K.current_iid, proposer_state |-> K.proposer_state,
               pending_count |-> K.pending_count, ready_count |-> K.ready_count,
               highest_open |-> K.highest_open, next_unused_iid |-> K.next_unused_iid,
               open_count |-> K.open_count, pending_list |-> K.pending_list]
      BY <1>1 DEF AfterPromises, LeaderInfo
    <2>. QED  BY <1>1, <1>3, <2>1, <2>2, <2>3 DEF LeaderInfo
  <1>9. Coherent(K, c) /\ Fits(K, c) /\ WindowFrom(K, c) = WindowFrom(L, c)
    BY <1>1, <1>2, <1>3, <1>6, <1>7, <1>8, CoherentKept
  <1>. QED  BY <1>3, <1>5, <1>6, <1>9 DEF S

-----------------------------------------------------------------------------
(* Delivery.                                                                *)

\* What closing the first instance of the window does.
ClosesFirst(L, K, c, v) ==
    /\ Coherent(K, c + 1) /\ Fits(K, c + 1)
    /\ c \in WindowFrom(L, c)
    /\ WindowFrom(K, c + 1) = WindowFrom(L, c) \ {c}
    /\ K.current_iid = L.current_iid
    /\ K.pending_count = IF Instance(L, c).status = "p1_pending"
                         THEN L.pending_count - 1 ELSE L.pending_count
    /\ K.ready_count = L.ready_count /\ K.highest_open = L.highest_open
    /\ K.next_unused_iid = IF L.next_unused_iid = c THEN c + 1 ELSE L.next_unused_iid
    /\ K.open_count = IF OpenedByMe(Instance(L, c))
                      THEN L.open_count - 1 ELSE L.open_count
    /\ K.pending_list = IF Instance(L, c).p2_value \notin {NoValue, v}
                        THEN <<Instance(L, c).p2_value>> \o L.pending_list
                        ELSE L.pending_list
    /\ \A i \in WindowFrom(L, c) \ {c} : Instance(K, i) = Instance(L, i)

(* leader_deliver, up to its call of leader_open_instances_p2_new: the window
   starts at the next instance. *)
LEMMA CloseEffect ==
    ASSUME NEW L, NEW c, Coherent(L, c), Fits(L, c), c <= L.highest_open, NEW v,
           NEW K, K = CloseInstance(L, c, v)
    PROVE  ClosesFirst(L, K, c, v)
PROOF
  <1>1. L \in LeaderInfo /\ c \in Nat \ {0} /\ c <= L.next_unused_iid
        /\ L.next_unused_iid <= L.highest_open + 1
        /\ L.highest_open \in Nat /\ L.next_unused_iid \in Nat
        /\ L.open_count \in Int /\ L.pending_count \in Int
        /\ L.pending_list \in Seq(Values)
    BY DEF Coherent, LeaderInfo
  <1>2. c \in WindowFrom(L, c) /\ {c} \in SUBSET WindowFrom(L, c)
        /\ Instance(L, c) \in InstanceInfo
    <2>1. c \in WindowFrom(L, c)
      BY <1>1 DEF WindowFrom
    <2>. QED  BY <2>1, WindowType
  <1>3. /\ K.current_iid = L.current_iid
        /\ K.pending_count = IF Instance(L, c).status = "p1_pending"
                             THEN L.pending_count - 1 ELSE L.pending_count
        /\ K.ready_count = L.ready_count /\ K.highest_open = L.highest_open
        /\ K.next_unused_iid = IF L.next_unused_iid = c THEN c + 1 ELSE L.next_unused_iid
        /\ K.open_count = IF OpenedByMe(Instance(L, c))
                          THEN L.open_count - 1 ELSE L.open_count
        /\ K.pending_list = IF Instance(L, c).p2_value \notin {NoValue, v}
                            THEN <<Instance(L, c).p2_value>> \o L.pending_list
                            ELSE L.pending_list
    <2>. HIDE DEF OpenedByMe, Instance
    <2>. QED  BY <1>1 DEF CloseInstance, LeaderInfo
  <1>4. WindowFrom(K, c + 1) = WindowFrom(L, c) \ {c} /\ Fits(K, c + 1)
    BY <1>1, <1>3, LeaderAssumption DEF WindowFrom, Fits
  <1>5. K.proposer_state =
            [s \in ProposerSlots |->
                IF \E i \in {c} : ProposerSlot(i) = s THEN EmptyInstance
                ELSE L.proposer_state[s]]
    BY <1>1 DEF CloseInstance, Changed, LeaderInfo
  <1>6. \A i \in WindowFrom(L, c) \ {c} : Instance(K, i) = Instance(L, i)
    <2>1. ASSUME NEW i \in WindowFrom(L, c) \ {c}
          PROVE  Instance(K, i) = Instance(L, i)
      <3>1. ~ \E j \in {c} : ProposerSlot(j) = ProposerSlot(i)
        <4>. DEFINE S == {c}
        <4>1. S \in SUBSET WindowFrom(L, c) /\ i \in WindowFrom(L, c) \ S
          BY <1>2
        <4>. HIDE DEF S
        <4>2. ~ \E j \in S : ProposerSlot(j) = ProposerSlot(i)
          BY <4>1, OtherSlots
        <4>. QED  BY <4>2 DEF S
      <3>. QED  BY <1>5, <3>1, WindowType DEF Instance
    <2>. QED  BY <2>1
  <1>7. K \in LeaderInfo
    <2>1. K.proposer_state \in [ProposerSlots -> InstanceInfo]
      <3>. HIDE DEF ProposerSlot
      <3>. QED  BY <1>1, <1>5, EmptyType DEF LeaderInfo
    <2>2. K.pending_count \in Int /\ K.open_count \in Int /\ K.next_unused_iid \in Nat
      BY <1>1, <1>3
    <2>3. K.pending_list \in Seq(Values)
      <3>1. CASE Instance(L, c).p2_value \notin {NoValue, v}
        <4>1. Instance(L, c).p2_value \in Values
          BY <1>2, <3>1 DEF InstanceInfo
        <4>. HIDE DEF Instance
        <4>. QED  BY <1>1, <1>3, <3>1, <4>1
      <3>2. CASE ~ (Instance(L, c).p2_value \notin {NoValue, v})
        BY <1>1, <1>3, <3>2
      <3>. QED  BY <3>1, <3>2
    <2>4. K = [current_iid |-> K.current_iid, proposer_state |-> K.proposer_state,
               pending_count |-> K.pending_count, ready_count |-> K.ready_count,
               highest_open |-> K.highest_open, next_unused_iid |-> K.next_unused_iid,
               open_count |-> K.open_count, pending_list |-> K.pending_list]
      <3>. HIDE DEF OpenedByMe, Instance
      <3>. QED  BY <1>1 DEF CloseInstance, LeaderInfo
    <2>5. K.ready_count \in Int /\ K.current_iid \in Nat \ {0} /\ K.highest_open \in Nat
      BY <1>1, <1>3 DEF LeaderInfo
    <2>. QED  BY <2>1, <2>2, <2>3, <2>4, <2>5 DEF LeaderInfo
  <1>8. ASSUME NEW i \in WindowFrom(K, c + 1)
        PROVE  Holds(K, i)
    <2>1. i \in WindowFrom(L, c) \ {c} /\ Holds(L, i) /\ Instance(K, i) = Instance(L, i)
      BY <1>4, <1>6 DEF Coherent
    <2>2. i \in Nat /\ c < i
      BY <1>1, <2>1, WindowType
    <2>3. i < K.next_unused_iid <=> i < L.next_unused_iid
      BY <1>1, <1>3, <2>2
    <2>. QED  BY <2>1, <2>3 DEF Holds
  <1>9. ASSUME NEW s \in ProposerSlots,
               \A i \in WindowFrom(K, c + 1) : ProposerSlot(i) # s
        PROVE  K.proposer_state[s] = EmptyInstance
    <2>1. CASE ProposerSlot(c) = s
      BY <1>5, <2>1
    <2>2. CASE ProposerSlot(c) # s
      BY <1>4, <1>5, <1>9, <2>2 DEF Coherent
    <2>. QED  BY <2>1, <2>2
  <1>10. c + 1 \in Nat \ {0} /\ c + 1 <= K.next_unused_iid
         /\ K.next_unused_iid <= K.highest_open + 1
         /\ WindowFrom(K, c + 1) \subseteq Iids
    BY <1>1, <1>3, <1>4 DEF Coherent
  <1>11. Coherent(K, c + 1)
    BY <1>7, <1>8, <1>9, <1>10 DEF Coherent
  <1>. QED  BY <1>2, <1>3, <1>4, <1>6, <1>11 DEF ClosesFirst

\* What moving current_iid on does.
MovesOn(L, K, c) ==
    /\ Coherent(K, c) /\ WindowFrom(K, c) = WindowFrom(L, c)
    /\ Fits(L, c) => Fits(K, c)
    /\ K.current_iid = c
    /\ K.pending_count = L.pending_count /\ K.ready_count = L.ready_count
    /\ K.highest_open = L.highest_open
    /\ K.next_unused_iid = L.next_unused_iid /\ K.open_count = L.open_count
    /\ K.pending_list = L.pending_list
    /\ K.proposer_state = L.proposer_state
    /\ \A i : Instance(K, i) = Instance(L, i)

(* Neither the window nor what is counted depends on current_iid itself. *)
LEMMA MovedOn ==
    ASSUME NEW L, NEW c, Coherent(L, c), NEW K, K = [L EXCEPT !.current_iid = c]
    PROVE  MovesOn(L, K, c)
PROOF
  <1>1. L \in LeaderInfo /\ c \in Nat \ {0}
    BY DEF Coherent
  <1>2. /\ K \in LeaderInfo /\ K.current_iid = c
        /\ K.pending_count = L.pending_count /\ K.ready_count = L.ready_count
        /\ K.highest_open = L.highest_open
        /\ K.next_unused_iid = L.next_unused_iid /\ K.open_count = L.open_count
        /\ K.pending_list = L.pending_list
        /\ K.proposer_state = L.proposer_state
    BY <1>1 DEF LeaderInfo
  <1>3. \A i : Instance(K, i) = Instance(L, i)
    BY <1>2 DEF Instance
  <1>4. WindowFrom(K, c) = WindowFrom(L, c) /\ (Fits(L, c) => Fits(K, c))
    BY <1>2 DEF WindowFrom, Fits
  <1>5. \A i : Holds(L, i) => Holds(K, i)
    BY <1>2, <1>3 DEF Holds
  <1>6. Coherent(K, c)
    BY <1>2, <1>4, <1>5 DEF Coherent
  <1>. QED  BY <1>2, <1>3, <1>4, <1>6 DEF MovesOn

-----------------------------------------------------------------------------
(* Counting.                                                                *)

(* Taking elements out of a finite set, and putting new ones in. *)
LEMMA CountOut ==
    ASSUME NEW T, IsFiniteSet(T), NEW S \in SUBSET T
    PROVE  /\ Cardinality(T \ S) = Cardinality(T) - Cardinality(S)
           /\ Cardinality(S) \in Nat /\ Cardinality(S) <= Cardinality(T)
           /\ IsFiniteSet(T \ S) /\ IsFiniteSet(S)
PROOF
  <1>1. IsFiniteSet(S) /\ IsFiniteSet(T \ S) /\ Cardinality(S) <= Cardinality(T)
    BY FS_Subset
  <1>2. Cardinality((T \ S) \cup S) =
           Cardinality(T \ S) + Cardinality(S) - Cardinality((T \ S) \cap S)
    BY <1>1, FS_Union
  <1>3. (T \ S) \cup S = T /\ (T \ S) \cap S = {}
    OBVIOUS
  <1>4. Cardinality(T \ S) \in Nat /\ Cardinality(S) \in Nat
    BY <1>1, FS_CardinalityType
  <1>. QED  BY <1>1, <1>2, <1>3, <1>4, FS_EmptySet

LEMMA CountIn ==
    ASSUME NEW T, IsFiniteSet(T), NEW S, IsFiniteSet(S), T \cap S = {}
    PROVE  /\ Cardinality(T \cup S) = Cardinality(T) + Cardinality(S)
           /\ Cardinality(T) \in Nat /\ Cardinality(S) \in Nat
PROOF
  <1>1. Cardinality(T \cup S) =
           Cardinality(T) + Cardinality(S) - Cardinality(T \cap S)
    BY FS_Union
  <1>2. Cardinality(T) \in Nat /\ Cardinality(S) \in Nat
    BY FS_CardinalityType
  <1>3. Cardinality(T \cap S) = 0
    BY FS_EmptySet
  <1>. QED  BY <1>1, <1>2, <1>3

(* The instances that are counted are finitely many. *)
LEMMA CountType ==
    ASSUME NEW L, NEW c, Coherent(L, c)
    PROVE  /\ IsFiniteSet(PendingFrom(L, c)) /\ Cardinality(PendingFrom(L, c)) \in Nat
           /\ IsFiniteSet(ReadyFrom(L, c)) /\ Cardinality(ReadyFrom(L, c)) \in Nat
           /\ IsFiniteSet(OpenedFrom(L, c)) /\ Cardinality(OpenedFrom(L, c)) \in Nat
           /\ L.pending_count \in Int /\ L.ready_count \in Int /\ L.open_count \in Int
           /\ L.highest_open \in Nat /\ L.next_unused_iid \in Nat
           /\ PROPOSER_P2_CONCURRENCY \in Nat /\ PROPOSER_PREEXEC_WIN_SIZE \in Nat
PROOF
  <1>1. /\ PendingFrom(L, c) \in SUBSET WindowFrom(L, c)
        /\ ReadyFrom(L, c) \in SUBSET WindowFrom(L, c)
        /\ OpenedFrom(L, c) \in SUBSET WindowFrom(L, c)
    BY DEF PendingFrom, ReadyFrom, OpenedFrom
  <1>2. IsFiniteSet(WindowFrom(L, c))
    BY WindowType
  <1>3. IsFiniteSet(PendingFrom(L, c)) /\ IsFiniteSet(ReadyFrom(L, c))
        /\ IsFiniteSet(OpenedFrom(L, c))
    BY <1>1, <1>2, FS_Subset
  <1>. QED
    BY <1>3, FS_CardinalityType, LeaderAssumption DEF Coherent, LeaderInfo

(* What open_count counts: instances with a value that are not completed. *)
LEMMA OpenedIs ==
    ASSUME NEW L, NEW c, Coherent(L, c), NEW i \in WindowFrom(L, c)
    PROVE  OpenedByMe(Instance(L, i)) <=>
              /\ i < L.next_unused_iid
              /\ Instance(L, i).status # "p2_completed"
PROOF
  <1>1. Holds(L, i) /\ Instance(L, i).status \in Status
    BY WindowType DEF Coherent, InstanceInfo
  <1>. HIDE DEF Instance
  <1>. QED  BY <1>1 DEF Holds, OpenedByMe, Status

(* Retrying phase 1 counts nothing. *)
LEMMA CheckP1Counts ==
    ASSUME NEW L, NEW c, Coherent(L, c), Fits(L, c), Counted(L, c),
           NEW E \in SUBSET PendingFrom(L, c),
           \A i \in E : NEXT_BALLOT(Instance(L, i).my_ballot) \in Ballots,
           NEW K, K = CheckP1Pending(L, E)
    PROVE  /\ Counted(K, c) /\ Surplus(K, c) = Surplus(L, c)
           /\ Quiet(L, c) => Quiet(K, c)
PROOF
  <1>1. /\ OnlySlots(L, K) /\ WindowFrom(K, c) = WindowFrom(L, c)
        /\ \A i \in E : Instance(K, i) = Retried(Instance(L, i))
        /\ Keeps(L, K, c, E)
    BY CheckP1Effect
  <1>2. ASSUME NEW i \in WindowFrom(L, c)
        PROVE  /\ Instance(K, i).status = Instance(L, i).status
               /\ Instance(K, i).p2_value = Instance(L, i).p2_value
    <2>1. CASE i \in E
      <3>1. Instance(L, i) \in InstanceInfo
        BY WindowType
      <3>. QED  BY <1>1, <2>1, <3>1, RetriedType
    <2>2. CASE i \notin E
      BY <1>1, <2>2 DEF Keeps
    <2>. QED  BY <2>1, <2>2
  <1>3. /\ PendingFrom(K, c) = PendingFrom(L, c) /\ ReadyFrom(K, c) = ReadyFrom(L, c)
        /\ OpenedFrom(K, c) = OpenedFrom(L, c)
    <2>. HIDE DEF Instance
    <2>. QED  BY <1>1, <1>2 DEF PendingFrom, ReadyFrom, OpenedFrom, OpenedByMe
  <1>4. /\ K.pending_count = L.pending_count /\ K.ready_count = L.ready_count
        /\ K.highest_open = L.highest_open
        /\ K.next_unused_iid = L.next_unused_iid /\ K.open_count = L.open_count
    BY <1>1 DEF OnlySlots, Coherent, LeaderInfo
  <1>5. Quiet(L, c) => Quiet(K, c)
    <2>1. ASSUME NEW i \in c .. L.next_unused_iid - 1
          PROVE  i \in WindowFrom(L, c)
      BY DEF WindowFrom, Coherent, LeaderInfo
    <2>. QED  BY <1>2, <1>4, <2>1 DEF Quiet
  <1>. QED  BY <1>3, <1>4, <1>5 DEF Counted, Surplus

(* Opening instances counts them as pending, and phase 1 never runs further ahead
   than PROPOSER_PREEXEC_WIN_SIZE. *)
LEMMA OpenP1Counts ==
    ASSUME NEW p \in Proposers, NEW L, NEW c, Coherent(L, c), Counted(L, c),
           NEW K, K = OpenInstancesP1(p, L), Fits(K, c)
    PROVE  /\ Counted(K, c) /\ Surplus(K, c) = Surplus(L, c)
           /\ Quiet(L, c) => Quiet(K, c)
PROOF
  <1>. DEFINE S == ToOpen(L)
  <1>1. /\ Coherent(K, c)
        /\ K.highest_open = L.highest_open + Cardinality(S)
        /\ K.pending_count = L.pending_count + Cardinality(S)
        /\ K.ready_count = L.ready_count
        /\ K.next_unused_iid = L.next_unused_iid /\ K.open_count = L.open_count
        /\ WindowFrom(K, c) = WindowFrom(L, c) \cup S
        /\ WindowFrom(L, c) \cap S = {}
        /\ \A i \in S : i \in Iids /\ Instance(K, i) = Opened(i, FIRST_BALLOT(p))
        /\ \A i \in WindowFrom(L, c) : Instance(K, i) = Instance(L, i)
    BY OpenP1Effect
  <1>2. L \in LeaderInfo
    BY DEF Coherent
  <1>3. PICK k \in Nat :
           /\ S = L.highest_open + 1 .. L.highest_open + k
           /\ Cardinality(S) = k
           /\ k > 0 => k + L.pending_count + L.ready_count <= PROPOSER_PREEXEC_WIN_SIZE
    BY <1>2, ToOpenRange
  <1>. HIDE DEF S
  <1>4. \A i \in S : /\ Instance(K, i).status = "p1_pending"
                     /\ Instance(K, i).p2_value = NoValue
    <2>1. FIRST_BALLOT(p) \in Ballots
      BY LeaderAssumption DEF FIRST_BALLOT
    <2>. QED  BY <1>1, <2>1, OpenedType
  <1>5. /\ PendingFrom(K, c) = PendingFrom(L, c) \cup S
        /\ PendingFrom(L, c) \cap S = {}
        /\ ReadyFrom(K, c) = ReadyFrom(L, c)
        /\ OpenedFrom(K, c) = OpenedFrom(L, c)
    <2>. HIDE DEF Instance
    <2>. QED  BY <1>1, <1>4 DEF PendingFrom, ReadyFrom, OpenedFrom, OpenedByMe
  <1>6. Cardinality(PendingFrom(K, c)) = Cardinality(PendingFrom(L, c)) + k
    <2>1. IsFiniteSet(S)
      BY <1>2, <1>3, FS_Interval DEF LeaderInfo
    <2>. QED  BY <1>3, <1>5, <2>1, CountType, CountIn
  <1>7. L.highest_open + 1 - L.next_unused_iid <= L.pending_count + L.ready_count
    <2>. DEFINE T == L.next_unused_iid .. L.highest_open
    <2>0. /\ L.next_unused_iid \in Nat /\ L.highest_open \in Nat
          /\ c \in Nat /\ c <= L.next_unused_iid
          /\ L.next_unused_iid <= L.highest_open + 1
      BY DEF Coherent, LeaderInfo
    <2>1. IsFiniteSet(T) /\ Cardinality(T) = L.highest_open + 1 - L.next_unused_iid
      <3>. DEFINE a == L.next_unused_iid
                  b == L.highest_open
      <3>1. a \in Int /\ b \in Int /\ a <= b + 1
        BY <2>0
      <3>. HIDE DEF a, b
      <3>2. /\ IsFiniteSet(a .. b)
            /\ Cardinality(a .. b) = IF a > b THEN 0 ELSE b - a + 1
        BY <3>1, FS_Interval
      <3>3. IsFiniteSet(a .. b) /\ Cardinality(a .. b) = b + 1 - a
        BY <3>1, <3>2
      <3>. QED  BY <3>3 DEF a, b
    <2>2. T \subseteq PendingFrom(L, c) \cup ReadyFrom(L, c)
      <3>1. ASSUME NEW i \in T
            PROVE  i \in PendingFrom(L, c) \cup ReadyFrom(L, c)
        <4>1. i \in WindowFrom(L, c) /\ ~ (i < L.next_unused_iid)
          BY <2>0 DEF WindowFrom
        <4>2. Instance(L, i).status \in {"p1_pending", "p1_ready"}
          BY <4>1 DEF Coherent, Holds
        <4>. QED  BY <4>1, <4>2 DEF PendingFrom, ReadyFrom
      <3>. QED  BY <3>1
    <2>. HIDE DEF T
    <2>3. PendingFrom(L, c) \cap ReadyFrom(L, c) = {}
      BY DEF PendingFrom, ReadyFrom
    <2>4. /\ IsFiniteSet(PendingFrom(L, c) \cup ReadyFrom(L, c))
          /\ Cardinality(PendingFrom(L, c) \cup ReadyFrom(L, c))
                = Cardinality(PendingFrom(L, c)) + Cardinality(ReadyFrom(L, c))
      BY <2>3, CountType, CountIn, FS_Union
    <2>5. Cardinality(T) <= Cardinality(PendingFrom(L, c)) + Cardinality(ReadyFrom(L, c))
      BY <2>2, <2>4, FS_Subset
    <2>. QED  BY <2>0, <2>1, <2>5, CountType DEF Counted
  <1>8. K.highest_open + 1 - K.next_unused_iid <= PROPOSER_PREEXEC_WIN_SIZE
    <2>1. /\ L.next_unused_iid \in Nat /\ L.highest_open \in Nat
          /\ L.pending_count \in Int /\ L.ready_count \in Int
          /\ PROPOSER_PREEXEC_WIN_SIZE \in Nat
          /\ L.highest_open + 1 - L.next_unused_iid <= PROPOSER_PREEXEC_WIN_SIZE
      BY CountType DEF Counted
    <2>. QED  BY <1>1, <1>3, <1>7, <2>1, SMTT(30)
  <1>9. Quiet(L, c) => Quiet(K, c)
    <2>1. ASSUME NEW i \in c .. L.next_unused_iid - 1
          PROVE  i \in WindowFrom(L, c)
      BY DEF WindowFrom, Coherent, LeaderInfo
    <2>. QED  BY <1>1, <2>1 DEF Quiet
  <1>. QED  BY <1>1, <1>3, <1>5, <1>6, <1>8, <1>9 DEF Counted, Surplus

(* An instance that is closed is no longer open; one that goes back to phase 1 is
   pending, and open still. *)
LEMMA CheckP2Counts ==
    ASSUME NEW L, NEW c, Coherent(L, c), Fits(L, c), c = L.current_iid, Counted(L, c),
           NEW closed, NEW expired, Settles(L, closed, expired),
           NEW K, K = CheckP2(L, closed, expired)
    PROVE  /\ Counted(K, c) /\ Surplus(K, c) = Surplus(L, c)
           /\ Quiet(L, c) => Quiet(K, c)
PROOF
  <1>. DEFINE W == WindowFrom(L, c)
  <1>1. /\ WindowFrom(K, c) = W /\ closed \cup expired \subseteq W
        /\ K.pending_count = L.pending_count + Cardinality(expired)
        /\ K.ready_count = L.ready_count /\ K.highest_open = L.highest_open
        /\ K.next_unused_iid = L.next_unused_iid
        /\ K.open_count = L.open_count - Cardinality(closed)
        /\ \A i \in closed : Instance(K, i) = Completed(Instance(L, i))
        /\ \A i \in expired : Instance(K, i) = SentBack(Instance(L, i))
        /\ Keeps(L, K, c, closed \cup expired)
    <2>1. P2Checked(L, K, c, closed, expired)
      BY CheckP2Effect
    <2>. QED  BY <2>1 DEF P2Checked
  <1>2. \A i \in W : Instance(L, i) \in InstanceInfo
    BY WindowType
  <1>3. \A i \in closed \cup expired : /\ Instance(L, i).status = "p2_pending"
                                       /\ Instance(L, i).p2_value # NoValue
    <2>1. \A i \in closed \cup expired : i \in W /\ i < L.next_unused_iid
                                         /\ Instance(L, i).status = "p2_pending"
      BY <1>1 DEF Running, Coherent, LeaderInfo, Settles
    <2>. QED  BY <2>1 DEF Coherent, Holds
  <1>4. \A i \in closed : Instance(K, i).status = "p2_completed"
    BY <1>1, <1>2, SettledType
  <1>5. \A i \in expired : /\ Instance(K, i).status = "p1_pending"
                           /\ Instance(K, i).p2_value # NoValue
    BY <1>1, <1>2, <1>3, SettledType DEF Settles
  <1>6. \A i \in W \ (closed \cup expired) : Instance(K, i) = Instance(L, i)
    BY <1>1 DEF Keeps
  <1>. HIDE DEF W
  <1>7. /\ PendingFrom(K, c) = PendingFrom(L, c) \cup expired
        /\ PendingFrom(L, c) \cap expired = {}
        /\ ReadyFrom(K, c) = ReadyFrom(L, c)
        /\ OpenedFrom(K, c) = OpenedFrom(L, c) \ closed
        /\ closed \in SUBSET OpenedFrom(L, c)
    <2>. HIDE DEF Instance
    <2>. QED
      BY <1>1, <1>3, <1>4, <1>5, <1>6
         DEF PendingFrom, ReadyFrom, OpenedFrom, OpenedByMe, W, Settles
  <1>8. IsFiniteSet(expired)
    <2>1. expired \in SUBSET W
      BY <1>1
    <2>. QED  BY <2>1, WindowType, FS_Subset DEF W
  <1>9. /\ Cardinality(PendingFrom(K, c)) = Cardinality(PendingFrom(L, c)) + Cardinality(expired)
        /\ Cardinality(OpenedFrom(K, c)) = Cardinality(OpenedFrom(L, c)) - Cardinality(closed)
        /\ Cardinality(closed) \in Nat
    BY <1>7, <1>8, CountType, CountIn, CountOut
  <1>10. Quiet(L, c) => Quiet(K, c)
    <2>1. ASSUME NEW i \in c .. L.next_unused_iid - 1
          PROVE  i \in W
      BY DEF W, WindowFrom, Coherent, LeaderInfo
    <2>. QED  BY <1>1, <1>4, <1>5, <1>6, <2>1 DEF Quiet
  <1>. QED  BY <1>1, <1>7, <1>9, <1>10, CountType DEF Counted, Surplus

(* leader_open_instances_p2_expired leaves no instance with a value ready. *)
LEMMA P2ExpiredCounts ==
    ASSUME NEW L, NEW c, Coherent(L, c), Fits(L, c), c = L.current_iid, Counted(L, c),
           NEW K, K = OpenInstancesP2Expired(L)
    PROVE  Counted(K, c) /\ Surplus(K, c) = Surplus(L, c) /\ Quiet(K, c)
PROOF
  <1>. DEFINE W == WindowFrom(L, c)
              S == ExpiredReady(L)
  <1>1. /\ WindowFrom(K, c) = W
        /\ S = {i \in ReadyFrom(L, c) : i < L.next_unused_iid}
        /\ K.pending_count = L.pending_count
        /\ K.ready_count = L.ready_count - Cardinality(S)
        /\ K.highest_open = L.highest_open
        /\ K.next_unused_iid = L.next_unused_iid /\ K.open_count = L.open_count
        /\ \A i \in S : Instance(K, i) = ExecuteP2(Instance(L, i), NoValue)
        /\ Keeps(L, K, c, S) /\ Coherent(K, c)
    BY P2ExpiredEffect
  <1>2. \A i \in W : Instance(L, i) \in InstanceInfo
    BY WindowType
  <1>. HIDE DEF S
  <1>3. S \subseteq W /\ \A i \in S : /\ Instance(L, i).status = "p1_ready"
                                      /\ i < L.next_unused_iid
    BY <1>1 DEF ReadyFrom
  <1>4. \A i \in S : Instance(K, i).status = "p2_pending"
    <2>1. \A i \in S : Instance(L, i) \in InstanceInfo
      BY <1>2, <1>3
    <2>. QED  BY <1>1, <2>1, ExecuteType
  <1>5. \A i \in W \ S : Instance(K, i) = Instance(L, i)
    BY <1>1 DEF Keeps
  <1>6. \A i \in W : OpenedByMe(Instance(K, i)) <=> OpenedByMe(Instance(L, i))
    <2>1. \A i \in S : OpenedByMe(Instance(K, i)) /\ OpenedByMe(Instance(L, i))
      <3>1. \A i \in S : OpenedByMe(Instance(K, i))
        BY <1>4 DEF OpenedByMe
      <3>2. \A i \in S : i \in WindowFrom(L, c) /\ i < L.next_unused_iid
                         /\ Instance(L, i).status # "p2_completed"
        BY <1>3
      <3>. QED  BY <3>1, <3>2, OpenedIs
    <2>. QED  BY <1>5, <2>1
  <1>7. /\ PendingFrom(K, c) = PendingFrom(L, c)
        /\ ReadyFrom(K, c) = ReadyFrom(L, c) \ S
        /\ S \in SUBSET ReadyFrom(L, c)
        /\ OpenedFrom(K, c) = OpenedFrom(L, c)
    <2>. HIDE DEF Instance, OpenedByMe
    <2>1. PendingFrom(K, c) = PendingFrom(L, c)
      BY <1>1, <1>3, <1>4, <1>5 DEF PendingFrom
    <2>2. ReadyFrom(K, c) = ReadyFrom(L, c) \ S /\ S \in SUBSET ReadyFrom(L, c)
      BY <1>1, <1>3, <1>4, <1>5 DEF ReadyFrom
    <2>3. OpenedFrom(K, c) = OpenedFrom(L, c)
      BY <1>1, <1>6 DEF OpenedFrom
    <2>. QED  BY <2>1, <2>2, <2>3
  <1>8. Cardinality(ReadyFrom(K, c)) = Cardinality(ReadyFrom(L, c)) - Cardinality(S)
        /\ Cardinality(S) \in Nat
    BY <1>7, CountType, CountOut
  <1>9. ASSUME NEW i \in c .. L.next_unused_iid - 1
        PROVE  Instance(K, i).status # "p1_ready"
    <2>1. i \in W /\ i < L.next_unused_iid
      BY DEF WindowFrom, Coherent, LeaderInfo
    <2>2. CASE i \in S
      BY <1>4, <2>2
    <2>3. CASE i \notin S
      <3>1. Instance(L, i).status # "p1_ready"
        BY <1>1, <2>1, <2>3 DEF ReadyFrom
      <3>. QED  BY <1>5, <2>1, <2>3, <3>1
    <2>. QED  BY <2>2, <2>3
  <1>. QED  BY <1>1, <1>7, <1>8, <1>9, CountType DEF Counted, Surplus, Quiet

(* leader_open_instances_p2_new moves what it starts from ready to open. *)
LEMMA P2NewCounts ==
    ASSUME NEW L, NEW c, Coherent(L, c), Fits(L, c), Counted(L, c),
           NEW K, K = OpenInstancesP2New(L)
    PROVE  /\ Counted(K, c) /\ Surplus(K, c) = Surplus(L, c)
           /\ Quiet(L, c) => Quiet(K, c)
PROOF
  <1>. DEFINE W == WindowFrom(L, c)
              S == Started(L)
              k == StartCount(L)
  <1>1. /\ WindowFrom(K, c) = W /\ Coherent(K, c)
        /\ K.pending_count = L.pending_count /\ K.ready_count = L.ready_count - k
        /\ K.highest_open = L.highest_open
        /\ K.next_unused_iid = L.next_unused_iid + k
        /\ K.open_count = L.open_count + k
        /\ \A i \in S : Instance(K, i) = ExecuteP2(Instance(L, i), NextValue(L, i))
        /\ Keeps(L, K, c, S)
    BY P2NewEffect
  <1>2. /\ S = L.next_unused_iid .. L.next_unused_iid + k - 1
        /\ S \in SUBSET ReadyFrom(L, c)
        /\ Cardinality(S) = k /\ k \in Nat
        /\ k > 0 => L.open_count + k <= PROPOSER_P2_CONCURRENCY + 1
    <2>1. L \in LeaderInfo
      BY DEF Coherent
    <2>. QED  BY <2>1, StartedRange, StartCountType
  <1>3. L.next_unused_iid \in Nat /\ c \in Nat /\ c <= L.next_unused_iid
        /\ L.next_unused_iid <= L.highest_open + 1 /\ L.highest_open \in Nat
    BY DEF Coherent, LeaderInfo
  <1>. HIDE DEF S, k
  <1>4. S \subseteq W /\ \A i \in S : /\ Instance(L, i).status = "p1_ready"
                                      /\ ~ (i < L.next_unused_iid)
    BY <1>2, <1>3 DEF ReadyFrom
  <1>5. \A i \in S : Instance(K, i).status = "p2_pending"
    <2>1. \A i \in S : /\ Instance(L, i) \in InstanceInfo
                       /\ NextValue(L, i) \in Values \cup {NoValue}
      BY <1>4, WindowType, NextValueType DEF S
    <2>. QED  BY <1>1, <2>1, ExecuteType
  <1>6. \A i \in W \ S : Instance(K, i) = Instance(L, i)
    BY <1>1 DEF Keeps
  <1>7. \A i \in S : OpenedByMe(Instance(K, i)) /\ ~ OpenedByMe(Instance(L, i))
    <2>1. \A i \in S : OpenedByMe(Instance(K, i))
      BY <1>5 DEF OpenedByMe
    <2>2. \A i \in S : i \in WindowFrom(L, c) /\ ~ (i < L.next_unused_iid)
      BY <1>4
    <2>. QED  BY <2>1, <2>2, OpenedIs
  <1>8. /\ PendingFrom(K, c) = PendingFrom(L, c)
        /\ ReadyFrom(K, c) = ReadyFrom(L, c) \ S
        /\ S \in SUBSET ReadyFrom(L, c)
        /\ OpenedFrom(K, c) = OpenedFrom(L, c) \cup S
        /\ OpenedFrom(L, c) \cap S = {}
    <2>. HIDE DEF Instance, OpenedByMe
    <2>1. PendingFrom(K, c) = PendingFrom(L, c)
      BY <1>1, <1>4, <1>5, <1>6 DEF PendingFrom
    <2>2. ReadyFrom(K, c) = ReadyFrom(L, c) \ S
      BY <1>1, <1>4, <1>5, <1>6 DEF ReadyFrom
    <2>3. /\ OpenedFrom(K, c) = OpenedFrom(L, c) \cup S
          /\ OpenedFrom(L, c) \cap S = {}
      BY <1>1, <1>4, <1>6, <1>7 DEF OpenedFrom
    <2>. QED  BY <1>2, <2>1, <2>2, <2>3
  <1>9. /\ Cardinality(ReadyFrom(K, c)) = Cardinality(ReadyFrom(L, c)) - k
        /\ Cardinality(OpenedFrom(K, c)) = Cardinality(OpenedFrom(L, c)) + k
    <2>1. IsFiniteSet(S)
      BY <1>8, CountType, CountOut
    <2>. QED  BY <1>2, <1>8, <2>1, CountType, CountOut, CountIn
  <1>10. ASSUME Quiet(L, c), NEW i \in c .. K.next_unused_iid - 1
         PROVE  Instance(K, i).status # "p1_ready"
    <2>1. CASE i \in S
      BY <1>5, <2>1
    <2>2. CASE i \notin S
      <3>1. i \in c .. L.next_unused_iid - 1 /\ i \in W
        BY <1>1, <1>2, <1>3, <2>2 DEF WindowFrom
      <3>2. Instance(L, i).status # "p1_ready"
        BY <1>10, <3>1 DEF Quiet
      <3>3. Instance(K, i) = Instance(L, i)
        BY <1>6, <2>2, <3>1
      <3>. QED  BY <3>2, <3>3
    <2>. QED  BY <2>1, <2>2
  <1>11. K.open_count <= PROPOSER_P2_CONCURRENCY + 1
    BY <1>1, <1>2, CountType DEF Counted
  <1>12. K.highest_open + 1 - K.next_unused_iid <= PROPOSER_PREEXEC_WIN_SIZE
    <2>1. L.highest_open + 1 - L.next_unused_iid <= PROPOSER_PREEXEC_WIN_SIZE
          /\ PROPOSER_PREEXEC_WIN_SIZE \in Nat
      BY CountType DEF Counted
    <2>2. k \in Nat
      BY <1>2
    <2>3. K.highest_open = L.highest_open /\ K.next_unused_iid = L.next_unused_iid + k
      BY <1>1
    <2>. QED  BY <1>3, <2>1, <2>2, <2>3
  <1>13. /\ K.pending_count = Cardinality(PendingFrom(K, c))
         /\ K.open_count = Cardinality(OpenedFrom(K, c))
         /\ K.ready_count >= Cardinality(ReadyFrom(K, c))
         /\ Surplus(K, c) = Surplus(L, c)
    <2>1. /\ K.pending_count = L.pending_count /\ K.ready_count = L.ready_count - k
          /\ K.open_count = L.open_count + k /\ k \in Nat
      BY <1>1, <1>2
    <2>2. PendingFrom(K, c) = PendingFrom(L, c)
      BY <1>8
    <2>. QED  BY <1>9, <2>1, <2>2, CountType DEF Counted, Surplus
  <1>14. Quiet(L, c) => Quiet(K, c)
    BY <1>10 DEF Quiet
  <1>. QED  BY <1>11, <1>12, <1>13, <1>14 DEF Counted

(* A batch of promises moves what it makes ready from pending to ready. *)
LEMMA PromisesCounts ==
    ASSUME NEW L, NEW c, Coherent(L, c), Fits(L, c), Counted(L, c),
           NEW acks \in SUBSET PrepareAck, Apart(acks),
           NEW K, K = AfterPromises(L, acks)
    PROVE  /\ Counted(K, c) /\ Surplus(K, c) = Surplus(L, c)
           /\ MadeReady(L, acks) = {} /\ Quiet(L, c) => Quiet(K, c)
PROOF
  <1>. DEFINE W == WindowFrom(L, c)
              S == Promised(L, c, acks)
              B == BecomesReady(L, c, acks)
  <1>1. /\ WindowFrom(K, c) = W /\ Coherent(K, c)
        /\ K.pending_count = L.pending_count - Cardinality(B)
        /\ K.ready_count = L.ready_count + Cardinality(B)
        /\ K.highest_open = L.highest_open
        /\ K.next_unused_iid = L.next_unused_iid /\ K.open_count = L.open_count
        /\ \A i \in S : Instance(K, i) = HandlePrepareAck(Instance(L, i), PromiseFor(L, acks, i))
        /\ Keeps(L, K, c, S)
    BY PromisesEffect
  <1>2. /\ S \subseteq W /\ B \subseteq S
        /\ \A i \in S : /\ Instance(L, i).status = "p1_pending"
                        /\ PromiseFor(L, acks, i) \in PrepareAck
    BY PromisedInstance DEF Promised, BecomesReady, PendingFrom
  <1>3. \A i \in S : /\ Instance(L, i) \in InstanceInfo
                     /\ Instance(K, i).status \in {"p1_pending", "p1_ready"}
                     /\ Instance(K, i).p2_value = Instance(L, i).p2_value
                     /\ i \in B <=> Instance(K, i).status = "p1_ready"
    <2>1. \A i \in S : Instance(L, i) \in InstanceInfo
      BY <1>2, WindowType
    <2>2. \A i \in S : i \in B <=> Instance(K, i).status = "p1_ready"
      BY <1>1 DEF BecomesReady
    <2>3. ASSUME NEW i \in S
          PROVE  /\ Instance(K, i).status \in {"p1_pending", "p1_ready"}
                 /\ Instance(K, i).p2_value = Instance(L, i).p2_value
      BY <1>1, <1>2, <2>1, PromiseType
    <2>. QED  BY <2>1, <2>2, <2>3
  <1>4. \A i \in W \ S : Instance(K, i) = Instance(L, i)
    BY <1>1 DEF Keeps
  <1>. HIDE DEF S, B, W
  <1>5. /\ PendingFrom(K, c) = PendingFrom(L, c) \ B
        /\ B \in SUBSET PendingFrom(L, c)
        /\ ReadyFrom(K, c) = ReadyFrom(L, c) \cup B
        /\ ReadyFrom(L, c) \cap B = {}
        /\ OpenedFrom(K, c) = OpenedFrom(L, c)
    <2>. HIDE DEF Instance
    <2>1. /\ PendingFrom(K, c) = PendingFrom(L, c) \ B
          /\ B \in SUBSET PendingFrom(L, c)
      BY <1>1, <1>2, <1>3, <1>4 DEF PendingFrom, W
    <2>2. /\ ReadyFrom(K, c) = ReadyFrom(L, c) \cup B
          /\ ReadyFrom(L, c) \cap B = {}
      BY <1>1, <1>2, <1>3, <1>4 DEF ReadyFrom, W
    <2>3. OpenedFrom(K, c) = OpenedFrom(L, c)
      BY <1>1, <1>2, <1>3, <1>4 DEF OpenedFrom, OpenedByMe, W
    <2>. QED  BY <2>1, <2>2, <2>3
  <1>6. /\ Cardinality(PendingFrom(K, c)) = Cardinality(PendingFrom(L, c)) - Cardinality(B)
        /\ Cardinality(ReadyFrom(K, c)) = Cardinality(ReadyFrom(L, c)) + Cardinality(B)
        /\ Cardinality(B) \in Nat
    <2>1. IsFiniteSet(B)
      BY <1>5, CountType, CountOut
    <2>. QED  BY <1>5, <2>1, CountType, CountOut, CountIn
  <1>7. ASSUME MadeReady(L, acks) = {}, Quiet(L, c)
        PROVE  Quiet(K, c)
    <2>1. Cardinality(B) = 0
      BY <1>7, MadeReadyCount, FS_EmptySet DEF B
    <2>2. B = {}
      BY <1>5, <2>1, CountType, CountOut, FS_EmptySet
    <2>3. ASSUME NEW i \in c .. L.next_unused_iid - 1
          PROVE  i \in W
      BY DEF W, WindowFrom, Coherent, LeaderInfo
    <2>. QED  BY <1>1, <1>2, <1>3, <1>4, <1>7, <2>2, <2>3 DEF Quiet
  <1>. QED  BY <1>1, <1>5, <1>6, <1>7, CountType DEF Counted, Surplus

(* What leaves the window is no longer counted, except in ready_count. *)
LEMMA CloseCounts ==
    ASSUME NEW L, NEW c, Coherent(L, c), Fits(L, c), c <= L.highest_open,
           Counted(L, c), NEW v, NEW K, K = CloseInstance(L, c, v)
    PROVE  /\ Counted(K, c + 1)
           /\ Instance(L, c).status # "p1_ready" => Surplus(K, c + 1) = Surplus(L, c)
           /\ Quiet(L, c) => Quiet(K, c + 1)
PROOF
  <1>. DEFINE W == WindowFrom(L, c)
              ii == Instance(L, c)
  <1>1. /\ Coherent(K, c + 1) /\ c \in W /\ WindowFrom(K, c + 1) = W \ {c}
        /\ K.pending_count = IF ii.status = "p1_pending"
                             THEN L.pending_count - 1 ELSE L.pending_count
        /\ K.ready_count = L.ready_count /\ K.highest_open = L.highest_open
        /\ K.next_unused_iid = IF L.next_unused_iid = c THEN c + 1 ELSE L.next_unused_iid
        /\ K.open_count = IF OpenedByMe(ii) THEN L.open_count - 1 ELSE L.open_count
        /\ \A i \in W \ {c} : Instance(K, i) = Instance(L, i)
    <2>1. ClosesFirst(L, K, c, v)
      BY CloseEffect
    <2>. QED  BY <2>1 DEF ClosesFirst
  <1>2. /\ PendingFrom(K, c + 1) = PendingFrom(L, c) \ {c}
        /\ ReadyFrom(K, c + 1) = ReadyFrom(L, c) \ {c}
        /\ OpenedFrom(K, c + 1) = OpenedFrom(L, c) \ {c}
        /\ c \in PendingFrom(L, c) <=> ii.status = "p1_pending"
        /\ c \in ReadyFrom(L, c) <=> ii.status = "p1_ready"
        /\ c \in OpenedFrom(L, c) <=> OpenedByMe(ii)
    <2>. HIDE DEF Instance, OpenedByMe
    <2>1. /\ PendingFrom(K, c + 1) = PendingFrom(L, c) \ {c}
          /\ c \in PendingFrom(L, c) <=> ii.status = "p1_pending"
      BY <1>1 DEF PendingFrom
    <2>2. /\ ReadyFrom(K, c + 1) = ReadyFrom(L, c) \ {c}
          /\ c \in ReadyFrom(L, c) <=> ii.status = "p1_ready"
      BY <1>1 DEF ReadyFrom
    <2>3. /\ OpenedFrom(K, c + 1) = OpenedFrom(L, c) \ {c}
          /\ c \in OpenedFrom(L, c) <=> OpenedByMe(ii)
      BY <1>1 DEF OpenedFrom
    <2>. QED  BY <2>1, <2>2, <2>3
  <1>3. ASSUME NEW T, IsFiniteSet(T)
        PROVE  Cardinality(T \ {c}) = IF c \in T THEN Cardinality(T) - 1 ELSE Cardinality(T)
    BY <1>3, FS_RemoveElement, FS_CardinalityType
  <1>4. /\ Cardinality(PendingFrom(K, c + 1)) =
              IF ii.status = "p1_pending" THEN Cardinality(PendingFrom(L, c)) - 1
              ELSE Cardinality(PendingFrom(L, c))
        /\ Cardinality(ReadyFrom(K, c + 1)) =
              IF ii.status = "p1_ready" THEN Cardinality(ReadyFrom(L, c)) - 1
              ELSE Cardinality(ReadyFrom(L, c))
        /\ Cardinality(OpenedFrom(K, c + 1)) =
              IF OpenedByMe(ii) THEN Cardinality(OpenedFrom(L, c)) - 1
              ELSE Cardinality(OpenedFrom(L, c))
    <2>. HIDE DEF ii, W, OpenedByMe
    <2>. QED  BY <1>2, <1>3, CountType
  <1>5. L.next_unused_iid \in Nat /\ c \in Nat /\ c <= L.next_unused_iid
        /\ L.highest_open \in Nat /\ L.next_unused_iid <= L.highest_open + 1
    BY DEF Coherent, LeaderInfo
  <1>6. ASSUME Quiet(L, c), NEW i \in c + 1 .. K.next_unused_iid - 1
        PROVE  Instance(K, i).status # "p1_ready"
    <2>1. i \in c .. L.next_unused_iid - 1 /\ i \in W \ {c}
      BY <1>1, <1>5 DEF WindowFrom
    <2>. QED  BY <1>1, <1>6, <2>1 DEF Quiet
  <1>. HIDE DEF ii
  <1>7. K.highest_open + 1 - K.next_unused_iid <= PROPOSER_PREEXEC_WIN_SIZE
    <2>1. L.highest_open + 1 - L.next_unused_iid <= PROPOSER_PREEXEC_WIN_SIZE
          /\ PROPOSER_PREEXEC_WIN_SIZE \in Nat
      BY CountType DEF Counted
    <2>. QED  BY <1>1, <1>5, <2>1
  <1>8. /\ K.pending_count = Cardinality(PendingFrom(K, c + 1))
        /\ K.open_count = Cardinality(OpenedFrom(K, c + 1))
        /\ K.ready_count >= Cardinality(ReadyFrom(K, c + 1))
        /\ K.open_count <= PROPOSER_P2_CONCURRENCY + 1
    <2>. HIDE DEF OpenedByMe
    <2>. QED  BY <1>1, <1>4, CountType DEF Counted
  <1>9. ii.status # "p1_ready" => Surplus(K, c + 1) = Surplus(L, c)
    BY <1>1, <1>4 DEF Surplus
  <1>. QED  BY <1>6, <1>7, <1>8, <1>9 DEF Counted, Quiet, ii

-----------------------------------------------------------------------------
(* The event handlers.                                                      *)

\* What holds of a leader between two events.
Sound(L) ==
    /\ Coherent(L, L.current_iid)
    /\ Counted(L, L.current_iid)
    /\ Quiet(L, L.current_iid)

\* The window as the leader sees it.
InBuffer(L) == Fits(L, L.current_iid)
Ahead(L)    == Surplus(L, L.current_iid)

(* leader_periodic_p1_check *)
LEMMA PeriodicP1Sound ==
    ASSUME NEW p \in Proposers, NEW L, Sound(L), InBuffer(L),
           NEW E \in SUBSET {i \in Pending(L) : CanRetry(L, i)},
           NEW J, J = CheckP1Pending(L, E), NEW K, K = OpenInstancesP1(p, J), InBuffer(K)
    PROVE  /\ Sound(K) /\ Ahead(K) = Ahead(L)
           /\ K.current_iid = L.current_iid
           /\ K.next_unused_iid = L.next_unused_iid
           /\ K.highest_open >= L.highest_open
           /\ Coherent(J, L.current_iid) /\ InBuffer(J)
           /\ J.current_iid = L.current_iid /\ J.next_unused_iid = L.next_unused_iid
           /\ WindowFrom(J, L.current_iid) = WindowFrom(L, L.current_iid)
           /\ E \subseteq WindowFrom(L, L.current_iid)
           /\ ToOpen(J) \subseteq WindowFrom(K, L.current_iid)
PROOF
  <1>. DEFINE c == L.current_iid
  <1>1. /\ E \in SUBSET PendingFrom(L, c)
        /\ \A i \in E : NEXT_BALLOT(Instance(L, i).my_ballot) \in Ballots
    BY DEF Pending, PendingFrom, WindowFrom, CanRetry
  <1>2. Coherent(L, c) /\ Fits(L, c) /\ Counted(L, c) /\ Quiet(L, c)
    BY DEF Sound, InBuffer
  <1>. HIDE DEF c
  <1>3. /\ OnlySlots(L, J) /\ Coherent(J, c) /\ Fits(J, c)
        /\ WindowFrom(J, c) = WindowFrom(L, c)
    BY <1>1, <1>2, CheckP1Effect
  <1>4. Counted(J, c) /\ Surplus(J, c) = Surplus(L, c) /\ Quiet(J, c)
    BY <1>1, <1>2, CheckP1Counts
  <1>5. /\ J.current_iid = L.current_iid /\ J.next_unused_iid = L.next_unused_iid
        /\ J.highest_open = L.highest_open
    BY <1>2, <1>3 DEF OnlySlots, Coherent, LeaderInfo
  <1>6. K.current_iid = c
    BY <1>3, <1>5 DEF OpenInstancesP1, Coherent, LeaderInfo, c
  <1>7. Fits(K, c)
    BY <1>6 DEF InBuffer
  <1>8. /\ Coherent(K, c)
        /\ K.next_unused_iid = J.next_unused_iid
        /\ K.highest_open = J.highest_open + Cardinality(ToOpen(J))
        /\ WindowFrom(K, c) = WindowFrom(J, c) \cup ToOpen(J)
    BY <1>3, <1>7, OpenP1Effect
  <1>9. Counted(K, c) /\ Surplus(K, c) = Surplus(J, c) /\ Quiet(K, c)
    BY <1>3, <1>4, <1>7, OpenP1Counts
  <1>10. K.highest_open >= L.highest_open
    <2>1. PICK k \in Nat : Cardinality(ToOpen(J)) = k
      BY <1>3, ToOpenRange DEF Coherent
    <2>. QED  BY <1>2, <1>5, <1>8, <2>1 DEF Coherent, LeaderInfo
  <1>11. Sound(K) /\ Ahead(K) = Ahead(L) /\ InBuffer(J)
    BY <1>3, <1>4, <1>5, <1>6, <1>8, <1>9 DEF Sound, Ahead, InBuffer, c
  <1>12. E \subseteq WindowFrom(L, c)
    BY <1>1 DEF PendingFrom
  <1>. QED  BY <1>3, <1>5, <1>6, <1>8, <1>10, <1>11, <1>12 DEF c

\* From L the check makes J of the window, and K of J what can start.
Checks(L, J, K, expired) ==
    /\ Sound(K) /\ InBuffer(K) /\ Ahead(K) = Ahead(L)
    /\ K.current_iid = L.current_iid /\ K.highest_open = L.highest_open
    /\ K.next_unused_iid = L.next_unused_iid + StartCount(J)
    /\ Sound(J) /\ InBuffer(J)
    /\ J.current_iid = L.current_iid /\ J.next_unused_iid = L.next_unused_iid
    /\ WindowFrom(J, L.current_iid) = WindowFrom(L, L.current_iid)
    /\ WindowFrom(K, L.current_iid) = WindowFrom(L, L.current_iid)
    /\ expired \subseteq WindowFrom(L, L.current_iid)

(* leader_periodic_p2_check *)
LEMMA PeriodicP2Sound ==
    ASSUME NEW L, Sound(L), InBuffer(L),
           NEW is_closed, NEW closed, closed = Running(L) \cap is_closed,
           NEW expired \in SUBSET {i \in Running(L) \ is_closed : CanRetry(L, i)},
           NEW J, J = CheckP2(L, closed, expired), NEW K, K = OpenInstancesP2New(J)
    PROVE  Checks(L, J, K, expired)
PROOF
  <1>. DEFINE c == L.current_iid
  <1>1. Settles(L, closed, expired)
    BY DEF Settles, CanRetry
  <1>2. Coherent(L, c) /\ Fits(L, c) /\ Counted(L, c) /\ Quiet(L, c) /\ c = L.current_iid
    BY DEF Sound, InBuffer
  <1>. HIDE DEF c
  <1>3. P2Checked(L, J, c, closed, expired)
    BY <1>1, <1>2, CheckP2Effect
  <1>4. Counted(J, c) /\ Surplus(J, c) = Surplus(L, c) /\ Quiet(J, c)
    BY <1>1, <1>2, CheckP2Counts
  <1>5. /\ Coherent(J, c) /\ Fits(J, c) /\ WindowFrom(J, c) = WindowFrom(L, c)
        /\ expired \subseteq WindowFrom(L, c)
        /\ J.current_iid = c /\ J.highest_open = L.highest_open
        /\ J.next_unused_iid = L.next_unused_iid
    BY <1>2, <1>3 DEF P2Checked
  <1>6. /\ Coherent(K, c) /\ Fits(K, c) /\ WindowFrom(K, c) = WindowFrom(J, c)
        /\ K.current_iid = J.current_iid /\ K.highest_open = J.highest_open
        /\ K.next_unused_iid = J.next_unused_iid + StartCount(J)
    BY <1>5, P2NewEffect
  <1>7. Counted(K, c) /\ Surplus(K, c) = Surplus(J, c) /\ Quiet(K, c)
    BY <1>4, <1>5, P2NewCounts
  <1>8. Sound(K) /\ InBuffer(K) /\ Ahead(K) = Ahead(L) /\ Sound(J) /\ InBuffer(J)
    BY <1>2, <1>4, <1>5, <1>6, <1>7 DEF Sound, InBuffer, Ahead
  <1>. QED  BY <1>2, <1>5, <1>6, <1>8 DEF Checks

(* handle_prepare_ack_batch, when some instance is made ready. *)
LEMMA PromiseBatchSound ==
    ASSUME NEW L, Sound(L), InBuffer(L), NEW acks \in SUBSET PrepareAck, Apart(acks),
           NEW J, J = AfterPromises(L, acks), NEW M, M = OpenInstancesP2Expired(J),
           NEW K, K = OpenInstancesP2New(M)
    PROVE  /\ Sound(K) /\ InBuffer(K) /\ Ahead(K) = Ahead(L)
           /\ K.current_iid = L.current_iid /\ K.highest_open = L.highest_open
           /\ K.next_unused_iid = L.next_unused_iid + StartCount(M)
           /\ Sound(M) /\ InBuffer(M)
           /\ M.current_iid = L.current_iid /\ M.next_unused_iid = L.next_unused_iid
           /\ WindowFrom(M, L.current_iid) = WindowFrom(L, L.current_iid)
           /\ WindowFrom(K, L.current_iid) = WindowFrom(L, L.current_iid)
           /\ \A i \in ExpiredReady(J) :
                 i \in WindowFrom(L, L.current_iid) /\ i < L.next_unused_iid
PROOF
  <1>. DEFINE c == L.current_iid
  <1>2. Coherent(L, c) /\ Fits(L, c) /\ Counted(L, c) /\ Quiet(L, c) /\ c = L.current_iid
    BY DEF Sound, InBuffer
  <1>. HIDE DEF c
  <1>3. /\ Coherent(J, c) /\ Fits(J, c) /\ WindowFrom(J, c) = WindowFrom(L, c)
        /\ J.current_iid = c /\ J.highest_open = L.highest_open
        /\ J.next_unused_iid = L.next_unused_iid
    BY <1>2, PromisesEffect
  <1>4. Counted(J, c) /\ Surplus(J, c) = Surplus(L, c)
    BY <1>2, PromisesCounts
  <1>5. /\ Coherent(M, c) /\ Fits(M, c) /\ WindowFrom(M, c) = WindowFrom(J, c)
        /\ ExpiredReady(J) = {i \in ReadyFrom(J, c) : i < J.next_unused_iid}
        /\ M.current_iid = J.current_iid /\ M.highest_open = J.highest_open
        /\ M.next_unused_iid = J.next_unused_iid
    BY <1>3, P2ExpiredEffect
  <1>6. Counted(M, c) /\ Surplus(M, c) = Surplus(J, c) /\ Quiet(M, c)
    BY <1>3, <1>4, P2ExpiredCounts
  <1>7. /\ Coherent(K, c) /\ Fits(K, c) /\ WindowFrom(K, c) = WindowFrom(M, c)
        /\ K.current_iid = M.current_iid /\ K.highest_open = M.highest_open
        /\ K.next_unused_iid = M.next_unused_iid + StartCount(M)
    BY <1>5, P2NewEffect
  <1>8. Counted(K, c) /\ Surplus(K, c) = Surplus(M, c) /\ Quiet(K, c)
    BY <1>5, <1>6, P2NewCounts
  <1>9. Sound(K) /\ InBuffer(K) /\ Ahead(K) = Ahead(L) /\ Sound(M) /\ InBuffer(M)
    BY <1>2, <1>3, <1>4, <1>5, <1>6, <1>7, <1>8 DEF Sound, InBuffer, Ahead
  <1>10. \A i \in ExpiredReady(J) : i \in WindowFrom(L, c) /\ i < L.next_unused_iid
    BY <1>3, <1>5 DEF ReadyFrom
  <1>. QED  BY <1>2, <1>3, <1>5, <1>7, <1>9, <1>10

(* handle_prepare_ack_batch, when none is. *)
LEMMA PromisesSound ==
    ASSUME NEW L, Sound(L), InBuffer(L), NEW acks \in SUBSET PrepareAck, Apart(acks),
           MadeReady(L, acks) = {}, NEW K, K = AfterPromises(L, acks)
    PROVE  /\ Sound(K) /\ InBuffer(K) /\ Ahead(K) = Ahead(L)
           /\ K.current_iid = L.current_iid /\ K.highest_open = L.highest_open
           /\ K.next_unused_iid = L.next_unused_iid
PROOF
  <1>. DEFINE c == L.current_iid
  <1>2. Coherent(L, c) /\ Fits(L, c) /\ Counted(L, c) /\ Quiet(L, c) /\ c = L.current_iid
    BY DEF Sound, InBuffer
  <1>. HIDE DEF c
  <1>3. /\ Coherent(K, c) /\ Fits(K, c)
        /\ K.current_iid = c /\ K.highest_open = L.highest_open
        /\ K.next_unused_iid = L.next_unused_iid
    BY <1>2, PromisesEffect
  <1>4. Counted(K, c) /\ Surplus(K, c) = Surplus(L, c) /\ Quiet(K, c)
    BY <1>2, PromisesCounts
  <1>. QED  BY <1>2, <1>3, <1>4 DEF Sound, InBuffer, Ahead

\* From L to K instance c was delivered; J is what closing it left.
Delivers(L, J, K, c, v) ==
    /\ Sound(K) /\ InBuffer(K)
    /\ Instance(L, c).status # "p1_ready" => Ahead(K) = Ahead(L)
    /\ K.current_iid = c + 1 /\ K.highest_open = L.highest_open
    /\ K.next_unused_iid = J.next_unused_iid + StartCount(J)
    /\ J.next_unused_iid >= L.next_unused_iid
    /\ J.next_unused_iid <= L.next_unused_iid + 1
    /\ L.next_unused_iid < J.next_unused_iid => L.next_unused_iid = c
    /\ Coherent(J, c + 1) /\ Fits(J, c + 1)
    /\ WindowFrom(K, c + 1) = WindowFrom(J, c + 1)
    /\ SentOnDelivery(L, TRUE, c, v) = AcceptReqs(K, Started(J))

(* leader_deliver: the first instance of the window is delivered. *)
LEMMA DeliveredSound ==
    ASSUME NEW L, Sound(L), InBuffer(L), NEW c, c = L.current_iid, c <= L.highest_open,
           NEW v, NEW J, J = CloseInstance(L, c, v), NEW K, K = Delivered(L, TRUE, c, v)
    PROVE  Delivers(L, J, K, c, v)
PROOF
  <1>1. Coherent(L, c) /\ Fits(L, c) /\ Counted(L, c) /\ Quiet(L, c)
    BY DEF Sound, InBuffer
  <1>2. ClosesFirst(L, J, c, v)
    BY <1>1, CloseEffect
  <1>3. Counted(J, c + 1) /\ Quiet(J, c + 1)
        /\ (Instance(L, c).status # "p1_ready" => Surplus(J, c + 1) = Surplus(L, c))
    BY <1>1, CloseCounts
  <1>4. /\ Coherent(J, c + 1) /\ Fits(J, c + 1) /\ c \in WindowFrom(L, c)
        /\ J.highest_open = L.highest_open
        /\ J.next_unused_iid = IF L.next_unused_iid = c THEN c + 1 ELSE L.next_unused_iid
    BY <1>2 DEF ClosesFirst
  <1>. DEFINE M == OpenInstancesP2New(J)
  <1>5. /\ Coherent(M, c + 1) /\ Fits(M, c + 1)
        /\ WindowFrom(M, c + 1) = WindowFrom(J, c + 1)
        /\ M.highest_open = J.highest_open
        /\ M.next_unused_iid = J.next_unused_iid + StartCount(J)
    BY <1>4, P2NewEffect
  <1>6. Counted(M, c + 1) /\ Surplus(M, c + 1) = Surplus(J, c + 1) /\ Quiet(M, c + 1)
    BY <1>3, <1>4, P2NewCounts
  <1>7. Instance(L, c).iid = c
    BY <1>1, <1>4 DEF Coherent, Holds
  <1>8. K = [M EXCEPT !.current_iid = c + 1]
    BY <1>7 DEF Delivered, NotOpened
  <1>. HIDE DEF M
  <1>9. /\ Coherent(K, c + 1) /\ WindowFrom(K, c + 1) = WindowFrom(M, c + 1)
        /\ Fits(K, c + 1) /\ K.current_iid = c + 1
        /\ K.pending_count = M.pending_count /\ K.ready_count = M.ready_count
        /\ K.highest_open = M.highest_open
        /\ K.next_unused_iid = M.next_unused_iid /\ K.open_count = M.open_count
        /\ \A i : Instance(K, i) = Instance(M, i)
    <2>. DEFINE d == c + 1
    <2>1. Coherent(M, d) /\ Fits(M, d) /\ K = [M EXCEPT !.current_iid = d]
      BY <1>5, <1>8
    <2>. HIDE DEF d
    <2>2. /\ Coherent(K, d) /\ WindowFrom(K, d) = WindowFrom(M, d)
          /\ Fits(K, d) /\ K.current_iid = d
          /\ K.pending_count = M.pending_count /\ K.ready_count = M.ready_count
          /\ K.highest_open = M.highest_open
          /\ K.next_unused_iid = M.next_unused_iid /\ K.open_count = M.open_count
          /\ \A i : Instance(K, i) = Instance(M, i)
      <3>1. MovesOn(M, K, d)
        BY <2>1, MovedOn
      <3>. QED  BY <2>1, <3>1 DEF MovesOn
    <2>. QED  BY <2>2 DEF d
  <1>10. /\ PendingFrom(K, c + 1) = PendingFrom(M, c + 1)
         /\ ReadyFrom(K, c + 1) = ReadyFrom(M, c + 1)
         /\ OpenedFrom(K, c + 1) = OpenedFrom(M, c + 1)
    BY <1>9 DEF PendingFrom, ReadyFrom, OpenedFrom
  <1>11. Counted(K, c + 1) /\ Surplus(K, c + 1) = Surplus(M, c + 1) /\ Quiet(K, c + 1)
    BY <1>6, <1>9, <1>10 DEF Counted, Surplus, Quiet
  <1>12. Sound(K) /\ InBuffer(K)
         /\ (Instance(L, c).status # "p1_ready" => Ahead(K) = Ahead(L))
    BY <1>3, <1>6, <1>9, <1>11 DEF Sound, InBuffer, Ahead
  <1>13. SentOnDelivery(L, TRUE, c, v) = AcceptReqs(K, Started(J))
    BY <1>7 DEF SentOnDelivery, NotOpened
  <1>14. /\ J.next_unused_iid >= L.next_unused_iid
         /\ J.next_unused_iid <= L.next_unused_iid + 1
         /\ L.next_unused_iid < J.next_unused_iid => L.next_unused_iid = c
    BY <1>1, <1>4 DEF Coherent, LeaderInfo
  <1>. QED  BY <1>4, <1>5, <1>9, <1>12, <1>13, <1>14 DEF Delivers

(* leader_init: the window of a new leader opens at its current instance, and
   nothing is counted that an earlier leadership left. *)
LEMMA PromotedSound ==
    ASSUME NEW p \in Proposers, NEW L, Cleared(L), NEW K, K = Promoted(p, L), InBuffer(K)
    PROVE  /\ Sound(K) /\ Ahead(K) = 0
           /\ K.current_iid = L.current_iid
           /\ K.next_unused_iid = L.current_iid
           /\ K.highest_open >= L.current_iid - 1
           /\ WindowFrom(K, L.current_iid) = L.current_iid .. K.highest_open
PROOF
  <1>. DEFINE c == L.current_iid
              J == [L EXCEPT !.pending_list = <<>>, !.pending_count = 0,
                             !.ready_count = 0, !.highest_open = c - 1,
                             !.next_unused_iid = c, !.open_count = 0]
  <1>1. L \in LeaderInfo /\ c \in Nat \ {0} /\ c - 1 \in Nat
    BY DEF Cleared, LeaderInfo
  <1>2. K = OpenInstancesP1(p, J)
    BY DEF Promoted
  <1>3. /\ J.current_iid = c /\ J.proposer_state = L.proposer_state
        /\ J.pending_list = <<>> /\ J.pending_count = 0
        /\ J.ready_count = 0 /\ J.highest_open = c - 1
        /\ J.next_unused_iid = c /\ J.open_count = 0
    BY <1>1 DEF LeaderInfo
  <1>4. J \in LeaderInfo
    <2>1. /\ L.proposer_state \in [ProposerSlots -> InstanceInfo] /\ <<>> \in Seq(Values)
          /\ DOMAIN L = {"current_iid", "proposer_state", "pending_count", "ready_count",
                         "highest_open", "next_unused_iid", "open_count", "pending_list"}
      BY <1>1 DEF LeaderInfo
    <2>2. DOMAIN J = DOMAIN L
      OBVIOUS
    <2>3. J = [f \in DOMAIN L |-> J[f]]
      OBVIOUS
    <2>. HIDE DEF J, c
    <2>4. J = [current_iid |-> J.current_iid, proposer_state |-> J.proposer_state,
               pending_count |-> J.pending_count, ready_count |-> J.ready_count,
               highest_open |-> J.highest_open, next_unused_iid |-> J.next_unused_iid,
               open_count |-> J.open_count, pending_list |-> J.pending_list]
      BY <2>1, <2>3
    <2>5. /\ J.current_iid \in Nat \ {0}
          /\ J.proposer_state \in [ProposerSlots -> InstanceInfo]
          /\ J.pending_list \in Seq(Values) /\ J.pending_count \in Int
          /\ J.ready_count \in Int /\ J.highest_open \in Nat
          /\ J.next_unused_iid \in Nat /\ J.open_count \in Int
      BY <1>1, <1>3, <2>1
    <2>. QED  BY <2>4, <2>5 DEF LeaderInfo
  <1>. HIDE DEF J
  <1>5. WindowFrom(J, c) = {}
    BY <1>1, <1>3 DEF WindowFrom
  <1>6. Coherent(J, c)
    BY <1>1, <1>3, <1>4, <1>5 DEF Coherent, Cleared
  <1>7. PendingFrom(J, c) = {} /\ ReadyFrom(J, c) = {} /\ OpenedFrom(J, c) = {}
    BY <1>5 DEF PendingFrom, ReadyFrom, OpenedFrom
  <1>8. Counted(J, c) /\ Quiet(J, c) /\ Surplus(J, c) = 0
    BY <1>1, <1>3, <1>7, FS_EmptySet, LeaderAssumption DEF Counted, Quiet, Surplus
  <1>9. K.current_iid = c
    BY <1>2, <1>3, <1>4 DEF OpenInstancesP1, LeaderInfo
  <1>. HIDE DEF c
  <1>10. Fits(K, c)
    BY <1>9 DEF InBuffer
  <1>11. /\ Coherent(K, c)
         /\ K.next_unused_iid = J.next_unused_iid
         /\ K.highest_open = J.highest_open + Cardinality(ToOpen(J))
    BY <1>2, <1>6, <1>10, OpenP1Effect
  <1>12. Counted(K, c) /\ Surplus(K, c) = Surplus(J, c) /\ Quiet(K, c)
    BY <1>2, <1>6, <1>8, <1>10, OpenP1Counts
  <1>13. K.highest_open >= c - 1
    <2>1. PICK k \in Nat : Cardinality(ToOpen(J)) = k
      BY <1>4, ToOpenRange
    <2>. QED  BY <1>1, <1>3, <1>11, <2>1
  <1>. QED  BY <1>3, <1>8, <1>9, <1>11, <1>12, <1>13 DEF Sound, Ahead, WindowFrom, c

(* leader_shutdown leaves nothing in the buffer. *)
LEMMA SteppedDownClears ==
    ASSUME NEW L, Coherent(L, L.current_iid), NEW K, K = SteppedDown(L)
    PROVE  Cleared(K) /\ K.current_iid = L.current_iid
PROOF
  <1>. DEFINE c == L.current_iid
              W == WindowFrom(L, c)
  <1>1. L \in LeaderInfo
    BY DEF Coherent
  <1>2. K.proposer_state =
            [s \in ProposerSlots |->
                IF \E i \in W : ProposerSlot(i) = s THEN EmptyInstance
                ELSE L.proposer_state[s]]
    BY <1>1 DEF SteppedDown, Changed, LeaderInfo, WindowFrom
  <1>3. ASSUME NEW s \in ProposerSlots
        PROVE  K.proposer_state[s] = EmptyInstance
    <2>1. CASE \E i \in W : ProposerSlot(i) = s
      BY <1>2, <2>1
    <2>2. CASE \A i \in W : ProposerSlot(i) # s
      BY <1>2, <2>2 DEF Coherent
    <2>. QED  BY <2>1, <2>2
  <1>4. K.proposer_state \in [ProposerSlots -> InstanceInfo]
    <2>1. K.proposer_state = [s \in ProposerSlots |-> K.proposer_state[s]]
      BY <1>2
    <2>. QED  BY <1>3, <2>1, EmptyType
  <1>5. K = [L EXCEPT !.proposer_state = K.proposer_state, !.pending_list = <<>>]
    BY <1>1 DEF SteppedDown, LeaderInfo
  <1>6. K \in LeaderInfo /\ K.current_iid = c
    <2>1. <<>> \in Seq(Values)
      OBVIOUS
    <2>. HIDE DEF c
    <2>. QED  BY <1>1, <1>4, <1>5, <2>1 DEF LeaderInfo, c
  <1>. QED  BY <1>3, <1>6 DEF Cleared

\* vh_enqueue_value
Enqueued(L, v) ==
    [L EXCEPT !.pending_list =
        IF Len(@) > LEADER_MAX_QUEUE_LENGTH THEN @ ELSE Append(@, v)]

(* Nothing but the list depends on the list. *)
LEMMA EnqueuedSound ==
    ASSUME NEW L, NEW v \in Values, NEW K, K = Enqueued(L, v), L \in LeaderInfo
    PROVE  /\ Sound(L) => Sound(K) /\ Ahead(K) = Ahead(L)
           /\ InBuffer(L) <=> InBuffer(K)
           /\ Cleared(L) => Cleared(K)
           /\ K.current_iid = L.current_iid /\ K.highest_open = L.highest_open
           /\ K.next_unused_iid = L.next_unused_iid
PROOF
  <1>. DEFINE l == IF Len(L.pending_list) > LEADER_MAX_QUEUE_LENGTH
                   THEN L.pending_list ELSE Append(L.pending_list, v)
              c == L.current_iid
  <1>1. l \in Seq(Values)
    BY DEF LeaderInfo
  <1>2. K = [L EXCEPT !.pending_list = l]
    BY DEF Enqueued, LeaderInfo
  <1>. HIDE DEF l
  <1>3. /\ K \in LeaderInfo
        /\ K.current_iid = L.current_iid /\ K.proposer_state = L.proposer_state
        /\ K.pending_count = L.pending_count /\ K.ready_count = L.ready_count
        /\ K.highest_open = L.highest_open
        /\ K.next_unused_iid = L.next_unused_iid /\ K.open_count = L.open_count
    BY <1>1, <1>2 DEF LeaderInfo
  <1>. HIDE DEF c
  <1>4. \A i : Instance(K, i) = Instance(L, i)
    BY <1>3 DEF Instance
  <1>5. /\ WindowFrom(K, c) = WindowFrom(L, c) /\ (Fits(L, c) <=> Fits(K, c))
        /\ \A i : Holds(L, i) => Holds(K, i)
    BY <1>3, <1>4 DEF WindowFrom, Fits, Holds
  <1>6. Coherent(L, c) => Coherent(K, c)
    BY <1>3, <1>5 DEF Coherent
  <1>7. /\ PendingFrom(K, c) = PendingFrom(L, c)
        /\ ReadyFrom(K, c) = ReadyFrom(L, c)
        /\ OpenedFrom(K, c) = OpenedFrom(L, c)
    BY <1>4, <1>5 DEF PendingFrom, ReadyFrom, OpenedFrom
  <1>8. /\ Counted(L, c) => Counted(K, c)
        /\ Quiet(L, c) => Quiet(K, c)
        /\ Surplus(K, c) = Surplus(L, c)
    BY <1>3, <1>4, <1>7 DEF Counted, Quiet, Surplus
  <1>9. Cleared(L) => Cleared(K)
    BY <1>3 DEF Cleared
  <1>. QED  BY <1>3, <1>5, <1>6, <1>8, <1>9 DEF Sound, InBuffer, Ahead, c

(* A proposer that does not lead, or whose window is behind what its learner
   delivers, only moves current_iid on. *)
LEMMA DeliveredCleared ==
    ASSUME NEW L, Cleared(L), NEW c, c = L.current_iid, NEW me \in BOOLEAN, NEW v,
           NEW K, K = Delivered(L, me, c, v)
    PROVE  /\ Cleared(K) /\ K.current_iid = c + 1 /\ K.highest_open = L.highest_open
           /\ SentOnDelivery(L, me, c, v) = {}
PROOF
  <1>1. L \in LeaderInfo /\ c \in Nat \ {0} /\ c + 1 \in Nat \ {0}
    BY DEF Cleared, LeaderInfo
  <1>2. NotOpened(L, c)
    <2>1. ProposerSlot(c) \in ProposerSlots
      BY <1>1, SlotType
    <2>. QED  BY <1>1, <2>1 DEF Cleared, NotOpened, Instance, EmptyInstance
  <1>3. K = [L EXCEPT !.current_iid = c + 1]
    BY <1>2 DEF Delivered
  <1>4. K \in LeaderInfo /\ K.current_iid = c + 1 /\ K.proposer_state = L.proposer_state
        /\ K.highest_open = L.highest_open
    BY <1>1, <1>3 DEF LeaderInfo
  <1>. QED  BY <1>2, <1>4 DEF Cleared, SentOnDelivery

-----------------------------------------------------------------------------
(* The requests.                                                            *)

\* Batches for the window from c on.
PreparesFor(S, M) ==
    \A m \in M : /\ m.type = "prepare_reqs" /\ m \in Message
                 /\ Apart(m.reqs)
                 /\ \A pr \in m.reqs : pr.iid \in S
AcceptsFor(S, M) ==
    \A m \in M : /\ m.type = "accept_reqs" /\ m \in Message
                 /\ \A ar \in m.reqs : ar.iid \in S

LEMMA PreparesSent ==
    ASSUME NEW L, NEW c, Coherent(L, c), Fits(L, c), NEW S \in SUBSET WindowFrom(L, c)
    PROVE  PreparesFor(S, PrepareReqs(L, S))
PROOF
  <1>. DEFINE reqs == {[iid |-> i, ballot |-> Instance(L, i).my_ballot] : i \in S}
              m == [type |-> "prepare_reqs", reqs |-> reqs]
  <1>1. PrepareReqs(L, S) \subseteq {m}
    BY DEF PrepareReqs
  <1>2. ASSUME NEW i \in S
        PROVE  i \in Iids /\ Instance(L, i).my_ballot \in Ballots
    BY WindowType DEF Coherent, Holds
  <1>3. reqs \in SUBSET PrepareReq
    <2>. HIDE DEF Instance
    <2>. QED  BY <1>2 DEF PrepareReq
  <1>4. Apart(reqs)
    <2>1. ASSUME NEW i \in S, NEW j \in S, ProposerSlot(i) = ProposerSlot(j)
          PROVE  i = j
      BY <2>1, WindowType, SlotInjective DEF Fits, WindowFrom
    <2>. HIDE DEF Instance
    <2>. QED  BY <2>1 DEF Apart
  <1>5. \A pr \in reqs : pr.iid \in S
    OBVIOUS
  <1>. HIDE DEF reqs
  <1>6. m \in Message /\ m.type = "prepare_reqs" /\ m.reqs = reqs
    BY <1>3 DEF Message
  <1>. QED  BY <1>1, <1>4, <1>5, <1>6 DEF PreparesFor

LEMMA AcceptsSent ==
    ASSUME NEW L, NEW c, Coherent(L, c), NEW S \in SUBSET WindowFrom(L, c),
           \A i \in S : i < L.next_unused_iid
    PROVE  AcceptsFor(S, AcceptReqs(L, S))
PROOF
  <1>. DEFINE reqs == {[iid |-> i, ballot |-> Instance(L, i).my_ballot,
                        value |-> Instance(L, i).p2_value] : i \in S}
              m == [type |-> "accept_reqs", reqs |-> reqs]
  <1>1. AcceptReqs(L, S) \subseteq {m}
    BY DEF AcceptReqs
  <1>2. ASSUME NEW i \in S
        PROVE  /\ i \in Iids /\ Instance(L, i).my_ballot \in Ballots
               /\ Instance(L, i).p2_value \in Values
    BY WindowType DEF Coherent, Holds, InstanceInfo
  <1>3. reqs \in SUBSET AcceptReq
    <2>. HIDE DEF Instance
    <2>. QED  BY <1>2 DEF AcceptReq
  <1>4. \A ar \in reqs : ar.iid \in S
    OBVIOUS
  <1>. HIDE DEF reqs
  <1>5. m \in Message /\ m.type = "accept_reqs" /\ m.reqs = reqs
    BY <1>3 DEF Message
  <1>. QED  BY <1>1, <1>4, <1>5 DEF AcceptsFor

(* What is started has a value from then on. *)
LEMMA StartedSent ==
    ASSUME NEW L, NEW c, Coherent(L, c), Fits(L, c),
           NEW K, WindowFrom(K, c) = WindowFrom(L, c), Coherent(K, c),
           K.next_unused_iid = L.next_unused_iid + StartCount(L)
    PROVE  /\ AcceptsFor(Started(L), AcceptReqs(K, Started(L)))
           /\ \A i \in Started(L) : i < K.next_unused_iid
PROOF
  <1>1. L \in LeaderInfo /\ L.next_unused_iid \in Nat
    BY DEF Coherent, LeaderInfo
  <1>2. /\ StartCount(L) \in Nat
        /\ Started(L) = L.next_unused_iid .. L.next_unused_iid + StartCount(L) - 1
        /\ Started(L) \in SUBSET ReadyFrom(L, c)
    BY <1>1, StartedRange, StartCountType
  <1>3. Started(L) \in SUBSET WindowFrom(K, c)
    BY <1>2 DEF ReadyFrom
  <1>4. \A i \in Started(L) : i < K.next_unused_iid
    BY <1>1, <1>2
  <1>. QED  BY <1>3, <1>4, AcceptsSent

(* The instance after those assigned has no value yet, unless its slot lies a whole
   buffer ahead. *)
LEMMA NextIsUnused ==
    ASSUME NEW L, NEW c, Coherent(L, c), Fits(L, c),
           L.next_unused_iid < c + PROPOSER_ARRAY_SIZE
    PROVE  Instance(L, L.next_unused_iid).p2_value = NoValue
PROOF
  <1>. DEFINE n == L.next_unused_iid
  <1>1. /\ n \in Nat /\ c \in Nat /\ c <= n /\ L.highest_open \in Nat
        /\ n <= L.highest_open + 1 /\ PROPOSER_ARRAY_SIZE \in Nat
    BY LeaderAssumption DEF Coherent, LeaderInfo
  <1>2. CASE n \in WindowFrom(L, c)
    BY <1>1, <1>2 DEF Coherent, Holds
  <1>3. CASE n \notin WindowFrom(L, c)
    <2>1. n = L.highest_open + 1
      BY <1>1, <1>3 DEF WindowFrom
    <2>2. ASSUME NEW i \in WindowFrom(L, c), ProposerSlot(i) = ProposerSlot(n)
          PROVE  FALSE
      <3>1. i \in c .. n /\ n \in c .. n /\ i # n
        BY <1>1, <2>1 DEF WindowFrom
      <3>. HIDE DEF n
      <3>. QED  BY <1>1, <2>2, <3>1, SlotInjective DEF n
    <2>3. ProposerSlot(n) \in ProposerSlots
      BY <1>1, SlotType
    <2>4. Instance(L, n) = EmptyInstance
      BY <2>2, <2>3 DEF Coherent, Instance
    <2>. QED  BY <2>4 DEF EmptyInstance
  <1>. QED  BY <1>2, <1>3

-----------------------------------------------------------------------------
(* A run of deliveries in one event.                                        *)

\* One delivery of the run.
RunStep(before, me, v) ==
    LET i == before.info.current_iid
    IN [info |-> Delivered(before.info, me, i, v),
        sent |-> before.sent \cup SentOnDelivery(before.info, me, i, v)]

\* f is the run of the deliveries vs, up to the k-th.
Runs(f, L, me, vs, k) ==
    /\ f[0] = [info |-> L, sent |-> {}]
    /\ \A n \in 1 .. k : f[n] = RunStep(f[n - 1], me, vs[n])

HasRun(L, me, vs, k) == \E f : Runs(f, L, me, vs, k) /\ AfterRun(L, me, vs) = f[k]

(* The recursion of AfterRun delivers one value after the other. *)
LEMMA RunExists ==
    ASSUME NEW L, NEW me, NEW vs, NEW k, k \in Nat, k = Len(vs)
    PROVE  HasRun(L, me, vs, k)
PROOF
  <1>. DEFINE base == [info |-> L, sent |-> {}]
              Def(f, m) == f = [n \in 0 .. m |->
                                  IF n = 0 THEN base ELSE RunStep(f[n - 1], me, vs[n])]
              S == {m \in Nat : \E f : Def(f, m)}
  <1>1. 0 \in S
    <2>. DEFINE f == [n \in 0 .. 0 |-> base]
    <2>1. \A n \in 0 .. 0 : n = 0
      OBVIOUS
    <2>2. Def(f, 0)
      BY <2>1
    <2>. QED  BY <2>2
  <1>2. ASSUME NEW m \in Nat, m \in S
        PROVE  m + 1 \in S
    <2>1. PICK f : Def(f, m)
      BY <1>2
    <2>. DEFINE g == [n \in 0 .. m + 1 |->
                        IF n = m + 1 THEN RunStep(f[m], me, vs[m + 1]) ELSE f[n]]
    <2>2. \A n \in 0 .. m : g[n] = f[n]
      OBVIOUS
    <2>3. ASSUME NEW n \in 0 .. m + 1
          PROVE  g[n] = IF n = 0 THEN base ELSE RunStep(g[n - 1], me, vs[n])
      <3>1. CASE n = m + 1
        <4>1. g[n] = RunStep(f[m], me, vs[n]) /\ n - 1 = m /\ n # 0 /\ m \in 0 .. m
          BY <3>1
        <4>. HIDE DEF g
        <4>. QED  BY <2>2, <4>1
      <3>2. CASE n # m + 1
        <4>1. n \in 0 .. m /\ (n # 0 => n - 1 \in 0 .. m)
          BY <3>2
        <4>2. f[n] = IF n = 0 THEN base ELSE RunStep(f[n - 1], me, vs[n])
          BY <2>1, <4>1
        <4>. HIDE DEF g, Def
        <4>. QED  BY <2>2, <4>1, <4>2
      <3>. QED  BY <3>1, <3>2
    <2>4. Def(g, m + 1)
      <3>1. g = [n \in 0 .. m + 1 |-> g[n]]
        OBVIOUS
      <3>. HIDE DEF g, base
      <3>. QED  BY <2>3, <3>1
    <2>. HIDE DEF Def, g
    <2>. QED  BY <2>4
  <1>3. Nat \subseteq S
    <2>. HIDE DEF S
    <2>. QED  BY <1>1, <1>2, NumberInduction
  <1>. DEFINE r == CHOOSE f : Def(f, k)
  <1>4. Def(r, k)
    <2>1. \E f : Def(f, k)
      BY <1>3
    <2>. HIDE DEF Def
    <2>. QED  BY <2>1
  <1>5. AfterRun(L, me, vs) = r[k]
    BY DEF AfterRun, RunStep
  <1>. HIDE DEF r
  <1>6. ASSUME NEW n \in 0 .. k
        PROVE  r[n] = IF n = 0 THEN base ELSE RunStep(r[n - 1], me, vs[n])
    BY <1>4
  <1>7. Runs(r, L, me, vs, k)
    <2>1. 0 \in 0 .. k /\ \A n \in 1 .. k : n \in 0 .. k /\ n # 0
      OBVIOUS
    <2>. HIDE DEF base
    <2>2. r[0] = base
      BY <1>6, <2>1
    <2>3. \A n \in 1 .. k : r[n] = RunStep(r[n - 1], me, vs[n])
      BY <1>6, <2>1
    <2>. QED  BY <2>2, <2>3 DEF Runs, base
  <1>. QED  BY <1>5, <1>7 DEF HasRun

\* Accept requests for instances below n.
AcceptsBelow(n, M) ==
    \A m \in M : /\ m.type = "accept_reqs" /\ m \in Message
                 /\ \A ar \in m.reqs : ar.iid < n

\* What holds after n deliveries of a leader L: r.info as long as its window
\* reaches, and an empty buffer from there on.
RanTo(L, r, n) ==
    /\ r.info.current_iid = L.current_iid + n
    /\ r.info.highest_open = L.highest_open
    /\ IF L.current_iid + n <= L.highest_open + 1
       THEN /\ Sound(r.info) /\ InBuffer(r.info)
            /\ r.info.next_unused_iid >= L.next_unused_iid
            /\ AcceptsBelow(r.info.next_unused_iid, r.sent)
            /\ L.current_iid + n <= L.next_unused_iid => Ahead(r.info) = Ahead(L)
       ELSE Cleared(r.info)

LEMMA EachRunLeads ==
    ASSUME NEW L, Sound(L), InBuffer(L), NEW vs, NEW k, k \in Nat,
           NEW f, Runs(f, L, TRUE, vs, k)
    PROVE  \A n \in 0 .. k : RanTo(L, f[n], n)
PROOF
  <1>. DEFINE c == L.current_iid
              h == L.highest_open
  <1>1. /\ c \in Nat \ {0} /\ h \in Nat /\ L.next_unused_iid \in Nat
        /\ c <= L.next_unused_iid /\ L.next_unused_iid <= h + 1
    BY DEF Sound, Coherent, LeaderInfo
  <1>2. Runs(f, L, TRUE, vs, k)
    OBVIOUS
  <1>. DEFINE S == {n \in Nat : n <= k => RanTo(L, f[n], n)}
  <1>3. 0 \in S
    <2>1. f[0].info = L /\ f[0].sent = {}
      BY <1>2 DEF Runs
    <2>2. AcceptsBelow(L.next_unused_iid, {})
      BY DEF AcceptsBelow
    <2>3. RanTo(L, f[0], 0)
      <3>. DEFINE r == f[0]
      <3>1. r.info = L /\ r.sent = {}
        BY <2>1
      <3>2. L.current_iid + 0 = L.current_iid
        BY <1>1
      <3>3. L.next_unused_iid >= L.next_unused_iid /\ L.current_iid <= L.highest_open + 1
        BY <1>1
      <3>. HIDE DEF r, c, h
      <3>4. RanTo(L, r, 0)
        BY <2>2, <3>1, <3>2, <3>3 DEF RanTo
      <3>. QED  BY <3>4 DEF r
    <2>. QED  BY <2>3
  <1>4. ASSUME NEW n \in Nat, n \in S
        PROVE  n + 1 \in S
    <2>. SUFFICES ASSUME n + 1 <= k PROVE RanTo(L, f[n + 1], n + 1)
      OBVIOUS
    <2>. DEFINE J == f[n].info
                K == f[n + 1].info
                v == vs[n + 1]
                i == J.current_iid
    <2>1. RanTo(L, f[n], n)
      BY <1>4
    <2>2. f[n + 1] = RunStep(f[n], TRUE, v)
      <3>1. n + 1 \in 1 .. k /\ (n + 1) - 1 = n
        OBVIOUS
      <3>. QED  BY <1>2, <3>1 DEF Runs
    <2>3. /\ K = Delivered(J, TRUE, i, v)
          /\ f[n + 1].sent = f[n].sent \cup SentOnDelivery(J, TRUE, i, v)
      BY <2>2 DEF RunStep
    <2>4. i = c + n /\ J.highest_open = h
      BY <2>1 DEF RanTo
    <2>. DEFINE sent == f[n].sent
                sent_1 == f[n + 1].sent
    <2>5. CASE c + n + 1 <= h + 1
      <3>1. c + n <= h + 1 /\ i <= J.highest_open
        BY <1>1, <2>4, <2>5
      <3>2. /\ Sound(J) /\ InBuffer(J)
            /\ J.next_unused_iid >= L.next_unused_iid
            /\ AcceptsBelow(J.next_unused_iid, sent)
            /\ c + n <= L.next_unused_iid => Ahead(J) = Ahead(L)
        BY <2>1, <3>1 DEF RanTo
      <3>. DEFINE C == CloseInstance(J, i, v)
      <3>3. i = J.current_iid
        OBVIOUS
      <3>. HIDE DEF J, K, i, sent, sent_1, v, c, h
      <3>4. /\ Sound(K) /\ InBuffer(K)
            /\ Instance(J, i).status # "p1_ready" => Ahead(K) = Ahead(J)
            /\ K.current_iid = i + 1 /\ K.highest_open = J.highest_open
            /\ K.next_unused_iid = C.next_unused_iid + StartCount(C)
            /\ C.next_unused_iid >= J.next_unused_iid
            /\ Coherent(C, i + 1) /\ Fits(C, i + 1)
            /\ WindowFrom(K, i + 1) = WindowFrom(C, i + 1)
            /\ SentOnDelivery(J, TRUE, i, v) = AcceptReqs(K, Started(C))
        <4>1. Delivers(J, C, K, i, v)
          BY <2>3, <3>1, <3>2, <3>3, DeliveredSound
        <4>. HIDE DEF C
        <4>. QED  BY <4>1 DEF Delivers
      <3>5. /\ AcceptsFor(Started(C), AcceptReqs(K, Started(C)))
            /\ \A j \in Started(C) : j < K.next_unused_iid
        <4>1. Coherent(K, i + 1)
          BY <3>4 DEF Sound
        <4>. QED  BY <3>4, <4>1, StartedSent
      <3>6. /\ J.next_unused_iid \in Nat /\ C.next_unused_iid \in Nat
            /\ StartCount(C) \in Nat /\ K.next_unused_iid \in Nat
            /\ i \in Nat /\ J.highest_open \in Nat
        <4>1. C \in LeaderInfo /\ J \in LeaderInfo /\ K \in LeaderInfo
          BY <3>2, <3>4 DEF Sound, Coherent
        <4>. HIDE DEF C
        <4>. QED  BY <3>3, <4>1, StartCountType DEF LeaderInfo
      <3>7. K.next_unused_iid >= J.next_unused_iid
        <4>1. K.next_unused_iid = C.next_unused_iid + StartCount(C)
              /\ C.next_unused_iid >= J.next_unused_iid
          BY <3>4
        <4>. HIDE DEF C
        <4>. QED  BY <3>6, <4>1
      <3>8. AcceptsBelow(K.next_unused_iid, sent_1)
        <4>1. \A m \in AcceptReqs(K, Started(C)) :
                 /\ m.type = "accept_reqs" /\ m \in Message
                 /\ \A ar \in m.reqs : ar.iid < K.next_unused_iid
          BY <3>5 DEF AcceptsFor
        <4>2. \A m \in sent : /\ m.type = "accept_reqs" /\ m \in Message
                              /\ \A ar \in m.reqs : ar.iid < K.next_unused_iid
          <5>1. ASSUME NEW m \in sent, NEW ar \in m.reqs
                PROVE  ar.iid < K.next_unused_iid
            <6>1. m.type = "accept_reqs" /\ m \in Message /\ ar.iid < J.next_unused_iid
              BY <3>2 DEF AcceptsBelow
            <6>2. ar.iid \in Nat
              BY <6>1, MessagesAssumption DEF Message, AcceptReq, AckMessage
            <6>. QED  BY <3>6, <3>7, <6>1, <6>2
          <5>. QED  BY <3>2, <5>1 DEF AcceptsBelow
        <4>3. sent_1 = sent \cup AcceptReqs(K, Started(C))
          BY <2>3, <3>4 DEF sent, sent_1, J, i, v
        <4>. QED  BY <4>1, <4>2, <4>3 DEF AcceptsBelow
      <3>9. ASSUME c + n + 1 <= L.next_unused_iid
            PROVE  Ahead(K) = Ahead(L)
        <4>1. c \in Nat /\ L.next_unused_iid \in Nat
          BY <1>1 DEF c
        <4>2. i \in i .. J.next_unused_iid - 1 /\ c + n <= L.next_unused_iid
          <5>1. i = c + n
            BY <2>4 DEF i, c
          <5>2. J.next_unused_iid >= L.next_unused_iid
            BY <3>2
          <5>. QED  BY <3>6, <3>9, <4>1, <5>1, <5>2
        <4>3. Instance(J, i).status # "p1_ready"
          BY <3>2, <3>3, <4>2 DEF Sound, Quiet
        <4>. QED  BY <3>2, <3>4, <4>2, <4>3
      <3>10. K.current_iid = c + (n + 1) /\ K.highest_open = h
        BY <1>1, <2>4, <3>4 DEF c, h
      <3>11. K.next_unused_iid >= L.next_unused_iid
        <4>1. L.next_unused_iid \in Nat
          BY <1>1
        <4>. QED  BY <3>2, <3>6, <3>7, <4>1
      <3>12. c \in Nat /\ h \in Nat
        BY <1>1 DEF c, h
      <3>13. c + (n + 1) <= h + 1
        BY <2>5, <3>12
      <3>14. c + (n + 1) <= L.next_unused_iid => Ahead(K) = Ahead(L)
        BY <3>9, <3>12
      <3>. QED  BY <3>4, <3>8, <3>10, <3>11, <3>13, <3>14 DEF RanTo, K, sent_1, c, h
    <2>6. CASE ~ (c + n + 1 <= h + 1)
      <3>1. Cleared(J)
        <4>1. CASE c + n <= h + 1
          <5>1. i = h + 1 /\ Sound(J)
            BY <1>1, <2>1, <2>4, <2>6, <4>1 DEF RanTo
          <5>2. Coherent(J, i)
            BY <5>1 DEF Sound
          <5>. HIDE DEF J, i
          <5>3. WindowFrom(J, i) = {}
            BY <1>1, <2>4, <5>1 DEF WindowFrom
          <5>. QED  BY <5>2, <5>3 DEF Coherent, Cleared
        <4>2. CASE ~ (c + n <= h + 1)
          BY <2>1, <4>2 DEF RanTo
        <4>. QED  BY <4>1, <4>2
      <3>2. Cleared(K) /\ K.current_iid = i + 1 /\ K.highest_open = J.highest_open
        <4>1. i = J.current_iid
          OBVIOUS
        <4>. HIDE DEF J, K, i, v
        <4>. QED  BY <2>3, <3>1, <4>1, DeliveredCleared
      <3>3. K.current_iid = c + (n + 1) /\ ~ (c + (n + 1) <= h + 1)
        <4>1. c \in Nat /\ h \in Nat /\ i = c + n /\ K.current_iid = i + 1
          BY <1>1, <2>4, <3>2
        <4>. HIDE DEF K, i, c, h
        <4>. QED  BY <2>6, <4>1
      <3>. QED  BY <2>4, <3>2, <3>3 DEF RanTo
    <2>. QED  BY <2>5, <2>6
  <1>5. Nat \subseteq S
    <2>. HIDE DEF S
    <2>. QED  BY <1>3, <1>4, NumberInduction
  <1>. QED  BY <1>5

LEMMA RunLeads ==
    ASSUME NEW L, Sound(L), InBuffer(L), NEW vs, NEW k, k \in Nat, k = Len(vs)
    PROVE  RanTo(L, AfterRun(L, TRUE, vs), k)
PROOF
  <1>1. PICK f : Runs(f, L, TRUE, vs, k) /\ AfterRun(L, TRUE, vs) = f[k]
    <2>1. HasRun(L, TRUE, vs, k)
      BY RunExists
    <2>. QED  BY <2>1, Zenon DEF HasRun
  <1>2. \A n \in 0 .. k : RanTo(L, f[n], n)
    BY <1>1, EachRunLeads
  <1>3. k \in 0 .. k
    OBVIOUS
  <1>. QED  BY <1>1, <1>2, <1>3

LEMMA RunFollows ==
    ASSUME NEW L, Cleared(L), NEW vs, NEW k, k \in Nat, k = Len(vs)
    PROVE  /\ Cleared(AfterRun(L, FALSE, vs).info)
           /\ AfterRun(L, FALSE, vs).info.current_iid = L.current_iid + k
           /\ AfterRun(L, FALSE, vs).sent = {}
PROOF
  <1>. DEFINE c == L.current_iid
  <1>1. c \in Nat
    BY DEF Cleared, LeaderInfo
  <1>2. PICK f : Runs(f, L, FALSE, vs, k) /\ AfterRun(L, FALSE, vs) = f[k]
    <2>1. HasRun(L, FALSE, vs, k)
      BY RunExists
    <2>. QED  BY <2>1, Zenon DEF HasRun
  <1>. DEFINE After(n) == /\ Cleared(f[n].info) /\ f[n].info.current_iid = c + n
                          /\ f[n].sent = {}
              S == {n \in Nat : n <= k => After(n)}
  <1>3. 0 \in S
    <2>1. f[0].info = L /\ f[0].sent = {}
      BY <1>2 DEF Runs
    <2>. QED  BY <1>1, <2>1
  <1>4. ASSUME NEW n \in Nat, n \in S
        PROVE  n + 1 \in S
    <2>. SUFFICES ASSUME n + 1 <= k PROVE After(n + 1)
      OBVIOUS
    <2>. DEFINE J == f[n].info
                K == f[n + 1].info
                v == vs[n + 1]
                i == J.current_iid
    <2>1. After(n)
      BY <1>4
    <2>2. f[n + 1] = RunStep(f[n], FALSE, v)
      <3>1. n + 1 \in 1 .. k /\ (n + 1) - 1 = n
        OBVIOUS
      <3>. QED  BY <1>2, <3>1 DEF Runs
    <2>3. /\ K = Delivered(J, FALSE, i, v)
          /\ f[n + 1].sent = f[n].sent \cup SentOnDelivery(J, FALSE, i, v)
      BY <2>2 DEF RunStep
    <2>4. Cleared(K) /\ K.current_iid = i + 1 /\ SentOnDelivery(J, FALSE, i, v) = {}
      <3>1. i = J.current_iid /\ Cleared(J) /\ FALSE \in BOOLEAN
        BY <2>1
      <3>. HIDE DEF J, K, i, v
      <3>. QED  BY <2>3, <3>1, DeliveredCleared
    <2>5. K.current_iid = c + (n + 1)
      <3>1. i = c + n /\ c \in Nat /\ K.current_iid = i + 1
        BY <1>1, <2>1, <2>4
      <3>. HIDE DEF K, i, c
      <3>. QED  BY <3>1
    <2>6. f[n + 1].sent = {}
      <3>1. f[n].sent = {}
        BY <2>1
      <3>. HIDE DEF J, i, v
      <3>. QED  BY <2>3, <2>4, <3>1
    <2>. QED  BY <2>4, <2>5, <2>6
  <1>5. Nat \subseteq S
    <2>. HIDE DEF S
    <2>. QED  BY <1>3, <1>4, NumberInduction
  <1>6. After(k)
    BY <1>5
  <1>. QED  BY <1>2, <1>6

\* What is sent is well formed, the elements of a prepare batch are for different
\* slots, and values are asked for below instance n only.
WellFormed(M) ==
    \A m \in M : m \in Message /\ (m.type = "prepare_reqs" => Apart(m.reqs))
AsksBelow(n, M) ==
    \A m \in M : m.type = "accept_reqs" => \A ar \in m.reqs : ar.iid < n

LEMMA BatchesFormed ==
    /\ \A S, M : PreparesFor(S, M) => WellFormed(M) /\ \A n : AsksBelow(n, M)
    /\ \A S, M : AcceptsFor(S, M) => WellFormed(M)
    /\ \A S, M, n : AcceptsFor(S, M) /\ (\A i \in S : i < n) => AsksBelow(n, M)
    /\ \A M, n : AcceptsBelow(n, M) => WellFormed(M) /\ AsksBelow(n, M)
    /\ \A M, N : WellFormed(M) /\ WellFormed(N) => WellFormed(M \cup N)
    /\ \A M, N, n : AsksBelow(n, M) /\ AsksBelow(n, N) => AsksBelow(n, M \cup N)
BY DEF PreparesFor, AcceptsFor, AcceptsBelow, WellFormed, AsksBelow

-----------------------------------------------------------------------------
(* The values.  A leader that nobody competes with moves each value from its *)
(* list into one instance and leaves it there.                               *)

\* The instances that have a value, their values, and the values of the list.
Assigned(L, c) == c .. L.next_unused_iid - 1
Given(L, i)    == Instance(L, i).p2_value
Listed(L)      == {L.pending_list[n] : n \in DOMAIN L.pending_list}
Held(L, c)     == {Given(L, i) : i \in Assigned(L, c)} \cup Listed(L)

\* Phase 1 finds for an instance the value it has, and every value is held once.
FindsGiven(L, c) ==
    \A i \in WindowFrom(L, c) :
        Instance(L, i).p1_value # NoValue =>
            i < L.next_unused_iid /\ Instance(L, i).p1_value = Given(L, i)

HeldOnce(L, c) ==
    /\ \A i, j \in Assigned(L, c) : Given(L, i) = Given(L, j) => i = j
    /\ \A i \in Assigned(L, c) : \A n \in DOMAIN L.pending_list :
          Given(L, i) # L.pending_list[n]
    /\ \A m, n \in DOMAIN L.pending_list :
          L.pending_list[m] = L.pending_list[n] => m = n

Orderly(L, c) == FindsGiven(L, c) /\ HeldOnce(L, c)

\* From L to K values only moved from the list into instances.
MovesValues(L, K, c) ==
    /\ Orderly(K, c)
    /\ Held(K, c) = Held(L, c)
    /\ L.next_unused_iid <= K.next_unused_iid
    /\ \A i \in Assigned(L, c) : Given(K, i) = Given(L, i)

(* No value moves where the list and the instances that have one stay. *)
LEMMA ValuesStay ==
    ASSUME NEW L, NEW K, NEW c, Orderly(L, c), L.next_unused_iid \in Nat,
           K.next_unused_iid = L.next_unused_iid, K.pending_list = L.pending_list,
           \A i \in Assigned(L, c) : Given(K, i) = Given(L, i),
           FindsGiven(K, c)
    PROVE  MovesValues(L, K, c)
PROOF
  <1>1. Assigned(K, c) = Assigned(L, c) /\ Listed(K) = Listed(L)
    BY DEF Assigned, Listed
  <1>2. HeldOnce(K, c)
    BY <1>1 DEF Orderly, HeldOnce
  <1>3. Held(K, c) = Held(L, c)
    BY <1>1 DEF Held
  <1>. QED  BY <1>2, <1>3 DEF MovesValues, Orderly

(* The instances that have a value are in the window. *)
LEMMA AssignedType ==
    ASSUME NEW L, NEW c, Coherent(L, c)
    PROVE  /\ L.next_unused_iid \in Nat /\ c \in Nat \ {0}
           /\ \A i \in Assigned(L, c) :
                 i \in WindowFrom(L, c) /\ i < L.next_unused_iid
           /\ \A i \in WindowFrom(L, c) :
                 i < L.next_unused_iid => i \in Assigned(L, c)
           /\ \A i \in WindowFrom(L, c) :
                 /\ i < L.next_unused_iid => Given(L, i) \in Values
                 /\ ~ (i < L.next_unused_iid) => Given(L, i) = NoValue
           /\ \A v \in Held(L, c) : v \in Values
PROOF
  <1>1. /\ c \in Nat \ {0} /\ L.highest_open \in Nat /\ L.next_unused_iid \in Nat
        /\ L.next_unused_iid <= L.highest_open + 1 /\ L.pending_list \in Seq(Values)
    BY DEF Coherent, LeaderInfo
  <1>2. ASSUME NEW i \in Assigned(L, c)
        PROVE  i \in WindowFrom(L, c) /\ i < L.next_unused_iid
    BY <1>1 DEF Assigned, WindowFrom
  <1>3. ASSUME NEW i \in WindowFrom(L, c), i < L.next_unused_iid
        PROVE  i \in Assigned(L, c)
    BY <1>1, <1>3 DEF Assigned, WindowFrom
  <1>4. ASSUME NEW i \in WindowFrom(L, c)
        PROVE  /\ i < L.next_unused_iid => Given(L, i) \in Values
               /\ ~ (i < L.next_unused_iid) => Given(L, i) = NoValue
    <2>1. Holds(L, i) /\ Instance(L, i) \in InstanceInfo
      BY WindowType DEF Coherent
    <2>. QED  BY <2>1 DEF Holds, Given, InstanceInfo
  <1>5. ASSUME NEW v \in Held(L, c)
        PROVE  v \in Values
    <2>1. \A n \in DOMAIN L.pending_list : L.pending_list[n] \in Values
      BY <1>1
    <2>. QED  BY <1>2, <1>4, <2>1 DEF Held, Listed
  <1>. QED  BY <1>1, <1>2, <1>3, <1>4, <1>5

(* leader_check_p1_pending *)
LEMMA CheckP1Values ==
    ASSUME NEW L, NEW c, Coherent(L, c), Fits(L, c), Orderly(L, c),
           NEW E \in SUBSET PendingFrom(L, c),
           \A i \in E : NEXT_BALLOT(Instance(L, i).my_ballot) \in Ballots,
           NEW K, K = CheckP1Pending(L, E)
    PROVE  MovesValues(L, K, c)
PROOF
  <1>1. /\ OnlySlots(L, K) /\ Coherent(K, c)
        /\ WindowFrom(K, c) = WindowFrom(L, c)
        /\ \A i \in E : Instance(K, i) = Retried(Instance(L, i))
        /\ \A i \in WindowFrom(L, c) \ E : Instance(K, i) = Instance(L, i)
    <2>1. /\ OnlySlots(L, K) /\ Coherent(K, c)
          /\ WindowFrom(K, c) = WindowFrom(L, c)
          /\ \A i \in E : Instance(K, i) = Retried(Instance(L, i))
          /\ Keeps(L, K, c, E)
      BY CheckP1Effect
    <2>. QED  BY <2>1 DEF Keeps
  <1>2. K.next_unused_iid = L.next_unused_iid /\ K.pending_list = L.pending_list
    BY <1>1 DEF OnlySlots, Coherent, LeaderInfo
  <1>3. ASSUME NEW i \in E
        PROVE  /\ Instance(K, i).p1_value = NoValue
               /\ Instance(K, i).p2_value = Instance(L, i).p2_value
    <2>1. i \in WindowFrom(L, c) /\ NEXT_BALLOT(Instance(L, i).my_ballot) \in Ballots
      BY DEF PendingFrom
    <2>2. Instance(L, i) \in InstanceInfo
      BY <2>1, WindowType
    <2>. QED  BY <1>1, <2>1, <2>2, RetriedType
  <1>4. \A i \in WindowFrom(L, c) : Given(K, i) = Given(L, i)
    BY <1>1, <1>3 DEF Given
  <1>5. \A i \in WindowFrom(L, c) :
            Instance(K, i).p1_value \in {NoValue, Instance(L, i).p1_value}
    BY <1>1, <1>3
  <1>6. FindsGiven(K, c)
    BY <1>1, <1>2, <1>4, <1>5 DEF FindsGiven, Orderly
  <1>. QED  BY <1>2, <1>4, <1>6, AssignedType, ValuesStay

(* leader_open_instances_p1 *)
LEMMA OpenP1Values ==
    ASSUME NEW p \in Proposers, NEW L, NEW c, Coherent(L, c), Orderly(L, c),
           NEW K, K = OpenInstancesP1(p, L), Fits(K, c)
    PROVE  MovesValues(L, K, c)
PROOF
  <1>1. /\ K.next_unused_iid = L.next_unused_iid /\ K.pending_list = L.pending_list
        /\ WindowFrom(K, c) = WindowFrom(L, c) \cup ToOpen(L)
        /\ \A i \in ToOpen(L) :
              i \in Iids /\ Instance(K, i) = Opened(i, FIRST_BALLOT(p))
        /\ \A i \in WindowFrom(L, c) : Instance(K, i) = Instance(L, i)
    BY OpenP1Effect
  <1>2. \A i \in ToOpen(L) : Instance(K, i).p1_value = NoValue
    BY <1>1, OpenedType, LeaderAssumption DEF FIRST_BALLOT
  <1>3. \A i \in Assigned(L, c) : Given(K, i) = Given(L, i)
    BY <1>1, AssignedType DEF Given
  <1>4. FindsGiven(K, c)
    BY <1>1, <1>2 DEF FindsGiven, Orderly, Given
  <1>. QED  BY <1>1, <1>3, <1>4, AssignedType, ValuesStay

(* leader_open_instances_p2_expired *)
LEMMA P2ExpiredValues ==
    ASSUME NEW L, NEW c, Coherent(L, c), Fits(L, c), c = L.current_iid, Orderly(L, c),
           NEW K, K = OpenInstancesP2Expired(L)
    PROVE  MovesValues(L, K, c)
PROOF
  <1>1. /\ WindowFrom(K, c) = WindowFrom(L, c)
        /\ ExpiredReady(L) = {i \in ReadyFrom(L, c) : i < L.next_unused_iid}
        /\ K.next_unused_iid = L.next_unused_iid /\ K.pending_list = L.pending_list
        /\ \A i \in ExpiredReady(L) : Instance(K, i) = ExecuteP2(Instance(L, i), NoValue)
        /\ \A i \in WindowFrom(L, c) \ ExpiredReady(L) : Instance(K, i) = Instance(L, i)
    <2>1. Keeps(L, K, c, ExpiredReady(L))
      BY P2ExpiredEffect
    <2>. QED  BY <2>1, P2ExpiredEffect DEF Keeps
  <1>2. ASSUME NEW i \in ExpiredReady(L)
        PROVE  Instance(K, i).p1_value = NoValue /\ Given(K, i) = Given(L, i)
    <2>1. i \in WindowFrom(L, c) /\ i < L.next_unused_iid
      BY <1>1 DEF ReadyFrom
    <2>2. Instance(L, i) \in InstanceInfo /\ Given(L, i) \in Values
      BY <2>1, WindowType, AssignedType
    <2>3. Instance(L, i).p1_value # NoValue => Instance(L, i).p1_value = Given(L, i)
      BY <2>1 DEF Orderly, FindsGiven
    <2>4. /\ Instance(K, i).p1_value = NoValue
          /\ Instance(K, i).p2_value =
                 IF Instance(L, i).p1_value # NoValue THEN Instance(L, i).p1_value
                 ELSE IF Instance(L, i).p2_value # NoValue THEN Instance(L, i).p2_value
                 ELSE NoValue
      BY <1>1, <2>2, ExecuteType
    <2>. QED  BY <2>2, <2>3, <2>4 DEF Given
  <1>3. \A i \in WindowFrom(L, c) : Given(K, i) = Given(L, i)
    BY <1>1, <1>2 DEF Given
  <1>4. \A i \in WindowFrom(L, c) :
            Instance(K, i).p1_value \in {NoValue, Instance(L, i).p1_value}
    BY <1>1, <1>2
  <1>5. FindsGiven(K, c)
    BY <1>1, <1>3, <1>4 DEF FindsGiven, Orderly
  <1>. QED  BY <1>1, <1>3, <1>5, AssignedType, ValuesStay

(* leader_periodic_p2_check, up to its call of leader_open_instances_p2_new *)
LEMMA CheckP2Values ==
    ASSUME NEW L, NEW c, Coherent(L, c), Fits(L, c), c = L.current_iid, Orderly(L, c),
           NEW closed, NEW expired, Settles(L, closed, expired),
           NEW K, K = CheckP2(L, closed, expired)
    PROVE  MovesValues(L, K, c)
PROOF
  <1>1. P2Checked(L, K, c, closed, expired)
    BY CheckP2Effect
  <1>2. /\ WindowFrom(K, c) = WindowFrom(L, c)
        /\ closed \cup expired \subseteq WindowFrom(L, c)
        /\ K.next_unused_iid = L.next_unused_iid /\ K.pending_list = L.pending_list
        /\ \A i \in closed : Instance(K, i) = Completed(Instance(L, i))
        /\ \A i \in expired : Instance(K, i) = SentBack(Instance(L, i))
        /\ \A i \in WindowFrom(L, c) \ (closed \cup expired) :
              Instance(K, i) = Instance(L, i)
    BY <1>1 DEF P2Checked, Keeps
  <1>3. \A i \in expired : NEXT_BALLOT(Instance(L, i).my_ballot) \in Ballots
    BY DEF Settles
  <1>4. ASSUME NEW i \in WindowFrom(L, c)
        PROVE  /\ Instance(K, i).p1_value = Instance(L, i).p1_value
               /\ Instance(K, i).p2_value = Instance(L, i).p2_value
    <2>1. Instance(L, i) \in InstanceInfo
      BY WindowType
    <2>2. CASE i \in closed
      BY <1>2, <2>1, <2>2, SettledType
    <2>3. CASE i \in expired
      BY <1>2, <1>3, <2>1, <2>3, SettledType
    <2>4. CASE i \notin closed \cup expired
      BY <1>2, <2>4
    <2>. QED  BY <2>2, <2>3, <2>4
  <1>5. \A i \in WindowFrom(L, c) : Given(K, i) = Given(L, i)
    BY <1>4 DEF Given
  <1>6. FindsGiven(K, c)
    BY <1>2, <1>4, <1>5 DEF FindsGiven, Orderly
  <1>. QED  BY <1>2, <1>5, <1>6, AssignedType, ValuesStay

\* The promises the leader accepts report for an instance the value it has, if any.
AcksAgree(L, c, acks) ==
    \A i \in WindowFrom(L, c) : \A pa \in AcceptedPromises(L, acks) :
        ProposerSlot(pa.iid) = ProposerSlot(i) /\ pa.value # NoValue =>
            i < L.next_unused_iid /\ pa.value = Given(L, i)

(* handle_prepare_ack_batch, up to its calls of phase 2 *)
LEMMA PromisesValues ==
    ASSUME NEW L, NEW c, Coherent(L, c), Fits(L, c), Orderly(L, c),
           NEW acks \in SUBSET PrepareAck, Apart(acks), AcksAgree(L, c, acks),
           NEW K, K = AfterPromises(L, acks)
    PROVE  MovesValues(L, K, c)
PROOF
  <1>1. /\ WindowFrom(K, c) = WindowFrom(L, c)
        /\ K.next_unused_iid = L.next_unused_iid /\ K.pending_list = L.pending_list
        /\ \A i \in Promised(L, c, acks) :
              Instance(K, i) = HandlePrepareAck(Instance(L, i), PromiseFor(L, acks, i))
    BY PromisesEffect
  <1>2. \A i \in WindowFrom(L, c) \ Promised(L, c, acks) : Instance(K, i) = Instance(L, i)
    <2>1. Keeps(L, K, c, Promised(L, c, acks))
      BY PromisesEffect
    <2>. QED  BY <2>1 DEF Keeps
  <1>3. ASSUME NEW i \in Promised(L, c, acks)
        PROVE  /\ Given(K, i) = Given(L, i)
               /\ \/ Instance(K, i).p1_value = Instance(L, i).p1_value
                  \/ i < L.next_unused_iid /\ Instance(K, i).p1_value = Given(L, i)
    <2>. DEFINE pa == PromiseFor(L, acks, i)
                ii == Instance(L, i)
    <2>1. /\ i \in PendingFrom(L, c) /\ pa \in AcceptedPromises(L, acks)
          /\ ProposerSlot(pa.iid) = ProposerSlot(i)
      BY PromisedInstance
    <2>2. i \in WindowFrom(L, c) /\ pa \in acks
      BY <2>1 DEF PendingFrom, AcceptedPromises
    <2>3. ii \in InstanceInfo /\ pa \in PrepareAck
      BY <2>2, WindowType
    <2>4. pa.value # NoValue => i < L.next_unused_iid /\ pa.value = Given(L, i)
      BY <2>1, <2>2 DEF AcksAgree
    <2>5. Instance(K, i) = HandlePrepareAck(ii, pa)
      BY <1>1
    <2>. HIDE DEF pa, ii
    <2>6. HandlePrepareAck(ii, pa).p2_value = ii.p2_value
      BY <2>3, PromiseType
    <2>7. HandlePrepareAck(ii, pa).p1_value =
              IF pa.value # NoValue /\ pa.value_ballot > ii.p1_value_ballot
              THEN pa.value ELSE ii.p1_value
      BY <2>3 DEF HandlePrepareAck, SavePrepareAck, InstanceInfo
    <2>8. Given(K, i) = Given(L, i)
      BY <2>5, <2>6 DEF Given, ii
    <2>. QED  BY <2>4, <2>5, <2>7, <2>8 DEF ii
  <1>4. \A i \in WindowFrom(L, c) : Given(K, i) = Given(L, i)
    BY <1>2, <1>3 DEF Given
  <1>5. FindsGiven(K, c)
    <2>1. ASSUME NEW i \in WindowFrom(L, c), Instance(K, i).p1_value # NoValue
          PROVE  i < L.next_unused_iid /\ Instance(K, i).p1_value = Given(L, i)
      <3>1. \/ Instance(K, i).p1_value = Instance(L, i).p1_value
            \/ i < L.next_unused_iid /\ Instance(K, i).p1_value = Given(L, i)
        BY <1>2, <1>3
      <3>. QED  BY <2>1, <3>1 DEF FindsGiven, Orderly
    <2>. QED  BY <1>1, <1>4, <2>1 DEF FindsGiven
  <1>. QED  BY <1>1, <1>4, <1>5, AssignedType, ValuesStay

(* Nothing was found for the instances without a value, so each instance that
   leader_open_instances_p2_new starts takes a value of the list, in order. *)
LEMMA StartedValues ==
    ASSUME NEW L, NEW c, Coherent(L, c), Orderly(L, c), NEW k, k = StartCount(L)
    PROVE  /\ k \in Nat /\ TakenBefore(L, k) = k /\ k <= Len(L.pending_list)
           /\ \A i \in Started(L) :
                 /\ Instance(L, i).p1_value = NoValue
                 /\ NextValue(L, i) = L.pending_list[i - L.next_unused_iid + 1]
PROOF
  <1>. DEFINE n == L.next_unused_iid
              h == L.highest_open
  <1>1. /\ k \in Nat /\ n \in Nat /\ h \in Nat /\ c \in Nat /\ c <= n
        /\ L.pending_list \in Seq(Values) /\ \A j \in 0 .. k - 1 : CanStart(L, j)
    BY StartCountType DEF Coherent, LeaderInfo
  <1>2. Started(L) = n .. n + k - 1 /\ n + k <= h + 1
    BY StartedRange
  <1>3. ASSUME NEW j \in 0 .. k - 1
        PROVE  NoValueFound(L, j)
    <2>1. n + j \in WindowFrom(L, c) /\ ~ (n + j < n)
      <3>1. WindowFrom(L, c) = c .. h
        BY DEF WindowFrom
      <3>. HIDE DEF n, h
      <3>. QED  BY <1>1, <1>2, <3>1
    <2>. QED  BY <2>1 DEF Orderly, FindsGiven, NoValueFound
  <1>4. ASSUME NEW j \in 0 .. k
        PROVE  TakenBefore(L, j) = j
    <2>1. {m \in 0 .. j - 1 : NoValueFound(L, m)} = 0 .. j - 1
      BY <1>1, <1>3
    <2>2. Cardinality(0 .. j - 1) = j
      <3>1. 0 \in Int /\ j - 1 \in Int /\ (0 > j - 1 <=> j = 0) /\ (j - 1) - 0 + 1 = j
        BY <1>1
      <3>. QED  BY <3>1, FS_Interval
    <2>. QED  BY <2>1, <2>2 DEF TakenBefore
  <1>5. k <= Len(L.pending_list)
    <2>1. CASE k = 0
      BY <1>1, <2>1
    <2>2. CASE k # 0
      <3>1. k - 1 \in 0 .. k - 1 /\ k - 1 \in 0 .. k
        BY <1>1, <2>2
      <3>2. CanStart(L, k - 1) /\ NoValueFound(L, k - 1) /\ TakenBefore(L, k - 1) = k - 1
        BY <1>1, <1>3, <1>4, <3>1
      <3>3. k - 1 < Len(L.pending_list)
        BY <3>2 DEF CanStart
      <3>. QED  BY <1>1, <3>3
    <2>. QED  BY <2>1, <2>2
  <1>6. ASSUME NEW i \in Started(L)
        PROVE  /\ Instance(L, i).p1_value = NoValue
               /\ NextValue(L, i) = L.pending_list[i - n + 1]
    <2>1. i - n \in 0 .. k - 1 /\ i - n \in 0 .. k /\ n + (i - n) = i
      <3>1. i \in n .. n + k - 1
        BY <1>2
      <3>2. n \in Nat /\ k \in Nat
        BY <1>1
      <3>. HIDE DEF n
      <3>. QED  BY <3>1, <3>2
    <2>2. Instance(L, i).p1_value = NoValue
      BY <1>3, <2>1 DEF NoValueFound
    <2>. QED  BY <1>4, <2>1, <2>2 DEF NextValue
  <1>7. TakenBefore(L, k) = k
    BY <1>1, <1>4
  <1>. QED  BY <1>1, <1>5, <1>6, <1>7

(* leader_open_instances_p2_new moves the first values of the list into the next
   instances. *)
LEMMA P2NewValues ==
    ASSUME NEW L, NEW c, Coherent(L, c), Fits(L, c), Orderly(L, c),
           NEW K, K = OpenInstancesP2New(L)
    PROVE  MovesValues(L, K, c)
PROOF
  <1>. DEFINE k == StartCount(L)
              n == L.next_unused_iid
              l == L.pending_list
              Start == n .. n + k - 1
  <1>1. /\ k \in Nat /\ k <= Len(l) /\ TakenBefore(L, k) = k
        /\ \A i \in Started(L) : /\ Instance(L, i).p1_value = NoValue
                                 /\ NextValue(L, i) = l[i - n + 1]
    BY StartedValues
  <1>2. /\ n \in Nat /\ c \in Nat /\ c <= n /\ l \in Seq(Values) /\ Len(l) \in Nat
        /\ WindowFrom(L, c) = c .. L.highest_open /\ L.highest_open \in Nat
    BY DEF Coherent, LeaderInfo, WindowFrom
  <1>3. Started(L) = Start /\ n + k <= L.highest_open + 1
    BY StartedRange
  <1>4. /\ WindowFrom(K, c) = WindowFrom(L, c) /\ K.next_unused_iid = n + k
        /\ K.pending_list = SubSeq(l, k + 1, Len(l))
        /\ \A i \in Start : Instance(K, i) = ExecuteP2(Instance(L, i), NextValue(L, i))
    <2>1. k = StartCount(L)
      OBVIOUS
    <2>. HIDE DEF k
    <2>2. /\ WindowFrom(K, c) = WindowFrom(L, c) /\ K.next_unused_iid = n + k
          /\ K.pending_list = SubSeq(l, TakenBefore(L, k) + 1, Len(l))
          /\ \A i \in Started(L) :
                Instance(K, i) = ExecuteP2(Instance(L, i), NextValue(L, i))
      BY <2>1, P2NewEffect
    <2>. QED  BY <1>1, <1>3, <2>2
  <1>5. \A i \in WindowFrom(L, c) \ Start : Instance(K, i) = Instance(L, i)
    <2>1. Keeps(L, K, c, Started(L))
      BY P2NewEffect
    <2>. QED  BY <1>3, <2>1 DEF Keeps
  <1>6. /\ Len(K.pending_list) = Len(l) - k /\ DOMAIN K.pending_list = 1 .. Len(l) - k
        /\ \A j \in 1 .. Len(l) - k : K.pending_list[j] = l[k + j]
    <2>. DEFINE tail == SubSeq(l, k + 1, Len(l))
    <2>. HIDE DEF k, l
    <2>1. Len(tail) = Len(l) - k /\ Len(l) - k \in Nat
      BY <1>1, <1>2
    <2>2. \A j \in 1 .. Len(l) - k : tail[j] = l[k + j]
      BY <1>1, <1>2
    <2>3. tail \in Seq(Values)
      BY <1>1, <1>2
    <2>4. DOMAIN tail = 1 .. Len(tail)
      BY <2>3
    <2>5. K.pending_list = tail
      BY <1>4 DEF k, l
    <2>. HIDE DEF tail
    <2>. QED  BY <2>1, <2>2, <2>4, <2>5
  <1>7. ASSUME NEW i \in Start
        PROVE  /\ Instance(K, i).p1_value = NoValue /\ Given(K, i) = l[i - n + 1]
               /\ i - n + 1 \in 1 .. k /\ i - n + 1 \in DOMAIN l
    <2>1. i \in WindowFrom(L, c) /\ ~ (i < n) /\ i - n + 1 \in 1 .. k
          /\ i - n + 1 \in 1 .. Len(l)
      <3>. HIDE DEF k, n, l
      <3>. QED  BY <1>1, <1>2, <1>3
    <2>2. Instance(L, i) \in InstanceInfo /\ Given(L, i) = NoValue
      BY <2>1, WindowType, AssignedType
    <2>3. NextValue(L, i) = l[i - n + 1] /\ Instance(L, i).p1_value = NoValue
      BY <1>1, <1>3
    <2>4. DOMAIN l = 1 .. Len(l) /\ l[i - n + 1] \in Values
      BY <1>2, <2>1
    <2>5. /\ ExecuteP2(Instance(L, i), NextValue(L, i)).p1_value = NoValue
          /\ ExecuteP2(Instance(L, i), NextValue(L, i)).p2_value = NextValue(L, i)
      BY <2>2, <2>3, <2>4, ExecuteType DEF Given
    <2>. QED  BY <1>4, <2>1, <2>3, <2>4, <2>5 DEF Given
  <1>8. /\ Assigned(L, c) = c .. n - 1
        /\ Assigned(K, c) = Assigned(L, c) \cup Start
        /\ Assigned(L, c) \cap Start = {}
        /\ Assigned(L, c) \subseteq WindowFrom(L, c)
    <2>1. Assigned(L, c) = c .. n - 1 /\ Assigned(K, c) = c .. n + k - 1
      <3>1. K.next_unused_iid = n + k
        BY <1>4
      <3>2. Assigned(K, c) = c .. K.next_unused_iid - 1
        BY DEF Assigned
      <3>3. Assigned(L, c) = c .. n - 1
        BY DEF Assigned
      <3>. HIDE DEF k, n
      <3>. QED  BY <1>1, <1>2, <3>1, <3>2, <3>3
    <2>2. Assigned(L, c) \subseteq WindowFrom(L, c)
      BY AssignedType
    <2>3. c .. n + k - 1 = (c .. n - 1) \cup (n .. n + k - 1)
          /\ (c .. n - 1) \cap (n .. n + k - 1) = {}
      <3>. HIDE DEF n, k
      <3>. QED  BY <1>1, <1>2
    <2>. QED  BY <2>1, <2>2, <2>3
  <1>9. ASSUME NEW i \in Assigned(L, c)
        PROVE  Given(K, i) = Given(L, i)
    BY <1>5, <1>8 DEF Given
  <1>10. FindsGiven(K, c)
    <2>1. ASSUME NEW i \in WindowFrom(L, c), Instance(K, i).p1_value # NoValue
          PROVE  i < n + k /\ Instance(K, i).p1_value = Given(K, i)
      <3>1. i \notin Start
        BY <1>7, <2>1
      <3>2. i < n /\ Instance(L, i).p1_value = Given(L, i) /\ Instance(K, i) = Instance(L, i)
        BY <1>5, <2>1, <3>1 DEF Orderly, FindsGiven
      <3>3. i < n + k
        <4>1. i \in Int
          BY <1>2
        <4>. HIDE DEF n, k
        <4>. QED  BY <1>1, <1>2, <3>2, <4>1
      <3>. QED  BY <3>2, <3>3 DEF Given
    <2>. QED  BY <1>4, <2>1 DEF FindsGiven
  <1>. HIDE DEF k, n, l, Start
  <1>11. ASSUME NEW i \in Start, NEW j \in Start, i - n + 1 = j - n + 1
         PROVE  i = j
    BY <1>2, <1>11 DEF Start
  <1>12. DOMAIN l = 1 .. Len(l)
    BY <1>2
  <1>13. HeldOnce(L, c) /\ l = L.pending_list
    BY DEF Orderly, l
  <1>14. \A i, j \in Assigned(K, c) : Given(K, i) = Given(K, j) => i = j
    <2>1. ASSUME NEW i \in Assigned(L, c), NEW j \in Start
          PROVE  Given(K, i) # Given(K, j)
      BY <1>7, <1>9, <1>13 DEF HeldOnce
    <2>2. ASSUME NEW i \in Start, NEW j \in Start, Given(K, i) = Given(K, j)
          PROVE  i = j
      <3>1. i - n + 1 = j - n + 1
        BY <1>7, <1>13, <2>2 DEF HeldOnce
      <3>. QED  BY <1>11, <3>1
    <2>3. ASSUME NEW i \in Assigned(L, c), NEW j \in Assigned(L, c), Given(K, i) = Given(K, j)
          PROVE  i = j
      BY <1>9, <1>13, <2>3 DEF HeldOnce
    <2>. QED  BY <1>8, <2>1, <2>2, <2>3
  <1>15. ASSUME NEW m \in DOMAIN K.pending_list
         PROVE  /\ K.pending_list[m] = l[k + m] /\ k + m \in DOMAIN l /\ m \in Nat
                /\ k + m > k
    BY <1>1, <1>2, <1>6, <1>12
  <1>16. HeldOnce(K, c)
    <2>1. ASSUME NEW i \in Assigned(K, c), NEW m \in DOMAIN K.pending_list
          PROVE  Given(K, i) # K.pending_list[m]
      <3>1. CASE i \in Assigned(L, c)
        BY <1>9, <1>13, <1>15, <3>1 DEF HeldOnce
      <3>2. CASE i \in Start
        <4>1. i - n + 1 # k + m
          BY <1>1, <1>7, <1>15, <3>2
        <4>. QED  BY <1>7, <1>13, <1>15, <3>2, <4>1 DEF HeldOnce
      <3>. QED  BY <1>8, <3>1, <3>2
    <2>2. ASSUME NEW m \in DOMAIN K.pending_list, NEW j \in DOMAIN K.pending_list,
                 K.pending_list[m] = K.pending_list[j]
          PROVE  m = j
      <3>1. k + m = k + j
        BY <1>13, <1>15, <2>2 DEF HeldOnce
      <3>. QED  BY <1>1, <1>15, <3>1
    <2>. QED  BY <1>14, <2>1, <2>2 DEF HeldOnce
  <1>17. Held(K, c) = Held(L, c)
    <2>1. ASSUME NEW v \in Held(K, c)
          PROVE  v \in Held(L, c)
      <3>1. CASE \E i \in Assigned(K, c) : v = Given(K, i)
        <4>1. PICK i \in Assigned(K, c) : v = Given(K, i)
          BY <3>1
        <4>2. CASE i \in Assigned(L, c)
          BY <1>9, <4>1, <4>2 DEF Held
        <4>3. CASE i \in Start
          BY <1>7, <1>13, <4>1, <4>3 DEF Held, Listed
        <4>. QED  BY <1>8, <4>2, <4>3
      <3>2. CASE v \in Listed(K)
        BY <1>13, <1>15, <3>2 DEF Held, Listed
      <3>. QED  BY <3>1, <3>2 DEF Held
    <2>2. ASSUME NEW v \in Held(L, c)
          PROVE  v \in Held(K, c)
      <3>1. CASE \E i \in Assigned(L, c) : v = Given(L, i)
        BY <1>8, <1>9, <3>1 DEF Held
      <3>2. CASE \E m \in DOMAIN l : v = l[m]
        <4>1. PICK m \in DOMAIN l : v = l[m]
          BY <3>2
        <4>2. CASE m <= k
          <5>1. n + m - 1 \in Start /\ (n + m - 1) - n + 1 = m
            BY <1>1, <1>2, <1>12, <4>2 DEF Start
          <5>2. Given(K, n + m - 1) = v /\ n + m - 1 \in Assigned(K, c)
            BY <1>7, <1>8, <4>1, <5>1
          <5>. QED  BY <5>2 DEF Held
        <4>3. CASE ~ (m <= k)
          <5>1. m - k \in 1 .. Len(l) - k /\ k + (m - k) = m
            BY <1>1, <1>2, <1>12, <4>3
          <5>2. m - k \in DOMAIN K.pending_list /\ K.pending_list[m - k] = v
            BY <1>6, <4>1, <5>1
          <5>. QED  BY <5>2 DEF Held, Listed
        <4>. QED  BY <4>2, <4>3
      <3>. QED  BY <1>13, <3>1, <3>2 DEF Held, Listed
    <2>. QED  BY <2>1, <2>2
  <1>18. n <= n + k
    BY <1>1, <1>2
  <1>. QED  BY <1>4, <1>9, <1>10, <1>16, <1>17, <1>18 DEF MovesValues, Orderly, n

\* The values asked for are those the instances have.
AsksGiven(K, c, M) ==
    \A m \in M : m.type = "accept_reqs" =>
        \A ar \in m.reqs : ar.iid \in Assigned(K, c) /\ ar.value = Given(K, ar.iid)

LEMMA BatchesGiven ==
    /\ \A K, c, S : S \subseteq Assigned(K, c) => AsksGiven(K, c, AcceptReqs(K, S))
    /\ \A S, M, K, c : PreparesFor(S, M) => AsksGiven(K, c, M)
    /\ \A K, c, M, N : AsksGiven(K, c, M) /\ AsksGiven(K, c, N) => AsksGiven(K, c, M \cup N)
PROOF
  <1>1. ASSUME NEW K, NEW c, NEW S \in SUBSET Assigned(K, c)
        PROVE  AsksGiven(K, c, AcceptReqs(K, S))
    BY DEF AsksGiven, AcceptReqs, Given
  <1>2. ASSUME NEW S, NEW M, PreparesFor(S, M), NEW K, NEW c
        PROVE  AsksGiven(K, c, M)
    BY <1>2 DEF PreparesFor, AsksGiven
  <1>3. ASSUME NEW K, NEW c, NEW M, NEW N, AsksGiven(K, c, M), AsksGiven(K, c, N)
        PROVE  AsksGiven(K, c, M \cup N)
    BY <1>3 DEF AsksGiven
  <1>. QED  BY <1>1, <1>2, <1>3

(* One move of values after the other; what was asked for in between stays right. *)
LEMMA MovesTwice ==
    ASSUME NEW L, NEW J, NEW K, NEW c, c \in Nat, L.next_unused_iid \in Nat,
           J.next_unused_iid \in Nat, K.next_unused_iid \in Nat,
           MovesValues(L, J, c), MovesValues(J, K, c)
    PROVE  MovesValues(L, K, c) /\ \A M : AsksGiven(J, c, M) => AsksGiven(K, c, M)
PROOF
  <1>. DEFINE l == L.next_unused_iid
              j == J.next_unused_iid
              k == K.next_unused_iid
  <1>1. l <= j /\ j <= k
    BY DEF MovesValues
  <1>2. Assigned(L, c) \subseteq Assigned(J, c) /\ Assigned(J, c) \subseteq Assigned(K, c)
    <2>1. Assigned(L, c) = c .. l - 1 /\ Assigned(J, c) = c .. j - 1
          /\ Assigned(K, c) = c .. k - 1
      BY DEF Assigned
    <2>. HIDE DEF l, j, k
    <2>2. l \in Nat /\ j \in Nat /\ k \in Nat
      BY DEF l, j, k
    <2>. QED  BY <1>1, <2>1, <2>2
  <1>3. \A i \in Assigned(J, c) : Given(K, i) = Given(J, i)
    BY DEF MovesValues
  <1>4. \A i \in Assigned(L, c) : Given(K, i) = Given(L, i)
    BY <1>2, <1>3 DEF MovesValues
  <1>5. l <= k
    <2>. HIDE DEF l, j, k
    <2>1. l \in Nat /\ j \in Nat /\ k \in Nat
      BY DEF l, j, k
    <2>. QED  BY <1>1, <2>1
  <1>6. MovesValues(L, K, c)
    BY <1>4, <1>5 DEF MovesValues
  <1>7. ASSUME NEW M, AsksGiven(J, c, M)
        PROVE  AsksGiven(K, c, M)
    BY <1>2, <1>3, <1>7 DEF AsksGiven
  <1>. QED  BY <1>6, <1>7

(* leader_periodic_p1_check *)
LEMMA PeriodicP1Values ==
    ASSUME NEW p \in Proposers, NEW L, Sound(L), InBuffer(L),
           NEW c, c = L.current_iid, Orderly(L, c),
           NEW E \in SUBSET {i \in Pending(L) : CanRetry(L, i)},
           NEW J, J = CheckP1Pending(L, E), NEW K, K = OpenInstancesP1(p, J), InBuffer(K)
    PROVE  MovesValues(L, K, c)
PROOF
  <1>1. /\ E \in SUBSET PendingFrom(L, c)
        /\ \A i \in E : NEXT_BALLOT(Instance(L, i).my_ballot) \in Ballots
    BY DEF Pending, PendingFrom, WindowFrom, CanRetry
  <1>2. Coherent(L, c) /\ Fits(L, c)
    BY DEF Sound, InBuffer
  <1>3. MovesValues(L, J, c)
    BY <1>1, <1>2, CheckP1Values
  <1>4. Sound(K) /\ K.current_iid = L.current_iid /\ Coherent(J, c)
    BY PeriodicP1Sound
  <1>5. Fits(K, c) /\ Coherent(K, c)
    BY <1>4 DEF InBuffer, Sound
  <1>6. MovesValues(J, K, c)
    BY <1>3, <1>4, <1>5, OpenP1Values DEF MovesValues
  <1>7. c \in Nat /\ L.next_unused_iid \in Nat /\ J.next_unused_iid \in Nat
        /\ K.next_unused_iid \in Nat
    BY <1>2, <1>4, <1>5, AssignedType
  <1>. QED  BY <1>3, <1>6, <1>7, MovesTwice

(* The instances that leader_open_instances_p2_new starts have their values. *)
LEMMA StartedGiven ==
    ASSUME NEW L, NEW c, Coherent(L, c), Fits(L, c), NEW K, K = OpenInstancesP2New(L)
    PROVE  Started(L) \subseteq Assigned(K, L.next_unused_iid)
PROOF
  <1>1. PICK k : k = StartCount(L)
    OBVIOUS
  <1>2. /\ k \in Nat /\ L.next_unused_iid \in Nat
        /\ Started(L) = L.next_unused_iid .. L.next_unused_iid + k - 1
    BY <1>1, StartedRange, StartCountType DEF Coherent, LeaderInfo
  <1>3. K.next_unused_iid = L.next_unused_iid + k
    BY <1>1, P2NewEffect, ZenonT(60)
  <1>4. Assigned(K, L.next_unused_iid) = L.next_unused_iid .. K.next_unused_iid - 1
    BY DEF Assigned
  <1>. QED  BY <1>2, <1>3, <1>4

(* leader_periodic_p2_check *)
LEMMA PeriodicP2Values ==
    ASSUME NEW L, Sound(L), InBuffer(L), NEW c, c = L.current_iid, Orderly(L, c),
           NEW is_closed, NEW closed, closed = Running(L) \cap is_closed,
           NEW expired \in SUBSET {i \in Running(L) \ is_closed : CanRetry(L, i)},
           NEW J, J = CheckP2(L, closed, expired), NEW K, K = OpenInstancesP2New(J)
    PROVE  MovesValues(L, K, c) /\ AsksGiven(K, c, AcceptReqs(K, Started(J)))
PROOF
  <1>1. Settles(L, closed, expired)
    BY DEF Settles, CanRetry
  <1>2. Coherent(L, c) /\ Fits(L, c)
    BY DEF Sound, InBuffer
  <1>3. MovesValues(L, J, c)
    BY <1>1, <1>2, CheckP2Values
  <1>4. Coherent(J, c) /\ Fits(J, c) /\ Coherent(K, c)
    <2>1. Checks(L, J, K, expired)
      BY PeriodicP2Sound
    <2>. QED  BY <2>1 DEF Checks, Sound, InBuffer
  <1>5. MovesValues(J, K, c)
    BY <1>3, <1>4, P2NewValues DEF MovesValues
  <1>6. c \in Nat /\ L.next_unused_iid \in Nat /\ J.next_unused_iid \in Nat
        /\ K.next_unused_iid \in Nat
    BY <1>2, <1>4, AssignedType
  <1>7. MovesValues(L, K, c)
    BY <1>3, <1>5, <1>6, MovesTwice
  <1>8. Started(J) \subseteq Assigned(K, c)
    <2>1. Started(J) \subseteq Assigned(K, J.next_unused_iid)
      BY <1>4, StartedGiven
    <2>2. c <= J.next_unused_iid
      BY <1>4 DEF Coherent
    <2>3. Assigned(K, J.next_unused_iid) \subseteq Assigned(K, c)
      BY <1>6, <2>2 DEF Assigned
    <2>. QED  BY <2>1, <2>3
  <1>. QED  BY <1>7, <1>8, BatchesGiven

(* handle_prepare_ack_batch *)
LEMMA PromiseBatchValues ==
    ASSUME NEW L, Sound(L), InBuffer(L), NEW c, c = L.current_iid, Orderly(L, c),
           NEW acks \in SUBSET PrepareAck, Apart(acks), AcksAgree(L, c, acks),
           NEW J, J = AfterPromises(L, acks), NEW M, M = OpenInstancesP2Expired(J),
           NEW K, K = OpenInstancesP2New(M)
    PROVE  /\ MovesValues(L, J, c) /\ MovesValues(L, K, c)
           /\ AsksGiven(K, c, AcceptReqs(M, ExpiredReady(J)) \cup AcceptReqs(K, Started(M)))
PROOF
  <1>1. Coherent(L, c) /\ Fits(L, c)
    BY DEF Sound, InBuffer
  <1>2. MovesValues(L, J, c)
    BY <1>1, PromisesValues
  <1>3. Coherent(J, c) /\ Fits(J, c) /\ J.current_iid = c
    BY <1>1, PromisesEffect
  <1>4. MovesValues(J, M, c)
    BY <1>2, <1>3, P2ExpiredValues DEF MovesValues
  <1>5. Sound(K) /\ Sound(M) /\ InBuffer(M) /\ K.current_iid = c /\ M.current_iid = c
        /\ \A i \in ExpiredReady(J) : i \in WindowFrom(L, c) /\ i < L.next_unused_iid
    BY PromiseBatchSound
  <1>6. Coherent(M, c) /\ Fits(M, c) /\ Coherent(K, c)
    BY <1>5 DEF Sound, InBuffer
  <1>7. MovesValues(M, K, c)
    BY <1>4, <1>6, P2NewValues DEF MovesValues
  <1>8. c \in Nat /\ L.next_unused_iid \in Nat /\ J.next_unused_iid \in Nat
        /\ M.next_unused_iid \in Nat /\ K.next_unused_iid \in Nat
    BY <1>1, <1>3, <1>6, AssignedType
  <1>9. MovesValues(L, M, c)
    BY <1>2, <1>4, <1>8, MovesTwice
  <1>10. MovesValues(L, K, c) /\ \A N : AsksGiven(M, c, N) => AsksGiven(K, c, N)
    BY <1>7, <1>8, <1>9, MovesTwice
  <1>11. ExpiredReady(J) \subseteq Assigned(M, c)
    <2>1. ASSUME NEW i \in ExpiredReady(J)
          PROVE  i \in Assigned(M, c)
      <3>1. i \in Assigned(L, c)
        BY <1>1, <1>5, AssignedType
      <3>2. L.next_unused_iid <= M.next_unused_iid
        BY <1>9 DEF MovesValues
      <3>. QED  BY <1>8, <3>1, <3>2 DEF Assigned
    <2>. QED  BY <2>1
  <1>12. Started(M) \subseteq Assigned(K, c)
    <2>1. Started(M) \subseteq Assigned(K, M.next_unused_iid)
      BY <1>6, StartedGiven
    <2>2. c <= M.next_unused_iid
      BY <1>6 DEF Coherent
    <2>3. Assigned(K, M.next_unused_iid) \subseteq Assigned(K, c)
      BY <1>8, <2>2 DEF Assigned
    <2>. QED  BY <2>1, <2>3
  <1>13. AsksGiven(K, c, AcceptReqs(M, ExpiredReady(J)))
    BY <1>10, <1>11, BatchesGiven
  <1>14. AsksGiven(K, c, AcceptReqs(K, Started(M)))
    BY <1>12, BatchesGiven
  <1>. QED  BY <1>2, <1>10, <1>13, <1>14, BatchesGiven

\* From L to K a new value came to the list.
TakesValue(L, K, c, v) ==
    /\ Orderly(K, c)
    /\ Held(K, c) = Held(L, c) \cup {v}
    /\ K.next_unused_iid = L.next_unused_iid /\ K.current_iid = L.current_iid
    /\ \A i : Given(K, i) = Given(L, i)

(* vh_enqueue_value *)
LEMMA EnqueuedValues ==
    ASSUME NEW L \in LeaderInfo, NEW c, Orderly(L, c),
           NEW v \in Values, v \notin Held(L, c), NEW K, K = Enqueued(L, v)
    PROVE  K = L \/ TakesValue(L, K, c, v)
PROOF
  <1>. DEFINE l == L.pending_list
              m == Append(l, v)
  <1>1. l \in Seq(Values)
    BY DEF LeaderInfo
  <1>2. CASE Len(l) > LEADER_MAX_QUEUE_LENGTH
    <2>1. K = [L EXCEPT !.pending_list = l]
      BY <1>2 DEF Enqueued
    <2>2. K = L
      BY <2>1 DEF LeaderInfo
    <2>. QED  BY <2>2
  <1>3. CASE ~ (Len(l) > LEADER_MAX_QUEUE_LENGTH)
    <2>1. K = [L EXCEPT !.pending_list = m]
      BY <1>3 DEF Enqueued, LeaderInfo
    <2>2. /\ DOMAIN m = DOMAIN l \cup {Len(l) + 1} /\ Len(l) + 1 \notin DOMAIN l
          /\ m[Len(l) + 1] = v /\ \A n \in DOMAIN l : m[n] = l[n]
      <3>1. Len(l) \in Nat /\ DOMAIN l = 1 .. Len(l) /\ DOMAIN m = 1 .. Len(l) + 1
        BY <1>1
      <3>2. 1 .. Len(l) + 1 = (1 .. Len(l)) \cup {Len(l) + 1} /\ Len(l) + 1 \notin 1 .. Len(l)
        BY <3>1
      <3>3. m[Len(l) + 1] = v /\ \A n \in 1 .. Len(l) : m[n] = l[n]
        BY <1>1
      <3>. HIDE DEF m, l
      <3>. QED  BY <3>1, <3>2, <3>3
    <2>. HIDE DEF m
    <2>3. /\ K.pending_list = m /\ K.proposer_state = L.proposer_state
          /\ K.next_unused_iid = L.next_unused_iid /\ K.current_iid = L.current_iid
          /\ K.highest_open = L.highest_open
      BY <2>1 DEF LeaderInfo
    <2>4. /\ Assigned(K, c) = Assigned(L, c) /\ WindowFrom(K, c) = WindowFrom(L, c)
          /\ \A i : Instance(K, i) = Instance(L, i) /\ Given(K, i) = Given(L, i)
      BY <2>3 DEF Assigned, WindowFrom, Instance, Given
    <2>5. /\ \A i \in Assigned(L, c) : Given(L, i) # v
          /\ \A n \in DOMAIN l : l[n] # v
      BY DEF Held, Listed
    <2>. HIDE DEF l
    <2>6. HeldOnce(L, c) /\ FindsGiven(L, c) /\ L.pending_list = l
      BY DEF Orderly, l
    <2>7. HeldOnce(K, c)
      BY <2>2, <2>3, <2>4, <2>5, <2>6 DEF HeldOnce
    <2>8. FindsGiven(K, c)
      BY <2>3, <2>4, <2>6 DEF FindsGiven
    <2>9. Held(K, c) = Held(L, c) \cup {v}
      <3>1. Listed(K) = Listed(L) \cup {v}
        BY <2>2, <2>3, <2>6 DEF Listed
      <3>2. {Given(K, i) : i \in Assigned(K, c)} = {Given(L, i) : i \in Assigned(L, c)}
        BY <2>4
      <3>. QED  BY <3>1, <3>2 DEF Held
    <2>. QED  BY <2>3, <2>4, <2>7, <2>8, <2>9 DEF TakesValue, Orderly
  <1>. QED  BY <1>2, <1>3

\* From L to K the value v of the first instance is given up.
GivesUp(L, K, c, v) ==
    /\ Orderly(K, c + 1)
    /\ v \in Held(L, c) /\ Held(K, c + 1) = Held(L, c) \ {v}
    /\ L.next_unused_iid <= K.next_unused_iid
    /\ \A i \in Assigned(L, c + 1) : Given(K, i) = Given(L, i)

(* leader_deliver, up to its call of leader_open_instances_p2_new: the value the
   instance has is the one delivered, and is not put back. *)
LEMMA CloseValues ==
    ASSUME NEW L, NEW c, Coherent(L, c), Fits(L, c), Orderly(L, c),
           c < L.next_unused_iid, NEW v, v = Given(L, c),
           NEW J, J = CloseInstance(L, c, v)
    PROVE  GivesUp(L, J, c, v) /\ J.next_unused_iid = L.next_unused_iid
PROOF
  <1>. DEFINE d == c + 1
              n == L.next_unused_iid
  <1>1. /\ n \in Nat /\ c \in Nat \ {0} /\ n <= L.highest_open + 1 /\ c <= L.highest_open
        /\ L.highest_open \in Nat
    BY DEF Coherent, LeaderInfo
  <1>2. ClosesFirst(L, J, c, v)
    BY <1>1, CloseEffect
  <1>3. /\ WindowFrom(J, d) = WindowFrom(L, c) \ {c}
        /\ J.next_unused_iid = n /\ J.pending_list = L.pending_list
        /\ \A i \in WindowFrom(L, c) \ {c} : Instance(J, i) = Instance(L, i)
    BY <1>1, <1>2 DEF ClosesFirst, Given
  <1>4. /\ Assigned(L, c) = Assigned(L, d) \cup {c} /\ c \notin Assigned(L, d)
        /\ Assigned(J, d) = Assigned(L, d)
    <2>1. Assigned(L, c) = c .. n - 1 /\ Assigned(L, d) = c + 1 .. n - 1
          /\ Assigned(J, d) = c + 1 .. n - 1
      BY <1>3 DEF Assigned
    <2>. HIDE DEF n
    <2>2. c < n
      BY DEF n
    <2>3. c .. n - 1 = (c + 1 .. n - 1) \cup {c} /\ c \notin c + 1 .. n - 1
      BY <1>1, <2>2
    <2>. QED  BY <2>1, <2>3
  <1>. HIDE DEF d
  <1>5. \A i \in Assigned(L, d) : Given(J, i) = Given(L, i)
    <2>1. Assigned(L, d) \subseteq WindowFrom(L, c) \ {c}
      BY <1>4, AssignedType
    <2>. QED  BY <1>3, <2>1 DEF Given
  <1>6. FindsGiven(J, d)
    BY <1>3 DEF FindsGiven, Orderly, Given
  <1>7. HeldOnce(J, d)
    BY <1>3, <1>4, <1>5 DEF HeldOnce, Orderly
  <1>8. v \in Held(L, c) /\ Held(J, d) = Held(L, c) \ {v}
    <2>1. HeldOnce(L, c)
      BY DEF Orderly
    <2>2. v \notin Listed(L) /\ \A i \in Assigned(L, d) : Given(L, i) # v
      BY <1>4, <2>1 DEF HeldOnce, Listed
    <2>3. Held(L, c) = {Given(L, i) : i \in Assigned(L, d)} \cup {v} \cup Listed(L)
      BY <1>4 DEF Held
    <2>4. Held(J, d) = {Given(L, i) : i \in Assigned(L, d)} \cup Listed(L)
      BY <1>3, <1>4, <1>5 DEF Held, Listed
    <2>. QED  BY <2>2, <2>3, <2>4
  <1>9. n <= J.next_unused_iid
    BY <1>1, <1>3
  <1>. QED  BY <1>3, <1>5, <1>6, <1>7, <1>8, <1>9 DEF GivesUp, Orderly, d

(* leader_deliver: what is started meanwhile is asked for with its own value. *)
LEMMA DeliveryValues ==
    ASSUME NEW L, Sound(L), InBuffer(L), NEW c, c = L.current_iid, Orderly(L, c),
           c < L.next_unused_iid, NEW v, v = Given(L, c),
           NEW K, K = Delivered(L, TRUE, c, v)
    PROVE  /\ GivesUp(L, K, c, v)
           /\ AsksGiven(K, L.next_unused_iid, SentOnDelivery(L, TRUE, c, v))
PROOF
  <1>. DEFINE d == c + 1
              J == CloseInstance(L, c, v)
              N == OpenInstancesP2New(J)
  <1>1. Coherent(L, c) /\ Fits(L, c) /\ c <= L.highest_open
    BY DEF Sound, InBuffer, Coherent, LeaderInfo
  <1>2. GivesUp(L, J, c, v) /\ J.next_unused_iid = L.next_unused_iid
    BY <1>1, CloseValues
  <1>3. Delivers(L, J, K, c, v)
    BY <1>1, DeliveredSound
  <1>. HIDE DEF J
  <1>4. /\ Coherent(J, d) /\ Fits(J, d)
        /\ SentOnDelivery(L, TRUE, c, v) = AcceptReqs(K, Started(J))
    BY <1>3 DEF Delivers
  <1>. HIDE DEF d
  <1>5. Orderly(J, d) /\ Held(J, d) = Held(L, c) \ {v}
        /\ \A i \in Assigned(L, d) : Given(J, i) = Given(L, i)
    BY <1>2 DEF GivesUp, d
  <1>6. MovesValues(J, N, d) /\ Coherent(N, d) /\ Fits(N, d)
    BY <1>4, <1>5, P2NewValues, P2NewEffect
  <1>7. Started(J) \subseteq Assigned(N, J.next_unused_iid)
    BY <1>4, StartedGiven
  <1>8. K = [N EXCEPT !.current_iid = d]
    <2>1. c \in WindowFrom(L, c)
      BY <1>1 DEF WindowFrom, Coherent, LeaderInfo
    <2>2. Instance(L, c).iid = c
      BY <1>1, <2>1 DEF Coherent, Holds
    <2>. QED  BY <2>2 DEF Delivered, NotOpened, J, d
  <1>. HIDE DEF N
  <1>9. /\ K.next_unused_iid = N.next_unused_iid /\ K.pending_list = N.pending_list
        /\ WindowFrom(K, d) = WindowFrom(N, d)
        /\ \A i : Instance(K, i) = Instance(N, i)
    <2>1. MovesOn(N, K, d)
      BY <1>6, <1>8, MovedOn
    <2>. QED  BY <2>1 DEF MovesOn
  <1>10. /\ \A e : Assigned(K, e) = Assigned(N, e)
         /\ \A i : Given(K, i) = Given(N, i)
         /\ Listed(K) = Listed(N)
    BY <1>9 DEF Assigned, Given, Listed
  <1>11. Orderly(K, d) /\ Held(K, d) = Held(N, d)
    <2>1. Orderly(N, d)
      BY <1>6 DEF MovesValues
    <2>2. FindsGiven(K, d)
      BY <1>9, <1>10, <2>1, ZenonT(60) DEF Orderly, FindsGiven
    <2>3. N.next_unused_iid \in Nat /\ \A i \in Assigned(N, d) : Given(K, i) = Given(N, i)
      BY <1>6, <1>10, AssignedType
    <2>4. MovesValues(N, K, d)
      BY <1>9, <2>1, <2>2, <2>3, ValuesStay
    <2>. QED  BY <2>4 DEF MovesValues
  <1>12. Assigned(J, d) = Assigned(L, d)
    BY <1>2 DEF Assigned
  <1>13. GivesUp(L, K, c, v)
    <2>1. /\ Held(N, d) = Held(J, d) /\ J.next_unused_iid <= N.next_unused_iid
          /\ \A i \in Assigned(J, d) : Given(N, i) = Given(J, i)
      BY <1>6 DEF MovesValues
    <2>2. v \in Held(L, c)
      BY <1>2 DEF GivesUp
    <2>. QED  BY <1>2, <1>5, <1>9, <1>10, <1>11, <1>12, <2>1, <2>2 DEF GivesUp, d
  <1>14. AsksGiven(K, L.next_unused_iid, AcceptReqs(K, Started(J)))
    BY <1>2, <1>7, <1>10, BatchesGiven
  <1>. QED  BY <1>4, <1>13, <1>14

\* vs are the values of the first k instances.
GivenInOrder(L, vs, k) ==
    /\ L.current_iid + k <= L.next_unused_iid
    /\ \A n \in 1 .. k : vs[n] = Given(L, L.current_iid + n - 1)

\* After n deliveries of a leader L, each of the value the instance had.
RanValues(L, r, vs, n) ==
    /\ Orderly(r.info, L.current_iid + n)
    /\ Held(r.info, L.current_iid + n)
           = Held(L, L.current_iid) \ {vs[j] : j \in 1 .. n}
    /\ \A i \in Assigned(L, L.current_iid + n) : Given(r.info, i) = Given(L, i)
    /\ AsksGiven(r.info, L.next_unused_iid, r.sent)

LEMMA RunValues ==
    ASSUME NEW L, Sound(L), InBuffer(L), Orderly(L, L.current_iid),
           NEW vs, NEW k, k \in Nat, k = Len(vs), GivenInOrder(L, vs, k)
    PROVE  RanValues(L, AfterRun(L, TRUE, vs), vs, k)
PROOF
  <1>. DEFINE c == L.current_iid
              l == L.next_unused_iid
  <1>1. /\ c \in Nat \ {0} /\ l \in Nat /\ L.highest_open \in Nat /\ l <= L.highest_open + 1
    BY DEF Sound, Coherent, LeaderInfo
  <1>2. PICK f : Runs(f, L, TRUE, vs, k) /\ AfterRun(L, TRUE, vs) = f[k]
    <2>1. HasRun(L, TRUE, vs, k)
      BY RunExists
    <2>. QED  BY <2>1, Zenon DEF HasRun
  <1>3. \A n \in 0 .. k : RanTo(L, f[n], n)
    BY <1>2, EachRunLeads
  <1>. DEFINE S == {n \in Nat : n <= k => RanValues(L, f[n], vs, n)}
  <1>4. 0 \in S
    <2>1. f[0].info = L /\ f[0].sent = {}
      BY <1>2 DEF Runs
    <2>. DEFINE r == f[0]
    <2>2. r.info = L /\ r.sent = {} /\ L.current_iid + 0 = L.current_iid
      BY <1>1, <2>1
    <2>. HIDE DEF r
    <2>3. AsksGiven(L, L.next_unused_iid, {}) /\ {vs[j] : j \in 1 .. 0} = {}
      BY DEF AsksGiven
    <2>4. RanValues(L, r, vs, 0)
      BY <2>2, <2>3 DEF RanValues
    <2>. QED  BY <2>4 DEF r
  <1>5. ASSUME NEW n \in Nat, n \in S
        PROVE  n + 1 \in S
    <2>. SUFFICES ASSUME n + 1 <= k PROVE RanValues(L, f[n + 1], vs, n + 1)
      OBVIOUS
    <2>. DEFINE J == f[n].info
                K == f[n + 1].info
                v == vs[n + 1]
                i == J.current_iid
                sent == f[n].sent
                sent_1 == f[n + 1].sent
    <2>1. RanTo(L, f[n], n) /\ RanValues(L, f[n], vs, n)
      BY <1>3, <1>5
    <2>2. f[n + 1] = RunStep(f[n], TRUE, v)
      <3>1. n + 1 \in 1 .. k /\ (n + 1) - 1 = n
        OBVIOUS
      <3>. QED  BY <1>2, <3>1 DEF Runs
    <2>3. /\ K = Delivered(J, TRUE, i, v)
          /\ sent_1 = sent \cup SentOnDelivery(J, TRUE, i, v)
      BY <2>2 DEF RunStep
    <2>4. i = c + n /\ c + n < l /\ c + n + 1 <= l /\ c + n <= L.highest_open + 1
      <3>1. i = c + n
        BY <2>1 DEF RanTo
      <3>2. c + k <= l
        BY DEF GivenInOrder
      <3>. HIDE DEF c, l, i
      <3>. QED  BY <1>1, <3>1, <3>2
    <2>5. Sound(J) /\ InBuffer(J) /\ l <= J.next_unused_iid
      BY <2>1, <2>4 DEF RanTo
    <2>6. /\ Orderly(J, i) /\ Held(J, i) = Held(L, c) \ {vs[j] : j \in 1 .. n}
          /\ \A a \in Assigned(L, i) : Given(J, a) = Given(L, a)
          /\ AsksGiven(J, l, sent)
      BY <2>1, <2>4 DEF RanValues
    <2>7. J.next_unused_iid \in Nat /\ i \in Nat /\ i < J.next_unused_iid
      <3>1. J.next_unused_iid \in Nat
        BY <2>5 DEF Sound, Coherent, LeaderInfo
      <3>. HIDE DEF c, l, i, J
      <3>. QED  BY <1>1, <2>4, <2>5, <3>1
    <2>8. v = Given(J, i)
      <3>1. v = Given(L, c + (n + 1) - 1)
        <4>1. n + 1 \in 1 .. k
          OBVIOUS
        <4>. QED  BY <4>1 DEF GivenInOrder
      <3>2. c + (n + 1) - 1 = i /\ i \in Assigned(L, i)
        <4>. HIDE DEF c, l, i
        <4>. QED  BY <1>1, <2>4 DEF Assigned, l
      <3>. QED  BY <2>6, <3>1, <3>2
    <2>9. i = J.current_iid
      OBVIOUS
    <2>. HIDE DEF J, K, i, v, sent, sent_1, c, l
    <2>10. /\ GivesUp(J, K, i, v)
           /\ AsksGiven(K, J.next_unused_iid, SentOnDelivery(J, TRUE, i, v))
      BY <2>3, <2>5, <2>6, <2>7, <2>8, <2>9, DeliveryValues
    <2>11. /\ Orderly(K, i + 1) /\ Held(K, i + 1) = Held(J, i) \ {v}
           /\ J.next_unused_iid <= K.next_unused_iid
           /\ \A a \in Assigned(J, i + 1) : Given(K, a) = Given(J, a)
      BY <2>10 DEF GivesUp
    <2>12. c + (n + 1) = i + 1
      <3>1. c \in Nat /\ i = c + n
        BY <1>1, <2>4
      <3>. QED  BY <3>1
    <2>13. Held(K, i + 1) = Held(L, c) \ {vs[j] : j \in 1 .. n + 1}
      <3>1. 1 .. n + 1 = (1 .. n) \cup {n + 1}
        OBVIOUS
      <3>. QED  BY <2>6, <2>11, <3>1 DEF v
    <2>14. K.next_unused_iid \in Nat
      <3>1. n + 1 \in 0 .. k
        OBVIOUS
      <3>2. RanTo(L, f[n + 1], n + 1)
        BY <1>3, <3>1
      <3>3. c + (n + 1) <= L.highest_open + 1
        <4>1. c \in Nat /\ l \in Nat /\ L.highest_open \in Nat /\ l <= L.highest_open + 1
          BY <1>1 DEF c, l
        <4>. QED  BY <2>4, <4>1
      <3>. QED  BY <3>2, <3>3 DEF RanTo, Sound, Coherent, LeaderInfo, c, K
    <2>15. l \in Nat /\ i + 1 <= l
      BY <1>1, <2>4 DEF l
    <2>16. \A a \in Assigned(L, i + 1) : Given(K, a) = Given(L, a)
      <3>1. Assigned(L, i + 1) \subseteq Assigned(J, i + 1)
            /\ Assigned(L, i + 1) \subseteq Assigned(L, i)
        <4>1. /\ Assigned(L, i + 1) = i + 1 .. l - 1 /\ Assigned(L, i) = i .. l - 1
              /\ Assigned(J, i + 1) = i + 1 .. J.next_unused_iid - 1
          BY DEF Assigned, l
        <4>2. l - 1 <= J.next_unused_iid - 1 /\ l \in Nat /\ i \in Nat
          BY <2>5, <2>7, <2>15
        <4>3. i + 1 .. l - 1 \subseteq i + 1 .. J.next_unused_iid - 1
              /\ i + 1 .. l - 1 \subseteq i .. l - 1
          BY <2>7, <4>2
        <4>. QED  BY <4>1, <4>3
      <3>. QED  BY <2>6, <2>11, <3>1
    <2>17. AsksGiven(K, l, sent_1)
      <3>1. Assigned(J, l) \subseteq Assigned(K, l) /\ Assigned(J, l) \subseteq Assigned(J, i + 1)
            /\ Assigned(K, J.next_unused_iid) \subseteq Assigned(K, l)
        <4>. DEFINE j == J.next_unused_iid
                    k1 == K.next_unused_iid
        <4>1. /\ Assigned(J, l) = l .. j - 1 /\ Assigned(K, l) = l .. k1 - 1
              /\ Assigned(J, i + 1) = i + 1 .. j - 1 /\ Assigned(K, j) = j .. k1 - 1
          BY DEF Assigned
        <4>2. j \in Nat /\ k1 \in Nat /\ l <= j /\ j <= k1 /\ i + 1 <= l /\ l \in Nat /\ i \in Nat
          BY <2>5, <2>7, <2>11, <2>14, <2>15
        <4>. HIDE DEF j, k1
        <4>3. Assigned(J, l) \subseteq Assigned(K, l) /\ Assigned(J, l) \subseteq Assigned(J, i + 1)
          BY <4>1, <4>2
        <4>4. Assigned(K, j) \subseteq Assigned(K, l)
          BY <4>1, <4>2
        <4>. QED  BY <4>3, <4>4 DEF j
      <3>2. AsksGiven(K, l, sent)
        BY <2>6, <2>11, <3>1 DEF AsksGiven
      <3>3. AsksGiven(K, l, SentOnDelivery(J, TRUE, i, v))
        BY <2>10, <3>1 DEF AsksGiven
      <3>. QED  BY <2>3, <3>2, <3>3, BatchesGiven
    <2>. QED  BY <2>11, <2>12, <2>13, <2>16, <2>17 DEF RanValues, K, sent_1, c, l
  <1>6. Nat \subseteq S
    <2>. HIDE DEF S
    <2>. QED  BY <1>4, <1>5, NumberInduction
  <1>7. RanValues(L, f[k], vs, k)
    BY <1>6
  <1>. QED  BY <1>2, <1>7

(* leader_init: a new leader holds no value and found none. *)
LEMMA PromotedValues ==
    ASSUME NEW p \in Proposers, NEW L, Cleared(L), NEW c, c = L.current_iid,
           NEW K, K = Promoted(p, L), Sound(K)
    PROVE  Orderly(K, c) /\ Held(K, c) = {}
PROOF
  <1>. DEFINE J == [L EXCEPT !.pending_list = <<>>, !.pending_count = 0,
                             !.ready_count = 0, !.highest_open = L.current_iid - 1,
                             !.next_unused_iid = L.current_iid, !.open_count = 0]
  <1>1. L \in LeaderInfo /\ c \in Nat
    BY DEF Cleared, LeaderInfo
  <1>2. K = OpenInstancesP1(p, J)
    BY DEF Promoted
  <1>3. J.pending_list = <<>> /\ J.next_unused_iid = c /\ J.proposer_state = L.proposer_state
        /\ DOMAIN J = DOMAIN L
    BY <1>1 DEF LeaderInfo
  <1>. HIDE DEF J
  <1>4. DOMAIN L = {"current_iid", "proposer_state", "pending_count", "ready_count",
                    "highest_open", "next_unused_iid", "open_count", "pending_list"}
    BY <1>1 DEF LeaderInfo
  <1>5. K.pending_list = <<>> /\ K.next_unused_iid = c
    BY <1>2, <1>3, <1>4 DEF OpenInstancesP1
  <1>6. ASSUME NEW s \in ProposerSlots
        PROVE  K.proposer_state[s].p1_value = NoValue
    <2>. DEFINE S == ToOpen(J)
                ii == L.proposer_state[s]
                chosen == CHOOSE i \in S : ProposerSlot(i) = s
                opened == [ii EXCEPT !.iid = chosen, !.status = "p1_pending",
                                     !.my_ballot = FIRST_BALLOT(p)]
    <2>1. ii = EmptyInstance
      BY DEF Cleared
    <2>2. K.proposer_state[s] = IF \E i \in S : ProposerSlot(i) = s THEN opened ELSE ii
      BY <1>2, <1>3, <1>4 DEF OpenInstancesP1, Changed
    <2>3. ii.p1_value = NoValue /\ "p1_value" \in DOMAIN ii
      BY <2>1 DEF EmptyInstance
    <2>. HIDE DEF ii, chosen, S
    <2>4. opened.p1_value = NoValue
      BY <2>3
    <2>. QED  BY <2>2, <2>3, <2>4
  <1>7. FindsGiven(K, c)
    <2>1. \A i \in WindowFrom(K, c) : ProposerSlot(i) \in ProposerSlots
      BY <1>1, SlotType DEF WindowFrom, Sound, Coherent, LeaderInfo
    <2>. QED  BY <1>6, <2>1 DEF FindsGiven, Instance
  <1>8. Assigned(K, c) = {} /\ DOMAIN K.pending_list = {}
    BY <1>1, <1>5 DEF Assigned
  <1>. QED  BY <1>7, <1>8 DEF Orderly, HeldOnce, Held, Listed

-----------------------------------------------------------------------------
(* The values of a leader, those decided, and those asked for.                  *)

\* The instances delivered to K, and the value K knows for an instance: the one
\* delivered, D[i], and from there on the one it assigned.
Past(K)          == {i \in Iids : i < K.current_iid}
ValueOf(K, D, i) == IF i < K.current_iid THEN D[i] ELSE Given(K, i)

\* Whoever asks the acceptors to accept something for i asks for the value of i.
AsksFor(K, D, M) ==
    \A m \in M : m.type = "accept_reqs" =>
        \A ar \in m.reqs : ar.iid \in Iids => ar.value = ValueOf(K, D, ar.iid)

\* The values S taken from clients are in the list of K, assigned, or delivered,
\* one way each; D decides, and M asks for, no other.
Consistent(K, D, S, M) ==
    /\ Orderly(K, K.current_iid)
    /\ AsksFor(K, D, M)
    /\ \A i \in Iids : D[i] # NoValue => D[i] = ValueOf(K, D, i)
    /\ \A i \in Past(K) : D[i] # NoValue /\ D[i] \notin Held(K, K.current_iid)
    /\ \A i, j \in Past(K) : D[i] = D[j] => i = j
    /\ S = Held(K, K.current_iid) \cup {D[i] : i \in Past(K)}

\* What is decided K has assigned.
UsedBy(K, D) == \A j \in Iids : D[j] # NoValue => j < K.next_unused_iid

(* It stays so when values only move from the list into instances. *)
LEMMA ConsistentMoved ==
    ASSUME NEW L, NEW K, NEW D, NEW S, NEW M, NEW N,
           L.current_iid \in Nat, L.next_unused_iid \in Nat,
           K.current_iid = L.current_iid,
           Consistent(L, D, S, M), UsedBy(L, D), AsksBelow(L.next_unused_iid, M),
           MovesValues(L, K, L.current_iid), AsksGiven(K, L.current_iid, N)
    PROVE  Consistent(K, D, S, M \cup N)
PROOF
  <1>. DEFINE c == L.current_iid
  <1>1. Past(K) = Past(L)
    BY DEF Past
  <1>2. ASSUME NEW i \in Iids, i < L.next_unused_iid
        PROVE  ValueOf(K, D, i) = ValueOf(L, D, i)
    <2>1. CASE i < c
      BY <2>1 DEF ValueOf
    <2>2. CASE ~ (i < c)
      <3>1. i \in Assigned(L, c)
        <4>1. i \in Nat
          BY MessagesAssumption
        <4>. HIDE DEF c
        <4>2. c \in Nat
          BY DEF c
        <4>. QED  BY <1>2, <2>2, <4>1, <4>2 DEF Assigned
      <3>2. Given(K, i) = Given(L, i)
        BY <3>1 DEF MovesValues
      <3>. QED  BY <2>2, <3>2 DEF ValueOf
    <2>. QED  BY <2>1, <2>2
  <1>3. ASSUME NEW m \in M \cup N, m.type = "accept_reqs", NEW ar \in m.reqs,
               ar.iid \in Iids
        PROVE  ar.value = ValueOf(K, D, ar.iid)
    <2>1. CASE m \in M
      <3>1. ar.iid < L.next_unused_iid
        BY <1>3, <2>1 DEF AsksBelow
      <3>2. ar.value = ValueOf(L, D, ar.iid)
        BY <1>3, <2>1 DEF Consistent, AsksFor
      <3>. QED  BY <1>2, <1>3, <3>1, <3>2
    <2>2. CASE m \in N
      <3>1. ar.iid \in Assigned(K, c) /\ ar.value = Given(K, ar.iid)
        BY <1>3, <2>2 DEF AsksGiven
      <3>2. ~ (ar.iid < c)
        BY <3>1 DEF Assigned
      <3>. QED  BY <3>1, <3>2 DEF ValueOf
    <2>. QED  BY <2>1, <2>2
  <1>4. ASSUME NEW i \in Iids, D[i] # NoValue
        PROVE  D[i] = ValueOf(K, D, i)
    <2>1. i < L.next_unused_iid
      BY <1>4 DEF UsedBy
    <2>2. D[i] = ValueOf(L, D, i)
      BY <1>4 DEF Consistent
    <2>. QED  BY <1>2, <2>1, <2>2
  <1>5. Orderly(K, K.current_iid) /\ Held(K, K.current_iid) = Held(L, c)
    BY DEF MovesValues
  <1>6. AsksFor(K, D, M \cup N)
    BY <1>3 DEF AsksFor
  <1>. QED  BY <1>1, <1>4, <1>5, <1>6 DEF Consistent

(* A value taken from a client for the first time is held from then on. *)
LEMMA ConsistentTaken ==
    ASSUME NEW L, NEW K, NEW D, NEW S, NEW M, NEW v,
           Consistent(L, D, S, M), v \notin S, TakesValue(L, K, L.current_iid, v)
    PROVE  Consistent(K, D, S \cup {v}, M)
PROOF
  <1>. DEFINE c == L.current_iid
  <1>1. /\ Orderly(K, c) /\ Held(K, c) = Held(L, c) \cup {v}
        /\ K.current_iid = c /\ \A i : Given(K, i) = Given(L, i)
    BY DEF TakesValue
  <1>2. Past(K) = Past(L) /\ \A i \in Iids : ValueOf(K, D, i) = ValueOf(L, D, i)
    BY <1>1 DEF Past, ValueOf
  <1>3. AsksFor(K, D, M)
    BY <1>2 DEF Consistent, AsksFor
  <1>4. S = Held(L, c) \cup {D[i] : i \in Past(L)}
    BY DEF Consistent
  <1>5. S \cup {v} = Held(K, c) \cup {D[i] : i \in Past(K)}
    <2>. HIDE DEF c
    <2>. QED  BY <1>1, <1>2, <1>4
  <1>6. \A i \in Past(L) : D[i] # v
    BY <1>4
  <1>7. /\ \A i \in Iids : D[i] # NoValue => D[i] = ValueOf(L, D, i)
        /\ \A i \in Past(L) : D[i] # NoValue /\ D[i] \notin Held(L, c)
        /\ \A i, j \in Past(L) : D[i] = D[j] => i = j
    BY DEF Consistent
  <1>. HIDE DEF c
  <1>8. /\ \A i \in Iids : D[i] # NoValue => D[i] = ValueOf(K, D, i)
        /\ \A i \in Past(K) : D[i] # NoValue /\ D[i] \notin Held(K, c)
        /\ \A i, j \in Past(K) : D[i] = D[j] => i = j
    BY <1>1, <1>2, <1>6, <1>7
  <1>. QED  BY <1>1, <1>3, <1>5, <1>8 DEF Consistent

(* An instance is decided on its value. *)
LEMMA ConsistentDecided ==
    ASSUME NEW L, NEW S, NEW M, NEW D, DOMAIN D = Iids, Consistent(L, D, S, M),
           NEW m \in M, m.type = "accept_reqs", NEW ar \in m.reqs,
           NEW i \in Iids, ar.iid = i, D[i] = NoValue,
           NEW E, E = [D EXCEPT ![i] = ar.value]
    PROVE  Consistent(L, E, S, M)
PROOF
  <1>1. /\ \A j \in Iids : D[j] # NoValue => D[j] = ValueOf(L, D, j)
        /\ \A j \in Past(L) : D[j] # NoValue /\ D[j] \notin Held(L, L.current_iid)
        /\ \A j, k \in Past(L) : D[j] = D[k] => j = k
        /\ S = Held(L, L.current_iid) \cup {D[j] : j \in Past(L)}
        /\ Orderly(L, L.current_iid) /\ AsksFor(L, D, M)
    BY DEF Consistent
  <1>2. i \notin Past(L) /\ ~ (i < L.current_iid)
    BY <1>1 DEF Past
  <1>3. E[i] = ar.value /\ \A j \in Iids : j # i => E[j] = D[j]
    OBVIOUS
  <1>4. \A j \in Past(L) : E[j] = D[j]
    BY <1>2, <1>3 DEF Past
  <1>5. \A j \in Iids : ValueOf(L, E, j) = ValueOf(L, D, j)
    BY <1>2, <1>3 DEF ValueOf
  <1>6. ar.value = ValueOf(L, D, i)
    BY <1>1 DEF AsksFor
  <1>7. {E[j] : j \in Past(L)} = {D[j] : j \in Past(L)}
    BY <1>4
  <1>8. AsksFor(L, E, M)
    BY <1>1, <1>5 DEF AsksFor
  <1>9. \A j \in Iids : E[j] # NoValue => E[j] = ValueOf(L, E, j)
    BY <1>1, <1>3, <1>5, <1>6
  <1>10. /\ \A j \in Past(L) : E[j] # NoValue /\ E[j] \notin Held(L, L.current_iid)
         /\ \A j, k \in Past(L) : E[j] = E[k] => j = k
    BY <1>1, <1>4
  <1>. QED  BY <1>1, <1>7, <1>8, <1>9, <1>10 DEF Consistent

(* The values are delivered in the order of the instances, each of them the one
   the leader assigned. *)
LEMMA ConsistentRun ==
    ASSUME NEW L, NEW D, NEW S, NEW M, NEW k \in Nat, NEW r, NEW vs,
           L.current_iid \in Nat, L.next_unused_iid \in Nat,
           L.current_iid + k <= L.next_unused_iid,
           Consistent(L, D, S, M), AsksBelow(L.next_unused_iid, M), UsedBy(L, D),
           \A j \in 1 .. k : L.current_iid + j - 1 \in Iids
                             /\ D[L.current_iid + j - 1] # NoValue
                             /\ vs[j] = D[L.current_iid + j - 1],
           r.info.current_iid = L.current_iid + k, r.info.next_unused_iid \in Nat,
           RanValues(L, r, vs, k)
    PROVE  Consistent(r.info, D, S, M \cup r.sent)
PROOF
  <1>. DEFINE c == L.current_iid
              l == L.next_unused_iid
              K == r.info
              d == K.current_iid
              New == c .. d - 1
  <1>1. c \in Nat /\ l \in Nat /\ d \in Nat /\ d = c + k /\ d <= l
        /\ K.next_unused_iid \in Nat
    OBVIOUS
  <1>2. /\ \A i \in Iids : D[i] # NoValue => D[i] = ValueOf(L, D, i)
        /\ \A i \in Past(L) : D[i] # NoValue /\ D[i] \notin Held(L, c)
        /\ \A i, j \in Past(L) : D[i] = D[j] => i = j
        /\ S = Held(L, c) \cup {D[i] : i \in Past(L)}
        /\ Orderly(L, c) /\ AsksFor(L, D, M)
    BY DEF Consistent
  <1>3. /\ Orderly(K, d) /\ Held(K, d) = Held(L, c) \ {vs[j] : j \in 1 .. k}
        /\ \A i \in Assigned(L, d) : Given(K, i) = Given(L, i)
        /\ AsksGiven(K, l, r.sent)
    BY DEF RanValues
  <1>4. ASSUME NEW i \in New
        PROVE  i \in Iids /\ D[i] # NoValue /\ i \in Assigned(L, c) /\ D[i] = Given(L, i)
               /\ i - c + 1 \in 1 .. k /\ vs[i - c + 1] = D[i]
    <2>. HIDE DEF d, c, l
    <2>1. i - c + 1 \in 1 .. k /\ c + (i - c + 1) - 1 = i /\ i \in c .. l - 1 /\ ~ (i < c)
      BY <1>1
    <2>2. i \in Iids /\ D[i] # NoValue /\ vs[i - c + 1] = D[i]
      BY <2>1 DEF c
    <2>3. D[i] = Given(L, i)
      BY <1>2, <2>1, <2>2 DEF ValueOf, c
    <2>. QED  BY <2>1, <2>2, <2>3 DEF Assigned, c, l
  <1>5. ASSUME NEW j \in 1 .. k
        PROVE  \E i \in New : vs[j] = D[i]
    <2>. HIDE DEF d, c, l
    <2>1. c + j - 1 \in New
      BY <1>1
    <2>2. vs[j] = D[c + j - 1]
      BY DEF c
    <2>. QED  BY <2>1, <2>2
  <1>6. Past(K) = Past(L) \cup New
    <2>1. ASSUME NEW i \in Iids
          PROVE  i < d <=> i < c \/ i \in New
      <3>. HIDE DEF d, c, l
      <3>. QED  BY <1>1, MessagesAssumption
    <2>2. Past(K) = {i \in Iids : i < d} /\ Past(L) = {i \in Iids : i < c}
      BY DEF Past
    <2>. HIDE DEF d, c, New
    <2>. QED  BY <1>4, <2>1, <2>2
  <1>. HIDE DEF d
  <1>7. ASSUME NEW i \in Iids, i < l
        PROVE  ValueOf(K, D, i) = ValueOf(L, D, i)
                  \/ (i \in New /\ ValueOf(K, D, i) = D[i])
    <2>0. i \in Nat
      BY MessagesAssumption
    <2>1. CASE i < c
      <3>1. i < d
        <4>. HIDE DEF c, l
        <4>. QED  BY <1>1, <2>0, <2>1
      <3>. QED  BY <2>1, <3>1 DEF ValueOf, d
    <2>2. CASE i \in New
      <3>1. i < d
        <4>. HIDE DEF c, l
        <4>. QED  BY <1>1, <2>0, <2>2
      <3>. QED  BY <2>2, <3>1 DEF ValueOf, d
    <2>3. CASE ~ (i < c) /\ i \notin New
      <3>1. ~ (i < d) /\ i \in d .. l - 1
        <4>. HIDE DEF c, l
        <4>. QED  BY <1>1, <1>7, <2>0, <2>3
      <3>2. Given(K, i) = Given(L, i)
        BY <1>3, <3>1 DEF Assigned
      <3>. QED  BY <2>3, <3>1, <3>2 DEF ValueOf, d
    <2>. QED  BY <2>1, <2>2, <2>3
  <1>8. ASSUME NEW i \in Iids, i < l, NEW v, v = ValueOf(L, D, i)
        PROVE  v = ValueOf(K, D, i)
    <2>1. CASE i \in New
      <3>1. D[i] = ValueOf(L, D, i)
        BY <1>2, <1>4, <2>1
      <3>. QED  BY <1>7, <1>8, <3>1
    <2>. QED  BY <1>7, <1>8, <2>1
  <1>9. AsksFor(K, D, M \cup r.sent)
    <2>1. ASSUME NEW m \in M, m.type = "accept_reqs", NEW ar \in m.reqs, ar.iid \in Iids
          PROVE  ar.value = ValueOf(K, D, ar.iid)
      <3>1. ar.iid < l
        BY <2>1 DEF AsksBelow
      <3>2. ar.value = ValueOf(L, D, ar.iid)
        BY <1>2, <2>1 DEF AsksFor
      <3>. QED  BY <1>8, <2>1, <3>1, <3>2
    <2>2. ASSUME NEW m \in r.sent, m.type = "accept_reqs", NEW ar \in m.reqs
          PROVE  ar.value = ValueOf(K, D, ar.iid)
      <3>1. ar.iid \in Assigned(K, l) /\ ar.value = Given(K, ar.iid)
        BY <1>3, <2>2 DEF AsksGiven
      <3>2. ~ (ar.iid < d)
        <4>1. ar.iid \in l .. K.next_unused_iid - 1
          BY <3>1 DEF Assigned
        <4>. HIDE DEF c, l, K
        <4>. QED  BY <1>1, <4>1
      <3>. QED  BY <3>1, <3>2 DEF ValueOf, d
    <2>. QED  BY <2>1, <2>2 DEF AsksFor
  <1>10. ASSUME NEW i \in Iids, D[i] # NoValue
         PROVE  D[i] = ValueOf(K, D, i)
    <2>1. i < l
      BY <1>10 DEF UsedBy
    <2>2. D[i] = ValueOf(L, D, i)
      BY <1>2, <1>10
    <2>. QED  BY <1>8, <2>1, <2>2
  <1>11. \A i \in New : D[i] \in Held(L, c) /\ D[i] \notin Held(K, d)
    <2>1. ASSUME NEW i \in New
          PROVE  D[i] \in Held(L, c) /\ D[i] \notin Held(K, d)
      <3>1. D[i] \in Held(L, c)
        BY <1>4 DEF Held
      <3>2. D[i] \in {vs[j] : j \in 1 .. k}
        BY <1>4
      <3>. QED  BY <1>3, <3>1, <3>2
    <2>. QED  BY <2>1
  <1>12. \A i \in Past(K) : D[i] # NoValue /\ D[i] \notin Held(K, d)
    <2>. HIDE DEF New, c, K
    <2>. QED  BY <1>2, <1>3, <1>4, <1>6, <1>11
  <1>13. \A i, j \in New : D[i] = D[j] => i = j
    BY <1>2, <1>4 DEF Orderly, HeldOnce
  <1>14. \A i, j \in Past(K) : D[i] = D[j] => i = j
    <2>. HIDE DEF New, c, K
    <2>. QED  BY <1>2, <1>6, <1>11, <1>13
  <1>15. Held(L, c) = Held(K, d) \cup {D[i] : i \in New}
    <2>1. {vs[j] : j \in 1 .. k} = {D[i] : i \in New}
      <3>. HIDE DEF New
      <3>. QED  BY <1>4, <1>5
    <2>. HIDE DEF New, c, K
    <2>. QED  BY <1>3, <1>11, <2>1
  <1>16. S = Held(K, d) \cup {D[i] : i \in Past(K)}
    <2>. HIDE DEF New, c, K
    <2>. QED  BY <1>2, <1>6, <1>15
  <1>. QED  BY <1>3, <1>9, <1>10, <1>12, <1>14, <1>16 DEF Consistent, d

-----------------------------------------------------------------------------
(* Whatever a leader knows of the window: it may be wider than the buffer,    *)
(* another leader may have overtaken it, and slots may hold what was left     *)
(* there in an earlier turn.  Then Coherent is false.  What is left of it is  *)
(* where the values come from.                                               *)

\* Slot s holds values of C only, and has a ballot and an instance when in use.
SlotSound(s, ii, C) ==
    /\ ii \in InstanceInfo
    /\ ii.p1_value \in C \cup {NoValue} /\ ii.p2_value \in C \cup {NoValue}
    /\ ii.iid = 0 \/ ProposerSlot(ii.iid) = s
    /\ ii.status # "empty" => ii.my_ballot \in Ballots /\ ii.iid \in Iids

\* All that a proposer has in its buffer and its list are values of C.
Sourced(L, C) ==
    /\ L \in LeaderInfo
    /\ L.pending_list \in Seq(C)
    /\ L.highest_open \in Iids \cup {0}
    /\ \A s \in ProposerSlots : SlotSound(s, L.proposer_state[s], C)

\* Of a leader: no slot is ahead of highest_open, and the slots of the instances it
\* gave a value hold one still, even if they were opened again for a later instance.
Leads(L, c) ==
    /\ c \in Nat \ {0}
    /\ L.next_unused_iid <= L.highest_open + 1
    /\ \A s \in ProposerSlots : L.proposer_state[s].iid <= L.highest_open
    /\ \A i \in c .. L.next_unused_iid - 1 :
          Instance(L, i).iid >= i /\ Instance(L, i).p2_value # NoValue

\* Of any other proposer: what leader_shutdown left in its slots is delivered.
Rests(L) == \A s \in ProposerSlots : L.proposer_state[s].iid < L.current_iid

Legal(L, me, C) == Sourced(L, C) /\ IF me THEN Leads(L, L.current_iid) ELSE Rests(L)

(* What follows of the fields, and of the slot of an instance. *)
LEMMA SourcedFacts ==
    ASSUME NEW L, NEW C, Sourced(L, C)
    PROVE  /\ L \in LeaderInfo /\ L.current_iid \in Nat \ {0}
           /\ L.highest_open \in Nat /\ L.next_unused_iid \in Nat
           /\ L.pending_count \in Int /\ L.ready_count \in Int /\ L.open_count \in Int
           /\ \A i \in 1 .. L.highest_open : i \in Iids /\ i \in Nat
           /\ \A s \in ProposerSlots : L.proposer_state[s].iid \in Nat
           /\ \A i \in Nat : /\ ProposerSlot(i) \in ProposerSlots
                             /\ Instance(L, i) = L.proposer_state[ProposerSlot(i)]
                             /\ Instance(L, i) \in InstanceInfo
                             /\ SlotSound(ProposerSlot(i), Instance(L, i), C)
PROOF
  <1>1. /\ L \in LeaderInfo /\ L.current_iid \in Nat \ {0}
        /\ L.highest_open \in Nat /\ L.next_unused_iid \in Nat
        /\ L.pending_count \in Int /\ L.ready_count \in Int /\ L.open_count \in Int
    BY DEF Sourced, LeaderInfo
  <1>2. ASSUME NEW i \in 1 .. L.highest_open
        PROVE  i \in Iids /\ i \in Nat
    <2>1. L.highest_open \in Iids
      BY <1>1 DEF Sourced
    <2>. QED  BY <1>1, <2>1, LeaderAssumption
  <1>3. ASSUME NEW s \in ProposerSlots
        PROVE  L.proposer_state[s].iid \in Nat
    <2>1. L.proposer_state[s] \in InstanceInfo
      BY DEF Sourced, SlotSound
    <2>2. L.proposer_state[s].iid \in Iids \cup {0}
      BY <2>1 DEF InstanceInfo
    <2>3. Iids \cup {0} \subseteq Nat
      BY MessagesAssumption
    <2>. QED  BY <2>2, <2>3
  <1>4. ASSUME NEW i \in Nat
        PROVE  /\ ProposerSlot(i) \in ProposerSlots
               /\ Instance(L, i) = L.proposer_state[ProposerSlot(i)]
               /\ Instance(L, i) \in InstanceInfo
               /\ SlotSound(ProposerSlot(i), Instance(L, i), C)
    BY SlotType DEF Sourced, SlotSound, Instance
  <1>. QED  BY <1>1, <1>2, <1>3, <1>4

\* From ii to jj a slot stays sound, with its instance and a value if it had one.
Touched(s, ii, jj, C) ==
    /\ SlotSound(s, jj, C) /\ jj.iid = ii.iid
    /\ ii.p2_value # NoValue => jj.p2_value # NoValue

(* A leader stays sound when slots are touched, and more instances have a value. *)
LEMMA TouchedKept ==
    ASSUME NEW L, NEW C, NEW c, Sourced(L, C), Leads(L, c), NEW K, K \in LeaderInfo,
           K.pending_list \in Seq(C), K.highest_open = L.highest_open,
           K.next_unused_iid <= L.highest_open + 1,
           \A s \in ProposerSlots : Touched(s, L.proposer_state[s], K.proposer_state[s], C),
           \A i \in Nat : i < K.next_unused_iid /\ ~ (i < L.next_unused_iid) =>
                            Instance(K, i).iid = i /\ Instance(K, i).p2_value # NoValue
    PROVE  Sourced(K, C) /\ Leads(K, c)
PROOF
  <1>1. Sourced(K, C)
    BY DEF Sourced, Touched
  <1>2. ASSUME NEW i \in c .. K.next_unused_iid - 1
        PROVE  Instance(K, i).iid >= i /\ Instance(K, i).p2_value # NoValue
    <2>1. /\ i \in Nat /\ i < K.next_unused_iid /\ ProposerSlot(i) \in ProposerSlots
          /\ L.next_unused_iid \in Nat /\ c \in Nat /\ c <= i
      <3>1. K.next_unused_iid \in Nat /\ c \in Nat
        BY DEF Leads, LeaderInfo
      <3>. QED  BY <3>1, SlotType, SourcedFacts
    <2>2. CASE i < L.next_unused_iid
      <3>1. i \in c .. L.next_unused_iid - 1
        BY <2>1, <2>2
      <3>. QED  BY <2>1, <3>1 DEF Leads, Touched, Instance
    <2>3. CASE ~ (i < L.next_unused_iid)
      <3>1. Instance(K, i).iid = i /\ Instance(K, i).p2_value # NoValue
        BY <2>1, <2>3
      <3>. QED  BY <2>1, <3>1
    <2>. QED  BY <2>2, <2>3
  <1>3. \A s \in ProposerSlots : K.proposer_state[s].iid <= K.highest_open
    BY DEF Leads, Touched
  <1>. QED  BY <1>1, <1>2, <1>3 DEF Leads

(* A slot that is left alone is touched. *)
LEMMA LeftAlone ==
    ASSUME NEW L, NEW C, Sourced(L, C), NEW s \in ProposerSlots
    PROVE  Touched(s, L.proposer_state[s], L.proposer_state[s], C)
BY DEF Sourced, Touched

(* leader_check_p1_pending *)
LEMMA CheckP1Legal ==
    ASSUME NEW L, NEW C, NEW c, Sourced(L, C), Leads(L, c), NEW E,
           \A i \in E : CanRetry(L, i), E \in SUBSET Pending(L),
           NEW K, K = CheckP1Pending(L, E)
    PROVE  /\ Sourced(K, C) /\ Leads(K, c) /\ K.current_iid = L.current_iid
           /\ E \subseteq 1 .. K.highest_open
           /\ \A i \in E : Instance(K, i).status # "empty"
PROOF
  <1>. DEFINE Chosen(s) == CHOOSE i \in E : ProposerSlot(i) = s
  <1>1. L \in LeaderInfo /\ L.current_iid \in Nat \ {0} /\ L.highest_open \in Nat
    BY SourcedFacts
  <1>2. K.proposer_state =
            [s \in ProposerSlots |->
                IF \E i \in E : ProposerSlot(i) = s THEN Retried(L.proposer_state[s])
                ELSE L.proposer_state[s]]
    BY <1>1 DEF CheckP1Pending, Changed, LeaderInfo, Retried
  <1>3. /\ K.current_iid = L.current_iid /\ K.pending_list = L.pending_list
        /\ K.highest_open = L.highest_open /\ K.next_unused_iid = L.next_unused_iid
    BY <1>1 DEF CheckP1Pending, LeaderInfo
  <1>4. ASSUME NEW i \in E
        PROVE  /\ i \in 1 .. L.highest_open /\ i \in Nat
               /\ Instance(L, i).status = "p1_pending"
               /\ NEXT_BALLOT(Instance(L, i).my_ballot) \in Ballots
    BY <1>1 DEF Pending, CanRetry
  <1>5. ASSUME NEW s \in ProposerSlots
        PROVE  Touched(s, L.proposer_state[s], K.proposer_state[s], C)
    <2>. DEFINE ii == L.proposer_state[s]
    <2>1. CASE \E i \in E : ProposerSlot(i) = s
      <3>1. PICK i \in E : ProposerSlot(i) = s
        BY <2>1
      <3>2. ii = Instance(L, i) /\ SlotSound(s, ii, C) /\ ii \in InstanceInfo
        BY <1>4, <3>1, SourcedFacts
      <3>3. NEXT_BALLOT(ii.my_ballot) \in Ballots /\ ii.status = "p1_pending"
        BY <1>4, <3>2
      <3>4. K.proposer_state[s] = Retried(ii)
        BY <1>2, <2>1
      <3>. HIDE DEF ii
      <3>5. /\ Retried(ii) \in InstanceInfo /\ Retried(ii).iid = ii.iid
            /\ Retried(ii).my_ballot \in Ballots /\ Retried(ii).status = ii.status
            /\ Retried(ii).p1_value = NoValue /\ Retried(ii).p2_value = ii.p2_value
        BY <3>2, <3>3, RetriedType
      <3>6. Touched(s, ii, Retried(ii), C)
        <4>. HIDE DEF Retried
        <4>. QED  BY <3>2, <3>3, <3>5 DEF Touched, SlotSound
      <3>. QED  BY <3>4, <3>6 DEF ii
    <2>2. CASE ~ \E i \in E : ProposerSlot(i) = s
      <3>1. K.proposer_state[s] = ii
        <4>. HIDE DEF Retried
        <4>. QED  BY <1>2, <2>2
      <3>. QED  BY <3>1, LeftAlone
    <2>. QED  BY <2>1, <2>2
  <1>6. K \in LeaderInfo
    <2>1. K.proposer_state \in [ProposerSlots -> InstanceInfo]
      <3>1. \A s \in ProposerSlots : K.proposer_state[s] \in InstanceInfo
        BY <1>5 DEF Touched, SlotSound
      <3>. HIDE DEF Retried
      <3>2. K.proposer_state = [s \in ProposerSlots |-> K.proposer_state[s]]
        BY <1>2
      <3>. QED  BY <3>1, <3>2
    <2>2. K = [L EXCEPT !.proposer_state = K.proposer_state]
      BY <1>1 DEF CheckP1Pending, LeaderInfo
    <2>. QED  BY <1>1, <2>1, <2>2 DEF LeaderInfo
  <1>7. Sourced(K, C) /\ Leads(K, c)
    <2>1. K.pending_list \in Seq(C) /\ K.next_unused_iid <= L.highest_open + 1
      BY <1>3 DEF Sourced, Leads
    <2>. QED  BY <1>3, <1>5, <1>6, <2>1, TouchedKept
  <1>8. ASSUME NEW i \in E
        PROVE  Instance(K, i).status # "empty"
    <2>1. ProposerSlot(i) \in ProposerSlots /\ Instance(L, i) \in InstanceInfo
      BY <1>4, SourcedFacts
    <2>2. Instance(K, i) = Retried(Instance(L, i))
      <3>. HIDE DEF Retried
      <3>. QED  BY <1>2, <2>1 DEF Instance
    <2>3. Retried(Instance(L, i)).status = Instance(L, i).status
      BY <1>4, <2>1, RetriedType
    <2>. QED  BY <1>4, <2>2, <2>3
  <1>. QED  BY <1>3, <1>4, <1>7, <1>8
\* Requests: prepare batches are finite, and only values of C are asked for.
AsksOf(M, C) ==
    \A m \in M :
        /\ m \in Message /\ m.type \in {"prepare_reqs", "accept_reqs"}
        /\ m.type = "prepare_reqs" => IsFiniteSet(m.reqs)
        /\ m.type = "accept_reqs" => \A ar \in m.reqs : ar.value \in C

LEMMA AsksBoth ==
    \A M, N, C : AsksOf(M, C) /\ AsksOf(N, C) => AsksOf(M \cup N, C)
BY DEF AsksOf

LEMMA UpToFinite ==
    ASSUME NEW h \in Nat, NEW S, S \subseteq 1 .. h
    PROVE  IsFiniteSet(S) /\ Cardinality(S) \in Nat
PROOF
  <1>1. 1 \in Int /\ h \in Int
    OBVIOUS
  <1>2. IsFiniteSet(1 .. h)
    BY <1>1, FS_Interval
  <1>3. S \in SUBSET (1 .. h)
    OBVIOUS
  <1>. QED  BY <1>2, <1>3, FS_Subset, FS_CardinalityType

(* The batches are well formed. *)
LEMMA PreparesLegal ==
    ASSUME NEW L, NEW C, Sourced(L, C), NEW S, S \subseteq 1 .. L.highest_open,
           \A i \in S : Instance(L, i).status # "empty"
    PROVE  AsksOf(PrepareReqs(L, S), C)
PROOF
  <1>. DEFINE Req(i) == [iid |-> i, ballot |-> Instance(L, i).my_ballot]
              R == {Req(i) : i \in S}
  <1>1. L.highest_open \in Nat
    BY SourcedFacts
  <1>2. IsFiniteSet(S)
    BY <1>1, UpToFinite
  <1>3. ASSUME NEW i \in S PROVE Req(i) \in PrepareReq
    <2>1. i \in Iids /\ i \in Nat
      BY SourcedFacts
    <2>2. Instance(L, i).my_ballot \in Ballots
      BY <2>1, SourcedFacts DEF SlotSound
    <2>. QED  BY <2>1, <2>2 DEF PrepareReq
  <1>4. IsFiniteSet(R)
    <2>. DEFINE f == [i \in S |-> Req(i)]
    <2>1. f \in Surjection(S, R)
      BY DEF Surjection
    <2>. QED  BY <1>2, <2>1, FS_Surjection
  <1>5. ASSUME NEW m \in PrepareReqs(L, S)
        PROVE  m = [type |-> "prepare_reqs", reqs |-> R]
    BY DEF PrepareReqs
  <1>6. R \in SUBSET PrepareReq
    BY <1>3
  <1>. HIDE DEF R
  <1>7. [type |-> "prepare_reqs", reqs |-> R] \in Message
    BY <1>6 DEF Message
  <1>. QED  BY <1>4, <1>5, <1>7 DEF AsksOf

LEMMA AcceptsLegal ==
    ASSUME NEW L, NEW C, Sourced(L, C), NEW S, S \subseteq 1 .. L.highest_open,
           C \subseteq Values,
           \A i \in S : /\ Instance(L, i).status # "empty"
                        /\ Instance(L, i).p2_value # NoValue
    PROVE  AsksOf(AcceptReqs(L, S), C)
PROOF
  <1>. DEFINE Req(i) == [iid |-> i, ballot |-> Instance(L, i).my_ballot,
                         value |-> Instance(L, i).p2_value]
              R == {Req(i) : i \in S}
  <1>1. ASSUME NEW i \in S PROVE Req(i) \in AcceptReq /\ Req(i).value \in C
    <2>1. i \in Iids /\ i \in Nat
      BY SourcedFacts
    <2>2. Instance(L, i).my_ballot \in Ballots /\ Instance(L, i).p2_value \in C
      BY <2>1, SourcedFacts DEF SlotSound
    <2>. QED  BY <2>1, <2>2 DEF AcceptReq
  <1>2. ASSUME NEW m \in AcceptReqs(L, S)
        PROVE  m = [type |-> "accept_reqs", reqs |-> R]
    BY DEF AcceptReqs
  <1>3. R \in SUBSET AcceptReq /\ \A ar \in R : ar.value \in C
    BY <1>1
  <1>. HIDE DEF R
  <1>4. [type |-> "accept_reqs", reqs |-> R] \in Message
    BY <1>3 DEF Message
  <1>. QED  BY <1>2, <1>3, <1>4 DEF AsksOf

\* K is L with the instances opened that follow highest_open.
OpensUpTo(L, K, C, c) ==
    /\ Sourced(K, C) /\ Leads(K, c) /\ K.current_iid = L.current_iid
    /\ K.highest_open \in Nat /\ L.highest_open <= K.highest_open
    /\ ToOpen(L) = L.highest_open + 1 .. K.highest_open
    /\ \A i \in ToOpen(L) : Instance(K, i).status # "empty"
    /\ \A s \in ProposerSlots :
          L.proposer_state[s].status # "empty" => K.proposer_state[s].status # "empty"

(* leader_open_instances_p1: a slot may still hold an instance of the window, which
   is lost, but its value is not. *)
LEMMA OpenP1Legal ==
    ASSUME NEW p \in Proposers, NEW L, NEW C, NEW c, Sourced(L, C), Leads(L, c),
           NEW K, K = OpenInstancesP1(p, L)
    PROVE  OpensUpTo(L, K, C, c)
PROOF
  <1>. DEFINE S == ToOpen(L)
              Chosen(s) == CHOOSE i \in S : ProposerSlot(i) = s
              New(i, ii) == [ii EXCEPT !.iid = i, !.status = "p1_pending",
                                       !.my_ballot = FIRST_BALLOT(p)]
  <1>1. /\ L \in LeaderInfo /\ L.highest_open \in Nat /\ L.next_unused_iid \in Nat
        /\ L.pending_count \in Int /\ c \in Nat \ {0}
        /\ L.next_unused_iid <= L.highest_open + 1
    BY SourcedFacts DEF Leads
  <1>2. PICK k \in Nat : /\ S = L.highest_open + 1 .. L.highest_open + k
                         /\ Cardinality(S) = k /\ S \subseteq Iids
    BY <1>1, ToOpenRange
  <1>3. /\ K.highest_open = L.highest_open + k
        /\ K.pending_count = L.pending_count + k
        /\ K.current_iid = L.current_iid /\ K.ready_count = L.ready_count
        /\ K.next_unused_iid = L.next_unused_iid /\ K.open_count = L.open_count
        /\ K.pending_list = L.pending_list
    BY <1>1, <1>2 DEF OpenInstancesP1, LeaderInfo
  <1>4. K.proposer_state =
            [s \in ProposerSlots |->
                IF \E i \in S : ProposerSlot(i) = s
                THEN New(Chosen(s), L.proposer_state[s])
                ELSE L.proposer_state[s]]
    BY <1>1 DEF OpenInstancesP1, Changed, LeaderInfo
  <1>. HIDE DEF S
  <1>5. FIRST_BALLOT(p) \in Ballots
    BY LeaderAssumption DEF FIRST_BALLOT
  <1>6. ASSUME NEW s \in ProposerSlots, ~ \E i \in S : ProposerSlot(i) = s
        PROVE  K.proposer_state[s] = L.proposer_state[s]
    <2>. HIDE DEF New, Chosen
    <2>. QED  BY <1>4, <1>6
  <1>7. ASSUME NEW s \in ProposerSlots, NEW i \in S, i = Chosen(s), ProposerSlot(i) = s
        PROVE  /\ SlotSound(s, K.proposer_state[s], C)
               /\ K.proposer_state[s].iid = i
               /\ K.proposer_state[s].status = "p1_pending"
               /\ K.proposer_state[s].p2_value = L.proposer_state[s].p2_value
    <2>. DEFINE ii == L.proposer_state[s]
    <2>1. K.proposer_state[s] = New(i, ii)
      <3>. HIDE DEF New, Chosen
      <3>. QED  BY <1>4, <1>7
    <2>2. ii \in InstanceInfo /\ SlotSound(s, ii, C) /\ i \in Iids
      BY <1>2 DEF Sourced, SlotSound
    <2>. HIDE DEF ii
    <2>3. /\ New(i, ii) \in InstanceInfo /\ New(i, ii).iid = i
          /\ New(i, ii).status = "p1_pending" /\ New(i, ii).my_ballot = FIRST_BALLOT(p)
          /\ New(i, ii).p1_value = ii.p1_value /\ New(i, ii).p2_value = ii.p2_value
      <3>. HIDE DEF FIRST_BALLOT
      <3>. QED  BY <1>5, <2>2 DEF InstanceInfo, Status
    <2>4. SlotSound(s, New(i, ii), C)
      <3>. HIDE DEF New, FIRST_BALLOT
      <3>. QED  BY <1>5, <1>7, <2>2, <2>3 DEF SlotSound
    <2>. QED  BY <2>1, <2>3, <2>4 DEF ii
  <1>8. ASSUME NEW s \in ProposerSlots, \E i \in S : ProposerSlot(i) = s
        PROVE  Chosen(s) \in S /\ ProposerSlot(Chosen(s)) = s
    BY <1>8
  <1>. HIDE DEF New, Chosen
  <1>9. \A s \in ProposerSlots : SlotSound(s, K.proposer_state[s], C)
    BY <1>6, <1>7, <1>8 DEF Sourced
  <1>10. K \in LeaderInfo
    <2>1. K.proposer_state \in [ProposerSlots -> InstanceInfo]
      <3>1. \A s \in ProposerSlots : K.proposer_state[s] \in InstanceInfo
        BY <1>9 DEF SlotSound
      <3>2. K.proposer_state = [s \in ProposerSlots |-> K.proposer_state[s]]
        BY <1>4
      <3>. QED  BY <3>1, <3>2
    <2>2. K = [current_iid |-> K.current_iid, proposer_state |-> K.proposer_state,
               pending_count |-> K.pending_count, ready_count |-> K.ready_count,
               highest_open |-> K.highest_open, next_unused_iid |-> K.next_unused_iid,
               open_count |-> K.open_count, pending_list |-> K.pending_list]
      BY <1>1 DEF OpenInstancesP1, LeaderInfo
    <2>3. K.highest_open \in Nat /\ K.pending_count \in Int
      BY <1>1, <1>2, <1>3
    <2>. QED  BY <1>1, <1>3, <2>1, <2>2, <2>3 DEF LeaderInfo
  <1>11. K.highest_open \in Iids \cup {0}
    <2>1. CASE k = 0
      BY <1>1, <1>3, <2>1 DEF Sourced
    <2>2. CASE k > 0
      <3>1. L.highest_open + k \in L.highest_open + 1 .. L.highest_open + k
        BY <1>1, <1>2, <2>2
      <3>. QED  BY <1>2, <1>3, <3>1
    <2>. QED  BY <1>2, <2>1, <2>2
  <1>12. Sourced(K, C)
    BY <1>3, <1>9, <1>10, <1>11 DEF Sourced
  <1>13. ASSUME NEW s \in ProposerSlots
         PROVE  /\ K.proposer_state[s].iid \in Nat
                /\ K.proposer_state[s].iid <= K.highest_open
                /\ L.proposer_state[s].iid <= K.proposer_state[s].iid
                /\ K.proposer_state[s].p2_value = L.proposer_state[s].p2_value
    <2>1. L.proposer_state[s].iid \in Nat /\ L.proposer_state[s].iid <= L.highest_open
      BY SourcedFacts DEF Leads
    <2>2. CASE ~ \E i \in S : ProposerSlot(i) = s
      <3>1. K.proposer_state[s] = L.proposer_state[s]
        BY <1>6, <2>2
      <3>. QED  BY <1>1, <1>2, <1>3, <2>1, <3>1
    <2>3. CASE \E i \in S : ProposerSlot(i) = s
      <3>1. PICK i \in S : i = Chosen(s) /\ ProposerSlot(i) = s
        BY <1>8, <2>3
      <3>2. K.proposer_state[s].iid = i
            /\ K.proposer_state[s].p2_value = L.proposer_state[s].p2_value
        BY <1>7, <3>1
      <3>3. i \in Nat /\ L.highest_open < i /\ i <= L.highest_open + k
        BY <1>1, <1>2
      <3>. QED  BY <1>1, <1>2, <1>3, <2>1, <3>2, <3>3
    <2>. QED  BY <2>2, <2>3
  <1>14. Leads(K, c)
    <2>1. ASSUME NEW i \in c .. K.next_unused_iid - 1
          PROVE  Instance(K, i).iid >= i /\ Instance(K, i).p2_value # NoValue
      <3>1. i \in Nat /\ i \in c .. L.next_unused_iid - 1
        BY <1>1, <1>3
      <3>2. ProposerSlot(i) \in ProposerSlots
        BY <3>1, SlotType
      <3>3. /\ L.proposer_state[ProposerSlot(i)].iid \in Nat
            /\ L.proposer_state[ProposerSlot(i)].iid >= i
            /\ L.proposer_state[ProposerSlot(i)].p2_value # NoValue
        BY <3>1, <3>2, SourcedFacts DEF Leads, Instance
      <3>4. /\ K.proposer_state[ProposerSlot(i)].iid \in Nat
            /\ L.proposer_state[ProposerSlot(i)].iid <= K.proposer_state[ProposerSlot(i)].iid
            /\ K.proposer_state[ProposerSlot(i)].p2_value
                   = L.proposer_state[ProposerSlot(i)].p2_value
        BY <1>13, <3>2
      <3>. QED  BY <3>1, <3>3, <3>4 DEF Instance
    <2>2. K.next_unused_iid <= K.highest_open + 1
      BY <1>1, <1>2, <1>3
    <2>. QED  BY <1>1, <1>13, <2>1, <2>2 DEF Leads
  <1>15. ASSUME NEW s \in ProposerSlots, L.proposer_state[s].status # "empty"
         PROVE  K.proposer_state[s].status # "empty"
    BY <1>6, <1>7, <1>8, <1>15
  <1>16. ASSUME NEW i \in S PROVE Instance(K, i).status # "empty"
    <2>1. i \in Nat
      BY <1>1, <1>2
    <2>2. ProposerSlot(i) \in ProposerSlots
      BY <2>1, SlotType
    <2>3. PICK j \in S : j = Chosen(ProposerSlot(i)) /\ ProposerSlot(j) = ProposerSlot(i)
      BY <1>8, <2>2
    <2>. QED  BY <1>7, <2>2, <2>3 DEF Instance
  <1>17. /\ K.highest_open \in Nat /\ L.highest_open <= K.highest_open
         /\ S = L.highest_open + 1 .. K.highest_open
    BY <1>1, <1>2, <1>3
  <1>. QED  BY <1>3, <1>12, <1>14, <1>15, <1>16, <1>17 DEF S, OpensUpTo

(* leader_open_instances_p2_expired *)
LEMMA P2ExpiredLegal ==
    ASSUME NEW L, NEW C, C \subseteq Values, NEW c, c = L.current_iid,
           Sourced(L, C), Leads(L, c), NEW K, K = OpenInstancesP2Expired(L)
    PROVE  /\ Sourced(K, C) /\ Leads(K, c) /\ K.current_iid = c
           /\ AsksOf(AcceptReqs(K, ExpiredReady(L)), C)
PROOF
  <1>. DEFINE S == ExpiredReady(L)
              Chosen(s) == CHOOSE i \in S : ProposerSlot(i) = s
  <1>1. /\ L \in LeaderInfo /\ L.highest_open \in Nat /\ L.next_unused_iid \in Nat
        /\ L.ready_count \in Int /\ c \in Nat \ {0}
        /\ L.next_unused_iid <= L.highest_open + 1
    BY SourcedFacts DEF Leads
  <1>2. ASSUME NEW i \in S
        PROVE  /\ i \in c .. L.next_unused_iid - 1 /\ i \in 1 .. L.highest_open /\ i \in Nat
               /\ Instance(L, i).status = "p1_ready" /\ Instance(L, i).p2_value # NoValue
    <2>1. i \in c .. L.next_unused_iid - 1 /\ Instance(L, i).status = "p1_ready"
      BY DEF ExpiredReady
    <2>2. Instance(L, i).p2_value # NoValue
      BY <2>1 DEF Leads
    <2>. QED  BY <1>1, <2>1, <2>2
  <1>3. K.proposer_state =
            [s \in ProposerSlots |->
                IF \E i \in S : ProposerSlot(i) = s
                THEN ExecuteP2(L.proposer_state[s], NoValue)
                ELSE L.proposer_state[s]]
    BY <1>1 DEF OpenInstancesP2Expired, Changed, LeaderInfo
  <1>4. /\ K.current_iid = L.current_iid /\ K.pending_count = L.pending_count
        /\ K.ready_count = L.ready_count - Cardinality(S)
        /\ K.highest_open = L.highest_open
        /\ K.next_unused_iid = L.next_unused_iid /\ K.open_count = L.open_count
        /\ K.pending_list = L.pending_list
    BY <1>1 DEF OpenInstancesP2Expired, LeaderInfo
  <1>. HIDE DEF S
  <1>5. ASSUME NEW i \in S
        PROVE  /\ K.proposer_state[ProposerSlot(i)] \in InstanceInfo
               /\ SlotSound(ProposerSlot(i), K.proposer_state[ProposerSlot(i)], C)
               /\ K.proposer_state[ProposerSlot(i)].iid = L.proposer_state[ProposerSlot(i)].iid
               /\ K.proposer_state[ProposerSlot(i)].status = "p2_pending"
               /\ K.proposer_state[ProposerSlot(i)].p2_value # NoValue
    <2>. DEFINE ii == Instance(L, i)
    <2>1. /\ ii \in InstanceInfo /\ SlotSound(ProposerSlot(i), ii, C)
          /\ ProposerSlot(i) \in ProposerSlots /\ ii = L.proposer_state[ProposerSlot(i)]
          /\ ii.status = "p1_ready" /\ ii.p2_value # NoValue
      BY <1>2, SourcedFacts
    <2>. HIDE DEF ii
    <2>2. K.proposer_state[ProposerSlot(i)] = ExecuteP2(ii, NoValue)
      BY <1>3, <2>1
    <2>3. /\ ExecuteP2(ii, NoValue) \in InstanceInfo
          /\ ExecuteP2(ii, NoValue).iid = ii.iid
          /\ ExecuteP2(ii, NoValue).my_ballot = ii.my_ballot
          /\ ExecuteP2(ii, NoValue).status = "p2_pending"
          /\ ExecuteP2(ii, NoValue).p1_value = NoValue
          /\ ExecuteP2(ii, NoValue).p2_value \in {ii.p1_value, ii.p2_value}
          /\ ExecuteP2(ii, NoValue).p2_value # NoValue
      BY <2>1, ExecuteType
    <2>. QED  BY <2>1, <2>2, <2>3 DEF SlotSound
  <1>6. ASSUME NEW s \in ProposerSlots
        PROVE  Touched(s, L.proposer_state[s], K.proposer_state[s], C)
    <2>1. CASE \E i \in S : ProposerSlot(i) = s
      BY <1>5, <2>1 DEF Touched
    <2>2. CASE ~ \E i \in S : ProposerSlot(i) = s
      <3>1. K.proposer_state[s] = L.proposer_state[s]
        <4>. HIDE DEF ExecuteP2
        <4>. QED  BY <1>3, <2>2
      <3>. QED  BY <3>1, LeftAlone
    <2>. QED  BY <2>1, <2>2
  <1>7. K \in LeaderInfo
    <2>1. K.proposer_state \in [ProposerSlots -> InstanceInfo]
      <3>1. \A s \in ProposerSlots : K.proposer_state[s] \in InstanceInfo
        BY <1>6 DEF Touched, SlotSound
      <3>2. K.proposer_state = [s \in ProposerSlots |-> K.proposer_state[s]]
        <4>. HIDE DEF ExecuteP2
        <4>. QED  BY <1>3
      <3>. QED  BY <3>1, <3>2
    <2>2. Cardinality(S) \in Nat
      <3>1. S \subseteq 1 .. L.highest_open
        BY <1>2
      <3>. QED  BY <1>1, <3>1, UpToFinite
    <2>3. K = [current_iid |-> K.current_iid, proposer_state |-> K.proposer_state,
               pending_count |-> K.pending_count, ready_count |-> K.ready_count,
               highest_open |-> K.highest_open, next_unused_iid |-> K.next_unused_iid,
               open_count |-> K.open_count, pending_list |-> K.pending_list]
      BY <1>1 DEF OpenInstancesP2Expired, LeaderInfo
    <2>4. K.ready_count \in Int
      BY <1>1, <1>4, <2>2
    <2>. QED  BY <1>1, <1>4, <2>1, <2>3, <2>4 DEF LeaderInfo
  <1>8. Sourced(K, C) /\ Leads(K, c)
    <2>1. K.pending_list \in Seq(C)
      BY <1>4 DEF Sourced
    <2>. QED  BY <1>1, <1>4, <1>6, <1>7, <2>1, TouchedKept
  <1>9. S \subseteq 1 .. K.highest_open
        /\ \A i \in S : /\ Instance(K, i).status # "empty"
                        /\ Instance(K, i).p2_value # NoValue
    BY <1>2, <1>4, <1>5 DEF Instance
  <1>10. AsksOf(AcceptReqs(K, S), C)
    BY <1>8, <1>9, AcceptsLegal
  <1>. QED  BY <1>4, <1>8, <1>10 DEF S

(* leader_open_instances_p2_new: what is found or taken from the list comes from C;
   the slot of an instance it starts holds that instance. *)
LEMMA P2NewLegal ==
    ASSUME NEW L, NEW C, C \subseteq Values, NEW c, Sourced(L, C), Leads(L, c),
           NEW K, K = OpenInstancesP2New(L)
    PROVE  /\ Sourced(K, C) /\ Leads(K, c) /\ K.current_iid = L.current_iid
           /\ AsksOf(AcceptReqs(K, Started(L)), C)
PROOF
  <1>. DEFINE S == Started(L)
              k == StartCount(L)
              Chosen(s) == CHOOSE i \in S : ProposerSlot(i) = s
              Executed(i, ii) ==
                  ExecuteP2(ii, IF ii.p1_value = NoValue
                                THEN L.pending_list[TakenBefore(L, i - L.next_unused_iid) + 1]
                                ELSE NoValue)
  <1>1. /\ L \in LeaderInfo /\ L.highest_open \in Nat /\ L.next_unused_iid \in Nat
        /\ L.ready_count \in Int /\ L.open_count \in Int /\ c \in Nat \ {0}
        /\ L.next_unused_iid <= L.highest_open + 1 /\ L.pending_list \in Seq(C)
    BY SourcedFacts DEF Leads, Sourced
  <1>2. k \in Nat
    BY <1>1, StartCountType
  <1>3. /\ S = L.next_unused_iid .. L.next_unused_iid + k - 1
        /\ \A i \in S : /\ i \in Nat /\ Instance(L, i).status = "p1_ready"
                        /\ Instance(L, i).iid = i
    BY <1>1, StartedAre
  <1>4. /\ K.current_iid = L.current_iid /\ K.pending_count = L.pending_count
        /\ K.ready_count = L.ready_count - k /\ K.highest_open = L.highest_open
        /\ K.next_unused_iid = L.next_unused_iid + k
        /\ K.open_count = L.open_count + k
        /\ K.pending_list = SubSeq(L.pending_list, TakenBefore(L, k) + 1,
                                   Len(L.pending_list))
    BY <1>1 DEF OpenInstancesP2New, LeaderInfo
  <1>5. K.proposer_state =
            [s \in ProposerSlots |->
                IF \E i \in S : ProposerSlot(i) = s
                THEN Executed(Chosen(s), L.proposer_state[s])
                ELSE L.proposer_state[s]]
    BY <1>1 DEF OpenInstancesP2New, Changed, LeaderInfo
  <1>. HIDE DEF k
  <1>6. ASSUME NEW i \in S
        PROVE  /\ i \in Nat /\ i \in Iids /\ i \in 1 .. L.highest_open
               /\ ProposerSlot(i) \in ProposerSlots
               /\ Instance(L, i) = L.proposer_state[ProposerSlot(i)]
               /\ Instance(L, i) \in InstanceInfo
               /\ SlotSound(ProposerSlot(i), Instance(L, i), C)
               /\ Instance(L, i).status = "p1_ready" /\ Instance(L, i).iid = i
               /\ Chosen(ProposerSlot(i)) = i
    <2>1. i \in Nat /\ Instance(L, i).status = "p1_ready" /\ Instance(L, i).iid = i
      BY <1>3
    <2>2. /\ ProposerSlot(i) \in ProposerSlots
          /\ Instance(L, i) = L.proposer_state[ProposerSlot(i)]
          /\ Instance(L, i) \in InstanceInfo
          /\ SlotSound(ProposerSlot(i), Instance(L, i), C)
      BY <2>1, SourcedFacts
    <2>3. i \in Iids /\ i <= L.highest_open
      <3>1. i \in Iids
        BY <2>1, <2>2 DEF SlotSound
      <3>2. i <= L.highest_open
        BY <2>1, <2>2 DEF Leads
      <3>. QED  BY <3>1, <3>2
    <2>4. i # 0
      BY <2>3, MessagesAssumption
    <2>5. Chosen(ProposerSlot(i)) \in S
          /\ ProposerSlot(Chosen(ProposerSlot(i))) = ProposerSlot(i)
      BY Zenon
    <2>. HIDE DEF Chosen, S
    <2>6. Instance(L, Chosen(ProposerSlot(i))) = Instance(L, i)
      BY <2>5 DEF Instance
    <2>7. Chosen(ProposerSlot(i)) = i
      BY <1>3, <2>1, <2>5, <2>6
    <2>. QED  BY <1>1, <2>1, <2>2, <2>3, <2>4, <2>7
  <1>7. ASSUME NEW i \in S
        PROVE  LET jj == K.proposer_state[ProposerSlot(i)]
               IN /\ SlotSound(ProposerSlot(i), jj, C) /\ jj.iid = i
                  /\ jj.status = "p2_pending" /\ jj.p2_value # NoValue
    <2>. DEFINE ii == Instance(L, i)
                jj == ExecuteP2(ii, NextValue(L, i))
    <2>1. K.proposer_state[ProposerSlot(i)] = jj
      <3>1. K.proposer_state[ProposerSlot(i)] = Executed(i, L.proposer_state[ProposerSlot(i)])
        <4>. HIDE DEF Executed, Chosen
        <4>. QED  BY <1>5, <1>6
      <3>2. Executed(i, ii) = jj
        BY Zenon DEF NextValue
      <3>. HIDE DEF Executed, Chosen, ii, jj
      <3>. QED  BY <1>6, <3>1, <3>2 DEF ii
    <2>2. /\ NextValue(L, i) \in C \cup {NoValue}
          /\ ii.p1_value = NoValue => NextValue(L, i) \in C
      BY <1>1, NextValueFrom
    <2>. HIDE DEF ii
    <2>3. ii \in InstanceInfo /\ SlotSound(ProposerSlot(i), ii, C) /\ ii.iid = i
          /\ ii.status = "p1_ready"
      BY <1>6 DEF ii
    <2>4. /\ jj \in InstanceInfo /\ jj.iid = ii.iid /\ jj.my_ballot = ii.my_ballot
          /\ jj.status = "p2_pending" /\ jj.p1_value = NoValue
          /\ jj.p2_value = IF ii.p1_value # NoValue THEN ii.p1_value
                           ELSE IF ii.p2_value # NoValue THEN ii.p2_value
                           ELSE NextValue(L, i)
      <3>1. NextValue(L, i) \in Values \cup {NoValue}
        BY <2>2
      <3>. QED  BY <2>3, <3>1, ExecuteType
    <2>. HIDE DEF jj
    <2>5. jj.p2_value \in C /\ jj.p2_value # NoValue
      BY <2>2, <2>3, <2>4, MessagesAssumption DEF SlotSound
    <2>6. SlotSound(ProposerSlot(i), jj, C)
      BY <2>3, <2>4, <2>5 DEF SlotSound
    <2>. QED  BY <2>1, <2>3, <2>4, <2>5, <2>6
  <1>8. ASSUME NEW s \in ProposerSlots, ~ \E i \in S : ProposerSlot(i) = s
        PROVE  K.proposer_state[s] = L.proposer_state[s]
    <2>. HIDE DEF Executed, Chosen
    <2>. QED  BY <1>5, <1>8
  <1>9. K.proposer_state = [s \in ProposerSlots |-> K.proposer_state[s]]
    <2>. HIDE DEF Executed, Chosen
    <2>. QED  BY <1>5
  <1>. HIDE DEF S, Chosen, Executed
  <1>10. ASSUME NEW s \in ProposerSlots
         PROVE  Touched(s, L.proposer_state[s], K.proposer_state[s], C)
    <2>1. CASE \E i \in S : ProposerSlot(i) = s
      <3>1. PICK i \in S : ProposerSlot(i) = s
        BY <2>1
      <3>. QED  BY <1>6, <1>7, <3>1 DEF Touched
    <2>2. CASE ~ \E i \in S : ProposerSlot(i) = s
      BY <1>8, <2>2, LeftAlone
    <2>. QED  BY <2>1, <2>2
  <1>11. L.next_unused_iid + k <= L.highest_open + 1
    <2>1. CASE k = 0
      BY <1>1, <2>1
    <2>2. CASE k > 0
      <3>1. L.next_unused_iid + k - 1 \in S
        BY <1>1, <1>2, <1>3, <2>2
      <3>2. L.next_unused_iid + k - 1 \in 1 .. L.highest_open
        BY <1>6, <3>1
      <3>. QED  BY <1>1, <1>2, <3>2
    <2>. QED  BY <1>2, <2>1, <2>2
  <1>12. K.pending_list \in Seq(C)
    <2>1. TakenBefore(L, k) \in Nat
      <3>1. {n \in 0 .. k - 1 : NoValueFound(L, n)} \in SUBSET (0 .. k - 1)
        OBVIOUS
      <3>2. IsFiniteSet(0 .. k - 1)
        BY <1>2, FS_Interval
      <3>3. IsFiniteSet({n \in 0 .. k - 1 : NoValueFound(L, n)})
        BY <3>1, <3>2, FS_Subset
      <3>. QED  BY <3>3, FS_CardinalityType DEF TakenBefore
    <2>. QED  BY <1>1, <1>4, <2>1
  <1>13. K \in LeaderInfo
    <2>1. K.proposer_state \in [ProposerSlots -> InstanceInfo]
      <3>1. \A s \in ProposerSlots : K.proposer_state[s] \in InstanceInfo
        BY <1>10 DEF Touched, SlotSound
      <3>. QED  BY <1>9, <3>1
    <2>2. K.ready_count \in Int /\ K.open_count \in Int /\ K.next_unused_iid \in Nat
      <3>1. /\ k \in Nat /\ K.ready_count = L.ready_count - k
            /\ K.open_count = L.open_count + k /\ K.next_unused_iid = L.next_unused_iid + k
            /\ L.ready_count \in Int /\ L.open_count \in Int /\ L.next_unused_iid \in Nat
        BY <1>1, <1>2, <1>4
      <3>. QED  BY ONLY <3>1
    <2>3. K.pending_list \in Seq(Values)
      BY <1>12
    <2>4. K = [current_iid |-> K.current_iid, proposer_state |-> K.proposer_state,
               pending_count |-> K.pending_count, ready_count |-> K.ready_count,
               highest_open |-> K.highest_open, next_unused_iid |-> K.next_unused_iid,
               open_count |-> K.open_count, pending_list |-> K.pending_list]
      BY <1>1 DEF OpenInstancesP2New, LeaderInfo
    <2>. QED  BY <1>1, <1>4, <2>1, <2>2, <2>3, <2>4 DEF LeaderInfo
  <1>14. ASSUME NEW i \in Nat, i < K.next_unused_iid, ~ (i < L.next_unused_iid)
         PROVE  Instance(K, i).iid = i /\ Instance(K, i).p2_value # NoValue
    <2>1. i \in S
      BY <1>1, <1>2, <1>3, <1>4, <1>14
    <2>. QED  BY <1>7, <2>1 DEF Instance
  <1>15. Sourced(K, C) /\ Leads(K, c)
    <2>1. K.next_unused_iid <= L.highest_open + 1
      BY <1>4, <1>11
    <2>. QED  BY <1>4, <1>10, <1>12, <1>13, <1>14, <2>1, TouchedKept
  <1>16. AsksOf(AcceptReqs(K, S), C)
    <2>1. /\ S \subseteq 1 .. K.highest_open
          /\ \A i \in S : Instance(K, i).status # "empty" /\ Instance(K, i).p2_value # NoValue
      BY <1>4, <1>6, <1>7 DEF Instance
    <2>. QED  BY <1>15, <2>1, AcceptsLegal
  <1>. QED  BY <1>4, <1>15, <1>16 DEF S

(* leader_periodic_p2_check, up to its call of leader_open_instances_p2_new *)
LEMMA CheckP2Legal ==
    ASSUME NEW L, NEW C, C \subseteq Values, NEW c, c = L.current_iid,
           Sourced(L, C), Leads(L, c),
           NEW closed, NEW expired, Settles(L, closed, expired),
           NEW K, K = CheckP2(L, closed, expired)
    PROVE  /\ Sourced(K, C) /\ Leads(K, c) /\ K.current_iid = c
           /\ AsksOf(PrepareReqs(K, expired), C)
PROOF
  <1>. DEFINE S == closed \cup expired
              Chosen(s) == CHOOSE i \in S : ProposerSlot(i) = s
              Settled(i, ii) == IF i \in closed THEN Completed(ii) ELSE SentBack(ii)
  <1>1. /\ L \in LeaderInfo /\ L.highest_open \in Nat /\ L.next_unused_iid \in Nat
        /\ L.pending_count \in Int /\ L.open_count \in Int /\ c \in Nat \ {0}
        /\ L.next_unused_iid <= L.highest_open + 1
    BY SourcedFacts DEF Leads
  <1>2. ASSUME NEW i \in S
        PROVE  /\ i \in 1 .. L.highest_open /\ i \in Nat
               /\ Instance(L, i).status = "p2_pending"
               /\ i \in expired => NEXT_BALLOT(Instance(L, i).my_ballot) \in Ballots
    <2>1. i \in c .. L.next_unused_iid - 1 /\ Instance(L, i).status = "p2_pending"
      BY DEF Settles, Running
    <2>. QED  BY <1>1, <2>1 DEF Settles
  <1>3. K.proposer_state =
            [s \in ProposerSlots |->
                IF \E i \in S : ProposerSlot(i) = s
                THEN Settled(Chosen(s), L.proposer_state[s])
                ELSE L.proposer_state[s]]
    BY <1>1 DEF CheckP2, Changed, LeaderInfo, Completed, SentBack
  <1>4. /\ K.current_iid = L.current_iid
        /\ K.pending_count = L.pending_count + Cardinality(expired)
        /\ K.ready_count = L.ready_count /\ K.highest_open = L.highest_open
        /\ K.next_unused_iid = L.next_unused_iid
        /\ K.open_count = L.open_count - Cardinality(closed)
        /\ K.pending_list = L.pending_list
    BY <1>1 DEF CheckP2, LeaderInfo
  <1>5. ASSUME NEW s \in ProposerSlots, ~ \E i \in S : ProposerSlot(i) = s
        PROVE  K.proposer_state[s] = L.proposer_state[s]
    <2>. HIDE DEF Settled, Chosen
    <2>. QED  BY <1>3, <1>5
  <1>6. ASSUME NEW s \in ProposerSlots, \E i \in S : ProposerSlot(i) = s
        PROVE  /\ Touched(s, L.proposer_state[s], K.proposer_state[s], C)
               /\ K.proposer_state[s].status # "empty"
    <2>. DEFINE ii == L.proposer_state[s]
    <2>1. PICK i \in S : i = Chosen(s) /\ ProposerSlot(i) = s
      BY <1>6, Zenon
    <2>2. K.proposer_state[s] = Settled(i, ii)
      <3>. HIDE DEF Settled, Chosen
      <3>. QED  BY <1>3, <1>6, <2>1
    <2>3. /\ ii \in InstanceInfo /\ SlotSound(s, ii, C)
          /\ ii.status = "p2_pending"
          /\ i \in expired => NEXT_BALLOT(ii.my_ballot) \in Ballots
      BY <1>2, <2>1, SourcedFacts
    <2>. HIDE DEF ii
    <2>4. /\ Settled(i, ii) \in InstanceInfo /\ Settled(i, ii).iid = ii.iid
          /\ Settled(i, ii).my_ballot \in Ballots /\ Settled(i, ii).status # "empty"
          /\ Settled(i, ii).p1_value = ii.p1_value /\ Settled(i, ii).p2_value = ii.p2_value
      <3>1. CASE i \in closed
        <4>1. ii.my_ballot \in Ballots
          BY <2>3 DEF SlotSound
        <4>. QED  BY <2>3, <3>1, <4>1, SettledType
      <3>2. CASE i \notin closed
        BY <2>3, <3>2, SettledType
      <3>. QED  BY <3>1, <3>2
    <2>5. Touched(s, ii, Settled(i, ii), C)
      <3>. HIDE DEF Settled
      <3>. QED  BY <2>3, <2>4 DEF Touched, SlotSound
    <2>. QED  BY <2>2, <2>4, <2>5 DEF ii
  <1>7. K.proposer_state = [s \in ProposerSlots |-> K.proposer_state[s]]
    <2>. HIDE DEF Settled, Chosen
    <2>. QED  BY <1>3
  <1>. HIDE DEF S, Settled, Chosen
  <1>8. ASSUME NEW s \in ProposerSlots
        PROVE  Touched(s, L.proposer_state[s], K.proposer_state[s], C)
    BY <1>5, <1>6, LeftAlone
  <1>9. K \in LeaderInfo
    <2>1. K.proposer_state \in [ProposerSlots -> InstanceInfo]
      <3>1. \A s \in ProposerSlots : K.proposer_state[s] \in InstanceInfo
        BY <1>8 DEF Touched, SlotSound
      <3>. QED  BY <1>7, <3>1
    <2>2. Cardinality(closed) \in Nat /\ Cardinality(expired) \in Nat
      <3>1. closed \subseteq 1 .. L.highest_open /\ expired \subseteq 1 .. L.highest_open
        BY <1>2 DEF S
      <3>. QED  BY <1>1, <3>1, UpToFinite
    <2>3. K = [current_iid |-> K.current_iid, proposer_state |-> K.proposer_state,
               pending_count |-> K.pending_count, ready_count |-> K.ready_count,
               highest_open |-> K.highest_open, next_unused_iid |-> K.next_unused_iid,
               open_count |-> K.open_count, pending_list |-> K.pending_list]
      BY <1>1 DEF CheckP2, LeaderInfo
    <2>4. K.pending_count \in Int /\ K.open_count \in Int
      BY <1>1, <1>4, <2>2
    <2>. QED  BY <1>1, <1>4, <2>1, <2>3, <2>4 DEF LeaderInfo
  <1>10. Sourced(K, C) /\ Leads(K, c)
    <2>1. K.pending_list \in Seq(C)
      BY <1>4 DEF Sourced
    <2>. QED  BY <1>1, <1>4, <1>8, <1>9, <2>1, TouchedKept
  <1>11. ASSUME NEW i \in expired
         PROVE  i \in 1 .. K.highest_open /\ Instance(K, i).status # "empty"
    <2>1. i \in S /\ i \in Nat
      BY <1>2 DEF S
    <2>2. ProposerSlot(i) \in ProposerSlots
      BY <2>1, SlotType
    <2>. QED  BY <1>2, <1>4, <1>6, <2>1, <2>2 DEF Instance
  <1>12. AsksOf(PrepareReqs(K, expired), C)
    <2>1. expired \subseteq 1 .. K.highest_open
      BY <1>11
    <2>. QED  BY <1>10, <1>11, <2>1, PreparesLegal
  <1>. QED  BY <1>4, <1>10, <1>12

(* handle_prepare_ack_batch, up to its calls of phase 2: what a promise reports was
   a value of C. *)
LEMMA PromisesLegal ==
    ASSUME NEW L, NEW C, C \subseteq Values, NEW c, Sourced(L, C), Leads(L, c),
           NEW acks \in SUBSET PrepareAck, IsFiniteSet(acks),
           \A pa \in acks : pa.value \in C \cup {NoValue},
           NEW K, K = AfterPromises(L, acks)
    PROVE  Sourced(K, C) /\ Leads(K, c) /\ K.current_iid = L.current_iid
PROOF
  <1>. DEFINE S == {pa.iid : pa \in AcceptedPromises(L, acks)}
              Chosen(s) == CHOOSE i \in S : ProposerSlot(i) = s
              Saved(i, ii) ==
                  HandlePrepareAck(ii, CHOOSE pa \in AcceptedPromises(L, acks) : pa.iid = i)
              n == Cardinality(MadeReady(L, acks))
  <1>1. /\ L \in LeaderInfo /\ L.highest_open \in Nat /\ L.next_unused_iid \in Nat
        /\ L.pending_count \in Int /\ L.ready_count \in Int /\ c \in Nat \ {0}
        /\ L.next_unused_iid <= L.highest_open + 1
    BY SourcedFacts DEF Leads
  <1>2. /\ K.current_iid = L.current_iid
        /\ K.pending_count = L.pending_count - n
        /\ K.ready_count = L.ready_count + n /\ K.highest_open = L.highest_open
        /\ K.next_unused_iid = L.next_unused_iid
        /\ K.open_count = L.open_count
        /\ K.pending_list = L.pending_list
    BY <1>1 DEF AfterPromises, LeaderInfo
  <1>3. K.proposer_state =
            [s \in ProposerSlots |->
                IF \E i \in S : ProposerSlot(i) = s
                THEN Saved(Chosen(s), L.proposer_state[s])
                ELSE L.proposer_state[s]]
    BY <1>1 DEF AfterPromises, Changed, LeaderInfo
  <1>4. n \in Nat
    <2>1. MadeReady(L, acks) \in SUBSET acks
      BY DEF MadeReady, AcceptedPromises
    <2>. QED  BY <2>1, FS_Subset, FS_CardinalityType
  <1>. HIDE DEF n
  <1>5. ASSUME NEW s \in ProposerSlots, ~ \E i \in S : ProposerSlot(i) = s
        PROVE  K.proposer_state[s] = L.proposer_state[s]
    <2>. HIDE DEF Saved, Chosen, S
    <2>. QED  BY <1>3, <1>5
  <1>6. ASSUME NEW s \in ProposerSlots, \E i \in S : ProposerSlot(i) = s
        PROVE  Touched(s, L.proposer_state[s], K.proposer_state[s], C)
    <2>. DEFINE ii == L.proposer_state[s]
    <2>1. PICK i \in S : i = Chosen(s) /\ ProposerSlot(i) = s
      BY <1>6, Zenon
    <2>. DEFINE pa == CHOOSE pa \in AcceptedPromises(L, acks) : pa.iid = i
    <2>2. pa \in AcceptedPromises(L, acks) /\ pa.iid = i
      BY Zenon
    <2>3. K.proposer_state[s] = HandlePrepareAck(ii, pa)
      <3>1. K.proposer_state[s] = Saved(i, ii)
        <4>. HIDE DEF Saved, Chosen, S
        <4>. QED  BY <1>3, <1>6, <2>1
      <3>2. Saved(i, ii) = HandlePrepareAck(ii, pa)
        BY Zenon
      <3>. HIDE DEF Saved, ii, pa
      <3>. QED  BY <3>1, <3>2
    <2>. HIDE DEF pa, S, Chosen, Saved
    <2>4. pa \in PrepareAck /\ pa.value \in C \cup {NoValue} /\ pa.iid \in Nat
      <3>1. pa \in acks
        BY <2>2 DEF AcceptedPromises
      <3>2. pa.iid \in Nat
        BY <3>1, MessagesAssumption DEF PrepareAck
      <3>. QED  BY <3>1, <3>2
    <2>5. ii \in InstanceInfo /\ SlotSound(s, ii, C)
      BY DEF Sourced, SlotSound
    <2>6. ii.status = "p1_pending"
      <3>1. Instance(L, pa.iid) = ii
        BY <2>1, <2>2 DEF Instance
      <3>. QED  BY <2>2, <3>1 DEF AcceptedPromises, AcceptsPromise
    <2>. HIDE DEF ii
    <2>. DEFINE jj == HandlePrepareAck(ii, pa)
    <2>7. /\ jj \in InstanceInfo /\ jj.iid = ii.iid /\ jj.my_ballot = ii.my_ballot
          /\ jj.p1_value \in {ii.p1_value, pa.value} /\ jj.p2_value = ii.p2_value
      BY <2>4, <2>5, PromiseType
    <2>. HIDE DEF jj
    <2>8. Touched(s, ii, jj, C)
      BY <2>4, <2>5, <2>6, <2>7 DEF Touched, SlotSound
    <2>. QED  BY <2>3, <2>8 DEF ii, jj
  <1>7. K.proposer_state = [s \in ProposerSlots |-> K.proposer_state[s]]
    <2>. HIDE DEF Saved, Chosen, S
    <2>. QED  BY <1>3
  <1>. HIDE DEF S, Saved, Chosen
  <1>8. ASSUME NEW s \in ProposerSlots
        PROVE  Touched(s, L.proposer_state[s], K.proposer_state[s], C)
    BY <1>5, <1>6, LeftAlone
  <1>9. K \in LeaderInfo
    <2>1. K.proposer_state \in [ProposerSlots -> InstanceInfo]
      <3>1. \A s \in ProposerSlots : K.proposer_state[s] \in InstanceInfo
        BY <1>8 DEF Touched, SlotSound
      <3>. QED  BY <1>7, <3>1
    <2>2. K = [current_iid |-> K.current_iid, proposer_state |-> K.proposer_state,
               pending_count |-> K.pending_count, ready_count |-> K.ready_count,
               highest_open |-> K.highest_open, next_unused_iid |-> K.next_unused_iid,
               open_count |-> K.open_count, pending_list |-> K.pending_list]
      BY <1>1 DEF AfterPromises, LeaderInfo
    <2>3. K.pending_count \in Int /\ K.ready_count \in Int
      BY <1>1, <1>2, <1>4
    <2>. QED  BY <1>1, <1>2, <2>1, <2>2, <2>3 DEF LeaderInfo
  <1>10. Sourced(K, C) /\ Leads(K, c)
    <2>1. K.pending_list \in Seq(C)
      BY <1>2 DEF Sourced
    <2>. QED  BY <1>1, <1>2, <1>8, <1>9, <2>1, TouchedKept
  <1>. QED  BY <1>2, <1>10

(* leader_deliver, up to its call of leader_open_instances_p2_new: instance c is in
   its slot, so no later instance is, and the value put back is one of C. *)
LEMMA CloseLegal ==
    ASSUME NEW L, NEW C, C \subseteq Values, NEW c, Sourced(L, C), Leads(L, c),
           Instance(L, c).iid = c, NEW v, NEW K, K = CloseInstance(L, c, v)
    PROVE  Sourced(K, C) /\ Leads(K, c + 1) /\ K.current_iid = L.current_iid
PROOF
  <1>. DEFINE ii == Instance(L, c)
  <1>1. /\ L \in LeaderInfo /\ L.highest_open \in Nat /\ L.next_unused_iid \in Nat
        /\ L.pending_count \in Int /\ L.open_count \in Int /\ c \in Nat \ {0}
        /\ L.next_unused_iid <= L.highest_open + 1
    BY SourcedFacts DEF Leads
  <1>2. /\ ProposerSlot(c) \in ProposerSlots /\ ii = L.proposer_state[ProposerSlot(c)]
        /\ ii \in InstanceInfo /\ SlotSound(ProposerSlot(c), ii, C)
        /\ ii.iid = c /\ c <= L.highest_open
    BY <1>1, SourcedFacts DEF Leads
  <1>3. /\ K.current_iid = L.current_iid /\ K.highest_open = L.highest_open
        /\ K.pending_count = IF ii.status = "p1_pending"
                             THEN L.pending_count - 1 ELSE L.pending_count
        /\ K.ready_count = L.ready_count
        /\ K.next_unused_iid = IF L.next_unused_iid = c THEN L.next_unused_iid + 1
                               ELSE L.next_unused_iid
        /\ K.open_count = IF OpenedByMe(ii) THEN L.open_count - 1 ELSE L.open_count
        /\ K.pending_list = IF ii.p2_value \notin {NoValue, v}
                            THEN <<ii.p2_value>> \o L.pending_list ELSE L.pending_list
    BY <1>1 DEF CloseInstance, LeaderInfo
  <1>4. K.proposer_state =
            [s \in ProposerSlots |->
                IF ProposerSlot(c) = s THEN EmptyInstance ELSE L.proposer_state[s]]
    BY <1>1 DEF CloseInstance, Changed, LeaderInfo
  <1>. HIDE DEF ii
  <1>5. K.pending_list \in Seq(C)
    <2>1. L.pending_list \in Seq(C)
      BY DEF Sourced
    <2>2. CASE ii.p2_value \notin {NoValue, v}
      <3>1. ii.p2_value \in C
        BY <1>2, <2>2 DEF SlotSound
      <3>2. <<ii.p2_value>> \in Seq(C)
        BY <3>1
      <3>. QED  BY <1>3, <2>1, <2>2, <3>2
    <2>3. CASE ii.p2_value \in {NoValue, v}
      BY <1>3, <2>1, <2>3
    <2>. QED  BY <2>2, <2>3
  <1>6. EmptyInstance \in InstanceInfo /\ EmptyInstance.iid = 0
        /\ EmptyInstance.p1_value = NoValue /\ EmptyInstance.p2_value = NoValue
        /\ EmptyInstance.status = "empty"
    BY EmptyType DEF EmptyInstance
  <1>7. ASSUME NEW s \in ProposerSlots
        PROVE  /\ SlotSound(s, K.proposer_state[s], C)
               /\ K.proposer_state[s].iid <= L.highest_open
               /\ s # ProposerSlot(c) => K.proposer_state[s] = L.proposer_state[s]
    <2>1. CASE ProposerSlot(c) = s
      <3>1. K.proposer_state[s] = EmptyInstance
        BY <1>4, <2>1
      <3>. HIDE DEF EmptyInstance
      <3>. QED  BY <1>1, <1>6, <2>1, <3>1 DEF SlotSound
    <2>2. CASE ProposerSlot(c) # s
      <3>1. K.proposer_state[s] = L.proposer_state[s]
        BY <1>4, <2>2
      <3>. QED  BY <3>1 DEF Sourced, Leads
    <2>. QED  BY <2>1, <2>2
  <1>8. K \in LeaderInfo
    <2>1. K.proposer_state \in [ProposerSlots -> InstanceInfo]
      <3>1. \A s \in ProposerSlots : K.proposer_state[s] \in InstanceInfo
        BY <1>7 DEF SlotSound
      <3>2. K.proposer_state = [s \in ProposerSlots |-> K.proposer_state[s]]
        BY <1>4
      <3>. QED  BY <3>1, <3>2
    <2>2. K = [current_iid |-> K.current_iid, proposer_state |-> K.proposer_state,
               pending_count |-> K.pending_count, ready_count |-> K.ready_count,
               highest_open |-> K.highest_open, next_unused_iid |-> K.next_unused_iid,
               open_count |-> K.open_count, pending_list |-> K.pending_list]
      BY <1>1 DEF CloseInstance, LeaderInfo
    <2>3. /\ K.pending_count \in Int /\ K.open_count \in Int /\ K.next_unused_iid \in Nat
      BY <1>1, <1>3
    <2>4. K.pending_list \in Seq(Values)
      BY <1>5
    <2>. QED  BY <1>1, <1>3, <2>1, <2>2, <2>3, <2>4 DEF LeaderInfo
  <1>9. Sourced(K, C)
    BY <1>3, <1>5, <1>7, <1>8 DEF Sourced
  <1>10. ASSUME NEW i \in c + 1 .. K.next_unused_iid - 1
         PROVE  Instance(K, i).iid >= i /\ Instance(K, i).p2_value # NoValue
    <2>1. i \in Nat /\ i \in c .. L.next_unused_iid - 1 /\ c < i
      BY <1>1, <1>3
    <2>2. Instance(L, i).iid >= i /\ Instance(L, i).p2_value # NoValue
      BY <2>1 DEF Leads
    <2>3. ProposerSlot(i) \in ProposerSlots
      BY <2>1, SlotType
    <2>4. ProposerSlot(i) # ProposerSlot(c)
      <3>. SUFFICES ASSUME ProposerSlot(i) = ProposerSlot(c) PROVE FALSE
        OBVIOUS
      <3>1. Instance(L, i).iid = c
        BY <1>2 DEF Instance
      <3>. QED  BY <1>1, <2>1, <2>2, <3>1
    <2>. QED  BY <1>7, <2>2, <2>3, <2>4 DEF Instance
  <1>11. Leads(K, c + 1)
    <2>1. K.next_unused_iid <= K.highest_open + 1 /\ c + 1 \in Nat \ {0}
      BY <1>1, <1>2, <1>3
    <2>2. \A s \in ProposerSlots : K.proposer_state[s].iid <= K.highest_open
      BY <1>3, <1>7
    <2>. QED  BY <1>10, <2>1, <2>2 DEF Leads
  <1>. QED  BY <1>3, <1>9, <1>11

(* pro_deliver_callback, in whatever state the window is. *)
LEMMA DeliveredLegal ==
    ASSUME NEW L, NEW C, C \subseteq Values, NEW me \in BOOLEAN, Legal(L, me, C),
           NEW c, c = L.current_iid, NEW v, NEW K, K = Delivered(L, me, c, v)
    PROVE  /\ Legal(K, me, C) /\ K.current_iid = c + 1
           /\ AsksOf(SentOnDelivery(L, me, c, v), C)
PROOF
  <1>1. /\ Sourced(L, C) /\ L \in LeaderInfo /\ c \in Nat \ {0}
    BY SourcedFacts DEF Legal
  <1>2. CASE me /\ ~ NotOpened(L, c)
    <2>. DEFINE J == CloseInstance(L, c, v)
                M == OpenInstancesP2New(J)
    <2>1. Leads(L, c) /\ Instance(L, c).iid = c
      BY <1>2 DEF Legal, NotOpened
    <2>2. Sourced(J, C) /\ Leads(J, c + 1) /\ J.current_iid = c
      BY <1>1, <2>1, CloseLegal
    <2>. HIDE DEF J
    <2>3. /\ Sourced(M, C) /\ Leads(M, c + 1)
          /\ AsksOf(AcceptReqs(M, Started(J)), C)
      BY <2>2, P2NewLegal
    <2>. HIDE DEF M
    <2>4. M \in LeaderInfo
      BY <2>3, SourcedFacts
    <2>5. K = [M EXCEPT !.current_iid = c + 1]
      BY <1>2 DEF Delivered, M, J
    <2>6. /\ K \in LeaderInfo /\ K.current_iid = c + 1
          /\ K.proposer_state = M.proposer_state /\ K.highest_open = M.highest_open
          /\ K.next_unused_iid = M.next_unused_iid /\ K.pending_list = M.pending_list
      <3>1. c + 1 \in Nat \ {0}
        BY <1>1
      <3>. QED  BY ONLY <2>4, <2>5, <3>1 DEF LeaderInfo
    <2>7. Sourced(K, C)
      BY <2>3, <2>6 DEF Sourced
    <2>8. Leads(K, c + 1)
      BY <2>3, <2>6 DEF Leads, Instance
    <2>9. AcceptReqs(K, Started(J)) = AcceptReqs(M, Started(J))
      BY <2>6 DEF AcceptReqs, Instance
    <2>10. SentOnDelivery(L, me, c, v) = AcceptReqs(K, Started(J))
      BY <1>2 DEF SentOnDelivery, J
    <2>. QED  BY <1>2, <2>3, <2>6, <2>7, <2>8, <2>9, <2>10 DEF Legal
  <1>3. CASE ~ (me /\ ~ NotOpened(L, c))
    <2>1. K = [L EXCEPT !.current_iid = c + 1] /\ SentOnDelivery(L, me, c, v) = {}
      BY <1>3 DEF Delivered, SentOnDelivery
    <2>2. /\ K \in LeaderInfo /\ K.current_iid = c + 1
          /\ K.proposer_state = L.proposer_state /\ K.highest_open = L.highest_open
          /\ K.next_unused_iid = L.next_unused_iid /\ K.pending_list = L.pending_list
      BY <1>1, <2>1 DEF LeaderInfo
    <2>3. Sourced(K, C) /\ AsksOf({}, C)
      BY <1>1, <2>2 DEF Sourced, AsksOf
    <2>4. CASE me
      <3>1. Leads(L, c) /\ L.next_unused_iid \in Nat
        BY <1>1, <2>4, SourcedFacts DEF Legal
      <3>2. ASSUME NEW i \in c + 1 .. L.next_unused_iid - 1
            PROVE  Instance(K, i).iid >= i /\ Instance(K, i).p2_value # NoValue
        <4>1. i \in c .. L.next_unused_iid - 1
          BY <1>1, <3>1
        <4>. QED  BY <2>2, <3>1, <4>1 DEF Leads, Instance
      <3>3. Leads(K, c + 1)
        <4>1. c + 1 \in Nat \ {0}
          BY <1>1
        <4>. QED  BY <2>2, <3>1, <3>2, <4>1 DEF Leads
      <3>. QED  BY <2>1, <2>2, <2>3, <2>4, <3>3 DEF Legal
    <2>5. CASE ~ me
      <3>1. ASSUME NEW s \in ProposerSlots
            PROVE  K.proposer_state[s].iid < K.current_iid
        <4>1. L.proposer_state[s].iid \in Nat /\ L.proposer_state[s].iid < c
          BY <1>1, <2>5, SourcedFacts DEF Legal, Rests
        <4>. QED  BY <1>1, <2>2, <4>1
      <3>. QED  BY <2>1, <2>2, <2>3, <2>5, <3>1 DEF Legal, Rests
    <2>. QED  BY <2>4, <2>5
  <1>. QED  BY <1>2, <1>3

\* After a run of deliveries.
RanLegal(r, me, C) == Legal(r.info, me, C) /\ AsksOf(r.sent, C)

LEMMA RunLegal ==
    ASSUME NEW L, NEW C, C \subseteq Values, NEW me \in BOOLEAN, Legal(L, me, C),
           NEW vs, NEW k, k \in Nat, k = Len(vs)
    PROVE  RanLegal(AfterRun(L, me, vs), me, C)
PROOF
  <1>1. PICK f : Runs(f, L, me, vs, k) /\ AfterRun(L, me, vs) = f[k]
    <2>1. HasRun(L, me, vs, k)
      BY RunExists
    <2>. QED  BY <2>1, Zenon DEF HasRun
  <1>. DEFINE T == {n \in Nat : n <= k => RanLegal(f[n], me, C)}
  <1>2. 0 \in T
    <2>1. f[0] = [info |-> L, sent |-> {}]
      BY <1>1 DEF Runs
    <2>2. f[0].info = L /\ f[0].sent = {}
      BY <2>1
    <2>. QED  BY <2>2 DEF RanLegal, AsksOf
  <1>3. ASSUME NEW n \in T
        PROVE  n + 1 \in T
    <2>. SUFFICES ASSUME n + 1 <= k PROVE RanLegal(f[n + 1], me, C)
      OBVIOUS
    <2>1. n + 1 \in 1 .. k /\ (n + 1) - 1 = n /\ n <= k
      OBVIOUS
    <2>2. RanLegal(f[n], me, C)
      BY <2>1
    <2>. DEFINE B == f[n].info
                c == B.current_iid
                K == Delivered(B, me, c, vs[n + 1])
                N == SentOnDelivery(B, me, c, vs[n + 1])
    <2>3. f[n + 1] = RunStep(f[n], me, vs[n + 1])
      BY <1>1, <2>1 DEF Runs
    <2>4. f[n + 1].info = K /\ f[n + 1].sent = f[n].sent \cup N
      <3>1. RunStep(f[n], me, vs[n + 1]) = [info |-> K, sent |-> f[n].sent \cup N]
        BY Zenon DEF RunStep
      <3>. HIDE DEF K, N
      <3>. QED  BY <2>3, <3>1
    <2>5. Legal(K, me, C) /\ AsksOf(N, C)
      <3>1. Legal(B, me, C)
        BY <2>2 DEF RanLegal
      <3>. DEFINE v == vs[n + 1]
      <3>. HIDE DEF B, v
      <3>2. /\ Legal(Delivered(B, me, c, v), me, C)
            /\ AsksOf(SentOnDelivery(B, me, c, v), C)
        BY <3>1, DeliveredLegal
      <3>. QED  BY <3>2 DEF v
    <2>. HIDE DEF K, N
    <2>. QED  BY <2>2, <2>4, <2>5, AsksBoth DEF RanLegal
  <1>. HIDE DEF T
  <1>4. k \in T
    BY <1>2, <1>3, NumberInduction
  <1>. QED  BY <1>1, <1>4 DEF T

(* leader_init: whatever is left in the slots was delivered. *)
LEMMA PromotedLegal ==
    ASSUME NEW p \in Proposers, NEW L, NEW C, C \subseteq Values, Legal(L, FALSE, C),
           L.current_iid - 1 \in Iids \cup {0}, NEW K, K = Promoted(p, L)
    PROVE  /\ Legal(K, TRUE, C)
           /\ AsksOf(PrepareReqs(K, L.current_iid .. K.highest_open), C)
PROOF
  <1>. DEFINE c == L.current_iid
              J == [L EXCEPT !.pending_list = <<>>, !.pending_count = 0,
                             !.ready_count = 0, !.highest_open = c - 1,
                             !.next_unused_iid = c, !.open_count = 0]
  <1>1. Sourced(L, C) /\ Rests(L) /\ L \in LeaderInfo /\ c \in Nat \ {0}
    BY SourcedFacts DEF Legal
  <1>2. /\ J.current_iid = c /\ J.proposer_state = L.proposer_state
        /\ J.pending_list = <<>> /\ J.highest_open = c - 1 /\ J.next_unused_iid = c
        /\ J.pending_count = 0 /\ J.ready_count = 0 /\ J.open_count = 0
    BY <1>1 DEF LeaderInfo
  <1>3. J \in LeaderInfo
    <2>1. /\ L.proposer_state \in [ProposerSlots -> InstanceInfo] /\ <<>> \in Seq(Values)
          /\ DOMAIN L = {"current_iid", "proposer_state", "pending_count", "ready_count",
                         "highest_open", "next_unused_iid", "open_count", "pending_list"}
      BY <1>1 DEF LeaderInfo
    <2>2. DOMAIN J = DOMAIN L
      OBVIOUS
    <2>3. J = [f \in DOMAIN L |-> J[f]]
      OBVIOUS
    <2>. HIDE DEF J, c
    <2>4. J = [current_iid |-> J.current_iid, proposer_state |-> J.proposer_state,
               pending_count |-> J.pending_count, ready_count |-> J.ready_count,
               highest_open |-> J.highest_open, next_unused_iid |-> J.next_unused_iid,
               open_count |-> J.open_count, pending_list |-> J.pending_list]
      BY <2>1, <2>3
    <2>5. /\ J.current_iid \in Nat \ {0}
          /\ J.proposer_state \in [ProposerSlots -> InstanceInfo]
          /\ J.pending_list \in Seq(Values) /\ J.pending_count \in Int
          /\ J.ready_count \in Int /\ J.highest_open \in Nat
          /\ J.next_unused_iid \in Nat /\ J.open_count \in Int
      BY <1>1, <1>2, <2>1
    <2>. QED  BY <2>4, <2>5 DEF LeaderInfo
  <1>. HIDE DEF J
  <1>4. K = OpenInstancesP1(p, J)
    BY DEF Promoted, J, c
  <1>. HIDE DEF c, J
  <1>5. Sourced(J, C)
    <2>1. J.pending_list \in Seq(C)
      BY <1>2
    <2>. QED  BY <1>1, <1>2, <1>3, <2>1 DEF Sourced, c
  <1>6. Leads(J, c)
    <2>1. ASSUME NEW s \in ProposerSlots PROVE J.proposer_state[s].iid <= J.highest_open
      <3>1. L.proposer_state[s].iid \in Nat /\ L.proposer_state[s].iid < c
        BY <1>1, SourcedFacts DEF Rests, c
      <3>. QED  BY <1>1, <1>2, <3>1
    <2>2. c .. J.next_unused_iid - 1 = {}
      BY <1>1, <1>2
    <2>. QED  BY <1>1, <1>2, <2>1, <2>2 DEF Leads
  <1>7. /\ Sourced(K, C) /\ Leads(K, c) /\ K.current_iid = c
        /\ K.highest_open \in Nat
        /\ \A i \in ToOpen(J) : Instance(K, i).status # "empty"
        /\ c .. K.highest_open \subseteq ToOpen(J)
    <2>1. J.current_iid = c /\ J.highest_open + 1 = c
      BY <1>1, <1>2
    <2>2. OpensUpTo(J, K, C, c)
      BY <1>4, <1>5, <1>6, OpenP1Legal
    <2>. QED  BY <2>1, <2>2 DEF OpensUpTo
  <1>8. AsksOf(PrepareReqs(K, c .. K.highest_open), C)
    <2>1. c .. K.highest_open \subseteq 1 .. K.highest_open
      BY <1>1, <1>7
    <2>. QED  BY <1>7, <2>1, PreparesLegal
  <1>. QED  BY <1>7, <1>8 DEF Legal, c

(* leader_shutdown clears the slots of the window; the others hold what is behind. *)
LEMMA SteppedDownLegal ==
    ASSUME NEW L, NEW C, C \subseteq Values, Legal(L, TRUE, C), NEW K, K = SteppedDown(L)
    PROVE  Legal(K, FALSE, C) /\ K.current_iid = L.current_iid
PROOF
  <1>. DEFINE c == L.current_iid
              S == c .. L.highest_open
  <1>1. /\ Sourced(L, C) /\ Leads(L, c) /\ L \in LeaderInfo /\ c \in Nat \ {0}
        /\ L.highest_open \in Nat
    BY SourcedFacts DEF Legal
  <1>2. /\ K.current_iid = c /\ K.highest_open = L.highest_open /\ K.pending_list = <<>>
        /\ K.proposer_state =
              [s \in ProposerSlots |->
                  IF \E i \in S : ProposerSlot(i) = s THEN EmptyInstance
                  ELSE L.proposer_state[s]]
        /\ K = [L EXCEPT !.proposer_state = K.proposer_state, !.pending_list = <<>>]
    BY <1>1 DEF SteppedDown, Changed, LeaderInfo
  <1>3. EmptyInstance \in InstanceInfo /\ EmptyInstance.iid = 0
        /\ EmptyInstance.p1_value = NoValue /\ EmptyInstance.p2_value = NoValue
        /\ EmptyInstance.status = "empty"
    BY EmptyType DEF EmptyInstance
  <1>. HIDE DEF EmptyInstance
  <1>4. ASSUME NEW s \in ProposerSlots
        PROVE  SlotSound(s, K.proposer_state[s], C) /\ K.proposer_state[s].iid < c
    <2>1. CASE \E i \in S : ProposerSlot(i) = s
      <3>1. K.proposer_state[s] = EmptyInstance
        BY <1>2, <2>1
      <3>. QED  BY <1>1, <1>3, <3>1 DEF SlotSound
    <2>2. CASE ~ \E i \in S : ProposerSlot(i) = s
      <3>1. K.proposer_state[s] = L.proposer_state[s]
        BY <1>2, <2>2
      <3>. DEFINE j == L.proposer_state[s].iid
      <3>2. SlotSound(s, L.proposer_state[s], C) /\ j \in Nat /\ j <= L.highest_open
        BY <1>1, SourcedFacts DEF Sourced, Leads
      <3>3. j = 0 \/ ProposerSlot(j) = s
        BY <3>2 DEF SlotSound
      <3>. HIDE DEF j
      <3>4. j < c
        BY <1>1, <2>2, <3>2, <3>3
      <3>. QED  BY <3>1, <3>2, <3>4 DEF j
    <2>. QED  BY <2>1, <2>2
  <1>5. K \in LeaderInfo
    <2>1. K.proposer_state \in [ProposerSlots -> InstanceInfo]
      <3>1. \A s \in ProposerSlots : K.proposer_state[s] \in InstanceInfo
        BY <1>4 DEF SlotSound
      <3>. QED  BY <1>2, <3>1
    <2>. HIDE DEF S
    <2>2. <<>> \in Seq(Values)
      OBVIOUS
    <2>. QED  BY <1>1, <1>2, <2>1, <2>2 DEF LeaderInfo
  <1>6. K.pending_list \in Seq(C)
    BY <1>2
  <1>. QED  BY <1>1, <1>2, <1>4, <1>5, <1>6 DEF Legal, Sourced, Rests

(* vh_enqueue_value *)
LEMMA EnqueuedLegal ==
    ASSUME NEW L, NEW C, NEW me \in BOOLEAN, Legal(L, me, C),
           NEW v \in Values, NEW K, K = Enqueued(L, v)
    PROVE  Legal(K, me, C \cup {v})
PROOF
  <1>1. Sourced(L, C) /\ L \in LeaderInfo
    BY SourcedFacts DEF Legal
  <1>2. /\ K.proposer_state = L.proposer_state /\ K.highest_open = L.highest_open
        /\ K.current_iid = L.current_iid /\ K.next_unused_iid = L.next_unused_iid
        /\ K.pending_list \in {L.pending_list, Append(L.pending_list, v)}
        /\ K = [L EXCEPT !.pending_list = K.pending_list]
    BY <1>1 DEF Enqueued, LeaderInfo
  <1>3. K.pending_list \in Seq(C \cup {v}) /\ K.pending_list \in Seq(Values)
    <2>1. L.pending_list \in Seq(C \cup {v}) /\ L.pending_list \in Seq(Values)
      <3>1. L.pending_list \in Seq(C) /\ L.pending_list \in Seq(Values)
        BY <1>1 DEF Sourced, LeaderInfo
      <3>. QED  BY <3>1
    <2>2. /\ Append(L.pending_list, v) \in Seq(C \cup {v})
          /\ Append(L.pending_list, v) \in Seq(Values)
      BY <2>1
    <2>. QED  BY <1>2, <2>1, <2>2
  <1>4. K \in LeaderInfo
    BY <1>1, <1>2, <1>3 DEF LeaderInfo
  <1>5. Sourced(K, C \cup {v})
    BY <1>1, <1>2, <1>3, <1>4 DEF Sourced, SlotSound
  <1>6. CASE me
    BY <1>2, <1>5, <1>6 DEF Legal, Leads, Instance
  <1>7. CASE ~ me
    BY <1>2, <1>5, <1>7 DEF Legal, Rests
  <1>. QED  BY <1>6, <1>7

(* init_proposer *)
LEMMA InitialLegal ==
    ASSUME NEW C PROVE Legal(InitialInfo, FALSE, C) /\ InitialInfo.current_iid = 1
PROOF
  <1>1. EmptyInstance \in InstanceInfo /\ EmptyInstance.iid = 0
        /\ EmptyInstance.p1_value = NoValue /\ EmptyInstance.p2_value = NoValue
        /\ EmptyInstance.status = "empty"
    BY EmptyType DEF EmptyInstance
  <1>. HIDE DEF EmptyInstance
  <1>2. /\ InitialInfo \in LeaderInfo /\ InitialInfo.current_iid = 1
        /\ InitialInfo.pending_list = <<>> /\ InitialInfo.highest_open = 0
        /\ \A s \in ProposerSlots : InitialInfo.proposer_state[s] = EmptyInstance
    <2>1. <<>> \in Seq(Values)
      OBVIOUS
    <2>. QED  BY <1>1, <2>1 DEF InitialInfo, LeaderInfo
  <1>3. InitialInfo.pending_list \in Seq(C)
    BY <1>2
  <1>. QED  BY <1>1, <1>2, <1>3 DEF Legal, Sourced, Rests, SlotSound

(* leader_periodic_p1_check *)
LEMMA Phase1Legal ==
    ASSUME NEW p \in Proposers, NEW L, NEW C, C \subseteq Values, Legal(L, TRUE, C),
           NEW E \in SUBSET {i \in Pending(L) : CanRetry(L, i)},
           NEW J, J = CheckP1Pending(L, E), NEW K, K = OpenInstancesP1(p, J)
    PROVE  /\ Legal(K, TRUE, C)
           /\ AsksOf(PrepareReqs(J, E) \cup PrepareReqs(K, ToOpen(J)), C)
PROOF
  <1>. DEFINE c == L.current_iid
  <1>1. Sourced(L, C) /\ Leads(L, c)
    BY DEF Legal
  <1>. HIDE DEF c
  <1>2. E \in SUBSET Pending(L) /\ \A i \in E : CanRetry(L, i)
    OBVIOUS
  <1>3. /\ Sourced(J, C) /\ Leads(J, c) /\ J.current_iid = L.current_iid
        /\ E \subseteq 1 .. J.highest_open
        /\ \A i \in E : Instance(J, i).status # "empty"
    BY <1>1, <1>2, CheckP1Legal
  <1>4. OpensUpTo(J, K, C, c)
    BY <1>3, OpenP1Legal
  <1>5. AsksOf(PrepareReqs(J, E), C)
    BY <1>3, PreparesLegal
  <1>6. AsksOf(PrepareReqs(K, ToOpen(J)), C)
    <2>1. /\ Sourced(K, C) /\ ToOpen(J) = J.highest_open + 1 .. K.highest_open
          /\ \A i \in ToOpen(J) : Instance(K, i).status # "empty"
      BY <1>4 DEF OpensUpTo
    <2>2. J.highest_open \in Nat
      BY <1>3, SourcedFacts
    <2>3. ToOpen(J) \subseteq 1 .. K.highest_open
      BY <2>1, <2>2
    <2>. QED  BY <2>1, <2>3, PreparesLegal
  <1>7. Legal(K, TRUE, C)
    BY <1>3, <1>4 DEF Legal, OpensUpTo, c
  <1>. QED  BY <1>5, <1>6, <1>7, AsksBoth

(* leader_periodic_p2_check *)
LEMMA Phase2Legal ==
    ASSUME NEW L, NEW C, C \subseteq Values, Legal(L, TRUE, C),
           NEW closed, NEW expired, Settles(L, closed, expired),
           NEW J, J = CheckP2(L, closed, expired), NEW K, K = OpenInstancesP2New(J)
    PROVE  /\ Legal(K, TRUE, C)
           /\ AsksOf(PrepareReqs(J, expired) \cup AcceptReqs(K, Started(J)), C)
PROOF
  <1>. DEFINE c == L.current_iid
  <1>1. Sourced(L, C) /\ Leads(L, c)
    BY DEF Legal
  <1>2. /\ Sourced(J, C) /\ Leads(J, c) /\ J.current_iid = c
        /\ AsksOf(PrepareReqs(J, expired), C)
    <2>1. c = L.current_iid
      OBVIOUS
    <2>. HIDE DEF c
    <2>. QED  BY <1>1, <2>1, CheckP2Legal
  <1>. HIDE DEF c
  <1>3. /\ Sourced(K, C) /\ Leads(K, c) /\ K.current_iid = c
        /\ AsksOf(AcceptReqs(K, Started(J)), C)
    BY <1>2, P2NewLegal
  <1>. QED  BY <1>2, <1>3, AsksBoth DEF Legal

(* handle_prepare_ack_batch, with the calls of phase 2 when it makes an instance
   ready; without it leaves J. *)
LEMMA PromiseBatchLegal ==
    ASSUME NEW L, NEW C, C \subseteq Values, Legal(L, TRUE, C),
           NEW acks \in SUBSET PrepareAck, IsFiniteSet(acks),
           \A pa \in acks : pa.value \in C \cup {NoValue},
           NEW J, J = AfterPromises(L, acks), NEW P, P = OpenInstancesP2Expired(J),
           NEW K, K = OpenInstancesP2New(P)
    PROVE  /\ Legal(J, TRUE, C) /\ Legal(K, TRUE, C)
           /\ AsksOf(AcceptReqs(P, ExpiredReady(J)) \cup AcceptReqs(K, Started(P)), C)
PROOF
  <1>. DEFINE c == L.current_iid
  <1>1. Sourced(L, C) /\ Leads(L, c)
    BY DEF Legal
  <1>2. Sourced(J, C) /\ Leads(J, c) /\ J.current_iid = c
    BY <1>1, PromisesLegal
  <1>. HIDE DEF c
  <1>3. /\ Sourced(P, C) /\ Leads(P, c) /\ P.current_iid = c
        /\ AsksOf(AcceptReqs(P, ExpiredReady(J)), C)
    BY <1>2, P2ExpiredLegal
  <1>4. /\ Sourced(K, C) /\ Leads(K, c) /\ K.current_iid = c
        /\ AsksOf(AcceptReqs(K, Started(P)), C)
    BY <1>3, P2NewLegal
  <1>. QED  BY <1>2, <1>3, <1>4, AsksBoth DEF Legal

(* What is sound for the values of C is for those of more. *)
LEMMA LegalMore ==
    ASSUME NEW L, NEW me, NEW C, NEW B, C \subseteq B, Legal(L, me, C)
    PROVE  Legal(L, me, B)
PROOF
  <1>1. Sourced(L, C)
    BY DEF Legal
  <1>2. L.pending_list \in Seq(B)
    BY <1>1 DEF Sourced
  <1>3. Sourced(L, B)
    BY <1>1, <1>2 DEF Sourced, SlotSound
  <1>. QED  BY <1>3 DEF Legal

=============================================================================
