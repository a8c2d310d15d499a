---------------------------- MODULE LearnerProofs ----------------------------
(***************************************************************************)
(* What handling an acknowledgement preserves in a learner, proved from    *)
(* the handler alone, so that any system built from Learner can cite it;   *)
(* then the theorems about a learner any acknowledgement can reach, for    *)
(* any buffer size, acceptors, instances, ballots and values.              *)
(***************************************************************************)
EXTENDS LearnerAlone, NumberLemmas, FiniteSetTheorems, TLAPS

-----------------------------------------------------------------------------
(* The circular buffer.                                                     *)

(* GET_LEA_INSTANCE stays inside the buffer. *)
LEMMA SlotOfType ==
    ASSUME NEW i \in Nat
    PROVE  SlotOf(i) \in Slots
BY LearnerAssumption DEF SlotOf, Slots

(* Instances LEARNER_ARRAY_SIZE apart share a slot. *)
LEMMA SlotOfPeriodic ==
    ASSUME NEW i \in Nat
    PROVE  SlotOf(i + LEARNER_ARRAY_SIZE) = SlotOf(i)
PROOF
  <1>. DEFINE n == LEARNER_ARRAY_SIZE
              q == ((i + n) \div n) - (i \div n)
  <1>1. n \in Nat \ {0}
    BY LearnerAssumption
  <1>2. /\ i \div n \in Int /\ i % n \in 0 .. n - 1 /\ i = n * (i \div n) + (i % n)
        /\ (i + n) \div n \in Int /\ (i + n) % n \in 0 .. n - 1
        /\ i + n = n * ((i + n) \div n) + ((i + n) % n)
    BY <1>1
  <1>. HIDE DEF n
  <1>3. n * (q - 1) = (i % n) - ((i + n) % n)
    <2>1. n * (q - 1) = n * ((i + n) \div n) - n * (i \div n) - n
      BY <1>1, <1>2
    <2>. HIDE DEF q
    <2>. QED  BY <1>1, <1>2, <2>1
  <1>4. q - 1 \in Int
    BY <1>2
  <1>. HIDE DEF q
  <1>5. q - 1 = 0
    <2>1. n * (q - 1) < n /\ - n < n * (q - 1)
      BY <1>1, <1>2, <1>3
    <2>. QED  BY <1>1, <1>4, <2>1, SmallMultiple
  <1>6. n * (q - 1) = 0
    BY <1>1, <1>5
  <1>7. (i + n) % n = i % n
    BY <1>2, <1>3, <1>6
  <1>. QED  BY <1>7 DEF SlotOf, n

(* Two instances of one window never share a slot. *)
LEMMA SlotOfInjective ==
    ASSUME NEW c \in Nat, NEW i \in Nat, NEW j \in Nat,
           c <= i, i < c + LEARNER_ARRAY_SIZE,
           c <= j, j < c + LEARNER_ARRAY_SIZE,
           SlotOf(i) = SlotOf(j)
    PROVE  i = j
BY RemainderInjective, LearnerAssumption DEF SlotOf

-----------------------------------------------------------------------------
(* Types.                                                                   *)

(* The fields of an acknowledgement, and the record a learner keeps of it. *)
LEMMA AckMessageType ==
    ASSUME NEW m \in AckMessage
    PROVE  /\ m.acceptor \in Acceptors
           /\ m.iid \in Iids /\ m.iid \in Nat \ {0}
           /\ m.ballot \in Ballots /\ m.ballot \in Nat \ {0}
           /\ AckRecord(m) \in Record
           /\ AckRecord(m).ballot = m.ballot
           /\ AckRecord(m).is_final = m.is_final
           /\ AckRecord(m) # NoRecord
           /\ AckRecord(m).value \in Values
PROOF
  <1>1. /\ m.acceptor \in Acceptors
        /\ m.iid \in Iids
        /\ m.ballot \in Ballots
        /\ m.value_ballot \in Ballots
        /\ m.is_final \in BOOLEAN
        /\ m.value \in Values
    BY DEF AckMessage
  <1>2. m.iid \in Nat \ {0} /\ m.ballot \in Nat \ {0}
    BY <1>1, MessagesAssumption
  <1>3. /\ AckRecord(m) \in Record
        /\ AckRecord(m).ballot = m.ballot
        /\ AckRecord(m).is_final = m.is_final
        /\ AckRecord(m).value \in Values
    BY <1>1 DEF AckRecord, Record
  <1>4. NoRecord.ballot = 0
    BY DEF NoRecord
  <1>. QED  BY <1>1, <1>2, <1>3, <1>4

(* The slot of an acknowledgement is in the buffer and holds a well-formed
   instance, before and after the acknowledgement is stored. *)
LEMMA SlotForType ==
    ASSUME LearnerTypeOK, NEW l \in Learners, NEW m \in AckMessage
    PROVE  /\ SlotOf(m.iid) \in Slots
           /\ SlotFor(l, m) \in Slot
           /\ Updated(SlotFor(l, m), m) \in Slot
           /\ Updated(SlotFor(l, m), m).iid = m.iid
           /\ Updated(SlotFor(l, m), m).last_update_ballot = m.ballot
           /\ Updated(SlotFor(l, m), m).final_value = SlotFor(l, m).final_value
           /\ \A a \in Acceptors :
                 Updated(SlotFor(l, m), m).acks[a] =
                     IF a = m.acceptor THEN AckRecord(m) ELSE SlotFor(l, m).acks[a]
PROOF
  <1>1. SlotOf(m.iid) \in Slots
    BY AckMessageType, SlotOfType
  <1>2. SlotFor(l, m) \in Slot
    BY <1>1 DEF LearnerTypeOK, SlotFor
  <1>3. ASSUME NEW slot \in Slot
        PROVE  /\ Updated(slot, m) \in Slot
               /\ Updated(slot, m).iid = m.iid
               /\ Updated(slot, m).last_update_ballot = m.ballot
               /\ Updated(slot, m).final_value = slot.final_value
               /\ \A a \in Acceptors :
                     Updated(slot, m).acks[a] =
                         IF a = m.acceptor THEN AckRecord(m) ELSE slot.acks[a]
    BY AckMessageType DEF Slot, Updated
  <1>. QED  BY <1>1, <1>2, <1>3

(* The buffer after an instance is closed differs in that instance's slot. *)
LEMMA ClosedBufferType ==
    ASSUME LearnerTypeOK, NEW l \in Learners, NEW m \in AckMessage,
           NEW a \in Acceptors,
           IsValidIndex(Updated(SlotFor(l, m), m), a)
    PROVE  LET slot == Updated(SlotFor(l, m), m)
               closed == ClosedBuffer(l, m, a)[SlotOf(m.iid)]
           IN /\ a \in Agreeing(slot)
              /\ slot.acks[a] \in Record
              /\ ClosedBuffer(l, m, a) \in [Slots -> Slot]
              /\ closed.iid = m.iid
              /\ closed.acks = slot.acks
              /\ closed.final_value = slot.acks[a]
              /\ closed.last_update_ballot = m.ballot
              /\ \A s \in Slots \ {SlotOf(m.iid)} :
                    ClosedBuffer(l, m, a)[s] = learner_state[l][s]
PROOF
  <1>. DEFINE slot == Updated(SlotFor(l, m), m)
              closed == [slot EXCEPT !.final_value = slot.acks[a]]
  <1>1. a \in Agreeing(slot)
    BY DEF IsValidIndex, FinalAcks
  <1>2. slot \in Slot /\ slot.iid = m.iid /\ slot.last_update_ballot = m.ballot
    BY SlotForType
  <1>. HIDE DEF slot
  <1>3. slot.acks[a] \in Record
    BY <1>1, <1>2 DEF Agreeing, Slot
  <1>4. /\ closed \in Slot
        /\ closed.iid = m.iid
        /\ closed.acks = slot.acks
        /\ closed.final_value = slot.acks[a]
        /\ closed.last_update_ballot = m.ballot
    BY <1>2, <1>3 DEF Slot
  <1>. HIDE DEF closed
  <1>5. /\ ClosedBuffer(l, m, a) = [learner_state[l] EXCEPT ![SlotOf(m.iid)] = closed]
        /\ learner_state[l] \in [Slots -> Slot]
        /\ SlotOf(m.iid) \in Slots
    BY SlotForType DEF ClosedBuffer, LearnerTypeOK, slot, closed
  <1>6. /\ ClosedBuffer(l, m, a) \in [Slots -> Slot]
        /\ ClosedBuffer(l, m, a)[SlotOf(m.iid)] = closed
        /\ \A s \in Slots \ {SlotOf(m.iid)} :
              ClosedBuffer(l, m, a)[s] = learner_state[l][s]
    BY <1>4, <1>5
  <1>. QED  BY <1>1, <1>3, <1>4, <1>6 DEF slot

(* A cleared slot. *)
LEMMA EmptySlotType ==
    /\ EmptySlot \in Slot
    /\ EmptySlot.iid = 0
    /\ ~ IsClosed(EmptySlot)
    /\ \A a \in Acceptors : EmptySlot.acks[a] = NoRecord
BY DEF EmptySlot, Slot, IsClosed

(* The instances a run passes are in the buffer. *)
LEMMA RunSlotsType ==
    ASSUME LearnerTypeOK, NEW l \in Learners, NEW k \in 0 .. LEARNER_ARRAY_SIZE,
           NEW j \in 0 .. k - 1
    PROVE  SlotOf(current_iid[l] + j) \in Slots
BY SlotOfType, LearnerAssumption DEF LearnerTypeOK

DeliveredType == [value : Values \cup {NoValue}, ballot : Ballots]

(* What a run hands to the deliver callback is a value and a ballot. *)
LEMMA DeliveredRunType ==
    ASSUME LearnerTypeOK, NEW l \in Learners, NEW m \in AckMessage,
           NEW a \in Acceptors, NEW k \in 0 .. LEARNER_ARRAY_SIZE,
           Closes(l, m, a, k)
    PROVE  [j \in 1 .. k |->
              DeliveredValue(ClosedBuffer(l, m, a)[SlotOf(current_iid[l] + j - 1)])]
                \in Seq(DeliveredType)
PROOF
  <1>. DEFINE buffer == ClosedBuffer(l, m, a)
  <1>1. buffer \in [Slots -> Slot]
    BY ClosedBufferType DEF Closes, Completes
  <1>2. k \in Nat /\ current_iid[l] \in Nat \ {0}
    BY LearnerAssumption DEF LearnerTypeOK
  <1>3. k > 0 => \A j \in 0 .. k - 1 : IsClosed(buffer[SlotOf(current_iid[l] + j)])
    BY <1>2 DEF Closes, Completes, ClosedRun
  <1>4. \A slot \in Slot : IsClosed(slot) => DeliveredValue(slot) \in DeliveredType
    BY DEF Slot, IsClosed, DeliveredValue, DeliveredType, Record
  <1>5. ASSUME NEW j \in 1 .. k
        PROVE  DeliveredValue(buffer[SlotOf(current_iid[l] + j - 1)]) \in DeliveredType
    <2>1. j - 1 \in 0 .. k - 1 /\ current_iid[l] + (j - 1) = current_iid[l] + j - 1
      BY <1>2
    <2>2. SlotOf(current_iid[l] + (j - 1)) \in Slots
      BY <2>1, RunSlotsType
    <2>. QED  BY <1>1, <1>2, <1>3, <1>4, <2>1, <2>2
  <1>. HIDE DEF buffer
  <1>. QED  BY <1>2, <1>5 DEF buffer

(* Handling an acknowledgement keeps the learner well formed. *)
LEMMA AckTypeStep ==
    ASSUME LearnerTypeOK, NEW l \in Learners, NEW m \in AckMessage,
           HandleAcceptAck(l, m)
    PROVE  LearnerTypeOK'
PROOF
  <1>1. /\ m.iid \in Iids /\ m.iid \in Nat /\ SlotOf(m.iid) \in Slots
        /\ Updated(SlotFor(l, m), m) \in Slot
    BY AckMessageType, SlotForType
  <1>2. highest_iid_seen' \in [Learners -> Nat]
    BY <1>1 DEF HandleAcceptAck, LearnerTypeOK, Larger
  <1>3. CASE Ignored(l, m)
    BY <1>2, <1>3 DEF Ignored, LearnerTypeOK
  <1>4. CASE Recorded(l, m)
    <2>1. learner_state' \in [Learners -> [Slots -> Slot]]
      BY <1>1, <1>4 DEF Recorded, LearnerTypeOK, SlotFor
    <2>. QED  BY <1>2, <1>4, <2>1 DEF Recorded, LearnerTypeOK
  <1>5. ASSUME NEW a \in Acceptors, NEW k \in 0 .. LEARNER_ARRAY_SIZE,
               Closes(l, m, a, k)
        PROVE  LearnerTypeOK'
    <2>1. ClosedBuffer(l, m, a) \in [Slots -> Slot]
      BY <1>5, ClosedBufferType DEF Closes, Completes
    <2>2. learner_state' \in [Learners -> [Slots -> Slot]]
      BY <1>5, <2>1, EmptySlotType DEF Closes, Completes, LearnerTypeOK
    <2>3. k \in Nat
      BY LearnerAssumption
    <2>4. current_iid' \in [Learners -> Nat \ {0}]
      BY <1>5, <2>3 DEF Closes, Completes, LearnerTypeOK
    <2>5. highest_iid_closed' \in [Learners -> Iids \cup {0}]
      BY <1>1, <1>5 DEF Closes, Completes, LearnerTypeOK, Larger
    <2>6. delivered' \in [Learners -> Seq(DeliveredType)]
      <3>. DEFINE run == [j \in 1 .. k |->
                 DeliveredValue(ClosedBuffer(l, m, a)[SlotOf(current_iid[l] + j - 1)])]
      <3>1. run \in Seq(DeliveredType)
        BY <1>5, DeliveredRunType
      <3>2. delivered' = [delivered EXCEPT ![l] = @ \o run]
        BY <1>5 DEF Closes, Completes
      <3>3. delivered \in [Learners -> Seq(DeliveredType)]
        BY DEF LearnerTypeOK, DeliveredType
      <3>. HIDE DEF run
      <3>4. delivered[l] \o run \in Seq(DeliveredType)
        BY <3>1, <3>3
      <3>. QED  BY <3>2, <3>3, <3>4
    <2>. QED  BY <1>2, <2>2, <2>4, <2>5, <2>6 DEF LearnerTypeOK, DeliveredType
  <1>. QED  BY <1>3, <1>4, <1>5 DEF HandleAcceptAck

(* A quorum is not empty: half of anything plus one is at least one. *)
LEMMA QuorumNotEmpty == \A Q \in Quorums : Q # {}
PROOF
  <1>1. Cardinality(Acceptors) \in Nat
    BY MessagesAssumption, FS_CardinalityType
  <1>2. (Cardinality(Acceptors) \div 2) + 1 # 0
    BY <1>1
  <1>3. Cardinality({}) = 0
    BY FS_EmptySet
  <1>. QED  BY <1>2, <1>3 DEF Quorums, QUORUM

(* A record that exists is not the NULL record. *)
LEMMA RecordNotNull == \A rec \in Record : rec # NoRecord
PROOF
  <1>1. NoRecord.ballot = 0
    BY DEF NoRecord
  <1>2. \A rec \in Record : rec.ballot \in Nat \ {0}
    BY MessagesAssumption DEF Record
  <1>. QED  BY <1>1, <1>2

-----------------------------------------------------------------------------
(* One step, slot by slot.  A slot of the learner keeps what it held, is
   emptied because its instance was delivered, or takes the acknowledgement; in
   the last case it stays open without a quorum or closes with one, and it is
   not delivered.  k instances are delivered.                               *)
SlotKept(l, s, k) ==
    learner_state'[l][s] = learner_state[l][s] /\ s \notin RunSlots(l, k)

SlotEmptied(l, s, k) ==
    learner_state'[l][s] = EmptySlot /\ s \in RunSlots(l, k)

SlotTakes(l, m, s) ==
    /\ s = SlotOf(m.iid)
    /\ ~ OutsideWindow(l, m)
    /\ Relevant(SlotFor(l, m), m)
    /\ LET slot == Updated(SlotFor(l, m), m)
       IN \/ /\ ~ ReachesQuorum(slot)
             /\ learner_state'[l][s] = slot
          \/ /\ ReachesQuorum(slot)
             /\ m.iid # current_iid[l]
             /\ m.iid <= highest_iid_closed'[l]
             /\ \E a \in Acceptors :
                   /\ IsValidIndex(slot, a)
                   /\ learner_state'[l][s] = ClosedBuffer(l, m, a)[s]

LEMMA SlotStep ==
    ASSUME LearnerTypeOK, NEW l \in Learners, NEW m \in AckMessage,
           HandleAcceptAck(l, m)
    PROVE  /\ \A x \in Learners \ {l} :
                 /\ learner_state'[x] = learner_state[x]
                 /\ current_iid'[x] = current_iid[x]
                 /\ delivered'[x] = delivered[x]
                 /\ highest_iid_closed'[x] = highest_iid_closed[x]
           /\ \E k \in 0 .. LEARNER_ARRAY_SIZE :
                 /\ current_iid'[l] = current_iid[l] + k
                 /\ highest_iid_closed[l] <= highest_iid_closed'[l]
                 /\ k > 0 => ~ IsClosed(learner_state'[l][SlotOf(current_iid[l] + k)])
                 /\ \A s \in Slots :
                       \/ SlotKept(l, s, k)
                       \/ SlotEmptied(l, s, k)
                       \/ SlotTakes(l, m, s) /\ k = 0
PROOF
  <1>1. RunSlots(l, 0) = {}
    BY DEF RunSlots
  <1>2. 0 \in 0 .. LEARNER_ARRAY_SIZE /\ current_iid[l] + 0 = current_iid[l]
    BY LearnerAssumption DEF LearnerTypeOK
  <1>3. SlotOf(m.iid) \in Slots
    BY SlotForType
  <1>7. highest_iid_closed[l] \in Nat /\ m.iid \in Nat
    <2>1. highest_iid_closed[l] \in Iids \cup {0}
      BY DEF LearnerTypeOK
    <2>2. Iids \cup {0} \subseteq Nat
      BY MessagesAssumption
    <2>3. m.iid \in Nat
      BY AckMessageType
    <2>. QED  BY <2>1, <2>2, <2>3
  <1>4. CASE Ignored(l, m)
    BY <1>1, <1>2, <1>4, <1>7 DEF Ignored, SlotKept
  <1>5. CASE Recorded(l, m)
    <2>1. /\ learner_state'[l][SlotOf(m.iid)] = Updated(SlotFor(l, m), m)
          /\ \A s \in Slots \ {SlotOf(m.iid)} :
                learner_state'[l][s] = learner_state[l][s]
          /\ \A x \in Learners \ {l} : learner_state'[x] = learner_state[x]
          /\ UNCHANGED <<current_iid, highest_iid_closed, delivered>>
      BY <1>3, <1>5 DEF Recorded, LearnerTypeOK, SlotFor
    <2>2. SlotTakes(l, m, SlotOf(m.iid))
      BY <1>5, <2>1 DEF Recorded, SlotTakes
    <2>. QED  BY <1>1, <1>2, <1>7, <2>1, <2>2 DEF SlotKept
  <1>6. ASSUME NEW a \in Acceptors, NEW k \in 0 .. LEARNER_ARRAY_SIZE,
               Closes(l, m, a, k)
        PROVE  /\ \A x \in Learners \ {l} :
                     /\ learner_state'[x] = learner_state[x]
                     /\ current_iid'[x] = current_iid[x]
                     /\ delivered'[x] = delivered[x]
                     /\ highest_iid_closed'[x] = highest_iid_closed[x]
               /\ current_iid'[l] = current_iid[l] + k
               /\ highest_iid_closed[l] <= highest_iid_closed'[l]
               /\ k > 0 => ~ IsClosed(learner_state'[l][SlotOf(current_iid[l] + k)])
               /\ \A s \in Slots :
                     \/ SlotKept(l, s, k)
                     \/ SlotEmptied(l, s, k)
                     \/ SlotTakes(l, m, s) /\ k = 0
    <2>1. \A x \in Learners \ {l} :
              /\ learner_state'[x] = learner_state[x]
              /\ current_iid'[x] = current_iid[x]
              /\ delivered'[x] = delivered[x]
              /\ highest_iid_closed'[x] = highest_iid_closed[x]
      BY <1>6 DEF Closes, Completes, LearnerTypeOK
    <2>2. current_iid'[l] = current_iid[l] + k
      BY <1>6 DEF Closes, Completes, LearnerTypeOK
    <2>3. \A s \in Slots : learner_state'[l][s] =
              IF s \in RunSlots(l, k) THEN EmptySlot ELSE ClosedBuffer(l, m, a)[s]
      BY <1>6 DEF Closes, Completes, LearnerTypeOK
    <2>4. \A s \in Slots \ {SlotOf(m.iid)} :
              ClosedBuffer(l, m, a)[s] = learner_state[l][s]
      BY <1>6, ClosedBufferType DEF Closes, Completes
    <2>6. highest_iid_closed[l] <= highest_iid_closed'[l] /\ m.iid <= highest_iid_closed'[l]
      BY <1>6, <1>7 DEF Closes, Completes, LearnerTypeOK, Larger
    <2>5. ASSUME SlotOf(m.iid) \notin RunSlots(l, k)
          PROVE  SlotTakes(l, m, SlotOf(m.iid)) /\ k = 0
      <3>1. m.iid # current_iid[l]
        <4>. SUFFICES ASSUME m.iid = current_iid[l] PROVE FALSE
          OBVIOUS
        <4>1. ClosedRun(l, ClosedBuffer(l, m, a), k)
          BY <1>6 DEF Closes, Completes
        <4>2. k # 0
          <5>. SUFFICES ASSUME k = 0 PROVE FALSE
            OBVIOUS
          <5>1. ~ IsClosed(ClosedBuffer(l, m, a)[SlotOf(m.iid)])
            BY <1>2, <4>1, LearnerAssumption DEF ClosedRun
          <5>. QED  BY <1>6, <5>1, ClosedBufferType, RecordNotNull DEF Closes, Completes, IsClosed
        <4>3. 0 \in 0 .. k - 1
          BY <4>2, LearnerAssumption
        <4>4. SlotOf(m.iid) \in RunSlots(l, k)
          BY <1>2, <4>3 DEF RunSlots
        <4>. QED  BY <2>5, <4>4
      <3>2. k = 0
        BY <1>6, <3>1 DEF Closes, Completes
      <3>. QED  BY <1>3, <1>6, <2>3, <2>5, <2>6, <3>1, <3>2 DEF Closes, Completes, SlotTakes
    <2>7. ASSUME k > 0
          PROVE  ~ IsClosed(learner_state'[l][SlotOf(current_iid[l] + k)])
      <3>1. k \in Nat /\ current_iid[l] \in Nat
        BY LearnerAssumption DEF LearnerTypeOK
      <3>2. SlotOf(current_iid[l] + k) \in Slots
        BY <3>1, SlotOfType
      <3>3. CASE k < LEARNER_ARRAY_SIZE
        <4>1. m.iid = current_iid[l]
          BY <1>6, <2>7 DEF Closes, Completes
        <4>2. ~ IsClosed(ClosedBuffer(l, m, a)[SlotOf(current_iid[l] + k)])
          BY <1>6, <3>3, <4>1 DEF Closes, Completes, ClosedRun
        <4>. QED  BY <2>3, <3>2, <4>2, EmptySlotType
      <3>4. CASE k = LEARNER_ARRAY_SIZE
        <4>1. SlotOf(current_iid[l] + k) = SlotOf(current_iid[l])
          BY <3>1, <3>4, SlotOfPeriodic
        <4>2. 0 \in 0 .. k - 1
          BY <2>7, <3>1
        <4>3. SlotOf(current_iid[l] + k) \in RunSlots(l, k)
          BY <1>2, <4>1, <4>2 DEF RunSlots
        <4>. QED  BY <2>3, <3>2, <4>3, EmptySlotType
      <3>. QED  BY <3>3, <3>4, LearnerAssumption
    <2>. QED
      BY <2>1, <2>2, <2>3, <2>4, <2>5, <2>6, <2>7 DEF SlotKept, SlotEmptied
  <1>. QED  BY <1>4, <1>5, <1>6 DEF HandleAcceptAck

-----------------------------------------------------------------------------
(* The invariant.                                                           *)

(* lea_handle_accept_ack raises highest_iid_closed for each instance it closes. *)
ClosedBelowHighest ==
    \A l \in Learners, s \in Slots :
        IsClosed(learner_state[l][s]) =>
            learner_state[l][s].iid <= highest_iid_closed[l]

LearnerInv ==
    /\ LearnerTypeOK
    /\ SlotsInWindow
    /\ NoMissedQuorum
    /\ ClosedOnEvidence
    /\ NothingHeldBack
    /\ ClosedBelowHighest

(* What storing acknowledgement m, or closing on it, makes of a slot. *)
Taken(l, m, old, new) ==
    /\ ~ IsClosed(old)
    /\ new.iid = m.iid
    /\ current_iid[l] <= m.iid
    /\ m.iid < current_iid[l] + LEARNER_ARRAY_SIZE
    /\ \A a \in Acceptors :
          new.acks[a] = IF a = m.acceptor THEN AckRecord(m) ELSE old.acks[a]
    /\ \/ /\ ~ IsClosed(new)
          /\ ~ \E Q \in Quorums : Q \subseteq AcksAt(new, m.ballot)
          /\ ~ m.is_final
       \/ /\ IsClosed(new)
          /\ m.iid # current_iid[l]
          /\ m.iid <= highest_iid_closed'[l]
          /\ \E a \in Acceptors :
                /\ new.final_value = new.acks[a]
                /\ \/ new.acks[a].is_final
                   \/ \E Q \in Quorums :
                         Q \subseteq AcksAt(new, new.acks[a].ballot)

(* Storing an acknowledgement, and closing on it. *)
LEMMA TakenSlot ==
    ASSUME LearnerTypeOK, NEW l \in Learners, NEW m \in AckMessage,
           NEW s \in Slots, SlotTakes(l, m, s)
    PROVE  s = SlotOf(m.iid) /\ Taken(l, m, learner_state[l][s], learner_state'[l][s])
PROOF
  <1>. DEFINE old == learner_state[l][s]
              new == learner_state'[l][s]
              slot == Updated(SlotFor(l, m), m)
  <1>1. s = SlotOf(m.iid) /\ ~ IsClosed(old) /\ SlotFor(l, m) = old
    BY DEF SlotTakes, SlotFor, Relevant
  <1>2. /\ slot.iid = m.iid
        /\ slot.last_update_ballot = m.ballot
        /\ slot.final_value = old.final_value
        /\ \A a \in Acceptors :
              slot.acks[a] = IF a = m.acceptor THEN AckRecord(m) ELSE old.acks[a]
    BY <1>1, SlotForType
  <1>3. current_iid[l] <= m.iid /\ m.iid < current_iid[l] + LEARNER_ARRAY_SIZE
    <2>1. current_iid[l] \in Nat /\ m.iid \in Nat /\ LEARNER_ARRAY_SIZE \in Nat
      BY AckMessageType, LearnerAssumption DEF LearnerTypeOK
    <2>. QED  BY <2>1 DEF SlotTakes, OutsideWindow
  <1>4. \/ ~ ReachesQuorum(slot) /\ new = slot
        \/ /\ ReachesQuorum(slot)
           /\ m.iid # current_iid[l]
           /\ m.iid <= highest_iid_closed'[l]
           /\ \E a \in Acceptors :
                 IsValidIndex(slot, a) /\ new = ClosedBuffer(l, m, a)[s]
    BY DEF SlotTakes
  <1>5. Agreeing(slot) = AcksAt(slot, m.ballot)
    BY <1>2 DEF Agreeing, AcksAt
  <1>6. m.is_final => m.acceptor \in FinalAcks(slot)
    BY <1>2, AckMessageType DEF FinalAcks, Agreeing
  <1>7. CASE ~ ReachesQuorum(slot) /\ new = slot
    <2>1. ~ IsClosed(new)
      BY <1>1, <1>2, <1>7 DEF IsClosed
    <2>2. ~ m.is_final /\ ~ \E Q \in Quorums : Q \subseteq AcksAt(new, m.ballot)
      BY <1>5, <1>6, <1>7 DEF ReachesQuorum
    <2>. HIDE DEF slot
    <2>. QED  BY <1>1, <1>2, <1>3, <1>7, <2>1, <2>2 DEF Taken
  <1>8. ASSUME ReachesQuorum(slot), m.iid # current_iid[l],
               m.iid <= highest_iid_closed'[l], NEW a \in Acceptors,
               IsValidIndex(slot, a), new = ClosedBuffer(l, m, a)[s]
        PROVE  /\ new.iid = m.iid
               /\ new.acks = slot.acks
               /\ IsClosed(new)
               /\ new.final_value = new.acks[a]
               /\ \/ new.acks[a].is_final
                  \/ \E Q \in Quorums : Q \subseteq AcksAt(new, new.acks[a].ballot)
    <2>1. /\ new.iid = m.iid
          /\ new.acks = slot.acks
          /\ new.final_value = slot.acks[a]
          /\ slot.acks[a] \in Record
          /\ a \in Agreeing(slot)
      BY <1>1, <1>8, ClosedBufferType
    <2>2. IsClosed(new)
      BY <2>1, RecordNotNull DEF IsClosed
    <2>3. CASE FinalAcks(slot) # {}
      <3>1. slot.acks[a].is_final
        BY <1>8, <2>3 DEF IsValidIndex, FinalAcks
      <3>. QED  BY <2>1, <2>2, <3>1
    <2>4. CASE FinalAcks(slot) = {}
      <3>1. PICK Q \in Quorums : Q \subseteq Agreeing(slot)
        BY <1>8, <2>4 DEF ReachesQuorum
      <3>2. slot.acks[a].ballot = m.ballot
        BY <1>2, <2>1 DEF Agreeing
      <3>3. AcksAt(new, m.ballot) = AcksAt(slot, m.ballot)
        BY <2>1 DEF AcksAt
      <3>. QED  BY <1>5, <2>1, <2>2, <3>1, <3>2, <3>3
    <2>. QED  BY <2>3, <2>4
  <1>. HIDE DEF slot
  <1>9. CASE /\ ReachesQuorum(slot)
             /\ m.iid # current_iid[l]
             /\ m.iid <= highest_iid_closed'[l]
             /\ \E a \in Acceptors :
                   IsValidIndex(slot, a) /\ new = ClosedBuffer(l, m, a)[s]
    <2>1. PICK a \in Acceptors : IsValidIndex(slot, a) /\ new = ClosedBuffer(l, m, a)[s]
      BY <1>9
    <2>2. /\ new.iid = m.iid
          /\ new.acks = slot.acks
          /\ IsClosed(new)
          /\ new.final_value = new.acks[a]
          /\ \/ new.acks[a].is_final
             \/ \E Q \in Quorums : Q \subseteq AcksAt(new, new.acks[a].ballot)
      BY <1>8, <1>9, <2>1
    <2>. HIDE DEF new
    <2>3. Taken(l, m, old, new)
      BY <1>1, <1>2, <1>3, <1>9, <2>2 DEF Taken
    <2>. QED  BY <1>1, <2>3 DEF new
  <1>. HIDE DEF new, old
  <1>. QED  BY <1>1, <1>4, <1>7, <1>9 DEF new, old

(* No slot is confused by a step. *)
LEMMA WindowStep ==
    ASSUME LearnerInv, NEW l \in Learners, NEW m \in AckMessage,
           HandleAcceptAck(l, m)
    PROVE  SlotsInWindow'
PROOF
  <1>1. LearnerTypeOK /\ SlotsInWindow
    BY DEF LearnerInv
  <1>2. PICK k \in 0 .. LEARNER_ARRAY_SIZE :
          /\ current_iid'[l] = current_iid[l] + k
          /\ \A s \in Slots :
                \/ SlotKept(l, s, k)
                \/ SlotEmptied(l, s, k)
                \/ SlotTakes(l, m, s) /\ k = 0
    BY <1>1, SlotStep
  <1>3. \A x \in Learners \ {l} :
          learner_state'[x] = learner_state[x] /\ current_iid'[x] = current_iid[x]
    BY <1>1, SlotStep
  <1>4. /\ current_iid[l] \in Nat \ {0} /\ k \in Nat /\ m.iid \in Nat \ {0}
        /\ LEARNER_ARRAY_SIZE \in Nat \ {0}
    BY <1>1, AckMessageType, LearnerAssumption DEF LearnerTypeOK
  <1>. DEFINE InWindow(slot, s, c) ==
         IF slot.iid = 0
         THEN slot = EmptySlot
         ELSE /\ SlotOf(slot.iid) = s
              /\ c <= slot.iid
              /\ slot.iid < c + LEARNER_ARRAY_SIZE
  <1>5. \A x \in Learners, s \in Slots :
           InWindow(learner_state[x][s], s, current_iid[x])
    BY <1>1 DEF SlotsInWindow
  <1>6. ASSUME NEW s \in Slots
        PROVE  InWindow(learner_state'[l][s], s, current_iid'[l])
    <2>1. CASE SlotKept(l, s, k)
      <3>. DEFINE i == learner_state[l][s].iid
      <3>1. learner_state'[l][s] = learner_state[l][s] /\ s \notin RunSlots(l, k)
        BY <2>1 DEF SlotKept
      <3>2. i \in Nat
        <4>1. learner_state[l][s] \in Slot
          BY <1>1 DEF LearnerTypeOK
        <4>2. i \in Iids \cup {0}
          BY <4>1 DEF Slot
        <4>3. Iids \cup {0} \subseteq Nat
          BY MessagesAssumption
        <4>. QED  BY <4>2, <4>3
      <3>3. ASSUME i # 0, i < current_iid[l] + k
            PROVE  FALSE
        <4>1. SlotOf(i) = s /\ current_iid[l] <= i
          BY <1>5, <3>3
        <4>2. i - current_iid[l] \in 0 .. k - 1
              /\ current_iid[l] + (i - current_iid[l]) = i
          BY <1>4, <3>2, <3>3, <4>1
        <4>3. s \in RunSlots(l, k)
          BY <4>1, <4>2 DEF RunSlots
        <4>. QED  BY <3>1, <4>3
      <3>4. i # 0 => /\ SlotOf(i) = s
                     /\ current_iid[l] + k <= i
                     /\ i < current_iid[l] + k + LEARNER_ARRAY_SIZE
        BY <1>4, <1>5, <3>2, <3>3
      <3>. QED  BY <1>2, <1>5, <3>1, <3>4
    <2>2. CASE SlotEmptied(l, s, k)
      BY <2>2, EmptySlotType DEF SlotEmptied
    <2>3. CASE SlotTakes(l, m, s) /\ k = 0
      BY <1>1, <1>2, <1>4, <2>3, TakenSlot DEF Taken
    <2>. QED  BY <1>2, <2>1, <2>2, <2>3
  <1>7. \A x \in Learners, s \in Slots :
           InWindow(learner_state'[x][s], s, current_iid'[x])
    BY <1>3, <1>5, <1>6
  <1>. QED  BY <1>7 DEF SlotsInWindow

(* No quorum is missed by a step. *)
LEMMA QuorumStep ==
    ASSUME LearnerInv, NEW l \in Learners, NEW m \in AckMessage,
           HandleAcceptAck(l, m)
    PROVE  NoMissedQuorum'
PROOF
  <1>. DEFINE Caught(slot) ==
         \/ \E Q \in Quorums, b \in Ballots : Q \subseteq AcksAt(slot, b)
         \/ \E a \in Acceptors : slot.acks[a].is_final
         => IsClosed(slot)
  <1>1. LearnerTypeOK /\ \A x \in Learners, s \in Slots : Caught(learner_state[x][s])
    BY DEF LearnerInv, NoMissedQuorum
  <1>2. PICK k \in 0 .. LEARNER_ARRAY_SIZE :
          \A s \in Slots :
              \/ SlotKept(l, s, k)
              \/ SlotEmptied(l, s, k)
              \/ SlotTakes(l, m, s) /\ k = 0
    BY <1>1, SlotStep
  <1>3. \A x \in Learners \ {l} : learner_state'[x] = learner_state[x]
    BY <1>1, SlotStep
  <1>4. Caught(EmptySlot)
    <2>1. \A b \in Ballots : AcksAt(EmptySlot, b) = {}
      BY EmptySlotType DEF AcksAt
    <2>2. \A Q \in Quorums : Q # {}
      BY QuorumNotEmpty
    <2>3. \A a \in Acceptors : ~ EmptySlot.acks[a].is_final
      BY EmptySlotType DEF NoRecord
    <2>. QED  BY <2>1, <2>2, <2>3
  <1>5. ASSUME NEW s \in Slots, SlotTakes(l, m, s)
        PROVE  Caught(learner_state'[l][s])
    <2>. DEFINE old == learner_state[l][s]
                new == learner_state'[l][s]
    <2>1. Taken(l, m, old, new) /\ Caught(old)
      BY <1>1, <1>5, TakenSlot
    <2>2. m.acceptor \in Acceptors /\ AckRecord(m).ballot = m.ballot
          /\ AckRecord(m).is_final = m.is_final
      BY AckMessageType
    <2>. HIDE DEF old, new
    <2>3. ASSUME ~ IsClosed(new)
          PROVE  Caught(new)
      <3>1. \A a \in Acceptors : ~ new.acks[a].is_final
        BY <2>1, <2>2, <2>3 DEF Taken
      <3>2. ASSUME NEW Q \in Quorums, NEW b \in Ballots, Q \subseteq AcksAt(new, b)
            PROVE  FALSE
        <4>1. b # m.ballot
          BY <2>1, <2>3, <3>2 DEF Taken
        <4>2. m.acceptor \notin AcksAt(new, b)
          BY <2>1, <2>2, <4>1 DEF Taken, AcksAt
        <4>3. AcksAt(new, b) \subseteq AcksAt(old, b)
          BY <2>1, <4>2 DEF Taken, AcksAt
        <4>. QED  BY <2>1, <3>2, <4>3 DEF Taken
      <3>. QED  BY <3>1, <3>2
    <2>4. Caught(new)
      BY <2>3
    <2>. QED  BY <2>4 DEF new
  <1>6. \A s \in Slots : Caught(learner_state'[l][s])
    BY <1>1, <1>2, <1>4, <1>5 DEF SlotKept, SlotEmptied
  <1>7. \A x \in Learners, s \in Slots : Caught(learner_state'[x][s])
    BY <1>1, <1>3, <1>6
  <1>. QED  BY <1>7 DEF NoMissedQuorum

(* What is closed by a step is closed on evidence. *)
LEMMA EvidenceStep ==
    ASSUME LearnerInv, NEW l \in Learners, NEW m \in AckMessage,
           HandleAcceptAck(l, m)
    PROVE  ClosedOnEvidence'
PROOF
  <1>. DEFINE Justified(slot) ==
         IsClosed(slot) =>
            /\ \E a \in Acceptors : slot.acks[a] = slot.final_value
            /\ \/ slot.final_value.is_final
               \/ \E Q \in Quorums : Q \subseteq AcksAt(slot, slot.final_value.ballot)
  <1>1. LearnerTypeOK /\ \A x \in Learners, s \in Slots : Justified(learner_state[x][s])
    BY DEF LearnerInv, ClosedOnEvidence
  <1>2. PICK k \in 0 .. LEARNER_ARRAY_SIZE :
          \A s \in Slots :
              \/ SlotKept(l, s, k)
              \/ SlotEmptied(l, s, k)
              \/ SlotTakes(l, m, s) /\ k = 0
    BY <1>1, SlotStep
  <1>3. \A x \in Learners \ {l} : learner_state'[x] = learner_state[x]
    BY <1>1, SlotStep
  <1>4. Justified(EmptySlot)
    BY EmptySlotType
  <1>5. ASSUME NEW s \in Slots, SlotTakes(l, m, s)
        PROVE  Justified(learner_state'[l][s])
    <2>. DEFINE new == learner_state'[l][s]
    <2>1. Taken(l, m, learner_state[l][s], new)
      BY <1>1, <1>5, TakenSlot
    <2>. HIDE DEF new
    <2>2. Justified(new)
      BY <2>1 DEF Taken
    <2>. QED  BY <2>2 DEF new
  <1>6. \A s \in Slots : Justified(learner_state'[l][s])
    BY <1>1, <1>2, <1>4, <1>5 DEF SlotKept, SlotEmptied
  <1>7. \A x \in Learners, s \in Slots : Justified(learner_state'[x][s])
    BY <1>1, <1>3, <1>6
  <1>. QED  BY <1>7 DEF ClosedOnEvidence

(* Nothing deliverable is left behind by a step. *)
LEMMA HeldBackStep ==
    ASSUME LearnerInv, NEW l \in Learners, NEW m \in AckMessage,
           HandleAcceptAck(l, m)
    PROVE  NothingHeldBack'
PROOF
  <1>1. LearnerTypeOK /\ NothingHeldBack
    BY DEF LearnerInv
  <1>2. PICK k \in 0 .. LEARNER_ARRAY_SIZE :
          /\ current_iid'[l] = current_iid[l] + k
          /\ k > 0 => ~ IsClosed(learner_state'[l][SlotOf(current_iid[l] + k)])
          /\ \A s \in Slots :
                \/ SlotKept(l, s, k)
                \/ SlotEmptied(l, s, k)
                \/ SlotTakes(l, m, s) /\ k = 0
    BY <1>1, SlotStep
  <1>3. \A x \in Learners \ {l} :
          learner_state'[x] = learner_state[x] /\ current_iid'[x] = current_iid[x]
    BY <1>1, SlotStep
  <1>4. \A x \in Learners \ {l} : ~ LearnerIsClosed(x, current_iid[x])'
    BY <1>1, <1>3 DEF NothingHeldBack, LearnerIsClosed
  <1>5. CASE k > 0
    <2>1. ~ LearnerIsClosed(l, current_iid[l])'
      BY <1>2, <1>5 DEF LearnerIsClosed
    <2>. QED  BY <1>4, <2>1 DEF NothingHeldBack
  <1>6. CASE k = 0
    <2>. DEFINE c == current_iid[l]
                s == SlotOf(c)
    <2>1. c \in Nat /\ current_iid'[l] = c
      BY <1>1, <1>2, <1>6 DEF LearnerTypeOK
    <2>2. s \in Slots
      BY <2>1, SlotOfType
    <2>3. ~ (learner_state[l][s].iid = c /\ IsClosed(learner_state[l][s]))
      BY <1>1 DEF NothingHeldBack, LearnerIsClosed
    <2>4. ~ (learner_state'[l][s].iid = c /\ IsClosed(learner_state'[l][s]))
      <3>1. CASE SlotKept(l, s, k)
        BY <2>3, <3>1 DEF SlotKept
      <3>2. CASE SlotEmptied(l, s, k)
        BY <3>2, EmptySlotType DEF SlotEmptied
      <3>3. CASE SlotTakes(l, m, s)
        <4>1. Taken(l, m, learner_state[l][s], learner_state'[l][s])
          BY <1>1, <2>2, <3>3, TakenSlot
        <4>. QED  BY <4>1 DEF Taken
      <3>. QED  BY <1>2, <2>2, <3>1, <3>2, <3>3
    <2>5. ~ LearnerIsClosed(l, current_iid[l])'
      BY <2>1, <2>4 DEF LearnerIsClosed
    <2>. QED  BY <1>4, <2>5 DEF NothingHeldBack
  <1>7. k = 0 \/ k > 0
    BY LearnerAssumption
  <1>. QED  BY <1>5, <1>6, <1>7

(* highest_iid_closed keeps up with what is closed. *)
LEMMA BelowHighestStep ==
    ASSUME LearnerInv, NEW l \in Learners, NEW m \in AckMessage,
           HandleAcceptAck(l, m)
    PROVE  ClosedBelowHighest'
PROOF
  <1>1. LearnerTypeOK /\ ClosedBelowHighest
    BY DEF LearnerInv
  <1>2. PICK k \in 0 .. LEARNER_ARRAY_SIZE :
          /\ highest_iid_closed[l] <= highest_iid_closed'[l]
          /\ \A s \in Slots :
                \/ SlotKept(l, s, k)
                \/ SlotEmptied(l, s, k)
                \/ SlotTakes(l, m, s) /\ k = 0
    BY <1>1, SlotStep
  <1>3. \A x \in Learners \ {l} :
          /\ learner_state'[x] = learner_state[x]
          /\ highest_iid_closed'[x] = highest_iid_closed[x]
    BY <1>1, SlotStep
  <1>4. Iids \cup {0} \subseteq Nat
    BY MessagesAssumption
  <1>5. ASSUME NEW s \in Slots, IsClosed(learner_state'[l][s])
        PROVE  learner_state'[l][s].iid <= highest_iid_closed'[l]
    <2>1. CASE SlotKept(l, s, k)
      <3>1. learner_state[l][s].iid <= highest_iid_closed[l]
        BY <1>1, <1>5, <2>1 DEF SlotKept, ClosedBelowHighest
      <3>2. learner_state[l][s].iid \in Iids \cup {0}
        <4>1. learner_state[l][s] \in Slot
          BY <1>1 DEF LearnerTypeOK
        <4>. QED  BY <4>1 DEF Slot
      <3>3. /\ highest_iid_closed[l] \in Iids \cup {0}
            /\ highest_iid_closed'[l] \in Iids \cup {0}
        <4>1. LearnerTypeOK'
          BY <1>1, AckTypeStep
        <4>. QED  BY <1>1, <4>1 DEF LearnerTypeOK
      <3>4. /\ learner_state[l][s].iid \in Nat
            /\ highest_iid_closed[l] \in Nat
            /\ highest_iid_closed'[l] \in Nat
        BY <1>4, <3>2, <3>3
      <3>5. learner_state'[l][s] = learner_state[l][s]
        BY <2>1 DEF SlotKept
      <3>. QED  BY <1>2, <3>1, <3>4, <3>5
    <2>2. CASE SlotEmptied(l, s, k)
      BY <1>5, <2>2, EmptySlotType DEF SlotEmptied
    <2>3. CASE SlotTakes(l, m, s)
      <3>1. Taken(l, m, learner_state[l][s], learner_state'[l][s])
        BY <1>1, <2>3, TakenSlot
      <3>. QED  BY <1>5, <3>1 DEF Taken
    <2>. QED  BY <1>2, <2>1, <2>2, <2>3
  <1>. QED  BY <1>1, <1>3, <1>5 DEF ClosedBelowHighest

(* Handling an acknowledgement preserves the invariant. *)
LEMMA LearnerStepInv ==
    ASSUME LearnerInv, NEW l \in Learners, NEW m \in AckMessage,
           HandleAcceptAck(l, m)
    PROVE  LearnerInv'
BY AckTypeStep, WindowStep, QuorumStep, EvidenceStep, HeldBackStep, BelowHighestStep
   DEF LearnerInv

(* A learner starts in the invariant. *)
LEMMA LearnerInitInv ==
    ASSUME LearnerInit
    PROVE  LearnerInv
PROOF
  <1>1. LearnerTypeOK
    <2>1. <<>> \in Seq([value : Values \cup {NoValue}, ballot : Ballots])
      OBVIOUS
    <2>. QED  BY <2>1, EmptySlotType DEF LearnerInit, LearnerTypeOK
  <1>2. \A l \in Learners, s \in Slots : learner_state[l][s] = EmptySlot
    BY DEF LearnerInit
  <1>3. \A l \in Learners : SlotOf(current_iid[l]) \in Slots
    BY <1>1, SlotOfType DEF LearnerTypeOK
  <1>4. NoMissedQuorum
    <2>1. \A b \in Ballots : AcksAt(EmptySlot, b) = {}
      BY EmptySlotType DEF AcksAt
    <2>2. \A Q \in Quorums : Q # {}
      BY QuorumNotEmpty
    <2>3. \A a \in Acceptors : ~ EmptySlot.acks[a].is_final
      BY EmptySlotType DEF NoRecord
    <2>. QED  BY <1>2, <2>1, <2>2, <2>3 DEF NoMissedQuorum
  <1>5. SlotsInWindow
    BY <1>2, EmptySlotType DEF SlotsInWindow
  <1>6. ClosedOnEvidence /\ ClosedBelowHighest
    BY <1>2, EmptySlotType DEF ClosedOnEvidence, ClosedBelowHighest
  <1>7. NothingHeldBack
    BY <1>2, <1>3, EmptySlotType DEF NothingHeldBack, LearnerIsClosed
  <1>. QED  BY <1>1, <1>4, <1>5, <1>6, <1>7 DEF LearnerInv

(* While a closed instance waits, the hole before it shows in highest_iid_closed. *)
LEMMA HoleFollows ==
    ASSUME LearnerInv
    PROVE  HoleIsVisible
PROOF
  <1>. SUFFICES ASSUME NEW l \in Learners, NEW s \in Slots, IsClosed(learner_state[l][s])
                PROVE  highest_iid_closed[l] > current_iid[l]
    BY DEF HoleIsVisible
  <1>. DEFINE slot == learner_state[l][s]
  <1>1. slot.iid # 0 /\ SlotOf(slot.iid) = s /\ current_iid[l] <= slot.iid
    BY EmptySlotType DEF LearnerInv, SlotsInWindow
  <1>2. slot.iid # current_iid[l]
    BY <1>1 DEF LearnerInv, NothingHeldBack, LearnerIsClosed
  <1>3. slot.iid <= highest_iid_closed[l]
    BY DEF LearnerInv, ClosedBelowHighest
  <1>4. /\ slot.iid \in Nat
        /\ highest_iid_closed[l] \in Nat
        /\ current_iid[l] \in Nat
    <2>1. slot \in Slot
      BY DEF LearnerInv, LearnerTypeOK
    <2>2. /\ slot.iid \in Iids \cup {0}
          /\ highest_iid_closed[l] \in Iids \cup {0}
          /\ current_iid[l] \in Nat
      BY <2>1 DEF LearnerInv, LearnerTypeOK, Slot
    <2>3. Iids \cup {0} \subseteq Nat
      BY MessagesAssumption
    <2>. QED  BY <2>2, <2>3
  <1>. QED  BY <1>1, <1>2, <1>3, <1>4

-----------------------------------------------------------------------------
(* Delivery.  current_iid counts the calls of the deliver callback.         *)
DeliveredBelowCurrent ==
    \A l \in Learners : Len(delivered[l]) = current_iid[l] - 1

(* The elements of the second sequence follow those of the first. *)
LEMMA ConcatLookup ==
    ASSUME NEW S, NEW left \in Seq(S), NEW right \in Seq(S), NEW n \in 1 .. Len(right)
    PROVE  /\ Len(left) + n \in DOMAIN (left \o right)
           /\ (left \o right)[Len(left) + n] = right[n]
OBVIOUS

(* What one acknowledgement adds to the sequence delivered: as many values as
   current_iid goes up, after those delivered before. *)
LEMMA DeliveryStep ==
    ASSUME LearnerTypeOK, NEW l \in Learners, NEW m \in AckMessage,
           HandleAcceptAck(l, m)
    PROVE  /\ Len(delivered'[l]) \in Nat
           /\ Len(delivered[l]) <= Len(delivered'[l])
           /\ current_iid'[l] - current_iid[l] = Len(delivered'[l]) - Len(delivered[l])
           /\ \A n \in 1 .. Len(delivered[l]) : delivered'[l][n] = delivered[l][n]
           /\ \A x \in Learners \ {l} :
                 current_iid'[x] = current_iid[x] /\ delivered'[x] = delivered[x]
PROOF
  <1>1. delivered[l] \in Seq(DeliveredType) /\ current_iid[l] \in Nat
    BY DEF LearnerTypeOK, DeliveredType
  <1>2. CASE Ignored(l, m) \/ Recorded(l, m)
    <2>1. UNCHANGED <<current_iid, delivered>>
      BY <1>2 DEF Ignored, Recorded
    <2>2. Len(delivered[l]) \in Nat
      BY <1>1
    <2>. QED  BY <1>1, <2>1, <2>2
  <1>3. ASSUME NEW a \in Acceptors, NEW k \in 0 .. LEARNER_ARRAY_SIZE,
               Closes(l, m, a, k)
        PROVE  /\ Len(delivered'[l]) \in Nat
               /\ Len(delivered[l]) <= Len(delivered'[l])
               /\ current_iid'[l] - current_iid[l] = Len(delivered'[l]) - Len(delivered[l])
               /\ \A n \in 1 .. Len(delivered[l]) : delivered'[l][n] = delivered[l][n]
    <2>. DEFINE run == [j \in 1 .. k |->
               DeliveredValue(ClosedBuffer(l, m, a)[SlotOf(current_iid[l] + j - 1)])]
    <2>1. run \in Seq(DeliveredType) /\ Len(run) = k
      <3>1. run \in Seq(DeliveredType)
        BY <1>3, DeliveredRunType
      <3>2. DOMAIN run = 1 .. k /\ k \in Nat
        BY LearnerAssumption
      <3>. QED  BY <3>1, <3>2
    <2>2. delivered' = [delivered EXCEPT ![l] = @ \o run]
          /\ current_iid' = [current_iid EXCEPT ![l] = @ + k]
      BY <1>3 DEF Closes, Completes
    <2>. HIDE DEF run
    <2>3. delivered'[l] = delivered[l] \o run /\ current_iid'[l] = current_iid[l] + k
      BY <2>2 DEF LearnerTypeOK
    <2>. QED  BY <1>1, <2>1, <2>3, LearnerAssumption
  <1>4. \A x \in Learners \ {l} :
            current_iid'[x] = current_iid[x] /\ delivered'[x] = delivered[x]
    BY SlotStep
  <1>. QED  BY <1>2, <1>3, <1>4 DEF HandleAcceptAck

LEMMA DeliveredCountStep ==
    ASSUME LearnerTypeOK, DeliveredBelowCurrent, NEW l \in Learners,
           NEW m \in AckMessage, HandleAcceptAck(l, m)
    PROVE  DeliveredBelowCurrent'
PROOF
  <1>1. LearnerTypeOK'
    BY AckTypeStep
  <1>2. /\ current_iid[l] \in Nat /\ current_iid'[l] \in Nat
        /\ Len(delivered[l]) \in Nat /\ Len(delivered'[l]) \in Nat
        /\ Len(delivered[l]) = current_iid[l] - 1
    BY <1>1 DEF LearnerTypeOK, DeliveredBelowCurrent
  <1>3. current_iid'[l] - current_iid[l] = Len(delivered'[l]) - Len(delivered[l])
    BY DeliveryStep
  <1>4. Len(delivered'[l]) = current_iid'[l] - 1
    BY <1>2, <1>3, SMTT(30)
  <1>5. \A x \in Learners \ {l} :
            current_iid'[x] = current_iid[x] /\ delivered'[x] = delivered[x]
    BY DeliveryStep
  <1>. QED  BY <1>4, <1>5 DEF DeliveredBelowCurrent

LEMMA DeliveredCountInit ==
    ASSUME LearnerInit
    PROVE  DeliveredBelowCurrent
BY DEF LearnerInit, DeliveredBelowCurrent

(* A closed instance is left alone or delivered in its place. *)
LEMMA ClosedSlotStep ==
    ASSUME LearnerTypeOK, SlotsInWindow, DeliveredBelowCurrent,
           NEW l \in Learners, NEW m \in AckMessage, HandleAcceptAck(l, m),
           NEW s \in Slots, IsClosed(learner_state[l][s])
    PROVE  \/ learner_state'[l][s] = learner_state[l][s]
           \/ /\ learner_state[l][s].iid \in DOMAIN delivered'[l]
              /\ delivered'[l][learner_state[l][s].iid] =
                    DeliveredValue(learner_state[l][s])
PROOF
  <1>. DEFINE slot == learner_state[l][s]
  <1>1. s = SlotOf(m.iid) => ~ Relevant(SlotFor(l, m), m)
    BY DEF Relevant, SlotFor
  <1>2. CASE Ignored(l, m)
    BY <1>2 DEF Ignored
  <1>3. CASE Recorded(l, m)
    <2>1. s # SlotOf(m.iid)
      BY <1>1, <1>3 DEF Recorded
    <2>. QED  BY <1>3, <2>1 DEF Recorded, LearnerTypeOK
  <1>4. ASSUME NEW a \in Acceptors, NEW k \in 0 .. LEARNER_ARRAY_SIZE,
               Closes(l, m, a, k), learner_state'[l][s] # slot
        PROVE  /\ slot.iid \in DOMAIN delivered'[l]
               /\ delivered'[l][slot.iid] = DeliveredValue(slot)
    <2>. DEFINE run == [j \in 1 .. k |->
               DeliveredValue(ClosedBuffer(l, m, a)[SlotOf(current_iid[l] + j - 1)])]
    <2>1. s # SlotOf(m.iid)
      BY <1>1, <1>4 DEF Closes, Completes
    <2>2. ClosedBuffer(l, m, a)[s] = slot
      BY <1>4, <2>1, ClosedBufferType DEF Closes, Completes
    <2>3. learner_state'[l][s] = IF s \in RunSlots(l, k) THEN EmptySlot
                                 ELSE ClosedBuffer(l, m, a)[s]
      BY <1>4 DEF Closes, Completes, LearnerTypeOK
    <2>4. PICK j \in 0 .. k - 1 : s = SlotOf(current_iid[l] + j)
      BY <1>4, <2>2, <2>3 DEF RunSlots
    <2>5. /\ k \in Nat /\ k <= LEARNER_ARRAY_SIZE /\ j \in Nat /\ j < k
          /\ LEARNER_ARRAY_SIZE \in Nat
          /\ current_iid[l] \in Nat \ {0}
      BY LearnerAssumption DEF LearnerTypeOK
    <2>6. slot.iid = current_iid[l] + j
      <3>1. slot.iid # 0 /\ SlotOf(slot.iid) = s /\ current_iid[l] <= slot.iid
            /\ slot.iid < current_iid[l] + LEARNER_ARRAY_SIZE
        BY EmptySlotType DEF SlotsInWindow
      <3>2. slot.iid \in Nat
        <4>1. slot \in Slot
          BY DEF LearnerTypeOK
        <4>2. slot.iid \in Iids \cup {0}
          BY <4>1 DEF Slot
        <4>3. Iids \cup {0} \subseteq Nat
          BY MessagesAssumption
        <4>. QED  BY <4>2, <4>3
      <3>. HIDE DEF slot
      <3>. QED  BY <2>4, <2>5, <3>1, <3>2, SlotOfInjective
    <2>7. run \in Seq(DeliveredType) /\ Len(run) = k
      <3>1. run \in Seq(DeliveredType)
        BY <1>4, DeliveredRunType
      <3>2. DOMAIN run = 1 .. k
        OBVIOUS
      <3>. QED  BY <2>5, <3>1, <3>2
    <2>8. run[j + 1] = DeliveredValue(slot)
      <3>1. j + 1 \in 1 .. k /\ current_iid[l] + (j + 1) - 1 = current_iid[l] + j
        BY <2>5
      <3>. QED  BY <2>2, <2>4, <3>1
    <2>9. /\ delivered'[l] = delivered[l] \o run
          /\ delivered[l] \in Seq(DeliveredType)
          /\ Len(delivered[l]) = current_iid[l] - 1
      BY <1>4 DEF Closes, Completes, LearnerTypeOK, DeliveredBelowCurrent, DeliveredType
    <2>. HIDE DEF run, slot
    <2>10. /\ j + 1 \in 1 .. Len(run)
           /\ slot.iid = Len(delivered[l]) + (j + 1)
      <3>1. current_iid[l] \in Nat /\ k \in Nat /\ j \in Nat /\ j < k
        BY <2>5, LearnerAssumption DEF LearnerTypeOK
      <3>2. j + 1 \in 1 .. k
        BY <3>1
      <3>3. current_iid[l] + j = (current_iid[l] - 1) + (j + 1)
        BY <3>1
      <3>. QED  BY <2>6, <2>7, <2>9, <3>2, <3>3
    <2>. QED  BY <2>7, <2>8, <2>9, <2>10, ConcatLookup
  <1>. QED  BY <1>2, <1>3, <1>4 DEF HandleAcceptAck

-----------------------------------------------------------------------------
(* LearnerAlone: any acknowledgement at any time.                           *)

(* The acknowledgements of LearnerAlone are well formed. *)
LEMMA SomeAckType == SomeAck \subseteq AckMessage
BY DEF SomeAck

(* The inductive invariant holds in every behaviour of a learner any
   acknowledgement can reach, for any buffer size, acceptors and ballots. *)
THEOREM LearnerCorrect == LearnerAloneSpec => []LearnerInv
PROOF
  <1>1. LearnerAloneInit => LearnerInv
    BY LearnerInitInv DEF LearnerAloneInit
  <1>2. LearnerInv /\ [LearnerAloneNext]_learnerAloneVars => LearnerInv'
    <2>. SUFFICES ASSUME LearnerInv, [LearnerAloneNext]_learnerAloneVars PROVE LearnerInv'
      OBVIOUS
    <2>1. ASSUME NEW l \in Learners, ReceiveSomeAck(l)
          PROVE  LearnerInv'
      <3>1. PICK m \in SomeAck : HandleAcceptAck(l, m)
        BY <2>1 DEF ReceiveSomeAck
      <3>2. m \in AckMessage
        BY <3>1, SomeAckType
      <3>. QED  BY <3>1, <3>2, LearnerStepInv
    <2>2. CASE UNCHANGED learnerAloneVars
      <3>. USE <2>2 DEF learnerAloneVars, learnerVars
      <3>1. LearnerTypeOK' /\ SlotsInWindow'
        BY DEF LearnerInv, LearnerTypeOK, SlotsInWindow
      <3>2. NoMissedQuorum' /\ ClosedOnEvidence'
        BY DEF LearnerInv, NoMissedQuorum, ClosedOnEvidence
      <3>3. NothingHeldBack' /\ ClosedBelowHighest'
        BY DEF LearnerInv, NothingHeldBack, LearnerIsClosed, ClosedBelowHighest
      <3>. QED  BY <3>1, <3>2, <3>3 DEF LearnerInv
    <2>. QED  BY <2>1, <2>2 DEF LearnerAloneNext
  <1>. QED  BY <1>1, <1>2, PTL DEF LearnerAloneSpec

(* The learner's counters and slots keep their shape, whatever is acknowledged. *)
THEOREM LearnerTypeCorrect == LearnerAloneSpec => []LearnerTypeOK
PROOF
  <1>1. LearnerInv => LearnerTypeOK
    BY DEF LearnerInv
  <1>. QED  BY <1>1, LearnerCorrect, PTL

(* The circular buffer of handle_accept_ack never confuses two instances: the
   assertions of lea_update_state and lea_deliver_next_closed never fail. *)
THEOREM SlotsInWindowCorrect == LearnerAloneSpec => []SlotsInWindow
PROOF
  <1>1. LearnerInv => SlotsInWindow
    BY DEF LearnerInv
  <1>. QED  BY <1>1, LearnerCorrect, PTL

(* lea_check_quorum misses no quorum although it counts one ballot only. *)
THEOREM NoMissedQuorumCorrect == LearnerAloneSpec => []NoMissedQuorum
PROOF
  <1>1. LearnerInv => NoMissedQuorum
    BY DEF LearnerInv
  <1>. QED  BY <1>1, LearnerCorrect, PTL

(* An instance closes on a quorum at one ballot or on a final acknowledgement,
   with the value of one of the acknowledgements that closed it. *)
THEOREM ClosedOnEvidenceCorrect == LearnerAloneSpec => []ClosedOnEvidence
PROOF
  <1>1. LearnerInv => ClosedOnEvidence
    BY DEF LearnerInv
  <1>. QED  BY <1>1, LearnerCorrect, PTL

(* Between two messages the current instance is open. *)
THEOREM NothingHeldBackCorrect == LearnerAloneSpec => []NothingHeldBack
PROOF
  <1>1. LearnerInv => NothingHeldBack
    BY DEF LearnerInv
  <1>. QED  BY <1>1, LearnerCorrect, PTL

(* lea_hole_check sees every hole that holds a closed instance back. *)
THEOREM HoleIsVisibleCorrect == LearnerAloneSpec => []HoleIsVisible
PROOF
  <1>1. LearnerInv => HoleIsVisible
    BY HoleFollows
  <1>. QED  BY <1>1, LearnerCorrect, PTL

(* current_iid is one more than the number of values delivered: instance numbers
   and positions in the order are the same thing. *)
THEOREM DeliveredBelowCurrentCorrect == LearnerAloneSpec => []DeliveredBelowCurrent
PROOF
  <1>1. LearnerAloneInit => DeliveredBelowCurrent
    BY DeliveredCountInit DEF LearnerAloneInit
  <1>2. LearnerInv /\ DeliveredBelowCurrent /\ [LearnerAloneNext]_learnerAloneVars => DeliveredBelowCurrent'
    <2>. SUFFICES ASSUME LearnerInv, DeliveredBelowCurrent, [LearnerAloneNext]_learnerAloneVars
                  PROVE  DeliveredBelowCurrent'
      OBVIOUS
    <2>1. ASSUME NEW l \in Learners, ReceiveSomeAck(l)
          PROVE  DeliveredBelowCurrent'
      <3>1. PICK m \in SomeAck : HandleAcceptAck(l, m)
        BY <2>1 DEF ReceiveSomeAck
      <3>. QED  BY <3>1, SomeAckType, DeliveredCountStep DEF LearnerInv
    <2>2. CASE UNCHANGED learnerAloneVars
      BY <2>2 DEF learnerAloneVars, learnerVars, DeliveredBelowCurrent
    <2>. QED  BY <2>1, <2>2 DEF LearnerAloneNext
  <1>. QED  BY <1>1, <1>2, LearnerCorrect, PTL DEF LearnerAloneSpec

(* A closed instance changes no more until the deliver callback gets it, in its
   place and with the value it closed with. *)
THEOREM ClosedIsDeliveredCorrect == LearnerAloneSpec => ClosedIsDelivered
PROOF
  <1>1. LearnerInv /\ DeliveredBelowCurrent /\ [LearnerAloneNext]_learnerAloneVars =>
           [\A l \in Learners, s \in Slots :
              LET slot == learner_state[l][s]
              IN IsClosed(slot) =>
                    \/ learner_state'[l][s] = slot
                    \/ /\ slot.iid \in DOMAIN delivered'[l]
                       /\ delivered'[l][slot.iid] = DeliveredValue(slot)]_learnerVars
    <2>. SUFFICES ASSUME LearnerInv, DeliveredBelowCurrent, LearnerAloneNext,
                         NEW l \in Learners, NEW s \in Slots,
                         IsClosed(learner_state[l][s]),
                         learner_state'[l][s] # learner_state[l][s]
                  PROVE  /\ learner_state[l][s].iid \in DOMAIN delivered'[l]
                         /\ delivered'[l][learner_state[l][s].iid] =
                               DeliveredValue(learner_state[l][s])
      BY DEF learnerAloneVars, learnerVars
    <2>1. PICK x \in Learners, m \in SomeAck : HandleAcceptAck(x, m)
      BY DEF LearnerAloneNext, ReceiveSomeAck
    <2>2. m \in AckMessage /\ LearnerTypeOK /\ SlotsInWindow
      BY SomeAckType DEF LearnerInv
    <2>3. x = l
      BY <2>1, <2>2, SlotStep
    <2>. QED  BY <2>1, <2>2, <2>3, ClosedSlotStep
  <1>. QED
    BY <1>1, LearnerCorrect, DeliveredBelowCurrentCorrect, PTL
       DEF LearnerAloneSpec, ClosedIsDelivered

=============================================================================
