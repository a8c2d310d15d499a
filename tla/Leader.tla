------------------------------- MODULE Leader -------------------------------
(***************************************************************************)
(* The proposer (lib/proposer.c, lib/proposer_leader.c) and its list of    *)
(* pending client values (lib/proposer_values_handler.c).  A proposer that *)
(* is the leader keeps a window of instances open: phase 1 is run in       *)
(* advance on instances no value is known for yet, phase 2 on the oldest   *)
(* ones as values arrive, both with timeouts, and an instance leaves the   *)
(* window when the learner of this process delivers it.                    *)
(*                                                                         *)
(* The record leader[p] is the static state of process p.  Each C function *)
(* that changes it is an operator from such a record to the next one; the  *)
(* event handlers compose them in the order the code calls them.           *)
(***************************************************************************)
EXTENDS PaxosMessages, Integers, Sequences

CONSTANTS
    Proposers,                \* proposer identifiers
    MAX_N_OF_PROPOSERS,       \* identifiers are below it
    PROPOSER_ARRAY_SIZE,      \* slots of the circular buffer, a power of two
    PROPOSER_PREEXEC_WIN_SIZE,
    PROPOSER_P2_CONCURRENCY,
    LEADER_MAX_QUEUE_LENGTH,
    MayExpire                 \* bound: the instances whose deadlines may pass

ASSUME LeaderAssumption ==
    /\ MAX_N_OF_PROPOSERS \in Nat \ {0}
    /\ Proposers \subseteq 0 .. MAX_N_OF_PROPOSERS - 1
    /\ PROPOSER_PREEXEC_WIN_SIZE \in Nat \ {0}
    /\ PROPOSER_ARRAY_SIZE \in Nat \ {0}
    /\ PROPOSER_PREEXEC_WIN_SIZE < PROPOSER_ARRAY_SIZE
    /\ PROPOSER_P2_CONCURRENCY \in Nat \ {0}
    /\ LEADER_MAX_QUEUE_LENGTH \in Nat
    /\ \A p \in Proposers : MAX_N_OF_PROPOSERS + p \in Ballots
    /\ \A i \in Iids : 1 .. i \subseteq Iids

VARIABLES
    current_leader_id,  \* per proposer: who it takes for the leader
    leader              \* per proposer: its window, counters and pending list

leaderVars == <<current_leader_id, leader>>

LEADER_IS_ME(p) == current_leader_id[p] = p

FIRST_BALLOT(p) == MAX_N_OF_PROPOSERS + p
NEXT_BALLOT(b)  == b + MAX_N_OF_PROPOSERS

-----------------------------------------------------------------------------
(* The circular buffer of instances.                                        *)

ProposerSlots == 0 .. PROPOSER_ARRAY_SIZE - 1

\* GET_PRO_INSTANCE: the size is a power of two.
ProposerSlot(i) == i % PROPOSER_ARRAY_SIZE
Instance(L, i)  == L.proposer_state[ProposerSlot(i)]

\* pro_clear_instance_info.  promises_bitvector is left out: with (1<acceptor_id)
\* for a mask and &= to set it, it is 0 for ever and no promise is a duplicate.
EmptyInstance ==
    [iid |-> 0, status |-> "empty", my_ballot |-> 0, promises_count |-> 0,
     p1_value |-> NoValue, p1_value_ballot |-> 0, p2_value |-> NoValue]

Status == {"empty", "p1_pending", "p1_ready", "p2_pending", "p2_completed"}

InstanceInfo ==
    [iid : Iids \cup {0}, status : Status, my_ballot : Ballots \cup {0},
     promises_count : Nat,
     p1_value : Values \cup {NoValue}, p1_value_ballot : Ballots \cup {0},
     p2_value : Values \cup {NoValue}]

LeaderInfo ==
    [current_iid : Nat \ {0},
     proposer_state : [ProposerSlots -> InstanceInfo],
     pending_count : Int, ready_count : Int, highest_open : Nat,
     next_unused_iid : Nat, open_count : Int,
     pending_list : Seq(Values)]

\* The window with the slots of some instances changed, each by f.
Changed(L, iids, f(_, _)) ==
    [s \in ProposerSlots |->
        IF \E i \in iids : ProposerSlot(i) = s
        THEN f(CHOOSE i \in iids : ProposerSlot(i) = s, L.proposer_state[s])
        ELSE L.proposer_state[s]]

\* The batches the send buffer flushes: none if nothing was added.
PrepareReqs(L, iids) ==
    IF iids = {} THEN {}
    ELSE {[type |-> "prepare_reqs",
           reqs |-> {[iid |-> i, ballot |-> Instance(L, i).my_ballot] : i \in iids}]}

AcceptReqs(L, iids) ==
    IF iids = {} THEN {}
    ELSE {[type |-> "accept_reqs",
           reqs |-> {[iid |-> i, ballot |-> Instance(L, i).my_ballot,
                      value |-> Instance(L, i).p2_value] : i \in iids}]}

-----------------------------------------------------------------------------
(* Phase 1.                                                                 *)

\* leader_check_p1_pending: the pending instances of the window; which of them
\* are expired is up to the clock.
Pending(L) ==
    {i \in L.current_iid .. L.highest_open : Instance(L, i).status = "p1_pending"}

\* The bounds of the model: which deadlines pass, and the ballots reached.
CanRetry(L, i) ==
    /\ i \in MayExpire
    /\ NEXT_BALLOT(Instance(L, i).my_ballot) \in Ballots

CheckP1Pending(L, expired) ==
    LET retry(i, ii) ==
            [ii EXCEPT !.promises_count = 0, !.p1_value_ballot = 0,
                       !.p1_value = NoValue, !.my_ballot = NEXT_BALLOT(@)]
    IN [L EXCEPT !.proposer_state = Changed(L, expired, retry)]

\* leader_open_instances_p1: the instances it opens, the bound of the model
\* being Iids.
ToOpen(L) ==
    LET active_count == L.pending_count + L.ready_count
        to_open == PROPOSER_PREEXEC_WIN_SIZE - active_count
    IN IF active_count >= PROPOSER_PREEXEC_WIN_SIZE \div 2 THEN {}
       ELSE (L.highest_open + 1 .. L.highest_open + to_open) \cap Iids

OpenInstancesP1(p, L) ==
    LET open(i, ii) ==
            [ii EXCEPT !.iid = i, !.status = "p1_pending",
                       !.my_ballot = FIRST_BALLOT(p)]
    IN [L EXCEPT !.proposer_state = Changed(L, ToOpen(L), open),
                 !.pending_count = @ + Cardinality(ToOpen(L)),
                 !.highest_open = @ + Cardinality(ToOpen(L))]

-----------------------------------------------------------------------------
(* Phase 2.                                                                 *)

\* Variant: a value assigned before is forgotten.
ExecuteP2Afresh(ii, next) ==
    [ii EXCEPT
        !.status = "p2_pending",
        !.p2_value = IF ii.p1_value # NoValue THEN ii.p1_value
                     ELSE next,
        !.p1_value = NoValue,
        !.p1_value_ballot = IF ii.p1_value # NoValue THEN 0 ELSE @]

\* leader_execute_p2; next is what vh_get_next_pending returns if it is called.
\* A value found in phase 1 replaces the one assigned before.
ExecuteP2(ii, next) ==
    [ii EXCEPT
        !.status = "p2_pending",
        !.p2_value = IF ii.p1_value # NoValue THEN ii.p1_value
                     ELSE IF ii.p2_value # NoValue THEN ii.p2_value
                     ELSE next,
        !.p1_value = NoValue,
        !.p1_value_ballot = IF ii.p1_value # NoValue THEN 0 ELSE @]

\* leader_open_instances_p2_expired: instances that went through phase 1 again.
ExpiredReady(L) ==
    {i \in L.current_iid .. L.next_unused_iid - 1 : Instance(L, i).status = "p1_ready"}

\* Variant: the counter is left alone.
OpenInstancesP2ExpiredUncounted(L) ==
    LET execute(i, ii) == ExecuteP2(ii, NoValue)
    IN [L EXCEPT !.proposer_state = Changed(L, ExpiredReady(L), execute)]

OpenInstancesP2Expired(L) ==
    LET execute(i, ii) == ExecuteP2(ii, NoValue)
    IN [L EXCEPT !.proposer_state = Changed(L, ExpiredReady(L), execute),
                 !.ready_count = @ - Cardinality(ExpiredReady(L))]

\* leader_open_instances_p2_new walks from next_unused_iid on; the j-th instance
\* of the walk takes its value from the list if phase 1 found none.
NoValueFound(L, j) == Instance(L, L.next_unused_iid + j).p1_value = NoValue

TakenBefore(L, j) == Cardinality({n \in 0 .. j - 1 : NoValueFound(L, n)})

CanStart(L, j) ==
    /\ L.open_count + j <= PROPOSER_P2_CONCURRENCY
    /\ NoValueFound(L, j) => TakenBefore(L, j) < Len(L.pending_list)
    /\ Instance(L, L.next_unused_iid + j).status = "p1_ready"
    /\ Instance(L, L.next_unused_iid + j).iid = L.next_unused_iid + j

\* open_count is unsigned: below zero it is above every threshold.
ManyActive(L) ==
    \/ L.open_count > (PROPOSER_P2_CONCURRENCY \div 3) * 2
    \/ L.open_count < 0

StartCount(L) ==
    IF ManyActive(L) THEN 0
    ELSE CHOOSE k \in 0 .. PROPOSER_P2_CONCURRENCY + 1 :
            /\ \A j \in 0 .. k - 1 : CanStart(L, j)
            /\ ~ CanStart(L, k)

Started(L) == {L.next_unused_iid + j : j \in 0 .. StartCount(L) - 1}

OpenInstancesP2New(L) ==
    LET execute(i, ii) ==
            ExecuteP2(ii, IF ii.p1_value = NoValue
                          THEN L.pending_list[TakenBefore(L, i - L.next_unused_iid) + 1]
                          ELSE NoValue)
        k == StartCount(L)
    IN [L EXCEPT !.proposer_state = Changed(L, Started(L), execute),
                 !.next_unused_iid = @ + k,
                 !.ready_count = @ - k,
                 !.open_count = @ + k,
                 !.pending_list = SubSeq(@, TakenBefore(L, k) + 1, Len(@))]

\* leader_periodic_p2_check, up to its call of leader_open_instances_p2_new.
\* closed holds the instances for which learner_is_closed.
Running(L) ==
    {i \in L.current_iid .. L.next_unused_iid - 1 : Instance(L, i).status = "p2_pending"}

\* Variant: an instance that goes back to phase 1 is not counted.
CheckP2Uncounted(L, closed, expired) ==
    LET settle(i, ii) ==
            IF i \in closed
            THEN [ii EXCEPT !.status = "p2_completed"]
            ELSE [ii EXCEPT !.status = "p1_pending", !.my_ballot = NEXT_BALLOT(@)]
    IN [L EXCEPT !.proposer_state = Changed(L, closed \cup expired, settle),
                 !.open_count = @ - Cardinality(closed)]

\* Variant: an instance that goes back to phase 1 is no longer counted as open.
CheckP2LowersOpen(L, closed, expired) ==
    LET settle(i, ii) ==
            IF i \in closed
            THEN [ii EXCEPT !.status = "p2_completed"]
            ELSE [ii EXCEPT !.status = "p1_pending", !.my_ballot = NEXT_BALLOT(@)]
    IN [L EXCEPT !.proposer_state = Changed(L, closed \cup expired, settle),
                 !.open_count = @ - Cardinality(closed \cup expired),
                 !.pending_count = @ + Cardinality(expired)]

CheckP2(L, closed, expired) ==
    LET settle(i, ii) ==
            IF i \in closed
            THEN [ii EXCEPT !.status = "p2_completed"]
            ELSE [ii EXCEPT !.status = "p1_pending", !.my_ballot = NEXT_BALLOT(@)]
    IN [L EXCEPT !.proposer_state = Changed(L, closed \cup expired, settle),
                 !.open_count = @ - Cardinality(closed),
                 !.pending_count = @ + Cardinality(expired)]

-----------------------------------------------------------------------------
(* Promises.                                                                *)

\* pro_save_prepare_ack; every promise counts as new.
SavePrepareAck(ii, pa) ==
    LET found == pa.value # NoValue /\ pa.value_ballot > ii.p1_value_ballot
    IN [ii EXCEPT !.promises_count = @ + 1,
                  !.p1_value = IF found THEN pa.value ELSE @,
                  !.p1_value_ballot = IF found THEN pa.value_ballot ELSE @]

\* handle_prepare_ack accepts the promise: the slot is looked up by pa.iid, and
\* only its status and ballot are compared.
AcceptsPromise(L, pa) ==
    /\ Instance(L, pa.iid).status = "p1_pending"
    /\ Instance(L, pa.iid).my_ballot = pa.ballot

HandlePrepareAck(ii, pa) ==
    LET saved == SavePrepareAck(ii, pa)
    IN [saved EXCEPT !.status = IF saved.promises_count < QUORUM THEN @ ELSE "p1_ready"]

AcceptedPromises(L, acks) == {pa \in acks : AcceptsPromise(L, pa)}

\* The instances a batch of promises makes ready.
MadeReady(L, acks) ==
    {pa \in AcceptedPromises(L, acks) :
        HandlePrepareAck(Instance(L, pa.iid), pa).status = "p1_ready"}

AfterPromises(L, acks) ==
    LET save(i, ii) ==
            HandlePrepareAck(ii, CHOOSE pa \in AcceptedPromises(L, acks) : pa.iid = i)
    IN [L EXCEPT
          !.proposer_state = Changed(L, {pa.iid : pa \in AcceptedPromises(L, acks)}, save),
          !.pending_count = @ - Cardinality(MadeReady(L, acks)),
          !.ready_count = @ + Cardinality(MadeReady(L, acks))]

-----------------------------------------------------------------------------
(* Delivery.                                                                *)

\* leader_deliver, up to its call of leader_open_instances_p2_new: value v of
\* instance i is delivered.  The instance may be one this proposer gave a value
\* to, and that value may be another one.
OpenedByMe(ii) ==
    \/ ii.status \in {"p1_pending", "p1_ready"} /\ ii.p2_value # NoValue
    \/ ii.status = "p2_pending"

NotOpened(L, i) == Instance(L, i).iid # i

\* Variant: a value is pushed back whatever was delivered.
CloseInstancePushesBack(L, i, v) ==
    LET ii == Instance(L, i)
        clear(j, jj) == EmptyInstance
    IN [L EXCEPT
          !.proposer_state = Changed(L, {i}, clear),
          !.pending_count = IF ii.status = "p1_pending" THEN @ - 1 ELSE @,
          !.next_unused_iid = IF @ = i THEN @ + 1 ELSE @,
          !.open_count = IF OpenedByMe(ii) THEN @ - 1 ELSE @,
          !.pending_list = IF ii.p2_value \notin {NoValue}
                           THEN <<ii.p2_value>> \o @ ELSE @]

\* Variant: the instance stays counted as open.
CloseInstanceStaysOpen(L, i, v) ==
    LET ii == Instance(L, i)
        clear(j, jj) == EmptyInstance
    IN [L EXCEPT
          !.proposer_state = Changed(L, {i}, clear),
          !.pending_count = IF ii.status = "p1_pending" THEN @ - 1 ELSE @,
          !.next_unused_iid = IF @ = i THEN @ + 1 ELSE @,
          !.pending_list = IF ii.p2_value \notin {NoValue, v}
                           THEN <<ii.p2_value>> \o @ ELSE @]

\* Variant: ready_count is lowered too, also for an instance in phase 2.
CloseInstanceLowersReady(L, i, v) ==
    LET ii == Instance(L, i)
        clear(j, jj) == EmptyInstance
    IN [L EXCEPT
          !.proposer_state = Changed(L, {i}, clear),
          !.pending_count = IF ii.status = "p1_pending" THEN @ - 1 ELSE @,
          !.ready_count = IF ii.status \in {"p1_ready", "p2_pending"} THEN @ - 1 ELSE @,
          !.next_unused_iid = IF @ = i THEN @ + 1 ELSE @,
          !.open_count = IF OpenedByMe(ii) THEN @ - 1 ELSE @,
          !.pending_list = IF ii.p2_value \notin {NoValue, v}
                           THEN <<ii.p2_value>> \o @ ELSE @]

CloseInstance(L, i, v) ==
    LET ii == Instance(L, i)
        clear(j, jj) == EmptyInstance
    IN [L EXCEPT
          !.proposer_state = Changed(L, {i}, clear),
          !.pending_count = IF ii.status = "p1_pending" THEN @ - 1 ELSE @,
          !.next_unused_iid = IF @ = i THEN @ + 1 ELSE @,
          !.open_count = IF OpenedByMe(ii) THEN @ - 1 ELSE @,
          !.pending_list = IF ii.p2_value \notin {NoValue, v}
                           THEN <<ii.p2_value>> \o @ ELSE @]

\* Variant: only the leader keeps current_iid.
DeliveredWhenLeading(L, me, i, v) ==
    IF ~ me THEN L
    ELSE IF NotOpened(L, i) THEN [L EXCEPT !.current_iid = i + 1]
    ELSE [OpenInstancesP2New(CloseInstance(L, i, v)) EXCEPT !.current_iid = i + 1]

\* pro_deliver_callback, and the accept requests it sends.
Delivered(L, me, i, v) ==
    [(IF ~ me \/ NotOpened(L, i) THEN L
      ELSE OpenInstancesP2New(CloseInstance(L, i, v)))
        EXCEPT !.current_iid = i + 1]

SentOnDelivery(L, me, i, v) ==
    IF ~ me \/ NotOpened(L, i) THEN {}
    ELSE AcceptReqs(Delivered(L, me, i, v), Started(CloseInstance(L, i, v)))

\* The learner delivers the values vs one after the other, in one event.
AfterRun(L, me, vs) ==
    LET run[n \in 0 .. Len(vs)] ==
            IF n = 0 THEN [info |-> L, sent |-> {}]
            ELSE LET before == run[n - 1]
                     i == before.info.current_iid
                 IN [info |-> Delivered(before.info, me, i, vs[n]),
                     sent |-> before.sent \cup SentOnDelivery(before.info, me, i, vs[n])]
    IN run[Len(vs)]

-----------------------------------------------------------------------------
(* Becoming leader and stepping down.                                       *)

\* Variant: a new leader keeps its counters.
PromotedKeepsCounts(p, L) ==
    OpenInstancesP1(p, [L EXCEPT !.pending_list = <<>>, !.highest_open = L.current_iid - 1,
                                 !.next_unused_iid = L.current_iid, !.open_count = 0])

\* leader_init: the list and the counters start from nothing; the window opens
\* at the current instance.
Promoted(p, L) ==
    OpenInstancesP1(p, [L EXCEPT !.pending_list = <<>>, !.pending_count = 0,
                                 !.ready_count = 0, !.highest_open = L.current_iid - 1,
                                 !.next_unused_iid = L.current_iid, !.open_count = 0])

\* Variant: the window is left as it is.
SteppedDownKeepsWindow(L) == [L EXCEPT !.pending_list = <<>>]

\* leader_shutdown: the values of the window go back to the list, the window is
\* cleared, and vh_shutdown empties the list.
SteppedDown(L) ==
    LET clear(i, ii) == EmptyInstance
    IN [L EXCEPT !.proposer_state =
                     Changed(L, L.current_iid .. L.highest_open, clear),
                 !.pending_list = <<>>]

-----------------------------------------------------------------------------
(* The event handlers of process p.                                         *)

\* leader_periodic_p1_check
PeriodicP1Check(p) ==
    /\ LEADER_IS_ME(p)
    /\ \E expired \in SUBSET {i \in Pending(leader[p]) : CanRetry(leader[p], i)} :
          LET retried == CheckP1Pending(leader[p], expired)
          IN /\ leader' = [leader EXCEPT ![p] = OpenInstancesP1(p, retried)]
             /\ Send(PrepareReqs(retried, expired)
                     \cup PrepareReqs(OpenInstancesP1(p, retried), ToOpen(retried)))
    /\ UNCHANGED current_leader_id

\* leader_periodic_p2_check; is_closed holds the instances learner_is_closed.
PeriodicP2Check(p, is_closed) ==
    LET closed == Running(leader[p]) \cap is_closed
    IN /\ LEADER_IS_ME(p)
       /\ \E expired \in SUBSET {i \in Running(leader[p]) \ is_closed :
                                     CanRetry(leader[p], i)} :
          \E checked \in {CheckP2(leader[p], closed, expired)} :
          \E opened \in {OpenInstancesP2New(checked)} :
             /\ leader' = [leader EXCEPT ![p] = opened]
             /\ Send(PrepareReqs(checked, expired)
                     \cup AcceptReqs(opened, Started(checked)))
       /\ UNCHANGED current_leader_id

\* handle_prepare_ack_batch
HandlePrepareAckBatch(p, m) ==
    /\ LEADER_IS_ME(p)
    /\ IF MadeReady(leader[p], m.acks) = {}
       THEN /\ leader' = [leader EXCEPT ![p] = AfterPromises(@, m.acks)]
            /\ UNCHANGED msgs
       ELSE \E promised \in {AfterPromises(leader[p], m.acks)} :
            \E expired \in {OpenInstancesP2Expired(promised)} :
            \E opened \in {OpenInstancesP2New(expired)} :
               /\ leader' = [leader EXCEPT ![p] = opened]
               /\ Send(AcceptReqs(expired, ExpiredReady(promised))
                       \cup AcceptReqs(opened, Started(expired)))
    /\ UNCHANGED current_leader_id

\* pro_deliver_callback, once per delivered value
DeliverCallbacks(p, vs) ==
    /\ \E after \in {AfterRun(leader[p], LEADER_IS_ME(p), vs)} :
          /\ leader' = [leader EXCEPT ![p] = after.info]
          /\ Send(after.sent)
    /\ UNCHANGED current_leader_id

\* vh_enqueue_value, on a submit datagram (only the leader listens) or on
\* pax_submit_sharedmem (any proposer).
EnqueueValue(p, v) ==
    /\ leader' = [leader EXCEPT ![p].pending_list =
                     IF Len(@) > LEADER_MAX_QUEUE_LENGTH THEN @ ELSE Append(@, v)]
    /\ UNCHANGED <<msgs, current_leader_id>>

\* pro_handle_oracle_msg: the oracle announces leader id.
HandleOracleMsg(p, id) ==
    /\ current_leader_id' = [current_leader_id EXCEPT ![p] = id]
    /\ IF LEADER_IS_ME(p) /\ id # p
       THEN /\ leader' = [leader EXCEPT ![p] = SteppedDown(@)]
            /\ UNCHANGED msgs
       ELSE IF ~ LEADER_IS_ME(p) /\ id = p
       THEN /\ leader' = [leader EXCEPT ![p] = Promoted(p, @)]
            /\ Send(PrepareReqs(leader'[p],
                                leader[p].current_iid .. leader'[p].highest_open))
       ELSE UNCHANGED <<leader, msgs>>

\* init_proposer: proposer 0 starts as leader, and leader_init opens its window.
InitialInfo ==
    [current_iid |-> 1, proposer_state |-> [s \in ProposerSlots |-> EmptyInstance],
     pending_count |-> 0, ready_count |-> 0, highest_open |-> 0,
     next_unused_iid |-> 0, open_count |-> 0, pending_list |-> <<>>]

LeaderInit ==
    /\ current_leader_id = [p \in Proposers |-> 0]
    /\ leader = [p \in Proposers |->
                    IF p = 0 THEN Promoted(p, InitialInfo) ELSE InitialInfo]

\* What leader_init sends at the start.
FirstPrepares ==
    UNION {PrepareReqs(leader[p], 1 .. leader[p].highest_open) : p \in Proposers}

=============================================================================
