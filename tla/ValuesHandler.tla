--------------------------- MODULE ValuesHandler ----------------------------
(***************************************************************************)
(* The list of pending client values (lib/proposer_values_handler.c) and   *)
(* the two threads that use it.  The application thread appends to it      *)
(* (pax_submit_sharedmem); the event loop of the proposer appends, takes   *)
(* from it and pushes back to it, all under pending_list_lock, and resets  *)
(* it in vh_init WITHOUT the lock.                                         *)
(*                                                                         *)
(* Only vh_init can interleave with the inside of a locked section, and it *)
(* runs in the loop: so the loop's own sections are single steps, the      *)
(* application's is a step per statement, and the stores of vh_init, which *)
(* nothing orders for another thread, happen in any order.                 *)
(***************************************************************************)
EXTENDS Integers, FiniteSets, Sequences

CONSTANTS
    Wrappers,                \* the memory vh_value_wrappers are allocated in
    NULL,
    LEADER_MAX_QUEUE_LENGTH,
    MaxPromotions            \* bound on promotions after the start

ASSUME ValuesHandlerAssumption ==
    /\ IsFiniteSet(Wrappers) /\ NULL \notin Wrappers
    /\ LEADER_MAX_QUEUE_LENGTH \in Nat
    /\ MaxPromotions \in Nat

VARIABLES
    vh_list_size, vh_list_head, vh_list_tail,
    next,        \* per wrapper
    allocated,   \* wrappers that are not free
    assigned,    \* wrappers that are the p2_value of an instance
    submit_pc,   \* where vh_enqueue_value of the application thread is
    new_vw,      \* its wrapper
    size_read,   \* its copy of vh_list_size
    loop_pc,     \* what the event loop does with the list
    resetting,   \* the stores of vh_init still to happen
    leading,     \* LEADER_IS_ME
    promotions,  \* history: how often this proposer was promoted
    overlapped,  \* history: the last vh_init overlapped with a submission
    aborted      \* an assertion failed or NULL was dereferenced

headVars  == <<vh_list_head, vh_list_tail>>
listVars  == <<vh_list_size, headVars, next>>
submitVars == <<submit_pc, new_vw, size_read>>
leaderVars == <<loop_pc, resetting, leading, promotions>>
valuesVars == <<listVars, allocated, assigned, submitVars, leaderVars, overlapped, aborted>>

\* The lock is not held; the sections of the loop are single steps.
Unlocked == submit_pc = "idle"

\* "List is empty"
IsEmptyList == vh_list_head = NULL /\ vh_list_tail = NULL

TooLong == vh_list_size > LEADER_MAX_QUEUE_LENGTH

\* vh_wrap_value; which memory malloc returns does not matter.
FreeWrapper == CHOOSE w \in Wrappers : w \notin allocated

\* The bound of the model: a value is only submitted while memory is left.
MemoryLeft == Wrappers \ allocated # {}

Abort ==
    /\ aborted' = TRUE
    /\ UNCHANGED <<listVars, allocated, assigned, submitVars, leaderVars, overlapped>>

-----------------------------------------------------------------------------
(* vh_enqueue_value in the application thread.                              *)

\* pthread_mutex_lock
SubmitSharedmem ==
    /\ Unlocked /\ MemoryLeft
    /\ submit_pc' = "size"
    /\ overlapped' = (overlapped \/ resetting # {})
    /\ UNCHANGED <<listVars, allocated, assigned, new_vw, size_read, leaderVars, aborted>>

\* The value is dropped, or gets a wrapper; neither shows outside the lock.
TestSize ==
    /\ submit_pc = "size"
    /\ IF TooLong
       THEN submit_pc' = "idle" /\ UNCHANGED <<allocated, next, new_vw>>
       ELSE /\ submit_pc' = "empty"
            /\ new_vw' = FreeWrapper
            /\ allocated' = allocated \cup {FreeWrapper}
            /\ next' = [next EXCEPT ![FreeWrapper] = NULL]
    /\ UNCHANGED <<vh_list_size, headVars, assigned, size_read, leaderVars,
                   overlapped, aborted>>

\* Steps that change one variable of the list, or read it, and go on at pc.
SubmitGoesOn(pc) ==
    /\ submit_pc' = pc
    /\ UNCHANGED <<allocated, assigned, leaderVars, overlapped, aborted>>

TestEmpty ==
    /\ submit_pc = "empty"
    /\ SubmitGoesOn(IF IsEmptyList THEN "first_head" ELSE "link_next")
    /\ UNCHANGED <<listVars, new_vw, size_read>>

FirstHead ==
    /\ submit_pc = "first_head"
    /\ vh_list_head' = new_vw
    /\ SubmitGoesOn("first_tail")
    /\ UNCHANGED <<vh_list_size, vh_list_tail, next, new_vw, size_read>>

FirstTail ==
    /\ submit_pc = "first_tail"
    /\ vh_list_tail' = new_vw
    /\ SubmitGoesOn("first_size")
    /\ UNCHANGED <<vh_list_size, vh_list_head, next, new_vw, size_read>>

\* and the lock is released
FirstSize ==
    /\ submit_pc = "first_size"
    /\ vh_list_size' = 1
    /\ new_vw' = NULL
    /\ SubmitGoesOn("idle")
    /\ UNCHANGED <<headVars, next, size_read>>

LinkNext ==
    /\ submit_pc = "link_next"
    /\ IF vh_list_tail = NULL
       THEN Abort
       ELSE /\ next' = [next EXCEPT ![vh_list_tail] = new_vw]
            /\ SubmitGoesOn("link_tail")
            /\ UNCHANGED <<vh_list_size, headVars, new_vw, size_read>>

LinkTail ==
    /\ submit_pc = "link_tail"
    /\ vh_list_tail' = new_vw
    /\ SubmitGoesOn("link_read")
    /\ UNCHANGED <<vh_list_size, vh_list_head, next, new_vw, size_read>>

\* vh_list_size += 1 is a load and a store.
LinkRead ==
    /\ submit_pc = "link_read"
    /\ size_read' = vh_list_size
    /\ SubmitGoesOn("link_size")
    /\ UNCHANGED <<listVars, new_vw>>

\* and the lock is released
LinkSize ==
    /\ submit_pc = "link_size"
    /\ vh_list_size' = size_read + 1
    /\ size_read' = 0
    /\ new_vw' = NULL
    /\ SubmitGoesOn("idle")
    /\ UNCHANGED <<headVars, next>>

SubmitStep ==
    \/ SubmitSharedmem \/ TestSize \/ TestEmpty
    \/ FirstHead \/ FirstTail \/ FirstSize
    \/ LinkNext \/ LinkTail \/ LinkRead \/ LinkSize

-----------------------------------------------------------------------------
(* The list operations of the event loop, each under the lock.              *)

\* vh_enqueue_value, for a submit datagram
Enqueue(w) ==
    /\ allocated' = allocated \cup {w}
    /\ next' = IF IsEmptyList THEN [next EXCEPT ![w] = NULL]
               ELSE [next EXCEPT ![w] = NULL, ![vh_list_tail] = w]
    /\ vh_list_head' = IF IsEmptyList THEN w ELSE vh_list_head
    /\ vh_list_tail' = w
    /\ vh_list_size' = IF IsEmptyList THEN 1 ELSE vh_list_size + 1

\* Variant: the tail is left on the last wrapper.
PoppedKeepsTail ==
    /\ vh_list_head' = next[vh_list_head]
    /\ vh_list_tail' = vh_list_tail
    /\ vh_list_size' = vh_list_size - 1
    /\ UNCHANGED next

\* vh_get_next_pending of a list that has a head
Popped ==
    /\ vh_list_head' = next[vh_list_head]
    /\ vh_list_tail' = IF vh_list_tail = vh_list_head THEN NULL ELSE vh_list_tail
    /\ vh_list_size' = vh_list_size - 1
    /\ UNCHANGED next

\* vh_push_back_value
PushedBack(w) ==
    /\ next' = [next EXCEPT ![w] = vh_list_head]
    /\ vh_list_head' = w
    /\ vh_list_tail' = IF IsEmptyList THEN w ELSE vh_list_tail
    /\ vh_list_size' = IF IsEmptyList THEN 1 ELSE vh_list_size + 1

-----------------------------------------------------------------------------
(* What the event loop does with the list.                                  *)

Handling(pc) == loop_pc = pc /\ Unlocked

LoopGoesOn(pc) ==
    /\ loop_pc' = pc
    /\ UNCHANGED <<submitVars, resetting, promotions, overlapped, aborted>>

\* vh_handle_newmsg; only a leader listens.
ReceiveSubmit ==
    /\ Handling("idle") /\ leading /\ MemoryLeft /\ ~ TooLong
    /\ IF ~ IsEmptyList /\ vh_list_tail = NULL
       THEN Abort
       ELSE /\ Enqueue(FreeWrapper)
            /\ LoopGoesOn("idle")
            /\ UNCHANGED <<assigned, leading>>

\* Variant: the list is not asked whether it holds a value.
TakeUntested ==
    /\ Handling("idle") /\ leading
    /\ LoopGoesOn("take")
    /\ UNCHANGED <<listVars, allocated, assigned, leading>>

\* leader_open_instances_p2_new: vh_pending_list_size() is not 0, so an instance
\* is opened,
FindPending ==
    /\ Handling("idle") /\ leading
    /\ vh_list_size # 0
    /\ LoopGoesOn("take")
    /\ UNCHANGED <<listVars, allocated, assigned, leading>>

\* and leader_execute_p2 takes a value for it, which must be there.
TakePending ==
    /\ Handling("take")
    /\ IF vh_list_head = NULL
       THEN Abort
       ELSE /\ Popped
            /\ assigned' = assigned \cup {vh_list_head}
            /\ LoopGoesOn("idle")
            /\ UNCHANGED <<allocated, leading>>

\* or a value found in phase 1 is the value of the instance; one assigned before
\* is forgotten.
FindInPhase1 ==
    /\ Handling("idle") /\ leading /\ MemoryLeft
    /\ \E replaced \in {{}} \cup {{w} : w \in assigned} :
          assigned' = (assigned \ replaced) \cup {FreeWrapper}
    /\ allocated' = allocated \cup {FreeWrapper}
    /\ LoopGoesOn("idle")
    /\ UNCHANGED <<listVars, leading>>

\* Variant: p2_value is freed and not set to NULL.
ClearInstanceDangling(w) ==
    /\ Unlocked /\ leading /\ w \in assigned
    /\ loop_pc \in {"idle", "shutdown"}
    /\ allocated' = allocated \ {w}
    /\ LoopGoesOn(loop_pc)
    /\ UNCHANGED <<listVars, assigned, leading>>

\* pro_clear_instance_info frees the value of an instance that is delivered or
\* was completed when the leader steps down.
ClearInstance(w) ==
    /\ Unlocked /\ leading /\ w \in assigned
    /\ loop_pc \in {"idle", "shutdown"}
    /\ assigned' = assigned \ {w}
    /\ allocated' = allocated \ {w}
    /\ LoopGoesOn(loop_pc)
    /\ UNCHANGED <<listVars, leading>>

\* leader_deliver: another value was delivered, and the one assigned goes back.
DeliverOther(w) ==
    /\ Handling("idle") /\ leading /\ w \in assigned
    /\ PushedBack(w)
    /\ assigned' = assigned \ {w}
    /\ LoopGoesOn("idle")
    /\ UNCHANGED <<allocated, leading>>

\* leader_shutdown: the values of the window go back,
StepDown ==
    /\ Handling("idle") /\ leading
    /\ LoopGoesOn("shutdown")
    /\ UNCHANGED <<listVars, allocated, assigned, leading>>

GiveBack(w) ==
    /\ Handling("shutdown") /\ w \in assigned
    /\ PushedBack(w)
    /\ assigned' = assigned \ {w}
    /\ LoopGoesOn("shutdown")
    /\ UNCHANGED <<allocated, leading>>

\* and vh_shutdown pops and frees until the list is empty.
Drain ==
    /\ Handling("shutdown") /\ assigned = {} /\ ~ IsEmptyList
    /\ IF vh_list_head = NULL
       THEN Abort
       ELSE /\ Popped
            /\ allocated' = allocated \ {vh_list_head}
            /\ LoopGoesOn("shutdown")
            /\ UNCHANGED <<assigned, leading>>

Drained ==
    /\ Handling("shutdown") /\ assigned = {} /\ IsEmptyList
    /\ leading' = FALSE
    /\ LoopGoesOn("idle")
    /\ UNCHANGED <<listVars, allocated, assigned>>

\* vh_init is called
BeginReset ==
    /\ loop_pc' = "vh_init"
    /\ resetting' = {"vh_list_size", "vh_list_head", "vh_list_tail"}
    /\ overlapped' = ~ Unlocked
    /\ UNCHANGED <<listVars, allocated, assigned, submitVars, leading, aborted>>

\* leader_init, when the oracle announces this proposer
Promote ==
    /\ loop_pc = "idle" /\ ~ leading
    /\ promotions < MaxPromotions
    /\ promotions' = promotions + 1
    /\ BeginReset

\* Its stores, without the lock
Reset(name) ==
    /\ loop_pc = "vh_init" /\ name \in resetting
    /\ resetting' = resetting \ {name}
    /\ vh_list_size' = IF name = "vh_list_size" THEN 0 ELSE vh_list_size
    /\ vh_list_head' = IF name = "vh_list_head" THEN NULL ELSE vh_list_head
    /\ vh_list_tail' = IF name = "vh_list_tail" THEN NULL ELSE vh_list_tail
    /\ UNCHANGED <<next, allocated, assigned, submitVars, loop_pc, leading,
                   promotions, overlapped, aborted>>

Promoted ==
    /\ loop_pc = "vh_init" /\ resetting = {}
    /\ leading' = TRUE
    /\ LoopGoesOn("idle")
    /\ UNCHANGED <<listVars, allocated, assigned>>

LoopStep ==
    \/ ReceiveSubmit \/ FindPending \/ TakePending
    \/ FindInPhase1
    \/ \E w \in assigned : ClearInstance(w) \/ DeliverOther(w) \/ GiveBack(w)
    \/ StepDown \/ Drain \/ Drained \/ Promote

FinishReset == (\E name \in resetting : Reset(name)) \/ Promoted

ValuesInit ==
    /\ vh_list_size = 0 /\ vh_list_head = NULL /\ vh_list_tail = NULL
    /\ next = [w \in Wrappers |-> NULL]
    /\ allocated = {} /\ assigned = {}
    /\ submit_pc = "idle" /\ new_vw = NULL /\ size_read = 0
    /\ loop_pc = "idle" /\ resetting = {} /\ leading = FALSE
    /\ promotions = 0 /\ overlapped = FALSE /\ aborted = FALSE

-----------------------------------------------------------------------------
(* Properties.                                                              *)

\* The wrappers from the head on, NULL after the last.
Chain ==
    LET link[n \in 0 .. Cardinality(Wrappers)] ==
            IF n = 0 THEN vh_list_head
            ELSE IF link[n - 1] = NULL THEN NULL ELSE next[link[n - 1]]
    IN link

(* The shape of the list. *)
ValuesTypeOK ==
    /\ vh_list_size \in Int
    /\ {vh_list_head, vh_list_tail, new_vw} \subseteq Wrappers \cup {NULL}
    /\ next \in [Wrappers -> Wrappers \cup {NULL}]
    /\ assigned \subseteq allocated /\ allocated \subseteq Wrappers

(* The list, its size and its ends agree whenever the lock is free, and no value
   is both in the list and in an instance: from head to tail there are
   vh_list_size wrappers.  A vh_init that a submission overlaps breaks this, until
   the next one: nothing else does. *)
ListCoherent ==
    Unlocked /\ resetting = {} /\ ~ overlapped =>
        /\ vh_list_size \in 0 .. Cardinality(Wrappers)
        /\ Chain[vh_list_size] = NULL
        /\ vh_list_tail = IF vh_list_size = 0 THEN NULL ELSE Chain[vh_list_size - 1]
        /\ \A n \in 0 .. vh_list_size - 1 : Chain[n] \in allocated \ assigned

(* leader_execute_p2, "assert(ii->p2_value != NULL)": a list that was not empty
   when the leader looked has a value when it takes one, though the lock was free
   in between; and nobody follows NULL.  Again unless a submission overlapped the
   last vh_init. *)
ValueIsThere == ~ overlapped => ~ aborted

=============================================================================
