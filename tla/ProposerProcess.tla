--------------------------- MODULE ProposerProcess --------------------------
(***************************************************************************)
(* The threads of one proposer process: the application thread calls       *)
(* proposer_init, which starts a learner with init_proposer as its         *)
(* custom_init, and then submits values through the memory it shares with  *)
(* the event loop of the learner thread, in which the proposer runs.       *)
(***************************************************************************)
EXTENDS LearnerStart, ValuesHandler

vars == <<startVars, valuesVars>>

Alive == ~ aborted

\* The start-up function that runs when n have succeeded.
Runs(n) == StartUp[n + 1]

\* init_proposer calls leader_init, and so vh_init, in proposer 0.
EnterInitProposer ==
    \/ BeginReset /\ UNCHANGED promotions
    \/ UNCHANGED valuesVars

InitLearnerThread ==
    /\ Alive
    /\ loop_pc = "idle"
    /\ InitSucceeds \/ InitFails
    /\ IF done' < Len(StartUp) /\ done' # done /\ Runs(done') = "custom_init"
       THEN EnterInitProposer
       ELSE UNCHANGED valuesVars

Signal ==
    /\ Alive
    /\ InitLeaFailure \/ InitLeaSuccess
    /\ UNCHANGED valuesVars

InitLearner ==
    /\ Alive
    /\ MainStarts
    /\ UNCHANGED valuesVars

SpuriousWakeup ==
    /\ Alive
    /\ WakeSpuriously
    /\ UNCHANGED valuesVars

\* pax_submit_sharedmem, once proposer_init has returned
Submit ==
    /\ Alive
    /\ main_pc = "returned_0"
    /\ SubmitStep
    /\ UNCHANGED startVars

\* init_lea_success is the first event of the loop.
HandleEvent ==
    /\ Alive
    /\ thread_pc = "signalled"
    /\ LoopStep
    /\ UNCHANGED startVars

InitValues ==
    /\ Alive
    /\ FinishReset
    /\ UNCHANGED startVars

Init == StartInit /\ ValuesInit

Next ==
    \/ InitLearner
    \/ SpuriousWakeup
    \/ InitLearnerThread
    \/ Signal
    \/ InitValues
    \/ HandleEvent
    \/ Submit

Spec == Init /\ [][Next]_vars

\* Both threads are scheduled, and a mutex that is released again and again is
\* acquired in the end: each spurious wake-up of the caller takes ready_lock.
FairSpec ==
    /\ Spec
    /\ WF_vars(InitLearner)
    /\ WF_vars(InitLearnerThread)
    /\ SF_vars(Signal)
    /\ WF_vars(InitValues)

-----------------------------------------------------------------------------
(* Properties.                                                              *)

(* The shape of the state. *)
ProcessTypeOK == StartTypeOK /\ ValuesTypeOK

(* vh_init does without the lock at start-up because nobody can submit yet: an
   overlap takes a promotion later on. *)
OverlapOnlyOnPromotion == overlapped => promotions > 0

=============================================================================
