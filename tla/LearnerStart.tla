---------------------------- MODULE LearnerStart ----------------------------
(***************************************************************************)
(* How a learner starts (the end of lib/learner.c).  The thread that calls *)
(* learner_init creates the learner thread and waits on a condition        *)
(* variable; the learner thread runs the start-up functions one after the  *)
(* other, any of which may fail, and signals failure at once or success as *)
(* the first event of its loop.  Proposers and acceptors start the same    *)
(* way: their own start-up is the custom_init of the learner below them.   *)
(*                                                                         *)
(* A section under ready_lock whose inside nobody else can see is one step,*)
(* the wait for the lock another.                                          *)
(***************************************************************************)
EXTENDS Naturals, Sequences

VARIABLES
    learner_ready,  \* LEARNER_STARTING, LEARNER_READY or LEARNER_ERROR
    ready_lock,     \* who holds it
    main_pc,        \* where the caller of learner_init is
    thread_pc,      \* where the learner thread is
    done            \* how many start-up functions have succeeded

startVars == <<learner_ready, ready_lock, main_pc, thread_pc, done>>

\* init_learner_thread: what it calls, in order; the first is the test of delfun.
StartUp ==
    <<"delfun", "event_init", "init_lea_structs", "init_lea_network",
      "init_lea_timers", "custom_init", "init_lea_signal_ready">>

-----------------------------------------------------------------------------
(* The caller of learner_init.                                              *)

\* pthread_create
CreateThread ==
    /\ main_pc = "create"
    /\ \/ main_pc' = "lock" /\ thread_pc' = "init"
       \/ main_pc' = "returned_error" /\ UNCHANGED thread_pc
    /\ UNCHANGED <<learner_ready, ready_lock, done>>

\* init_lea_wait_ready: the lock,
LockReady ==
    /\ main_pc = "lock" /\ ready_lock = "free"
    /\ ready_lock' = "main" /\ main_pc' = "wait"
    /\ UNCHANGED <<learner_ready, thread_pc, done>>

\* and pthread_cond_wait, before learner_ready is looked at.
CondWait ==
    /\ main_pc = "wait"
    /\ ready_lock' = "free" /\ main_pc' = "waiting"
    /\ UNCHANGED <<learner_ready, thread_pc, done>>

\* pthread_cond_wait may return without a signal.
WakeSpuriously ==
    /\ main_pc = "waiting"
    /\ main_pc' = "woken"
    /\ UNCHANGED <<learner_ready, ready_lock, thread_pc, done>>

\* Variant: any wake-up is taken for the end of start-up.
LookOnce ==
    /\ main_pc = "woken" /\ ready_lock = "free"
    /\ main_pc' = IF learner_ready = "error" THEN "returned_error" ELSE "returned_0"
    /\ UNCHANGED <<learner_ready, ready_lock, thread_pc, done>>

\* It returns with the lock: wait again, or release it and return.
LookAtStatus ==
    /\ main_pc = "woken" /\ ready_lock = "free"
    /\ \/ learner_ready = "starting" /\ ready_lock' = "main" /\ main_pc' = "wait"
       \/ learner_ready = "ready" /\ main_pc' = "returned_0" /\ UNCHANGED ready_lock
       \/ learner_ready = "error" /\ main_pc' = "returned_error" /\ UNCHANGED ready_lock
    /\ UNCHANGED <<learner_ready, thread_pc, done>>

Returned == {"returned_0", "returned_error"}

-----------------------------------------------------------------------------
(* The learner thread.                                                      *)

\* A start-up function succeeds; after the last one the loop is entered.
InitSucceeds ==
    /\ thread_pc = "init"
    /\ done' = done + 1
    /\ thread_pc' = IF done' = Len(StartUp) THEN "dispatch" ELSE "init"
    /\ UNCHANGED <<learner_ready, ready_lock, main_pc>>

\* Variant: the result of a function is not looked at.
FailureIgnored ==
    /\ thread_pc = "init"
    /\ thread_pc' = IF done + 1 = Len(StartUp) THEN "dispatch" ELSE "init"
    /\ UNCHANGED <<learner_ready, ready_lock, main_pc, done>>

InitFails ==
    /\ thread_pc = "init"
    /\ thread_pc' = "failing"
    /\ UNCHANGED <<learner_ready, ready_lock, main_pc, done>>

\* Variant: the status is set and nobody is told.
SetSilently(status) ==
    /\ ready_lock = "free"
    /\ learner_ready' = status
    /\ UNCHANGED <<ready_lock, main_pc, done>>

\* The section of init_lea_failure and init_lea_success: set and signal.  The
\* signal is lost on a caller that does not wait yet.
SetAndSignal(status) ==
    /\ ready_lock = "free"
    /\ learner_ready' = status
    /\ main_pc' = IF main_pc = "waiting" THEN "woken" ELSE main_pc
    /\ UNCHANGED <<ready_lock, done>>

\* init_lea_failure; the thread ends.
InitLeaFailure ==
    /\ thread_pc = "failing"
    /\ SetAndSignal("error")
    /\ thread_pc' = "ended"

\* init_lea_success, an event of the loop
InitLeaSuccess ==
    /\ thread_pc = "dispatch"
    /\ SetAndSignal("ready")
    /\ thread_pc' = "signalled"

\* event_dispatch runs.
LoopRuns == thread_pc \in {"dispatch", "signalled"}

-----------------------------------------------------------------------------
StartInit ==
    /\ learner_ready = "starting"
    /\ ready_lock = "free"
    /\ main_pc = "create"
    /\ thread_pc = "absent"
    /\ done = 0

MainStarts == CreateThread \/ LockReady \/ CondWait \/ LookAtStatus

ThreadStarts == InitSucceeds \/ InitFails \/ InitLeaFailure \/ InitLeaSuccess

StartNext == MainStarts \/ WakeSpuriously \/ ThreadStarts

-----------------------------------------------------------------------------
(* Properties.                                                              *)

(* The shape of the start-up state. *)
StartTypeOK ==
    /\ learner_ready \in {"starting", "ready", "error"}
    /\ ready_lock \in {"free", "main"}
    /\ main_pc \in {"create", "lock", "wait", "waiting", "woken"} \cup Returned
    /\ thread_pc \in {"absent", "init", "failing", "ended", "dispatch", "signalled"}
    /\ done \in 0 .. Len(StartUp)

(* learner_init returns 0 only to a caller whose learner has started: every
   start-up function succeeded, the custom one included, and the loop runs.  It
   returns an error only if the loop never runs. *)
ReturnTellsOutcome ==
    /\ main_pc = "returned_0" => LoopRuns /\ done = Len(StartUp)
    /\ main_pc = "returned_error" => ~ LoopRuns

(* A caller that waits before the learner thread signals does return, whatever
   fails in between.  (One that comes later does not: the status is not looked at
   before the wait.) *)
WaiterReturns ==
    main_pc \in {"waiting", "woken"} /\ learner_ready = "starting"
        ~> main_pc \in Returned

=============================================================================
