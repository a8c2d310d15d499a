------------------------ MODULE ProposerProcessProofs ------------------------
(***************************************************************************)
(* Proofs about ProposerProcess, for any memory, queue length and number   *)
(* of promotions: what learner_init returns, when vh_init can meet a       *)
(* submission, and that the list of pending values stays coherent, and is  *)
(* never followed into NULL, unless it does.                               *)
(***************************************************************************)
EXTENDS ProposerProcess, NumberLemmas, FiniteSetTheorems, TLAPS

(* How far the two threads are, from one another's point of view: what the status
   says of the learner thread, and what the caller can have seen of the status. *)
StartInv ==
    /\ StartTypeOK
    /\ main_pc = "create" => thread_pc = "absent"
    /\ thread_pc = "absent" => main_pc \in {"create", "returned_error"}
    /\ thread_pc \in {"absent", "init"} => done < Len(StartUp)
    /\ LoopRuns => done = Len(StartUp)
    /\ learner_ready = "ready" => thread_pc = "signalled"
    /\ learner_ready = "error" => thread_pc = "ended"
    /\ main_pc = "returned_0" => learner_ready = "ready"
    /\ main_pc = "returned_error" => thread_pc = "absent" \/ learner_ready = "error"

(* Nobody submits before proposer_init has returned, and nobody resets the list
   from then on but after a promotion. *)
ResetInv ==
    /\ promotions \in Nat
    /\ submit_pc # "idle" => main_pc = "returned_0"
    /\ resetting # {} => loop_pc = "vh_init"
    /\ loop_pc = "vh_init" => thread_pc = "init" \/ promotions > 0
    /\ OverlapOnlyOnPromotion

ProcessInv == StartInv /\ ResetInv

-----------------------------------------------------------------------------
(* The start-up sequence has seven functions. *)
LEMMA StartUpLength == Len(StartUp) = 7
BY DEF StartUp

(* The caller of learner_init preserves StartInv. *)
LEMMA MainStep ==
    ASSUME StartInv, MainStarts \/ WakeSpuriously
    PROVE  StartInv'
PROOF
  <1>. USE StartUpLength DEF StartInv, StartTypeOK, Returned, LoopRuns
  <1>1. CASE CreateThread
    BY <1>1 DEF CreateThread
  <1>2. CASE LockReady
    BY <1>2 DEF LockReady
  <1>3. CASE CondWait
    BY <1>3 DEF CondWait
  <1>4. CASE LookAtStatus
    BY <1>4 DEF LookAtStatus
  <1>5. CASE WakeSpuriously
    BY <1>5 DEF WakeSpuriously
  <1>. QED  BY <1>1, <1>2, <1>3, <1>4, <1>5 DEF MainStarts

(* So does the learner thread. *)
LEMMA ThreadStep ==
    ASSUME StartInv, ThreadStarts
    PROVE  StartInv'
PROOF
  <1>. USE StartUpLength DEF StartInv, StartTypeOK, Returned, LoopRuns
  <1>1. CASE InitSucceeds
    BY <1>1 DEF InitSucceeds
  <1>2. CASE InitFails
    BY <1>2 DEF InitFails
  <1>3. CASE InitLeaFailure
    BY <1>3 DEF InitLeaFailure, SetAndSignal
  <1>4. CASE InitLeaSuccess
    BY <1>4 DEF InitLeaSuccess, SetAndSignal
  <1>. QED  BY <1>1, <1>2, <1>3, <1>4 DEF ThreadStarts

(* Every step of the process preserves StartInv: submissions and events of the
   loop leave the start-up alone. *)
LEMMA StartStep ==
    ASSUME StartInv, [Next]_vars
    PROVE  StartInv'
PROOF
  <1>1. CASE UNCHANGED startVars
    BY <1>1 DEF startVars, StartInv, StartTypeOK, LoopRuns
  <1>2. CASE InitLearner \/ SpuriousWakeup
    BY <1>2, MainStep DEF InitLearner, SpuriousWakeup
  <1>3. CASE InitLearnerThread \/ Signal
    BY <1>3, ThreadStep DEF InitLearnerThread, Signal, ThreadStarts
  <1>. QED  BY <1>1, <1>2, <1>3 DEF Next, vars, InitValues, HandleEvent, Submit

-----------------------------------------------------------------------------
(* What is left of the list's state when only what ResetInv speaks of counts. *)
resetVars == <<submit_pc, loop_pc, resetting, promotions, overlapped>>

(* A submission does not overlap a reset unless there was a promotion. *)
LEMMA SubmitReset ==
    ASSUME ProcessInv, Submit
    PROVE  ResetInv'
PROOF
  <1>1. /\ main_pc = "returned_0" /\ UNCHANGED startVars
        /\ UNCHANGED <<loop_pc, resetting, promotions>>
    BY DEF Submit, SubmitStep, SubmitSharedmem, TestSize, TestEmpty, FirstHead,
           FirstTail, FirstSize, LinkNext, LinkTail, LinkRead, LinkSize,
           SubmitGoesOn, Abort, leaderVars
  <1>2. overlapped' = overlapped \/ overlapped' = (overlapped \/ resetting # {})
    BY DEF Submit, SubmitStep, SubmitSharedmem, TestSize, TestEmpty, FirstHead,
           FirstTail, FirstSize, LinkNext, LinkTail, LinkRead, LinkSize,
           SubmitGoesOn, Abort
  <1>3. thread_pc = "signalled"
    BY <1>1 DEF ProcessInv, StartInv
  <1>4. resetting # {} => promotions > 0
    BY <1>3 DEF ProcessInv, ResetInv
  <1>5. overlapped' => promotions' > 0
    BY <1>1, <1>2, <1>4 DEF ProcessInv, ResetInv, OverlapOnlyOnPromotion
  <1>. QED
    BY <1>1, <1>5 DEF ProcessInv, ResetInv, OverlapOnlyOnPromotion, startVars

(* An event of the loop resets the list only at a promotion. *)
LEMMA EventReset ==
    ASSUME ProcessInv, HandleEvent
    PROVE  ResetInv'
PROOF
  <1>1. UNCHANGED <<submit_pc, startVars>>
    BY DEF HandleEvent, LoopStep, ReceiveSubmit, FindPending, TakePending,
           FindInPhase1, ClearInstance, DeliverOther, GiveBack, StepDown, Drain,
           Drained, Promote, BeginReset, LoopGoesOn, Abort, submitVars
  <1>2. CASE Promote
    BY <1>1, <1>2 DEF Promote, BeginReset, ProcessInv, ResetInv, startVars,
                      OverlapOnlyOnPromotion
  <1>3. CASE ~ Promote
    <2>1. /\ UNCHANGED <<resetting, promotions, overlapped>>
          /\ loop_pc' = loop_pc \/ loop_pc' \in {"idle", "take", "shutdown"}
          /\ loop_pc \in {"idle", "take", "shutdown"} \/ loop_pc' = loop_pc
      BY <1>3 DEF HandleEvent, LoopStep, ReceiveSubmit, FindPending, TakePending,
           FindInPhase1, ClearInstance, DeliverOther, GiveBack, StepDown, Drain,
           Drained, Handling, LoopGoesOn, Abort, leaderVars
    <2>. QED
      BY <1>1, <2>1 DEF ProcessInv, ResetInv, OverlapOnlyOnPromotion, startVars
  <1>. QED  BY <1>2, <1>3

(* Start-up resets the list while nobody can submit. *)
LEMMA StartReset ==
    ASSUME ProcessInv, InitLearnerThread
    PROVE  ResetInv'
PROOF
  <1>1. /\ loop_pc = "idle" /\ thread_pc = "init" /\ main_pc' = main_pc
        /\ main_pc # "returned_0"
    BY DEF InitLearnerThread, InitSucceeds, InitFails, ProcessInv, StartInv
  <1>2. submit_pc = "idle"
    BY <1>1 DEF ProcessInv, ResetInv
  <1>3. CASE UNCHANGED valuesVars
    BY <1>1, <1>2, <1>3 DEF ProcessInv, ResetInv, OverlapOnlyOnPromotion,
                            valuesVars, leaderVars, submitVars
  <1>4. CASE BeginReset /\ UNCHANGED promotions /\ done' # done
                        /\ done' < Len(StartUp)
    <2>1. thread_pc' = "init"
      BY <1>4 DEF InitLearnerThread, InitSucceeds, InitFails
    <2>2. submit_pc' = "idle" /\ overlapped' = FALSE
      BY <1>2, <1>4 DEF BeginReset, submitVars, Unlocked
    <2>. QED
      BY <1>1, <1>4, <2>1, <2>2 DEF BeginReset, ProcessInv, ResetInv,
                                    OverlapOnlyOnPromotion
  <1>. QED  BY <1>3, <1>4 DEF InitLearnerThread, EnterInitProposer

(* The steps that remain neither submit nor begin a reset. *)
LEMMA OtherReset ==
    ASSUME ProcessInv, InitLearner \/ SpuriousWakeup \/ Signal \/ InitValues
                       \/ UNCHANGED vars
    PROVE  ResetInv'
PROOF
  <1>1. CASE InitLearner \/ SpuriousWakeup
    <2>1. UNCHANGED <<thread_pc, valuesVars>> \/ main_pc = "create"
      BY <1>1 DEF InitLearner, SpuriousWakeup, MainStarts, CreateThread,
                  LockReady, CondWait, LookAtStatus, WakeSpuriously
    <2>2. UNCHANGED valuesVars /\ main_pc # "returned_0"
      BY <1>1 DEF InitLearner, SpuriousWakeup, MainStarts, CreateThread,
                  LockReady, CondWait, LookAtStatus, WakeSpuriously
    <2>3. thread_pc' = thread_pc \/ thread_pc # "init"
      BY <2>1 DEF ProcessInv, StartInv
    <2>. QED
      BY <2>2, <2>3 DEF ProcessInv, ResetInv, OverlapOnlyOnPromotion, valuesVars,
                        leaderVars, submitVars
  <1>2. CASE Signal
    <2>1. UNCHANGED valuesVars /\ thread_pc # "init"
      BY <1>2 DEF Signal, InitLeaFailure, InitLeaSuccess
    <2>2. main_pc = "returned_0" => main_pc' = "returned_0"
      BY <1>2 DEF Signal, InitLeaFailure, InitLeaSuccess, SetAndSignal
    <2>. QED
      BY <2>1, <2>2 DEF ProcessInv, ResetInv, OverlapOnlyOnPromotion, valuesVars,
                        leaderVars, submitVars
  <1>3. CASE InitValues
    <2>1. /\ UNCHANGED <<submit_pc, promotions, overlapped, startVars>>
          /\ \/ loop_pc' = loop_pc /\ loop_pc = "vh_init"
             \/ loop_pc' = "idle" /\ resetting' = {}
      BY <1>3 DEF InitValues, FinishReset, Reset, Promoted, LoopGoesOn, submitVars
    <2>. QED
      BY <2>1 DEF ProcessInv, ResetInv, OverlapOnlyOnPromotion, startVars
  <1>4. CASE UNCHANGED vars
    BY <1>4 DEF vars, startVars, valuesVars, leaderVars, submitVars, ProcessInv,
                ResetInv, OverlapOnlyOnPromotion
  <1>. QED  BY <1>1, <1>2, <1>3, <1>4

-----------------------------------------------------------------------------
(* The invariant of the two threads. *)
THEOREM ProcessCorrect == Spec => []ProcessInv
PROOF
  <1>1. Init => ProcessInv
    BY StartUpLength DEF Init, StartInit, ValuesInit, ProcessInv, StartInv,
       StartTypeOK, ResetInv, OverlapOnlyOnPromotion, LoopRuns
  <1>2. ProcessInv /\ [Next]_vars => ProcessInv'
    <2>. SUFFICES ASSUME ProcessInv, [Next]_vars PROVE ProcessInv'
      OBVIOUS
    <2>1. StartInv'
      BY StartStep DEF ProcessInv
    <2>2. ResetInv'
      BY SubmitReset, EventReset, StartReset, OtherReset DEF Next
    <2>. QED  BY <2>1, <2>2 DEF ProcessInv
  <1>. QED  BY <1>1, <1>2, PTL DEF Spec

(* learner_init tells its caller the truth: it returns 0 only when every start-up
   function has succeeded and the loop runs, and an error only when it never does. *)
THEOREM ReturnCorrect == Spec => []ReturnTellsOutcome
PROOF
  <1>1. ProcessInv => ReturnTellsOutcome
    BY DEF ProcessInv, StartInv, ReturnTellsOutcome, LoopRuns
  <1>. QED  BY <1>1, ProcessCorrect, PTL

(* The vh_init of start-up, which takes no lock either, never meets a submission. *)
THEOREM OverlapCorrect == Spec => []OverlapOnlyOnPromotion
PROOF
  <1>1. ProcessInv => OverlapOnlyOnPromotion
    BY DEF ProcessInv, ResetInv
  <1>. QED  BY <1>1, ProcessCorrect, PTL

-----------------------------------------------------------------------------
(* The list.  What follows is about a chain of wrappers, by itself: from h on,  *)
(* f leads through n wrappers of S, no two of them the same, to NULL.           *)
IsChain(n, s, h, f, S) ==
    /\ n \in Nat
    /\ \A j \in 1 .. n : s[j] \in S
    /\ \A j, k \in 1 .. n : s[j] = s[k] => j = k
    /\ h = s[1] /\ s[n + 1] = NULL
    /\ \A j \in 1 .. n : f[s[j]] = s[j + 1]

\* The wrapper at its end.
LastOf(n, s) == IF n = 0 THEN NULL ELSE s[n]

(* A chain is empty exactly when it starts with NULL. *)
LEMMA ChainEnds ==
    ASSUME NEW n, NEW s, NEW h, NEW f, NEW S, NULL \notin S, IsChain(n, s, h, f, S)
    PROVE  /\ h = NULL <=> n = 0
           /\ n # 0 => h \in S
           /\ LastOf(n, s) = NULL <=> n = 0
PROOF
  <1>1. CASE n = 0
    BY <1>1 DEF IsChain, LastOf
  <1>2. CASE n # 0
    <2>1. 1 \in 1 .. n /\ n \in 1 .. n
      BY <1>2 DEF IsChain
    <2>. QED  BY <1>2, <2>1 DEF IsChain, LastOf
  <1>. QED  BY <1>1, <1>2

(* NULL is a chain. *)
LEMMA EmptyChain ==
    ASSUME NEW f, NEW S
    PROVE  \E s : IsChain(0, s, NULL, f, S)
PROOF
  <1>. DEFINE s == [j \in {1} |-> NULL]
  <1>1. IsChain(0, s, NULL, f, S)
    BY DEF IsChain
  <1>. QED  BY <1>1

(* A chain stays one while its wrappers keep what follows them. *)
LEMMA SameChain ==
    ASSUME NEW n, NEW s, NEW h, NEW f, NEW S, IsChain(n, s, h, f, S),
           NEW g, NEW T, \A j \in 1 .. n : s[j] \in T /\ g[s[j]] = f[s[j]]
    PROVE  IsChain(n, s, h, g, T)
PROOF
  BY DEF IsChain

\* r is the chain without its first wrapper.
IsRest(r, n, s, h, f, S) ==
    /\ IsChain(n - 1, r, f[h], f, S \ {h})
    /\ LastOf(n - 1, r) = IF n = 1 THEN NULL ELSE LastOf(n, s)

(* Without its first wrapper a chain is one shorter, and ends where it did. *)
LEMMA PopChain ==
    ASSUME NEW n, NEW s, NEW h, NEW f, NEW S, IsChain(n, s, h, f, S), n # 0
    PROVE  \E r : IsRest(r, n, s, h, f, S)
PROOF
  <1>. DEFINE r == [j \in 1 .. n |-> s[j + 1]]
  <1>1. n \in Nat /\ n - 1 \in Nat /\ (n - 1) + 1 = n /\ 1 \in 1 .. n /\ n \in 1 .. n
    BY DEF IsChain
  <1>2. ASSUME NEW j \in 1 .. n
        PROVE  r[j] = s[j + 1]
    OBVIOUS
  <1>3. ASSUME NEW j \in 1 .. n - 1
        PROVE  j \in 1 .. n /\ j + 1 \in 1 .. n /\ j + 1 # 1
    BY <1>1
  <1>. HIDE DEF r
  <1>4. f[h] = r[1] /\ r[(n - 1) + 1] = NULL
    BY <1>1, <1>2 DEF IsChain
  <1>5. \A j \in 1 .. n - 1 : r[j] \in S \ {h}
    BY <1>1, <1>2, <1>3 DEF IsChain
  <1>6. ASSUME NEW j \in 1 .. n - 1, NEW k \in 1 .. n - 1, r[j] = r[k]
        PROVE  j = k
    <2>1. s[j + 1] = s[k + 1]
      BY <1>2, <1>3, <1>6
    <2>2. j + 1 = k + 1
      BY <1>3, <2>1 DEF IsChain
    <2>. QED  BY <2>2
  <1>7. \A j \in 1 .. n - 1 : f[r[j]] = r[j + 1]
    BY <1>2, <1>3 DEF IsChain
  <1>8. IsChain(n - 1, r, f[h], f, S \ {h})
    BY <1>1, <1>4, <1>5, <1>6, <1>7 DEF IsChain
  <1>9. LastOf(n - 1, r) = IF n = 1 THEN NULL ELSE LastOf(n, s)
    <2>1. CASE n = 1
      BY <2>1 DEF LastOf
    <2>2. CASE n # 1
      <3>1. n - 1 \in 1 .. n - 1 /\ n - 1 # 0
        BY <1>1, <2>2
      <3>2. r[n - 1] = s[n]
        BY <1>1, <1>2, <1>3, <3>1
      <3>. QED  BY <2>2, <3>1, <3>2 DEF LastOf
    <2>. QED  BY <2>1, <2>2
  <1>. QED  BY <1>8, <1>9 DEF IsRest

(* It starts and ends with the same wrapper when it has only one. *)
LEMMA OneWrapper ==
    ASSUME NEW n, NEW s, NEW h, NEW f, NEW S, IsChain(n, s, h, f, S), n # 0
    PROVE  LastOf(n, s) = h <=> n = 1
PROOF
  <1>1. n \in Nat /\ 1 \in 1 .. n /\ n \in 1 .. n
    BY DEF IsChain
  <1>. QED  BY <1>1 DEF IsChain, LastOf

(* A wrapper that is put before a chain. *)
LEMMA PushChain ==
    ASSUME NEW n, NEW s, NEW h, NEW f, NEW S, IsChain(n, s, h, f, S),
           NEW w, w \notin S, NEW g, g[w] = h, \A v \in S : g[v] = f[v],
           NEW T, S \subseteq T, w \in T
    PROVE  \E r : /\ IsChain(n + 1, r, w, g, T)
                  /\ LastOf(n + 1, r) = IF n = 0 THEN w ELSE LastOf(n, s)
PROOF
  <1>. DEFINE r == [j \in 1 .. n + 2 |-> IF j = 1 THEN w ELSE s[j - 1]]
  <1>1. n \in Nat /\ n + 1 \in Nat /\ (n + 1) + 1 = n + 2
    BY DEF IsChain
  <1>2. r[1] = w
    BY <1>1
  <1>3. ASSUME NEW j \in 1 .. n + 1
        PROVE  r[j + 1] = s[j]
    BY <1>1
  <1>. HIDE DEF r
  <1>4. ASSUME NEW j \in 1 .. n + 1
        PROVE  j = 1 \/ (j - 1 \in 1 .. n /\ r[j] = s[j - 1])
    <2>1. CASE j # 1
      <3>1. j - 1 \in 1 .. n /\ j - 1 \in 1 .. n + 1 /\ (j - 1) + 1 = j
        BY <1>1, <2>1
      <3>. QED  BY <1>3, <3>1
    <2>. QED  BY <2>1
  <1>5. \A j \in 1 .. n + 1 : r[j] \in T
    BY <1>2, <1>4 DEF IsChain
  <1>6. ASSUME NEW j \in 1 .. n + 1, NEW k \in 1 .. n + 1, r[j] = r[k]
        PROVE  j = k
    <2>1. CASE j = 1 \/ k = 1
      BY <1>2, <1>4, <1>6, <2>1 DEF IsChain
    <2>2. CASE j # 1 /\ k # 1
      <3>1. j - 1 = k - 1
        BY <1>4, <1>6, <2>2 DEF IsChain
      <3>. QED  BY <3>1
    <2>. QED  BY <2>1, <2>2
  <1>7. r[(n + 1) + 1] = NULL
    BY <1>1, <1>3 DEF IsChain
  <1>8. ASSUME NEW j \in 1 .. n + 1
        PROVE  g[r[j]] = r[j + 1]
    <2>1. CASE j = 1
      BY <1>2, <1>3, <2>1 DEF IsChain
    <2>2. CASE j # 1
      <3>1. j - 1 \in 1 .. n /\ r[j] = s[j - 1] /\ (j - 1) + 1 = j
        BY <1>4, <2>2
      <3>2. s[j - 1] \in S /\ f[s[j - 1]] = s[j]
        BY <3>1 DEF IsChain
      <3>. QED  BY <1>3, <3>1, <3>2
    <2>. QED  BY <2>1, <2>2
  <1>9. IsChain(n + 1, r, w, g, T)
    BY <1>1, <1>2, <1>5, <1>6, <1>7, <1>8 DEF IsChain
  <1>10. LastOf(n + 1, r) = IF n = 0 THEN w ELSE LastOf(n, s)
    <2>1. CASE n = 0
      BY <1>2, <2>1 DEF LastOf
    <2>2. CASE n # 0
      BY <1>1, <1>3, <2>2 DEF LastOf
    <2>. QED  BY <2>1, <2>2
  <1>. QED  BY <1>9, <1>10

(* A wrapper that is linked to the m-th of a chain: what came after is cut off. *)
LEMMA AppendChain ==
    ASSUME NEW n, NEW s, NEW h, NEW f, NEW S, IsChain(n, s, h, f, S),
           NEW w, \A j \in 1 .. n : s[j] # w,
           NEW m \in 1 .. n,
           NEW g, g[s[m]] = w, g[w] = NULL, \A v \in S \ {s[m], w} : g[v] = f[v],
           NEW T, S \subseteq T, w \in T
    PROVE  \E r : /\ IsChain(m + 1, r, h, g, T)
                  /\ r[m + 1] = w /\ r[m] = s[m]
PROOF
  <1>. DEFINE r == [j \in 1 .. m + 2 |-> IF j <= m THEN s[j] ELSE IF j = m + 1 THEN w ELSE NULL]
  <1>1. n \in Nat /\ m \in Nat /\ m + 1 \in Nat /\ (m + 1) + 1 = m + 2 /\ m # 0
    BY DEF IsChain
  <1>2. ASSUME NEW j \in 1 .. m
        PROVE  r[j] = s[j] /\ j \in 1 .. n
    BY <1>1
  <1>3. r[m + 1] = w /\ r[m + 2] = NULL
    BY <1>1
  <1>. HIDE DEF r
  <1>4. ASSUME NEW j \in 1 .. m + 1
        PROVE  j = m + 1 \/ j \in 1 .. m
    BY <1>1
  <1>5. \A j \in 1 .. m + 1 : r[j] \in T
    BY <1>2, <1>3, <1>4 DEF IsChain
  <1>6. ASSUME NEW j \in 1 .. m + 1, NEW k \in 1 .. m + 1, r[j] = r[k]
        PROVE  j = k
    BY <1>2, <1>3, <1>4, <1>6 DEF IsChain
  <1>7. ASSUME NEW j \in 1 .. m + 1
        PROVE  g[r[j]] = r[j + 1]
    <2>1. CASE j = m + 1
      BY <1>1, <1>3, <2>1
    <2>2. CASE j = m
      BY <1>1, <1>2, <1>3, <2>2
    <2>3. CASE j # m + 1 /\ j # m
      <3>1. j \in 1 .. m /\ j + 1 \in 1 .. m
        BY <1>1, <2>3
      <3>2. s[j] # s[m] /\ s[j] # w /\ s[j] \in S /\ f[s[j]] = s[j + 1]
        BY <1>2, <2>3, <3>1 DEF IsChain
      <3>. QED  BY <1>2, <3>1, <3>2
    <2>. QED  BY <2>1, <2>2, <2>3
  <1>8. h = r[1] /\ r[(m + 1) + 1] = NULL
    <2>1. 1 \in 1 .. m
      BY <1>1
    <2>. QED  BY <1>1, <1>2, <1>3, <2>1 DEF IsChain
  <1>9. IsChain(m + 1, r, h, g, T)
    BY <1>1, <1>5, <1>6, <1>7, <1>8 DEF IsChain
  <1>10. r[m] = s[m]
    BY <1>1, <1>2
  <1>. QED  BY <1>3, <1>9, <1>10

(* One wrapper is a chain. *)
LEMMA SingleChain ==
    ASSUME NEW w, NEW g, g[w] = NULL, NEW T, w \in T
    PROVE  \E r : IsChain(1, r, w, g, T) /\ r[1] = w
PROOF
  <1>. DEFINE r == [j \in 1 .. 2 |-> IF j = 1 THEN w ELSE NULL]
  <1>1. IsChain(1, r, w, g, T) /\ r[1] = w
    BY DEF IsChain
  <1>. QED  BY <1>1

(* A wrapper that is linked to t: when t is the end of the chain it is the new end;
   whatever t is, what starts at h is a chain. *)
LEMMA LinkChain ==
    ASSUME NEW n, NEW s, NEW h, NEW f, NEW S, IsChain(n, s, h, f, S),
           NEW w, \A j \in 1 .. n : s[j] # w,
           NEW t, NEW g, g[t] = w, g[w] = NULL, \A v \in S \ {t, w} : g[v] = f[v],
           NEW T, S \subseteq T, w \in T
    PROVE  \E m, r : /\ IsChain(m, r, h, g, T)
                     /\ n # 0 /\ LastOf(n, s) = t => m = n + 1 /\ r[m] = w
PROOF
  <1>1. n \in Nat
    BY DEF IsChain
  <1>2. CASE \E m \in 1 .. n : s[m] = t
    <2>1. PICK m \in 1 .. n : s[m] = t
      BY <1>2
    <2>2. g[s[m]] = w /\ \A v \in S \ {s[m], w} : g[v] = f[v]
      BY <2>1
    <2>3. PICK r : IsChain(m + 1, r, h, g, T) /\ r[m + 1] = w
      BY <2>2, AppendChain
    <2>4. n # 0 /\ LastOf(n, s) = t => m = n
      <3>1. n # 0 => n \in 1 .. n
        BY <1>1
      <3>. QED  BY <2>1, <3>1 DEF IsChain, LastOf
    <2>. QED  BY <2>3, <2>4
  <1>3. CASE \A j \in 1 .. n : s[j] # t
    <2>1. \A j \in 1 .. n : s[j] \in T /\ g[s[j]] = f[s[j]]
      BY <1>3 DEF IsChain
    <2>2. IsChain(n, s, h, g, T)
      BY <2>1, SameChain
    <2>3. ~ (n # 0 /\ LastOf(n, s) = t)
      <3>1. n # 0 => n \in 1 .. n
        BY <1>1
      <3>. QED  BY <1>3, <3>1 DEF LastOf
    <2>. QED  BY <2>2, <2>3
  <1>. QED  BY <1>2, <1>3

-----------------------------------------------------------------------------
(* What holds of the list and of its two users between any two steps.          *)

\* The wrappers that are, or are about to be, in the list.
Listed == allocated \ assigned

\* The new wrapper has not been linked yet.
Unlinked == submit_pc \in {"empty", "first_head", "link_next"}

(* Every wrapper the two threads hold is their own: what the tail and the
   submission point to is not the value of an instance. *)
WrappersFit ==
    /\ ValuesTypeOK /\ size_read \in Int
    /\ vh_list_tail \in Listed \cup {NULL}
    /\ IF submit_pc \in {"idle", "size"} THEN new_vw = NULL ELSE new_vw \in Listed
    /\ Unlinked => next[new_vw] = NULL /\ vh_list_tail # new_vw
    /\ submit_pc = "size" => MemoryLeft

(* A vh_init that no submission meets leaves an empty list. *)
ResetFits ==
    /\ resetting \subseteq {"vh_list_size", "vh_list_head", "vh_list_tail"}
    /\ ~ overlapped /\ resetting # {} =>
          /\ submit_pc = "idle"
          /\ "vh_list_size" \in resetting \/ vh_list_size = 0
          /\ "vh_list_head" \in resetting \/ vh_list_head = NULL
          /\ "vh_list_tail" \in resetting \/ vh_list_tail = NULL

(* What was seen to be there is there when it is taken. *)
TakeFits == ~ overlapped => ~ aborted /\ (loop_pc = "take" => vh_list_head # NULL)

\* The size and the tail are those of a chain.
Whole(n, s) == vh_list_size = n /\ vh_list_tail = LastOf(n, s)

(* How far a submission is with the chain: which of its stores it has done. *)
Agrees(n, s) ==
    /\ submit_pc \in {"idle", "size", "empty", "first_head", "link_next"} => Whole(n, s)
    /\ submit_pc = "first_head" => n = 0
    /\ submit_pc = "link_next" => n # 0
    /\ submit_pc \in {"first_tail", "first_size"} => n = 1 /\ s[n] = new_vw
    /\ submit_pc = "first_size" => vh_list_tail = new_vw
    /\ submit_pc \in {"link_tail", "link_read", "link_size"} =>
          n > 1 /\ s[n] = new_vw /\ vh_list_size = n - 1
    /\ submit_pc \in {"link_read", "link_size"} => vh_list_tail = new_vw
    /\ submit_pc = "link_size" => size_read = n - 1

\* This chain is the list.
ListIs(n, s) ==
    /\ IsChain(n, s, vh_list_head, next, Listed)
    /\ Unlinked => \A j \in 1 .. n : s[j] # new_vw
    /\ ~ overlapped /\ resetting = {} => Agrees(n, s)

(* From the head on there is always a chain, even when vh_init interfered; its
   size and tail are right unless it did. *)
ListFits == \E n, s : ListIs(n, s)

ListInv == WrappersFit /\ ResetFits /\ TakeFits /\ ListFits

\* What a step of the process starts from while it is alive.
Reachable == ListInv /\ ResetInv /\ ~ aborted

(* A chain of listed wrappers is empty exactly when the head is NULL. *)
LEMMA ListEnds ==
    ASSUME WrappersFit, NEW n, NEW s, ListIs(n, s)
    PROVE  /\ NULL \notin Listed
           /\ n \in Nat
           /\ vh_list_head = NULL <=> n = 0
           /\ n # 0 => vh_list_head \in Listed
           /\ LastOf(n, s) = NULL <=> n = 0
           /\ n # 0 => n \in 1 .. n /\ LastOf(n, s) = s[n]
           /\ \A j \in 1 .. n : s[j] \in Listed
PROOF
  <1>1. NULL \notin Listed
    BY ValuesHandlerAssumption DEF WrappersFit, ValuesTypeOK, Listed
  <1>2. IsChain(n, s, vh_list_head, next, Listed)
    BY DEF ListIs
  <1>3. n \in Nat /\ \A j \in 1 .. n : s[j] \in Listed
    BY <1>2 DEF IsChain
  <1>4. n # 0 => n \in 1 .. n /\ LastOf(n, s) = s[n]
    BY <1>3 DEF LastOf
  <1>. QED  BY <1>1, <1>2, <1>3, <1>4, ChainEnds

(* While the lock is free and no reset is under way the list is whole. *)
LEMMA FreeIsWhole ==
    ASSUME Unlocked, resetting = {}, ~ overlapped, NEW n, NEW s, ListIs(n, s)
    PROVE  Whole(n, s)
PROOF
  BY DEF Unlocked, ListIs, Agrees

(* There is memory for a new wrapper. *)
LEMMA Free ==
    ASSUME MemoryLeft, WrappersFit
    PROVE  FreeWrapper \in Wrappers \ allocated /\ FreeWrapper # NULL
PROOF
  <1>1. \E w \in Wrappers : w \notin allocated
    BY DEF MemoryLeft
  <1>2. FreeWrapper \in Wrappers \ allocated
    BY <1>1 DEF FreeWrapper
  <1>. QED  BY <1>2, ValuesHandlerAssumption

-----------------------------------------------------------------------------
(* The statements of vh_enqueue_value in the application thread.               *)

(* A statement that links nothing keeps the chain. *)
LEMMA SubmitKeeps ==
    ASSUME Reachable,
           SubmitSharedmem \/ TestEmpty \/ FirstTail \/ FirstSize
              \/ LinkTail \/ LinkRead \/ LinkSize
    PROVE  ListInv'
PROOF
  <1>. USE DEF SubmitSharedmem, TestEmpty, FirstTail, FirstSize, LinkTail, LinkRead, LinkSize,
              SubmitGoesOn, listVars, headVars, submitVars, leaderVars, Unlocked
  <1>1. WrappersFit /\ ResetFits /\ TakeFits /\ ListFits
    BY DEF Reachable, ListInv
  <1>2. Listed' = Listed /\ next' = next /\ vh_list_head' = vh_list_head
    BY DEF Listed
  <1>3. WrappersFit'
    BY <1>1, <1>2 DEF WrappersFit, ValuesTypeOK, Unlinked, MemoryLeft
  <1>4. ResetFits'
    BY <1>1 DEF ResetFits
  <1>5. TakeFits'
    BY <1>1 DEF TakeFits
  <1>6. PICK n, s : ListIs(n, s)
    BY <1>1 DEF ListFits
  <1>7. IsChain(n, s, vh_list_head', next', Listed')
    BY <1>2, <1>6 DEF ListIs
  <1>8. Unlinked' => \A j \in 1 .. n : s[j] # new_vw'
    <2>1. CASE TestEmpty
      BY <1>6, <2>1 DEF ListIs, Unlinked
    <2>2. CASE ~ TestEmpty
      BY <2>2 DEF Unlinked
    <2>. QED  BY <2>1, <2>2
  <1>9. ASSUME ~ overlapped', resetting' = {}
        PROVE  Agrees(n, s)'
    <2>1. ~ overlapped /\ resetting = {}
      <3>1. resetting' = resetting
        OBVIOUS
      <3>2. CASE SubmitSharedmem
        BY <1>9, <3>2
      <3>3. CASE overlapped' = overlapped
        BY <1>9, <3>1, <3>3
      <3>4. SubmitSharedmem \/ overlapped' = overlapped
        BY Zenon
      <3>. QED  BY <3>2, <3>3, <3>4
    <2>2. Agrees(n, s) /\ n \in Nat
      BY <1>6, <2>1 DEF ListIs, IsChain
    <2>3. CASE SubmitSharedmem
      BY <2>2, <2>3 DEF Agrees, Whole
    <2>4. CASE TestEmpty
      <3>1. Whole(n, s)
        BY <2>2, <2>4 DEF Agrees
      <3>2. IsEmptyList <=> n = 0
        BY <1>1, <1>6, <3>1, ListEnds DEF IsEmptyList, Whole
      <3>. QED  BY <2>4, <3>1, <3>2 DEF Agrees, Whole
    <2>5. CASE FirstTail
      BY <2>2, <2>5 DEF Agrees
    <2>6. CASE FirstSize
      BY <2>2, <2>6 DEF Agrees, Whole, LastOf
    <2>7. CASE LinkTail
      BY <2>2, <2>7 DEF Agrees
    <2>8. CASE LinkRead
      BY <2>2, <2>8 DEF Agrees
    <2>9. CASE LinkSize
      BY <2>2, <2>9 DEF Agrees, Whole, LastOf
    <2>. QED  BY <2>3, <2>4, <2>5, <2>6, <2>7, <2>8, <2>9
  <1>10. ListIs(n, s)'
    BY <1>7, <1>8, <1>9 DEF ListIs
  <1>. QED  BY <1>3, <1>4, <1>5, <1>10 DEF ListInv, ListFits

(* An assertion fails, and nothing else happens: only after an overlap. *)
LEMMA AbortKeeps ==
    ASSUME Reachable, Abort, overlapped
    PROVE  ListInv'
PROOF
  <1>. USE DEF Abort, listVars, headVars, submitVars, leaderVars
  <1>1. WrappersFit /\ ResetFits /\ TakeFits /\ ListFits
    BY DEF Reachable, ListInv
  <1>2. WrappersFit'
    BY <1>1 DEF WrappersFit, ValuesTypeOK, Unlinked, MemoryLeft, Listed
  <1>3. ResetFits' /\ TakeFits'
    BY <1>1 DEF ResetFits, TakeFits
  <1>4. PICK n, s : ListIs(n, s)
    BY <1>1 DEF ListFits
  <1>5. ListIs(n, s)'
    BY <1>4 DEF ListIs, Listed, Unlinked
  <1>. QED  BY <1>2, <1>3, <1>5 DEF ListInv, ListFits

(* The new wrapper is not yet in the list. *)
LEMMA TestSizeKeeps ==
    ASSUME Reachable, TestSize
    PROVE  ListInv'
PROOF
  <1>. USE DEF TestSize, listVars, headVars, submitVars, leaderVars
  <1>1. WrappersFit /\ ResetFits /\ TakeFits /\ ListFits
    BY DEF Reachable, ListInv
  <1>2. ResetFits'
    BY <1>1 DEF ResetFits
  <1>3. TakeFits'
    BY <1>1 DEF TakeFits
  <1>4. PICK n, s : ListIs(n, s)
    BY <1>1 DEF ListFits
  <1>5. CASE TooLong
    <2>1. WrappersFit'
      BY <1>1, <1>5 DEF WrappersFit, ValuesTypeOK, Unlinked, MemoryLeft, Listed
    <2>2. ListIs(n, s)'
      <3>1. Agrees(n, s) => Agrees(n, s)'
        BY <1>5 DEF Agrees, Whole
      <3>. QED  BY <1>4, <1>5, <3>1 DEF ListIs, Listed, Unlinked
    <2>. QED  BY <1>2, <1>3, <2>1, <2>2 DEF ListInv, ListFits
  <1>6. CASE ~ TooLong
    <2>1. PICK w : w = FreeWrapper
      OBVIOUS
    <2>2. w \in Wrappers \ allocated /\ w # NULL
      BY <1>1, <2>1, Free DEF WrappersFit
    <2>3. /\ submit_pc' = "empty" /\ new_vw' = w
          /\ allocated' = allocated \cup {w}
          /\ next' = [next EXCEPT ![w] = NULL]
          /\ UNCHANGED <<vh_list_size, headVars, assigned, size_read, overlapped, resetting>>
      BY <1>6, <2>1
    <2>4. Listed' = Listed \cup {w} /\ w \notin Listed
      BY <1>1, <2>2, <2>3 DEF Listed, WrappersFit, ValuesTypeOK
    <2>5. next'[w] = NULL /\ \A v \in Listed : next'[v] = next[v]
      BY <1>1, <2>2, <2>3, <2>4 DEF WrappersFit, ValuesTypeOK, Listed
    <2>6. WrappersFit'
      <3>1. ValuesTypeOK' /\ size_read' \in Int
        BY <1>1, <2>2, <2>3 DEF WrappersFit, ValuesTypeOK
      <3>2. vh_list_tail' \in Listed' \cup {NULL} /\ vh_list_tail' # w
        BY <1>1, <2>2, <2>3, <2>4 DEF WrappersFit
      <3>. QED  BY <2>3, <2>4, <2>5, <3>1, <3>2 DEF WrappersFit, Unlinked
    <2>7. IsChain(n, s, vh_list_head, next, Listed)
      BY <1>4 DEF ListIs
    <2>8. \A j \in 1 .. n : s[j] \in Listed
      BY <2>7 DEF IsChain
    <2>9. IsChain(n, s, vh_list_head', next', Listed')
      <3>1. vh_list_head' = vh_list_head
        BY <2>3
      <3>2. \A j \in 1 .. n : s[j] \in Listed' /\ next'[s[j]] = next[s[j]]
        BY <2>4, <2>5, <2>8
      <3>. QED  BY <2>7, <3>1, <3>2, SameChain
    <2>10. Agrees(n, s) => Agrees(n, s)'
      BY <2>3 DEF Agrees, Whole
    <2>11. ListIs(n, s)'
      BY <1>4, <2>3, <2>4, <2>8, <2>9, <2>10 DEF ListIs
    <2>. QED  BY <1>2, <1>3, <2>6, <2>11 DEF ListInv, ListFits
  <1>. QED  BY <1>5, <1>6

(* It is the only one. *)
LEMMA FirstHeadKeeps ==
    ASSUME Reachable, FirstHead
    PROVE  ListInv'
PROOF
  <1>. USE DEF FirstHead, SubmitGoesOn, listVars, headVars, submitVars, leaderVars
  <1>1. WrappersFit /\ ResetFits /\ TakeFits
    BY DEF Reachable, ListInv
  <1>2. Listed' = Listed /\ next' = next /\ vh_list_head' = new_vw /\ new_vw' = new_vw
    BY DEF Listed
  <1>3. new_vw \in Listed /\ next[new_vw] = NULL /\ new_vw # NULL
    BY <1>1, ValuesHandlerAssumption DEF WrappersFit, Unlinked, Listed, ValuesTypeOK
  <1>4. WrappersFit'
    BY <1>1, <1>2 DEF WrappersFit, ValuesTypeOK, Unlinked
  <1>5. ResetFits' /\ TakeFits'
    BY <1>1, <1>2, <1>3 DEF ResetFits, TakeFits
  <1>6. PICK r : IsChain(1, r, new_vw, next, Listed) /\ r[1] = new_vw
    BY <1>3, SingleChain
  <1>7. ListIs(1, r)'
    BY <1>2, <1>6 DEF ListIs, Unlinked, Agrees
  <1>. QED  BY <1>4, <1>5, <1>7 DEF ListInv, ListFits

(* It comes after the last. *)
LEMMA LinkNextKeeps ==
    ASSUME Reachable, LinkNext
    PROVE  ListInv'
PROOF
  <1>. USE DEF listVars, headVars, submitVars, leaderVars
  <1>1. WrappersFit /\ ResetFits /\ TakeFits /\ ListFits /\ submit_pc = "link_next"
    BY DEF Reachable, ListInv, LinkNext
  <1>2. PICK n, s : ListIs(n, s)
    BY <1>1 DEF ListFits
  <1>3. ~ overlapped => n # 0 /\ Whole(n, s)
    BY <1>1, <1>2 DEF ListIs, ResetFits, Agrees
  <1>4. CASE vh_list_tail = NULL
    <2>1. overlapped
      BY <1>1, <1>2, <1>3, <1>4, ListEnds DEF Whole
    <2>. QED  BY <1>4, <2>1, AbortKeeps DEF LinkNext
  <1>5. CASE vh_list_tail # NULL
    <2>1. PICK t, w : t = vh_list_tail /\ w = new_vw
      OBVIOUS
    <2>2. /\ t \in Listed /\ w \in Listed /\ t # w /\ next[w] = NULL
          /\ \A j \in 1 .. n : s[j] # w
      BY <1>1, <1>2, <1>5, <2>1 DEF WrappersFit, Unlinked, ListIs
    <2>3. /\ submit_pc' = "link_tail"
          /\ next' = [next EXCEPT ![t] = w]
          /\ UNCHANGED <<vh_list_size, headVars, new_vw, size_read, allocated, assigned,
                         leaderVars, overlapped, aborted>>
      BY <1>5, <2>1 DEF LinkNext, SubmitGoesOn
    <2>4. Listed' = Listed
      BY <2>3 DEF Listed
    <2>5. next'[t] = w /\ next'[w] = NULL /\ \A v \in Listed \ {t, w} : next'[v] = next[v]
      BY <1>1, <2>2, <2>3 DEF WrappersFit, ValuesTypeOK, Listed
    <2>6. WrappersFit'
      <3>1. ValuesTypeOK' /\ size_read' \in Int
        BY <1>1, <2>1, <2>2, <2>3 DEF WrappersFit, ValuesTypeOK
      <3>. QED  BY <1>1, <2>3, <2>4, <3>1 DEF WrappersFit, Unlinked
    <2>7. ResetFits' /\ TakeFits'
      BY <1>1, <2>3 DEF ResetFits, TakeFits
    <2>8. IsChain(n, s, vh_list_head, next, Listed)
      BY <1>2 DEF ListIs
    <2>9. PICK m, r : /\ IsChain(m, r, vh_list_head, next', Listed)
                      /\ n # 0 /\ LastOf(n, s) = t => m = n + 1 /\ r[m] = w
      BY <2>2, <2>5, <2>8, LinkChain
    <2>10. ~ overlapped => Agrees(m, r)'
      <3>. SUFFICES ASSUME ~ overlapped PROVE Agrees(m, r)'
        OBVIOUS
      <3>1. n # 0 /\ n \in Nat /\ vh_list_size = n /\ LastOf(n, s) = t
        BY <1>3, <2>1, <2>8 DEF Whole, IsChain
      <3>2. m = n + 1 /\ r[m] = w
        BY <2>9, <3>1
      <3>3. m > 1 /\ vh_list_size = m - 1
        BY <3>1, <3>2
      <3>. QED  BY <2>1, <2>3, <3>2, <3>3 DEF Agrees
    <2>11. ListIs(m, r)'
      BY <2>3, <2>4, <2>9, <2>10 DEF ListIs, Unlinked
    <2>. QED  BY <2>6, <2>7, <2>11 DEF ListInv, ListFits
  <1>. QED  BY <1>4, <1>5

(* So does every statement of the application thread. *)
LEMMA SubmitList ==
    ASSUME Reachable, SubmitStep
    PROVE  ListInv'
PROOF
  BY SubmitKeeps, TestSizeKeeps, FirstHeadKeeps, LinkNextKeeps DEF SubmitStep

-----------------------------------------------------------------------------
(* The operations of the event loop.                                           *)

(* A handler of the loop that leaves the list alone, and takes no wrapper out of
   it, leaves a chain. *)
LEMMA ListStays ==
    ASSUME ListFits, Listed \subseteq Listed',
           UNCHANGED <<listVars, submitVars, resetting, overlapped>>
    PROVE  ListFits'
PROOF
  <1>. USE DEF listVars, headVars, submitVars
  <1>1. PICK n, s : ListIs(n, s)
    BY DEF ListFits
  <1>2. IsChain(n, s, vh_list_head', next', Listed')
    <2>1. IsChain(n, s, vh_list_head, next, Listed)
      BY <1>1 DEF ListIs
    <2>2. \A j \in 1 .. n : s[j] \in Listed' /\ next'[s[j]] = next[s[j]]
      BY <2>1 DEF IsChain
    <2>3. IsChain(n, s, vh_list_head, next', Listed')
      BY <2>1, <2>2, SameChain
    <2>. QED  BY <2>3
  <1>3. ListIs(n, s)'
    <2>1. Agrees(n, s) => Agrees(n, s)'
      BY DEF Agrees, Whole
    <2>. QED  BY <1>1, <1>2, <2>1 DEF ListIs, Unlinked
  <1>. QED  BY <1>3 DEF ListFits

(* Taking a value, values of instances that come and go, and stepping down. *)
LEMMA HandlerKeeps ==
    ASSUME Reachable, FindPending \/ FindInPhase1 \/ StepDown \/ Drained
                         \/ \E w \in assigned : ClearInstance(w)
    PROVE  ListInv'
PROOF
  <1>. USE DEF Handling, LoopGoesOn, listVars, headVars, submitVars
  <1>1. WrappersFit /\ ResetFits /\ TakeFits /\ ListFits
    BY DEF Reachable, ListInv
  <1>2. /\ UNCHANGED <<listVars, submitVars, resetting, overlapped, aborted>>
        /\ Unlocked /\ loop_pc # "vh_init"
    BY DEF FindPending, FindInPhase1, StepDown, Drained, ClearInstance
  <1>3. ValuesTypeOK' /\ Listed \subseteq Listed'
    <2>1. CASE FindPending \/ StepDown \/ Drained
      BY <1>1, <2>1 DEF FindPending, StepDown, Drained, WrappersFit, ValuesTypeOK, Listed
    <2>2. CASE \E w \in assigned : ClearInstance(w)
      <3>1. PICK w \in assigned : ClearInstance(w)
        BY <2>2
      <3>2. assigned' = assigned \ {w} /\ allocated' = allocated \ {w}
        BY <3>1 DEF ClearInstance
      <3>. QED  BY <1>1, <1>2, <3>2 DEF WrappersFit, ValuesTypeOK, Listed
    <2>3. CASE FindInPhase1
      <3>1. PICK w : w = FreeWrapper
        OBVIOUS
      <3>2. w \in Wrappers \ allocated
        BY <1>1, <2>3, <3>1, Free DEF FindInPhase1
      <3>3. /\ \E replaced : assigned' = (assigned \ replaced) \cup {w}
            /\ allocated' = allocated \cup {w}
        BY <2>3, <3>1 DEF FindInPhase1
      <3>. QED  BY <1>1, <1>2, <3>2, <3>3 DEF WrappersFit, ValuesTypeOK, Listed
    <2>. QED  BY <2>1, <2>2, <2>3
  <1>4. WrappersFit'
    BY <1>1, <1>2, <1>3 DEF WrappersFit, Unlinked, Unlocked
  <1>5. ResetFits'
    BY <1>1, <1>2 DEF ResetFits
  <1>6. ListFits'
    BY <1>1, <1>2, <1>3, ListStays
  <1>7. TakeFits'
    <2>1. CASE FindPending
      <3>1. PICK n, s : ListIs(n, s)
        BY <1>1 DEF ListFits
      <3>2. resetting = {} /\ vh_list_size # 0
        BY <1>2, <2>1 DEF FindPending, Reachable, ResetInv
      <3>3. ~ overlapped => vh_list_head # NULL
        BY <1>1, <1>2, <3>1, <3>2, ListEnds, FreeIsWhole DEF Whole
      <3>. QED  BY <1>1, <1>2, <3>3 DEF TakeFits
    <2>2. CASE ~ FindPending
      <3>1. loop_pc' # "take" \/ loop_pc' = loop_pc
        BY <2>2 DEF FindInPhase1, StepDown, Drained, ClearInstance
      <3>. QED  BY <1>1, <1>2, <3>1 DEF TakeFits
    <2>. QED  BY <2>1, <2>2
  <1>. QED  BY <1>4, <1>5, <1>6, <1>7 DEF ListInv

(* A value is taken for an instance, or freed at step down: a list that was not
   reset by half has one when it is not empty. *)
LEMMA PopKeeps ==
    ASSUME Reachable, TakePending \/ Drain
    PROVE  ListInv'
PROOF
  <1>. USE DEF Handling, LoopGoesOn, listVars, headVars, submitVars
  <1>1. WrappersFit /\ ResetFits /\ TakeFits /\ ListFits
    BY DEF Reachable, ListInv
  <1>2. Unlocked /\ loop_pc # "vh_init" /\ resetting = {}
    BY DEF TakePending, Drain, Reachable, ResetInv
  <1>3. PICK n, s : ListIs(n, s)
    BY <1>1 DEF ListFits
  <1>4. ~ overlapped => Whole(n, s)
    BY <1>2, <1>3, FreeIsWhole
  <1>5. CASE vh_list_head = NULL
    <2>1. overlapped
      <3>1. CASE TakePending
        BY <1>1, <1>5, <3>1 DEF TakePending, TakeFits
      <3>2. CASE Drain
        BY <1>1, <1>3, <1>4, <1>5, <3>2, ListEnds DEF Drain, IsEmptyList, Whole
      <3>. QED  BY <3>1, <3>2
    <2>2. Abort
      BY <1>5 DEF TakePending, Drain
    <2>. QED  BY <2>1, <2>2, AbortKeeps
  <1>6. CASE vh_list_head # NULL
    <2>1. PICK h : h = vh_list_head
      OBVIOUS
    <2>2. /\ n # 0 /\ n \in Nat /\ h \in Listed /\ h \in Wrappers
      BY <1>1, <1>3, <1>6, <2>1, ListEnds DEF WrappersFit, ValuesTypeOK
    <2>3. /\ vh_list_head' = next[h]
          /\ vh_list_tail' = IF vh_list_tail = h THEN NULL ELSE vh_list_tail
          /\ vh_list_size' = vh_list_size - 1
          /\ UNCHANGED <<next, submitVars, resetting, overlapped, aborted>>
          /\ loop_pc' # "take"
      BY <1>6, <2>1 DEF TakePending, Drain, Popped
    <2>4. \/ assigned' = assigned \cup {h} /\ allocated' = allocated
          \/ assigned' = assigned /\ allocated' = allocated \ {h}
      BY <1>6, <2>1 DEF TakePending, Drain, Popped
    <2>5. Listed' = Listed \ {h}
      BY <2>4 DEF Listed
    <2>6. ValuesTypeOK'
      <3>1. next[h] \in Wrappers \cup {NULL} /\ vh_list_size - 1 \in Int
        BY <1>1, <2>2 DEF WrappersFit, ValuesTypeOK
      <3>2. assigned' \subseteq allocated' /\ allocated' \subseteq Wrappers
        BY <1>1, <2>2, <2>4 DEF WrappersFit, ValuesTypeOK, Listed
      <3>. QED  BY <1>1, <2>3, <3>1, <3>2 DEF WrappersFit, ValuesTypeOK
    <2>7. WrappersFit'
      BY <1>1, <1>2, <2>3, <2>5, <2>6 DEF WrappersFit, Unlinked, Unlocked
    <2>8. ResetFits' /\ TakeFits'
      BY <1>1, <1>2, <2>3 DEF ResetFits, TakeFits
    <2>9. IsChain(n, s, h, next, Listed)
      BY <1>3, <2>1 DEF ListIs
    <2>10. PICK r : IsRest(r, n, s, h, next, Listed)
      BY <2>2, <2>9, PopChain
    <2>11. LastOf(n, s) = h <=> n = 1
      BY <2>2, <2>9, OneWrapper
    <2>12. Whole(n, s) => Whole(n - 1, r)'
      BY <2>2, <2>3, <2>10, <2>11 DEF Whole, IsRest
    <2>13. ListIs(n - 1, r)'
      BY <1>2, <1>4, <2>3, <2>5, <2>10, <2>12 DEF IsRest, ListIs, Agrees, Unlocked, Unlinked
    <2>. QED  BY <2>7, <2>8, <2>13 DEF ListInv, ListFits
  <1>. QED  BY <1>5, <1>6

(* A value that lost its instance is put first again. *)
LEMMA PushBackKeeps ==
    ASSUME Reachable, NEW w \in assigned, DeliverOther(w) \/ GiveBack(w)
    PROVE  ListInv'
PROOF
  <1>. USE DEF Handling, LoopGoesOn, listVars, headVars, submitVars
  <1>1. WrappersFit /\ ResetFits /\ TakeFits /\ ListFits
    BY DEF Reachable, ListInv
  <1>2. Unlocked /\ loop_pc # "vh_init" /\ resetting = {}
    BY DEF DeliverOther, GiveBack, Reachable, ResetInv
  <1>3. PICK n, s : ListIs(n, s)
    BY <1>1 DEF ListFits
  <1>4. ~ overlapped => Whole(n, s)
    BY <1>2, <1>3, FreeIsWhole
  <1>5. /\ next' = [next EXCEPT ![w] = vh_list_head]
        /\ vh_list_head' = w
        /\ vh_list_tail' = IF IsEmptyList THEN w ELSE vh_list_tail
        /\ vh_list_size' = IF IsEmptyList THEN 1 ELSE vh_list_size + 1
        /\ assigned' = assigned \ {w}
        /\ UNCHANGED <<allocated, submitVars, resetting, overlapped, aborted>>
        /\ loop_pc' # "take"
    BY DEF DeliverOther, GiveBack, PushedBack
  <1>6. /\ w \in Wrappers \cap allocated /\ w \notin Listed
        /\ Listed' = Listed \cup {w}
    BY <1>1, <1>5 DEF WrappersFit, ValuesTypeOK, Listed
  <1>7. ValuesTypeOK'
    <2>1. next' \in [Wrappers -> Wrappers \cup {NULL}]
      BY <1>1, <1>5, <1>6 DEF WrappersFit, ValuesTypeOK
    <2>2. vh_list_size' \in Int
      BY <1>1, <1>5 DEF WrappersFit, ValuesTypeOK
    <2>. QED  BY <1>1, <1>5, <1>6, <2>1, <2>2 DEF WrappersFit, ValuesTypeOK
  <1>8. WrappersFit'
    BY <1>1, <1>2, <1>5, <1>6, <1>7 DEF WrappersFit, Unlinked, Unlocked
  <1>9. ResetFits' /\ TakeFits'
    BY <1>1, <1>2, <1>5 DEF ResetFits, TakeFits
  <1>10. next'[w] = vh_list_head /\ \A v \in Listed : next'[v] = next[v]
    BY <1>1, <1>5, <1>6 DEF WrappersFit, ValuesTypeOK, Listed
  <1>11. IsChain(n, s, vh_list_head, next, Listed)
    BY <1>3 DEF ListIs
  <1>12. PICK r : /\ IsChain(n + 1, r, w, next', Listed \cup {w})
                  /\ LastOf(n + 1, r) = IF n = 0 THEN w ELSE LastOf(n, s)
    BY <1>6, <1>10, <1>11, PushChain
  <1>13. Whole(n, s) => Whole(n + 1, r)'
    <2>. SUFFICES ASSUME Whole(n, s) PROVE Whole(n + 1, r)'
      OBVIOUS
    <2>1. IsEmptyList <=> n = 0
      BY <1>1, <1>3, ListEnds DEF IsEmptyList, Whole
    <2>2. n \in Nat
      BY <1>11 DEF IsChain
    <2>. QED  BY <1>5, <1>12, <2>1, <2>2 DEF Whole
  <1>14. ListIs(n + 1, r)'
    BY <1>2, <1>4, <1>5, <1>6, <1>12, <1>13 DEF ListIs, Agrees, Unlocked, Unlinked
  <1>. QED  BY <1>8, <1>9, <1>14 DEF ListInv, ListFits

(* A submitted value comes after the last. *)
LEMMA ReceiveKeeps ==
    ASSUME Reachable, ReceiveSubmit
    PROVE  ListInv'
PROOF
  <1>. USE DEF Handling, LoopGoesOn, listVars, headVars, submitVars
  <1>1. WrappersFit /\ ResetFits /\ TakeFits /\ ListFits
    BY DEF Reachable, ListInv
  <1>2. Unlocked /\ loop_pc = "idle" /\ resetting = {} /\ MemoryLeft
    BY DEF ReceiveSubmit, Reachable, ResetInv
  <1>3. PICK n, s : ListIs(n, s)
    BY <1>1 DEF ListFits
  <1>4. ~ overlapped => Whole(n, s)
    BY <1>2, <1>3, FreeIsWhole
  <1>5. CASE ~ IsEmptyList /\ vh_list_tail = NULL
    <2>1. overlapped
      BY <1>1, <1>3, <1>4, <1>5, ListEnds DEF IsEmptyList, Whole
    <2>2. Abort
      BY <1>5 DEF ReceiveSubmit
    <2>. QED  BY <2>1, <2>2, AbortKeeps
  <1>6. CASE IsEmptyList \/ vh_list_tail # NULL
    <2>1. PICK w, t : w = FreeWrapper /\ t = vh_list_tail
      OBVIOUS
    <2>2. w \in Wrappers /\ w \notin allocated /\ w # NULL
      BY <1>1, <1>2, <2>1, Free
    <2>3. /\ Enqueue(w)
          /\ UNCHANGED <<assigned, submitVars, resetting, overlapped, aborted, loop_pc>>
      BY <1>2, <1>6, <2>1 DEF ReceiveSubmit
    <2>4. Listed' = Listed \cup {w} /\ w \notin Listed
      BY <1>1, <2>2, <2>3 DEF Listed, Enqueue, WrappersFit, ValuesTypeOK
    <2>5. vh_list_tail' = w /\ vh_list_head' \in {w, vh_list_head}
      BY <2>3 DEF Enqueue
    <2>6. ~ IsEmptyList => t \in Listed /\ t # w
      BY <1>1, <1>6, <2>1, <2>4 DEF WrappersFit
    <2>7. ValuesTypeOK'
      <3>1. next' \in [Wrappers -> Wrappers \cup {NULL}]
        BY <1>1, <2>1, <2>2, <2>3 DEF WrappersFit, ValuesTypeOK, Enqueue
      <3>2. vh_list_size' \in Int
        BY <1>1, <2>3 DEF WrappersFit, ValuesTypeOK, Enqueue
      <3>3. assigned' \subseteq allocated' /\ allocated' \subseteq Wrappers
        BY <1>1, <2>2, <2>3 DEF WrappersFit, ValuesTypeOK, Enqueue
      <3>4. new_vw' = new_vw
        BY <2>3
      <3>. QED  BY <1>1, <2>2, <2>5, <3>1, <3>2, <3>3, <3>4 DEF WrappersFit, ValuesTypeOK
    <2>8. WrappersFit'
      BY <1>1, <1>2, <2>3, <2>4, <2>5, <2>7 DEF WrappersFit, Unlinked, Unlocked
    <2>9. ResetFits' /\ TakeFits'
      BY <1>1, <1>2, <2>3 DEF ResetFits, TakeFits
    <2>10. CASE IsEmptyList
      <3>1. /\ vh_list_head' = w /\ vh_list_size' = 1
            /\ next' = [next EXCEPT ![w] = NULL]
        BY <2>3, <2>10 DEF Enqueue
      <3>2. next'[w] = NULL
        BY <1>1, <2>2, <3>1 DEF WrappersFit, ValuesTypeOK
      <3>3. PICK r : IsChain(1, r, w, next', Listed \cup {w}) /\ r[1] = w
        BY <3>2, SingleChain
      <3>4. Whole(1, r)'
        BY <2>5, <3>1, <3>3 DEF Whole, LastOf
      <3>5. ListIs(1, r)'
        BY <1>2, <2>3, <2>4, <3>1, <3>3, <3>4 DEF ListIs, Agrees, Unlocked, Unlinked
      <3>. QED  BY <2>8, <2>9, <3>5 DEF ListInv, ListFits
    <2>11. CASE ~ IsEmptyList
      <3>1. /\ vh_list_head' = vh_list_head /\ vh_list_size' = vh_list_size + 1
            /\ next' = [next EXCEPT ![w] = NULL, ![t] = w]
        BY <2>1, <2>3, <2>11 DEF Enqueue
      <3>2. next'[t] = w /\ next'[w] = NULL /\ \A v \in Listed \ {t, w} : next'[v] = next[v]
        <4>1. t \in Wrappers /\ t # w /\ Listed \subseteq Wrappers
          BY <1>1, <2>6, <2>11 DEF WrappersFit, ValuesTypeOK, Listed
        <4>2. next \in [Wrappers -> Wrappers \cup {NULL}]
          BY <1>1 DEF WrappersFit, ValuesTypeOK
        <4>. QED  BY <2>2, <3>1, <4>1, <4>2
      <3>3. IsChain(n, s, vh_list_head, next, Listed)
        BY <1>3 DEF ListIs
      <3>4. \A j \in 1 .. n : s[j] # w
        BY <2>4, <3>3 DEF IsChain
      <3>5. Listed \subseteq Listed' /\ w \in Listed'
        BY <2>4
      <3>6. PICK m, r : /\ IsChain(m, r, vh_list_head, next', Listed')
                        /\ n # 0 /\ LastOf(n, s) = t => m = n + 1 /\ r[m] = w
        BY <3>2, <3>3, <3>4, <3>5, LinkChain
      <3>7. Whole(n, s) => Whole(m, r)'
        <4>. SUFFICES ASSUME Whole(n, s) PROVE Whole(m, r)'
          OBVIOUS
        <4>1. n # 0
          BY <1>1, <1>3, <2>11, ListEnds DEF IsEmptyList, Whole
        <4>2. n \in Nat /\ vh_list_size = n /\ LastOf(n, s) = t
          BY <2>1, <3>3 DEF Whole, IsChain
        <4>3. m = n + 1 /\ r[m] = w
          BY <3>6, <4>1, <4>2
        <4>4. m # 0 /\ vh_list_size' = m
          BY <3>1, <4>2, <4>3
        <4>. QED  BY <2>5, <4>3, <4>4 DEF Whole, LastOf
      <3>8. ListIs(m, r)'
        BY <1>2, <1>4, <2>3, <2>4, <3>1, <3>6, <3>7 DEF ListIs, Agrees, Unlocked, Unlinked
      <3>. QED  BY <2>8, <2>9, <3>8 DEF ListInv, ListFits
    <2>. QED  BY <2>10, <2>11
  <1>. QED  BY <1>5, <1>6

(* Calling vh_init changes nothing yet. *)
LEMMA BeginKeeps ==
    ASSUME Reachable, BeginReset
    PROVE  ListInv'
PROOF
  <1>. USE DEF BeginReset, listVars, headVars, submitVars
  <1>1. WrappersFit /\ ListFits
    BY DEF Reachable, ListInv
  <1>2. WrappersFit'
    BY <1>1 DEF WrappersFit, ValuesTypeOK, Unlinked, MemoryLeft, Listed
  <1>3. ResetFits'
    BY DEF ResetFits, Unlocked
  <1>4. TakeFits'
    BY DEF TakeFits, Reachable
  <1>5. PICK n, s : ListIs(n, s)
    BY <1>1 DEF ListFits
  <1>6. ListIs(n, s)'
    <2>1. resetting' # {}
      OBVIOUS
    <2>. QED  BY <1>5, <2>1 DEF ListIs, Listed, Unlinked
  <1>. QED  BY <1>2, <1>3, <1>4, <1>6 DEF ListInv, ListFits

(* Its stores empty the list, in any order. *)
LEMMA ResetKeeps ==
    ASSUME Reachable, NEW name \in resetting, Reset(name)
    PROVE  ListInv'
PROOF
  <1>. USE DEF Reset, submitVars
  <1>1. WrappersFit /\ ResetFits /\ TakeFits /\ ListFits
    BY DEF Reachable, ListInv
  <1>2. Listed' = Listed /\ next' = next
    BY DEF Listed
  <1>3. WrappersFit'
    <2>1. /\ vh_list_size' \in {0, vh_list_size}
          /\ vh_list_head' \in {NULL, vh_list_head}
          /\ vh_list_tail' \in {NULL, vh_list_tail}
      OBVIOUS
    <2>2. ValuesTypeOK' /\ size_read' \in Int
      BY <1>1, <2>1 DEF WrappersFit, ValuesTypeOK
    <2>3. Unlinked' => next'[new_vw'] = NULL /\ vh_list_tail' # new_vw'
      <3>1. Unlinked => new_vw # NULL
        BY <1>1, ValuesHandlerAssumption DEF WrappersFit, ValuesTypeOK, Unlinked, Listed
      <3>. QED  BY <1>1, <2>1, <3>1 DEF WrappersFit, Unlinked
    <2>. QED  BY <1>1, <1>2, <2>1, <2>2, <2>3 DEF WrappersFit, MemoryLeft
  <1>4. ResetFits'
    BY <1>1 DEF ResetFits
  <1>5. TakeFits'
    BY <1>1 DEF TakeFits
  <1>6. PICK n, s : ListIs(n, s)
    BY <1>1 DEF ListFits
  <1>7. ASSUME ~ overlapped', resetting' = {}
        PROVE  /\ submit_pc' = "idle" /\ vh_list_size' = 0
               /\ vh_list_head' = NULL /\ vh_list_tail' = NULL
    <2>1. ~ overlapped /\ resetting # {}
      BY <1>7
    <2>. QED  BY <1>1, <1>7, <2>1 DEF ResetFits
  <1>8. CASE name = "vh_list_head"
    <2>1. PICK r : IsChain(0, r, NULL, next, Listed)
      BY EmptyChain
    <2>2. vh_list_head' = NULL
      BY <1>8
    <2>3. ~ overlapped' /\ resetting' = {} => Agrees(0, r)'
      BY <1>7 DEF Agrees, Whole, LastOf
    <2>4. ListIs(0, r)'
      BY <1>2, <2>1, <2>2, <2>3 DEF ListIs
    <2>. QED  BY <1>3, <1>4, <1>5, <2>4 DEF ListInv, ListFits
  <1>9. CASE name # "vh_list_head"
    <2>1. vh_list_head' = vh_list_head
      BY <1>9
    <2>2. IsChain(n, s, vh_list_head', next', Listed')
      BY <1>2, <1>6, <2>1 DEF ListIs
    <2>3. ~ overlapped' /\ resetting' = {} => Agrees(n, s)'
      <3>. SUFFICES ASSUME ~ overlapped', resetting' = {} PROVE Agrees(n, s)'
        OBVIOUS
      <3>1. n = 0
        BY <1>1, <1>6, <1>7, <2>1, ListEnds
      <3>. QED  BY <1>7, <3>1 DEF Agrees, Whole, LastOf
    <2>4. ListIs(n, s)'
      BY <1>6, <2>2, <2>3 DEF ListIs, Unlinked
    <2>. QED  BY <1>3, <1>4, <1>5, <2>4 DEF ListInv, ListFits
  <1>. QED  BY <1>8, <1>9

(* The proposer leads once all of them are done. *)
LEMMA PromotedKeeps ==
    ASSUME Reachable, Promoted
    PROVE  ListInv'
PROOF
  <1>. USE DEF Promoted, LoopGoesOn, listVars, headVars, submitVars
  <1>1. WrappersFit /\ ResetFits /\ TakeFits /\ ListFits
    BY DEF Reachable, ListInv
  <1>2. Listed' = Listed
    BY DEF Listed
  <1>3. WrappersFit'
    BY <1>1, <1>2 DEF WrappersFit, ValuesTypeOK, Unlinked, MemoryLeft
  <1>4. ResetFits' /\ TakeFits'
    BY <1>1 DEF ResetFits, TakeFits
  <1>5. ListFits'
    BY <1>1, <1>2, ListStays
  <1>. QED  BY <1>3, <1>4, <1>5 DEF ListInv

(* Start-up, and a step of nobody, leave the list alone. *)
LEMMA OutsideKeeps ==
    ASSUME ListInv, UNCHANGED valuesVars
    PROVE  ListInv'
PROOF
  <1>. USE DEF valuesVars, listVars, headVars, submitVars, leaderVars
  <1>1. WrappersFit /\ ResetFits /\ TakeFits /\ ListFits
    BY DEF ListInv
  <1>2. Listed' = Listed
    BY DEF Listed
  <1>3. WrappersFit'
    BY <1>1, <1>2 DEF WrappersFit, ValuesTypeOK, Unlinked, MemoryLeft
  <1>4. ResetFits' /\ TakeFits'
    BY <1>1 DEF ResetFits, TakeFits
  <1>5. ListFits'
    BY <1>1, <1>2, ListStays
  <1>. QED  BY <1>3, <1>4, <1>5 DEF ListInv

(* Every step of the process preserves ListInv. *)
LEMMA ListStep ==
    ASSUME ProcessInv, ListInv, [Next]_vars
    PROVE  ListInv'
PROOF
  <1>1. ~ aborted => Reachable
    BY DEF Reachable, ProcessInv
  <1>2. CASE UNCHANGED valuesVars
    BY <1>2, OutsideKeeps
  <1>3. CASE Submit
    BY <1>1, <1>3, SubmitList DEF Submit, Alive
  <1>4. CASE InitValues
    <2>1. Reachable
      BY <1>1, <1>4 DEF InitValues, Alive
    <2>2. (\E name \in resetting : Reset(name)) \/ Promoted
      BY <1>4 DEF InitValues, FinishReset
    <2>. QED  BY <2>1, <2>2, ResetKeeps, PromotedKeeps
  <1>5. CASE HandleEvent
    <2>1. Reachable /\ LoopStep
      BY <1>1, <1>5 DEF HandleEvent, Alive
    <2>2. CASE \E w \in assigned : DeliverOther(w) \/ GiveBack(w)
      BY <2>1, <2>2, PushBackKeeps
    <2>3. CASE Promote
      BY <2>1, <2>3, BeginKeeps DEF Promote
    <2>4. CASE ReceiveSubmit \/ TakePending \/ Drain
      BY <2>1, <2>4, ReceiveKeeps, PopKeeps
    <2>5. CASE FindPending \/ FindInPhase1 \/ StepDown \/ Drained
                  \/ \E w \in assigned : ClearInstance(w)
      BY <2>1, <2>5, HandlerKeeps
    <2>. QED  BY <2>1, <2>2, <2>3, <2>4, <2>5 DEF LoopStep
  <1>6. CASE InitLearnerThread
    <2>1. Reachable
      BY <1>1, <1>6 DEF InitLearnerThread, Alive
    <2>2. BeginReset \/ UNCHANGED valuesVars
      BY <1>6 DEF InitLearnerThread, EnterInitProposer
    <2>. QED  BY <1>2, <2>1, <2>2, BeginKeeps
  <1>7. CASE InitLearner \/ SpuriousWakeup \/ Signal
    BY <1>2, <1>7 DEF InitLearner, SpuriousWakeup, Signal
  <1>8. CASE UNCHANGED vars
    BY <1>2, <1>8 DEF vars
  <1>. QED  BY <1>3, <1>4, <1>5, <1>6, <1>7, <1>8 DEF Next

(* A chain of listed wrappers fits into the memory. *)
LEMMA ChainFits ==
    ASSUME NEW n, NEW s, NEW h, NEW f, NEW S, IsChain(n, s, h, f, S), S \subseteq Wrappers
    PROVE  /\ Cardinality(Wrappers) \in Nat
           /\ n <= Cardinality(Wrappers)
PROOF
  <1>. DEFINE g == [j \in 1 .. n |-> s[j]]
  <1>1. n \in Nat /\ n \in Int /\ 1 \in Int
    BY DEF IsChain
  <1>2. g \in Injection(1 .. n, Wrappers)
    <2>1. g \in [1 .. n -> Wrappers]
      BY DEF IsChain
    <2>2. \A j, k \in 1 .. n : g[j] = g[k] => j = k
      BY DEF IsChain
    <2>. HIDE DEF g
    <2>. QED  BY <2>1, <2>2 DEF Injection, IsInjective
  <1>3. IsFiniteSet(Wrappers)
    BY ValuesHandlerAssumption
  <1>4. Cardinality(Wrappers) \in Nat
    BY <1>3, FS_CardinalityType
  <1>5. Cardinality(1 .. n) <= Cardinality(Wrappers)
    <2>. HIDE DEF g
    <2>. QED  BY <1>2, <1>3, FS_Injection
  <1>6. Cardinality(1 .. n) = IF 1 > n THEN 0 ELSE n - 1 + 1
    BY <1>1, FS_Interval
  <1>. QED  BY <1>1, <1>4, <1>5, <1>6

(* Chain, which follows the list from the head, meets the wrappers of the chain. *)
LEMMA ChainFollows ==
    ASSUME NEW n, NEW s, IsChain(n, s, vh_list_head, next, Listed),
           NULL \notin Listed, Cardinality(Wrappers) \in Nat, n <= Cardinality(Wrappers)
    PROVE  \A j \in 0 .. n : Chain[j] = s[j + 1]
PROOF
  <1>. DEFINE K == Cardinality(Wrappers)
              D == 0 .. K
              Def(f) == f = [j \in D |-> IF j = 0 THEN vh_list_head
                                         ELSE IF f[j - 1] = NULL THEN NULL
                                              ELSE next[f[j - 1]]]
              w == [j \in D |-> IF j <= n THEN s[j + 1] ELSE NULL]
              r == CHOOSE f : Def(f)
  <1>1. Chain = r
    BY DEF Chain
  <1>2. n \in Nat /\ K \in Nat /\ n <= K
    BY DEF IsChain
  <1>. HIDE DEF K
  <1>3. \A j \in D : w[j] = IF j <= n THEN s[j + 1] ELSE NULL
    OBVIOUS
  <1>4. w = [j \in D |-> w[j]]
    OBVIOUS
  <1>. HIDE DEF w
  <1>5. ASSUME NEW j \in D
        PROVE  w[j] = IF j = 0 THEN vh_list_head
                      ELSE IF w[j - 1] = NULL THEN NULL ELSE next[w[j - 1]]
    <2>1. CASE j = 0
      BY <1>2, <1>3, <2>1 DEF IsChain
    <2>2. CASE j # 0 /\ j <= n
      <3>1. j - 1 \in D /\ j - 1 <= n /\ (j - 1) + 1 = j /\ j \in 1 .. n
        BY <1>2, <2>2
      <3>2. w[j - 1] = s[j] /\ w[j] = s[j + 1]
        BY <1>3, <2>2, <3>1
      <3>3. s[j] # NULL /\ next[s[j]] = s[j + 1]
        BY <3>1 DEF IsChain
      <3>. QED  BY <2>2, <3>2, <3>3
    <2>3. CASE j > n
      <3>1. j - 1 \in D /\ j # 0 /\ (j - 1 <= n => (j - 1) + 1 = n + 1)
        BY <1>2, <2>3
      <3>2. w[j - 1] = NULL
        BY <1>3, <3>1 DEF IsChain
      <3>3. w[j] = NULL
        BY <1>2, <1>3, <2>3
      <3>. QED  BY <3>1, <3>2, <3>3
    <2>4. j = 0 \/ (j # 0 /\ j <= n) \/ j > n
      BY <1>2
    <2>. QED  BY <2>1, <2>2, <2>3, <2>4
  <1>6. Def(w)
    BY <1>4, <1>5
  <1>7. Def(r)
    <2>. HIDE DEF Def
    <2>. QED  BY <1>6
  <1>. HIDE DEF r
  <1>8. ASSUME NEW j \in D
        PROVE  r[j] = IF j = 0 THEN vh_list_head
                      ELSE IF r[j - 1] = NULL THEN NULL ELSE next[r[j - 1]]
    BY <1>7
  <1>. HIDE DEF Def
  <1>. DEFINE S == {j \in Nat : j <= n => r[j] = s[j + 1]}
  <1>9. 0 \in S
    <2>1. 0 \in D
      BY <1>2
    <2>. QED  BY <1>8, <2>1 DEF IsChain
  <1>10. ASSUME NEW j \in Nat, j \in S
         PROVE  j + 1 \in S
    <2>. SUFFICES ASSUME j + 1 <= n PROVE r[j + 1] = s[(j + 1) + 1]
      OBVIOUS
    <2>1. j + 1 \in D /\ j + 1 # 0 /\ (j + 1) - 1 = j /\ j + 1 \in 1 .. n /\ j <= n
      BY <1>2
    <2>2. r[j] = s[j + 1]
      BY <1>10, <2>1
    <2>3. r[j] # NULL /\ next[r[j]] = s[(j + 1) + 1]
      BY <2>1, <2>2 DEF IsChain
    <2>. QED  BY <1>8, <2>1, <2>3
  <1>11. Nat \subseteq S
    <2>. HIDE DEF S
    <2>. QED  BY <1>9, <1>10, NumberInduction
  <1>. QED  BY <1>1, <1>2, <1>11

-----------------------------------------------------------------------------
(* The invariant of the list. *)
THEOREM ListCorrect == Spec => []ListInv
PROOF
  <1>1. Init => ListInv
    <2>. SUFFICES ASSUME Init PROVE ListInv
      OBVIOUS
    <2>. USE DEF Init, ValuesInit
    <2>1. WrappersFit
      BY DEF WrappersFit, ValuesTypeOK, Unlinked
    <2>2. ResetFits /\ TakeFits
      BY DEF ResetFits, TakeFits
    <2>3. PICK s : IsChain(0, s, NULL, next, Listed)
      BY EmptyChain
    <2>4. ListIs(0, s)
      BY <2>3 DEF ListIs, Agrees, Whole, LastOf, Unlinked
    <2>. QED  BY <2>1, <2>2, <2>4 DEF ListInv, ListFits
  <1>. QED  BY <1>1, ListStep, ProcessCorrect, PTL DEF Spec

(* Every variable of the process keeps its shape. *)
THEOREM ProcessTypeCorrect == Spec => []ProcessTypeOK
PROOF
  <1>1. ProcessInv /\ ListInv => ProcessTypeOK
    BY DEF ProcessInv, StartInv, ListInv, WrappersFit, ProcessTypeOK
  <1>. QED  BY <1>1, ProcessCorrect, ListCorrect, PTL

(* The size and the ends of the list are right whenever the lock is free, and no
   value is in the list and in an instance at the same time: though vh_init resets
   the list without the lock, only a submission during a promotion breaks it. *)
THEOREM ListCoherentCorrect == Spec => []ListCoherent
PROOF
  <1>1. ListInv => ListCoherent
    <2>. SUFFICES ASSUME ListInv, Unlocked, resetting = {}, ~ overlapped
                  PROVE  /\ vh_list_size \in 0 .. Cardinality(Wrappers)
                         /\ Chain[vh_list_size] = NULL
                         /\ vh_list_tail = IF vh_list_size = 0 THEN NULL
                                           ELSE Chain[vh_list_size - 1]
                         /\ \A n \in 0 .. vh_list_size - 1 : Chain[n] \in allocated \ assigned
      BY DEF ListCoherent
    <2>1. WrappersFit /\ \E n, s : ListIs(n, s)
      BY DEF ListInv, ListFits
    <2>2. PICK n, s : ListIs(n, s)
      BY <2>1
    <2>3. vh_list_size = n /\ vh_list_tail = LastOf(n, s) /\ n \in Nat /\ NULL \notin Listed
      BY <2>1, <2>2, FreeIsWhole, ListEnds DEF Whole
    <2>4. IsChain(n, s, vh_list_head, next, Listed)
      BY <2>2 DEF ListIs
    <2>5. Listed \subseteq Wrappers
      BY <2>1 DEF WrappersFit, ValuesTypeOK, Listed
    <2>6. Cardinality(Wrappers) \in Nat /\ n <= Cardinality(Wrappers)
      BY <2>4, <2>5, ChainFits
    <2>7. \A j \in 0 .. n : Chain[j] = s[j + 1]
      BY <2>3, <2>4, <2>6, ChainFollows
    <2>8. vh_list_size \in 0 .. Cardinality(Wrappers)
      BY <2>3, <2>6
    <2>9. Chain[n] = NULL
      <3>1. n \in 0 .. n
        BY <2>3
      <3>. QED  BY <2>4, <2>7, <3>1 DEF IsChain
    <2>10. ASSUME n # 0
           PROVE  LastOf(n, s) = Chain[n - 1]
      <3>1. n - 1 \in 0 .. n /\ (n - 1) + 1 = n
        BY <2>3, <2>10
      <3>2. Chain[n - 1] = s[n]
        BY <2>7, <3>1
      <3>. QED  BY <2>10, <3>2 DEF LastOf
    <2>11. ASSUME NEW j \in 0 .. n - 1
           PROVE  Chain[j] \in Listed
      <3>1. j \in 0 .. n /\ j + 1 \in 1 .. n
        BY <2>3
      <3>. QED  BY <2>4, <2>7, <3>1 DEF IsChain
    <2>. QED  BY <2>3, <2>8, <2>9, <2>10, <2>11 DEF LastOf, Listed
  <1>. QED  BY <1>1, ListCorrect, PTL

(* leader_execute_p2 finds the value that leader_open_instances_p2_new saw to be
   there, and no thread follows NULL, unless a submission overlapped vh_init. *)
THEOREM ValueCorrect == Spec => []ValueIsThere
PROOF
  <1>1. ListInv => ValueIsThere
    BY DEF ListInv, TakeFits, ValueIsThere
  <1>. QED  BY <1>1, ListCorrect, PTL

=============================================================================
