# A TLA+ development of LibPaxos2

LibPaxos2 is a C library that gives a group of processes atomic broadcast: every
process delivers the same values in the same order.  It runs Multi-Paxos over UDP
multicast, one single-threaded libevent loop per process.  This directory holds
TLA+ specifications of the protocol code under `lib/`, the TLC configurations that
check them on small instances, and proofs, checked by TLAPS, that hold for every
value of the constants.

Paths below are relative to the repository (`src/`).


## 1. The system

| Component | Code | State it keeps | What it does |
|---|---|---|---|
| Acceptor | `lib/acceptor.c` | one record per instance (ballot promised, ballot and value accepted, final flag), `highest_accepted_iid` | answers prepare, accept and repeat batches; repeats its latest accept on a timer; may store decisions; may restart |
| Stable storage | `lib/acceptor_stable_storage.c` | the records, in Berkeley DB | get and save a record; transaction around each batch; empty or recover the database at start |
| Learner | `lib/learner.c` | circular buffer of instances, `current_iid`, `highest_iid_seen`, `highest_iid_closed` | collects acknowledgements, closes an instance on a quorum, delivers in order, asks for repeats of holes |
| Proposer | `lib/proposer.c` | `proposer_state` (circular buffer), `current_iid`, `current_leader_id` | counts promises, follows the oracle, hears of deliveries from the learner below it |
| Leader | `lib/proposer_leader.c` | `p1_info` (`pending_count`, `ready_count`, `highest_open`), `p2_info` (`next_unused_iid`, `open_count`) | opens instances, runs phase 1 ahead of time, runs phase 2 as values arrive, retries both on timeouts |
| Pending values | `lib/proposer_values_handler.c` | linked list under a mutex | queues client values; takes the next; puts one back |
| Client submit | `lib/submit_handle.c` | none | sends a value to the leader, once, over UDP |
| Send buffers, receivers | `lib/udp_sendbuf.c`, `lib/udp_receiver.c` | one datagram being filled; one being read | batch requests and answers; validate what arrives |
| Leader oracle | `tests/example_oracle.c` | operator's choice | multicasts who leads, with no acknowledgement |

How they interact:

- *Datagrams.*  leader → acceptors: prepare batches, accept batches.  acceptors →
  proposers: batches of promises.  acceptors → learners: batches of accept
  acknowledgements.  learners → acceptors: repeat requests.  clients → leader:
  values.  oracle → proposers: announcements.  Any of them may be lost, repeated or
  reordered; nothing is acknowledged at this level.
- *Calls.*  A proposer runs on top of a learner that shares its event loop.  The
  learner calls `pro_deliver_callback` for each value it delivers, inside the handling
  of the acknowledgement that closed it, and the leader asks
  `learner_is_closed` of the same learner in its phase 2 timer.  An acceptor built with
  `ACCEPTOR_UPDATE_ON_DELIVER` also runs on a learner.
- *Threads.*  Each process has an application thread and the thread of the event loop.
  The first calls `learner_init` (through `proposer_init` or `acceptor_init`), which starts the
  second and waits on a condition variable until it runs, and `pax_submit_sharedmem`, which
  appends to the pending list under a mutex.

What is hard here:

- *Unreliable delivery.*  Every handler must cope with late, repeated and missing
  datagrams; in particular a repeat carries the record as it is at that time, so with
  the ballot promised last and not the one the value was accepted at.
- *Slots that are used again.*  Both circular buffers map many instances to one slot.
  A late message for an old instance meets the new tenant.
- *Timeouts racing answers.*  An instance may be delivered while it is pending,
  ready, open or back in phase 1; five counters must come out right in each case.
- *Leader changes.*  An announcement that some proposer misses gives two leaders, or
  none.  A proposer may lose leadership and get it back.
- *Crashes and restarts.*  An acceptor comes back with its store, without it, with part of
  it, or with the store but without `highest_accepted_iid`.  What it keeps depends on the
  durability mode it was compiled with and on the step at which it went down.
- *One buffer for everything.*  Every record an acceptor reads or writes passes through one
  static buffer, and its answers through one send buffer that may fill in mid-batch.
- *Two threads.*  A signal that may come before the wait; `vh_init`, which resets the list
  without taking its mutex.

What makes each part correct:

- acceptor: it reports no value that was not asked for in that instance at that
  ballot; promises never lose a value; it never acknowledges from a record it lacks;
- learner: an instance closes exactly when the acknowledgements it stored warrant
  it, whatever their order; a slot never serves two instances; delivery is in order
  and stops only at a true gap, which is then visible to the hole check;
- leader: counters equal what they count, until another leader's decisions overtake the window; a value is proposed in one instance, and an
  instance is given one value, across any number of timeouts; every value a lone leader
  takes is decided in the end, and no leader uses one twice;
- store: what was answered is still there after the crashes that the transactional modes are meant
  for; a value is there unannounced only if the process ended between its commit and its answer;
- process: `proposer_init` tells its caller what became of the start; the pending list, its
  size and its ends agree, whichever thread used it last;
- system: learners deliver prefixes of one sequence of submitted values, none twice.


## 2. The modules

`PaxosMessages` — settings, records and datagrams common to all.  `msgs` is the set
of all datagrams ever sent.  Nothing is removed from it, so a datagram that is never
handled was lost, one handled twice was repeated, and the order is free.

`Acceptor` — `store[a][i]` is the record Berkeley DB holds, `NoRecord` if none.  One
action per handler: `HandlePrepareReqBatch`, `HandleAcceptReqBatch`,
`HandleRepeatReqBatch`, `PeriodicRepeater`, `DeliverCallback`
(`ACCEPTOR_UPDATE_ON_DELIVER`) and `Restart`, by `acceptor_init` or
`acceptor_init_recover`.  `AcceptApplies` and `PrepareApplies` are the tests of
`acc_apply_accept` and `acc_apply_prepare`, translated as they are written.
`AcceptorAlone` adds an environment that sends any well-formed batch at any time.

`AcceptorDisk` — the same acceptor at a finer grain, on the operators of `Acceptor`.  A
batch is read (`ReceiveBatch`), handled element by element (`PrepareElement`, `AcceptElement`,
`RepeatElement`), committed (`EndTransaction`) and answered (`FlushAnswers`); when the
next element does not fit the message, `SplitCommit` and `SplitFlush` do in between what
`sendbuf_add_prepare_ack` and `sendbuf_add_accept_ack` do.  `store` is the database as the process reads it, `os` what
a crash of the process leaves of it and `disk` what a crash of the operating system
leaves; `Committed` moves records down as the durability mode says, `WritePage` and
`WriteLog` are what Berkeley DB and the operating system may do unasked.  `ProcessCrash`,
`OSCrash` and `Exit`, which the application's thread calls, may come between any two steps.  In the modes
without a log on disk (0, 10 and 20) a crash may take any of the records with it (`Survivors`):
`paxos_config.h` says that mode 20 "may corrupt database file on crash".  An exit in the middle of a transaction
leaves it undone or written.  `Start` recovers, empties the store, or fails to empty it and opens what is there.  `record_buffer` is the static buffer
of `acceptor_stable_storage.c` and keeps what it held when a record is not found.
`last_answer`, `granted`, `answers` and `cut_off` are history variables.

`Learner` — `learner_state[l]` is the circular buffer.  `HandleAcceptAck` is
`handle_accept_ack` for one acknowledgement, split by outcome: `Ignored`, `Recorded`,
`Closes`.  Closing includes the whole run of `lea_deliver_next_closed`: all that is
delivered, the slots cleared, the callback of each.  `HoleCheck` is the timer.
`delivered` is a history variable: the arguments of the callback.
`LearnerAlone` feeds it any acknowledgement in any order.

`Leader` — proposer, leader and pending list.  `leader[p]` is a record with one field
per static variable of the C files.  Each C function that changes that state is an
operator from such a record to the next (`CheckP1Pending`, `OpenInstancesP1`,
`OpenInstancesP2New`, `OpenInstancesP2Expired`, `CheckP2`, `AfterPromises`,
`CloseInstance`, `Promoted`, `SteppedDown`); the event handlers compose them in the
order the code calls them: `PeriodicP1Check`, `PeriodicP2Check`,
`HandlePrepareAckBatch`, `DeliverCallbacks`, `EnqueueValue`, `HandleOracleMsg`.  A deadline is
abstracted to a free choice of which pending instances have expired.
`LeaderAlone` closes it with the least that acceptors and the learner can do: promise
what they were asked, decide on a value they were asked to accept.  Other leaders are the
values they propose (`OtherValues`), any of which may be reported by a promise, at a ballot of theirs,
or decided, in any instance.  The history variable `overtaken` says that the leader, while it led,
was delivered more than it had opened.

`LearnerStart` — the end of `learner.c`: the caller of `learner_init` (`CreateThread`,
`LockReady`, `CondWait`, `LookAtStatus`) and the learner thread, which runs the start-up
functions in order (`InitSucceeds`, `InitFails`) and signals (`InitLeaFailure`, and
`InitLeaSuccess` as the first event of its loop).

`ValuesHandler` — the pending list as the linked list it is: head, tail, size and `next`
per wrapper.  `pax_submit_sharedmem` is one step per statement; the operations of the loop (`FindPending`
and `TakePending`, `ReceiveSubmit`, `DeliverOther`, `StepDown`, `GiveBack`, `Drain`) are
one step each, since nothing but `vh_init` can see the inside of a locked section, and
`vh_init` runs in the same thread.  `BeginReset` and `Reset` are `vh_init`; its three stores come in any order, because no lock or
barrier orders them for another thread.  An assertion that fails or a NULL that is followed sets `aborted`.

`ProposerProcess` — the two threads of a proposer process together: `LearnerStart` with
`init_proposer` as the custom start-up function, which may run `vh_init`, then submissions
against the loop.

`AtomicBroadcast` — the abstract specification: what is broadcast, one order, and for
each process what it delivered.

`Paxos` — acceptors, proposers and learners together, with the learner's delivery
and the proposer's callback in one step.  It implements `AtomicBroadcast` with
`order` mapped to what the furthest learner delivered.

`MC_*` — the symmetry sets and value sets of the runs.  `AcceptorProofs`,
`AcceptorDiskProofs`, `LearnerProofs`, `LeaderProofs`, `LeaderAloneProofs`,
`ProposerProcessProofs` and `PaxosProofs` — the proofs; `NumberLemmas` — what they share about remainders and
about induction over numbers.

An operator whose comment starts with *Variant:* is a slightly wrong version of the
definition that follows it (a test dropped, a field not reset, one more or one less).  No
specification uses it.  It records which mistake in the code a property guards against:
with the variant in place of the original, TLC finds the property violated.


## 3. The runs

Bounds.  `Iids`, `Ballots` and `Values` are finite: an instance past `Iids` is not opened
(`ToOpen`), a ballot past `Ballots` is not reached and only instances of `MayExpire` time
out (`CanRetry`), a value is submitted once.  `MaxRequests` bounds the datagrams sent to
acceptors in `AcceptorAlone` and `AcceptorDisk`, `MaxPromotions` the promotions of a proposer, and
`Wrappers` the values in memory at once in `ProposerProcess`.  All other sizes are the
code's own settings, made small.  Buffer sizes are powers of two as
the code requires.  Deadlock is checked in every run but `ProposerProcess`: the timers and
repeated messages keep every other system going, while a process whose start failed, or
whose caller sleeps for ever, really stops.

| Run | Question | Instance, and why it is enough |
|---|---|---|
| `AcceptorAlone` | Are records and answers sound under any requests, decisions and restarts? | 1 acceptor (they do not interact), 2 instances for batches that apply in part and for the running maximum, 2 ballots, 2 datagrams, each of which may be repeated around restarts |
| `LearnerAlone` | Does the learner close exactly on evidence, and deliver in order, for any acknowledgements? | 3 acceptors, 3 instances in a buffer of 2: slots wrap, and one instance is out of the window; 2 ballots in any order; acceptor 0 runs with update on deliver and may send final acknowledgements, which close an instance alone whatever the others sent; acceptors do not interact |
| `LeaderAlone` | Do the leader's counters, list and window stay right, with no competitor? | 3 acceptors (quorum 2), 3 values, 3 instances, 3 ballots: an instance times out in both phases and comes back; 2 values in the list and a third in flight |
| `LeaderReelected` | And when leadership goes away and comes back, and another leader's values are decided? | announcements of 0 and 1 at any time; 7 instances so that the 4 slots wrap; one value of a client and one of the other leader; 3 ballots, of which 3 is the other leader's, so that instance 1 times out in either phase and finds the other's value |
| `LeaderLive` | Is every value decided in the end? | 1 acceptor, 2 instances and values, 2 ballots: instance 1 may time out, in phase 1 or in phase 2, and instance 2 waits or overtakes it |
| `Paxos` | Does the composed system with one leader implement atomic broadcast, acceptor restarts included? | 1 acceptor, which restarts with or without its store, 2 learners (one without a proposer), 2 instances, 2 ballots; instance 1 times out in either phase and instance 2 follows it; a list that is full with one value, so that a second may be refused; the leader may step down for good; repeats, delays, losses, holes |
| `AcceptorDisk` | Does an acceptor keep what it answered, whatever crashes and whenever? | 2 instances and 2 requests, so a batch of two, its repeat, or two batches; a message holds the header and two elements without value, or one with (sizes in units of the header), so batches split; modes 0, 12, 13 and 20 (11 takes the steps of 12; 10 commits and crashes like 0 and exits like 12) |
| `ProposerProcess` | Do the two threads of a proposer start and share the pending list safely? | 3 wrappers (the list takes 2 before it is full, the third is in an instance or on its way), 2 promotions so that one `vh_init` may mend what another broke; 4 wrappers pass as well (2 million states) |
| `TwoLeaders`, `Reelected`, `StalePromise`, `PromiseTwice` | The findings of section 6 | as small as each allows |

With these settings the window (`PROPOSER_PREEXEC_WIN_SIZE` = 2) and the concurrency
(`PROPOSER_P2_CONCURRENCY` = 1) still give two instances in phase 2 at once, as the
code opens one more than the setting.  Symmetry is used over client values only, which
the code never compares by order, and not in the run that checks liveness.

What the properties say, by run:

- `AcceptorAlone`.  `RecordsCoherent`: the value ballot never exceeds the ballot, and is
  there exactly when the value is.  `RepeaterFindsValue`: the record the repeater
  copies unchecked always exists and has a value.  `ValueOutlivesPromises`: promises never
  drop a value; only the loss of the whole store at a restart does (`AcceptorDisk` has the loss of a
  part of it).
- `LearnerAlone`.  `SlotsInWindow`, `NoMissedQuorum`, `ClosedOnEvidence`,
  `NothingHeldBack`, `HoleIsVisible`, `ClosedIsDelivered`: see section 4.
- `LeaderAlone`.  `PendingAndOpenExact`, `ReadyExact`: the counters count.
  `AssertionsHold`: the `assert`s of the code.  `OneValuePerInstance`, `EachValueOnce`:
  timeouts neither change, lose nor double a value.  `ConcurrencyBounded`: phase 2
  timeouts do not bring more instances than the code's limit into phase 2 and back; an instance
  that was seen closed and waits for delivery is not counted, as in the code.
- `LeaderReelected`.  `OpensEmptySlots`: the assertion in `leader_open_instances_p1`
  holds when the window is opened again after leadership was lost.  `PendingAndOpenExact`: the
  counters count what the window holds then, too.  `ReadyNeverUnderstated`:
  instances delivered while they are ready leave `ready_count` too high at worst, and at most
  `PROPOSER_PREEXEC_WIN_SIZE` instances are prepared in advance.  These three are about a leader that
  was never overtaken; the run reaches others as well, for which see section 6.  `NeverInTwoPlaces`, of any leader: a
  value put back in the list, since its instance got another leader's, is not in use elsewhere.
- `Paxos`.  `ImplementsBroadcast`: refinement of `AtomicBroadcast`.  `DeliveredIsFinal`:
  after delivery the leader proposes nothing else there.  `NothingInvented`, `Validity`:
  nothing is reported or delivered that was not asked for or submitted.
  `CurrentIidInStep`: the learner and the proposer above it agree on the current instance.
- `AcceptorDisk`.  `AnsweredIsKept`: if the last thing done to an instance was to send its
  record, the store has that record, also after a crash of the process in modes 11, 12 and 13 and of
  the operating system in 13.  The other modes promise nothing after a crash, nor does the property.
  `AnsweredOnce`: each element granted is answered once, over however many messages.
  `DatagramFits`: the message is as long as its receiver computes, and fits if it has several
  elements (a single one is added whatever its size).
  `StoredWhereAsked`: the one buffer carries nothing from one instance into another.
  `SilentOnlyIfCutOff`: a value in the store was announced with its ballot, or is about to be, or is one
  whose process ended between commit and answer; no promise, split, restart or loss of records
  makes another.
- `ProposerProcess`.  `ReturnTellsOutcome`: the caller learns the true outcome.
  `WaiterReturns`: if it waits before the signal it returns.  `OverlapOnlyOnPromotion`,
  `ListCoherent`, `ValueIsThere`: the list is right, and the leader finds the value it saw,
  unless a submission overlapped the last `vh_init`, which takes a promotion.


## 4. What is proved

Assumptions on the constants:

- `MessagesAssumption`: acceptors are a finite set of naturals, instances and ballots are
  positive, "no value" is not a value;
- `AcceptorAssumption` (two Booleans) and `AcceptorDiskAssumption` (sizes and the mode);
- `LearnerAssumption`: a buffer with at least one slot;
- `LeaderAssumption`: settings are in range (the window smaller than the buffer), `Iids`
  is an initial interval of the instances, and the first ballot of each proposer is in
  `Ballots`; `LeaderAloneAssumption`: the leader is a proposer, and other leaders' values are values;
- `ValuesHandlerAssumption`: the memory for wrappers is finite and NULL is not a wrapper.
  Only the theorems about the list use it; those about start-up use none.

In particular there is no bound on instances, ballots, values or requests: `MaxRequests` limits how
many requests a behaviour may have, but the proofs hold for any value of it.

**Acceptor** (`AcceptorProofs`), for any requests in any order:

- `AcceptorTypeCorrect`, `RecordsCoherentCorrect`, `RepeaterSafe`.  Neither `AcceptorTypeOK` nor
  `RepeaterFindsValue` is inductive: that an acknowledgement is well formed needs the
  record to hold a value and a value ballot, which is `RecordsCoherent` when the value
  came from a repeat request, and `RepeaterFindsValue` when it came from the repeater.
  The inductive invariant `AcceptorInv` is the three together.  There is one lemma per
  handler; the lemmas `AfterPreparesLemma` and `AfterAcceptsLemma` say what a batch does to one record.
- `NothingInventedCorrect` (without update on deliver): every value in a promise or an
  acknowledgement was asked for in that instance at exactly the value ballot reported.
  `Provenance` adds to `AcceptorInv` the same fact about the stored records
  (`StoredAsked`), from which the messages are copied.
- `ValueOutlivesPromisesCorrect`: a step that takes a value out of one record leaves an
  empty store.  It is an action property, from the invariant `AcceptorInv`.

**Acceptor on disk** (`AcceptorDiskProofs`), for any batch, any message size, each
durability mode and a crash between any two steps:

- `DiskTypeCorrect`, and `DatagramFitsCorrect`: the message is as long as its receiver
  computes from its elements, and with several of them fits a datagram (`CountInv`).
- `AnsweredIsKeptCorrect`, for crashes of the process in modes 11, 12 and 13 and of the operating system in
  13: `KeptInv` says that a record that was answered is in the database and
  in each layer below it that the durability mode relies on, and that between commit and
  flush these layers are equal to the database.  In the other modes a record counts as answered until the
  next crash only.
- `AnsweredOnceCorrect`: each element granted is answered once, also when a batch splits.
- `StoredWhereAskedCorrect` (`AskedInv`): the one static buffer carries no value from one
  instance to another, in any layer of the store.
- `SilentOnlyIfCutOffCorrect`: `SilentInv` says the same of all three layers, since what a crash
  brings back is what was in a lower one; the values of the send buffer stay accounted for because
  `Unsent` goes into `cut_off` wherever the process ends.

**Learner** (`LearnerProofs`), for any buffer size, any number of learners and
acceptors, and any acknowledgements in any order:

- `LearnerTypeCorrect`, `SlotsInWindowCorrect`: a slot in use holds the one instance of the window that maps
  to it.  The arithmetic behind it (two instances of one window never share a slot) is
  proved from `%` up, in `NumberLemmas`.
- `NoMissedQuorumCorrect`: `lea_check_quorum` counts only the ballot stored last, yet no
  quorum at any ballot is ever missed.  Each stored message is counted at its own
  ballot at the moment it arrives, and an open instance had no quorum before it.
- `ClosedOnEvidenceCorrect`: a closed instance still has the acknowledgements that
  closed it, so a late one cannot take its evidence away.
- `NothingHeldBackCorrect`: between messages the current instance is never closed.
- `HoleIsVisibleCorrect`: while a closed instance waits, `highest_iid_closed` is above
  `current_iid`, which is what the hole check tests.
- `ClosedIsDeliveredCorrect`: an action property: a closed slot stays as it is until its
  instance is delivered, in its place and with the value it closed with.

These depend on one another: where a message is stored depends on the window, and what
delivery empties depends on which slots are closed.  `LearnerInv` is the conjunction of
`LearnerTypeOK`, `SlotsInWindow`, `NoMissedQuorum`, `ClosedOnEvidence`, `NothingHeldBack`
and `ClosedBelowHighest` (a closed slot's instance is at most `highest_iid_closed`).
The proof goes slot by slot: `SlotStep` shows that a step leaves a slot as it was,
empties it, or makes it `Taken` (a relevant acknowledgement stored, and closed or not),
and each conjunct is then preserved by one short lemma.  `HoleIsVisible` follows.

**Proposer process** (`ProposerProcessProofs`), for any memory, queue length and number of
promotions:

- `ReturnCorrect`: `learner_init` tells its caller the true outcome.  `StartInv` says what
  the status tells of the learner thread and what the caller can have seen of it.
- `OverlapCorrect`: only at a promotion can `vh_init` meet a submission.  `ResetInv` says
  that nobody submits before `proposer_init` returned 0, when, by `StartInv`, start-up is over;
  and that the list is reset only during start-up or after a promotion.

`ProcessInv` is both; neither `ReturnTellsOutcome` nor `OverlapOnlyOnPromotion` is inductive.

- `ListCoherentCorrect`, `ValueCorrect`, `ProcessTypeCorrect`: the pending list is coherent whenever
  its lock is free, and the value the leader saw is there when it takes it.  The first two are about
  behaviours in which no submission meets a `vh_init`, as the properties are; typing is about all.

`ListCoherent` says nothing of the list while a thread is in the middle of it, so it is far from
inductive.  `ListInv` says what is true between any two stores of a submission, with `vh_init` of the other
thread between any two of its own three:

- `ListFits`: from head there is a chain of distinct wrappers, all of them in the list and none in an
  instance, and it ends in NULL.  This is true even after an overlap, which spoils size and tail only.
  Unless there was one, size and tail are those of the chain as far as the submission has got (`Agrees`).
- `WrappersFit`: the wrapper being submitted is not linked before the store that links it.
- `ResetFits`: a `vh_init` that no submission meets leaves an empty list.
- `TakeFits`: between `vh_list_size > 0` and the pop, nothing empties the list.

Each handler has a lemma (`...Keeps`) on top of what it does to a chain (`PushChain`, `PopChain`,
`LinkChain`, ...).  `ListCoherent` follows a recursive function, `Chain`, down the list; that it visits the
elements of the chain is an induction over a set of numbers (`NumberInduction`), and that the size is at most the
number of wrappers is a fact about injections into finite sets.

**Leader** (`LeaderProofs`, `LeaderAloneProofs`), for any settings, instances, ballots and
values, with acceptors and oracle as in `LeaderAlone`.  `LeaderProofs` says of each operator of `Leader` what it
does to a window: `...Effect` which slots change and how, `...Counts` what becomes of the
counters, `...Sound` that a handler leads from a sound leader to a sound one.  `Sound` is

- `Coherent`: the window runs from `current_iid` to `highest_open`; each instance of it is in its
  slot; below `next_unused_iid` it has a value and from there on none; all other slots are empty;
- `Counted`: `pending_count` and `open_count` count, `ready_count` is not below what it counts,
  and neither phase has more instances than the settings allow;
- `Quiet`: no instance with a value waits ready for phase 2.

`LeaderInv` adds `Cleared` (every slot is empty, from `leader_shutdown`) for a process that does not lead,
and well-formed datagrams; it holds until the leader is overtaken.  A delivery is a recursion over the values delivered, each of which may start
more instances; `RunLeads` is proved with the induction theorem of `NumberLemmas`, which is
stated for a set of numbers and not for an operator.  The theorems come in two strengths:

- for any announcements and any values of other leaders: `LeaderTypeCorrect`, `CountsCorrect`,
  `ReadyNeverUnderstatedCorrect`, `OpensEmptySlotsCorrect`, `AssertionsCorrect`, `ConcurrencyCorrect`.  What they
  prove is about a leader that was never overtaken, as the properties themselves say: an instance that the leader
  has yet to open can be decided by others, `leader_deliver` then returns at `lib/proposer_leader.c:464`, the window
  stays behind `current_iid`, and the properties are false (section 6).  They have one hypothesis about the
  behaviour, because the code does not ensure it: `WindowFits`, no instance of the window
  is a buffer ahead of `current_iid` (`leader_open_instances_p1` does not test it; a slot
  would be opened over).  It holds in every state of the run `LeaderAlone`.
- for a leader without rivals (`NoRival`: nobody else is announced, and there are no other values):
  `LoneLeaderAhead`, it is never overtaken, since all that is decided was asked for below
  `next_unused_iid` (`InvAlone`); so the theorems above hold of it without that condition, and `ReadyExactCorrect`.

What becomes of the values is a second invariant on top of this one.  `ValueInv` follows each value
from the list into one instance and from there to its delivery: what clients submitted is
what the list and the assigned instances hold (`Held`) and what was delivered, each once
(`HeldOnce`); phase 1 finds for an instance only the value it has (`FindsGiven`); and every
accept request and every decision carries the value of its instance (`ValueOf`).  Each handler
either moves values from the list into instances (`MovesValues`), takes one (`TakesValue`) or
gives one up on delivery (`GivesUp`); the lemmas `...Values` say which.  From it, for a leader
without rivals:

- `OneValuePerInstanceCorrect`, `EachValueOnceCorrect` and `DecidedOnceCorrect`, for any number of
  instances, under `WindowFits` and one more hypothesis that the code does not ensure,
  `NoStalePromise`: no promise with a value that the leader would accept is for an instance that was
  in the slot before.  The run `StalePromise` shows that without it `DecidedOnce` is false: it is the
  one way a lone leader repeats a value.

**The whole system** (`PaxosProofs`, which extends the proofs of its three parts), for any
number of acceptors, proposers and learners:

- `CurrentIidInStepCorrect`: whoever leads, and however many at once, a proposer and the learner
  below it agree on the current instance.  Both count deliveries: the learner the values it
  delivers (`AckDelivers`), the proposer its callbacks (`RunCurrent`); no other handler touches
  either (`CurrentStays`).

- `ValidityCorrect`: whoever leads, everything delivered was submitted.  No behaviour is excluded: several
  leaders at once, windows wider than the buffer, a leader overtaken by what another got decided, promises
  for what a slot held before.  `Coherent` is then false; what is left of the window is `Legal`
  (in `LeaderProofs`), in three parts.  `Sourced`: slots and list hold submitted values only, and a slot in
  use has a ballot and an instance.  `Leads`, of a leader: no slot is ahead of `highest_open`, and the slot of each
  instance below `next_unused_iid` holds a value, be it of a later instance that was opened over it.
  `Rests`, of any other proposer: `leader_shutdown` clears the window only as `current_iid ..
  highest_open` sees it, and what it leaves in other slots is behind `current_iid`, so a later turn opens over it.
  Each handler keeps `Legal` and asks for submitted values only (`...Legal`); the acceptors and learners
  hand these on (`ReportsAsked`, `LearnsFrom`), and a promise brings them back to any leader.
  `AnyLeaderInv` is all of it, one lemma per event (`...Remains`).
- `ComponentsCorrect`: the invariants of acceptor and learner above, proved there for any
  datagrams, hold in the system, whose datagrams are of their types (`MessageShapes`).

- For one leader: `OneLeader` says that proposer 0 leads from the start and nobody else ever does
  (it may be told to step down, if whoever is announced runs no proposer).  `WindowFits` and
  `NoStalePromise` are the hypotheses described above, for proposer 0.  Under them, for any instances, values,
  losses, repetitions, timeouts, learners that lag behind and acceptors that restart and forget:
  - `DeliveredIsFinalCorrect`, `AgreementCorrect`: what is delivered is the same everywhere, and is never
    replaced;
  - `BroadcastImplemented`: the system implements `AtomicBroadcast`, step by step.

  The run `Paxos` satisfies both hypotheses in every state, because it has fewer instances than slots.

The invariant behind those of one leader, `PaxosInv`, follows a value around the system, one conjunct for each place:

- `NetInv`: acceptors keep, and promises and acknowledgements report, only what some accept
  request asked for (`ReportsAsked`, on top of `AcceptorInv`);
- `DeliverInv`: so do the slots and the deliveries of the learners (`LearnsFrom`, on top of `LearnerInv`);
- `CountsAgree`: the callbacks of a run of deliveries are for the instances the leader has next;
- `LeadInv`: while proposer 0 leads, its window is sound and consistent with what the learner
  below it delivered (`Led`, from the invariant of the values of a leader); when it has stepped down its
  buffer is empty for good; and either way each instance was asked for one value and each value for one
  instance (`AskedOnce`).

None of it is inductive without the others: the leader's consistency needs that promises and deliveries
report what it asked for, and the reports are of one value per instance only because it is consistent.  A request,
once sent, stays sent, so the acceptors' amnesia and the inverted ballot test do no harm as long as one leader
asks.  For the refinement, `order` is what the learner furthest ahead delivered; `DeliversNext`
shows that a learner that delivers either follows it or extends it.  Two leaders are outside these
theorems and must be: the run `TwoLeaders` refutes `Agreement`.  Of two leaders `ValidityCorrect`,
`ComponentsCorrect` and `CurrentIidInStepCorrect` are what remains true.

**Only model-checked**: liveness (`WaiterReturns`, and the properties of `LeaderLive`): fairness and
`ENABLED` are out of TLAPS's reach.

## 5. Fairness

`LeaderLive`.  Weak fairness of `CheckPhase1` and `CheckPhase2`: the
timers re-arm themselves each time they fire (`leader_set_next_p1_check`,
`leader_set_next_p2_check`), so libevent calls them again and again.  Weak fairness of
`ReceivePromise` and of `Decide(i)`: a majority of acceptors is up and the network is not
silent for ever, so requests that are sent again are answered in the end.  Nothing is
assumed of announcements (`Announced = {}`), of clients, or of which instances expire.

`ProposerProcess`.  Weak fairness of the caller (`InitLearner`), of the learner thread
(`InitLearnerThread`, `InitValues`): both threads are scheduled.  Strong fairness of
`Signal`: the learner thread waits for `ready_lock`, which spurious wake-ups of the caller
take and release again and again; a mutex that is free again and again is acquired in the
end.  Nothing is assumed of submissions or of events.


## 6. Where the code differs from what it says

- `TwoLeaders` (`Agreement`): the ballot test of `acc_apply_accept` (`lib/acceptor.c:47`)
  is the other way round from its comments.  With two leaders, which a lost announcement is
  enough for, learners may deliver different values for one instance.
- `Reelected` (`OneValuePerBallot`): a proposer that leads again starts at its first
  ballot again, and may ask for two values in one instance under one ballot.
- `StalePromise` (`DecidedOnce`): a promise is matched with an instance by slot, status
  and ballot, not by instance.  A late one can carry a delivered value into a later
  instance, where it is delivered a second time.
- `PromiseTwice` (`PromisedByQuorum`): the duplicate test of `pro_save_prepare_ack` uses
  `(1<acceptor_id)` and `&=`; no promise is ever recognised as repeated.

Each run is a counterexample in a specification whose other properties hold in the passing
runs.  `Paxos` passes in spite of the first one because a single leader
never sends two values for an instance (`OneValuePerInstance`).

Also met while modelling; no run is given to these:

- `vh_init` (`lib/proposer_values_handler.c:75`) takes no lock.  A submission that overlaps it
  at a promotion leaves a list whose size, head and tail disagree: the leader may then
  fail the assertion in `leader_execute_p2`, follow NULL, or have values it never looks at.
  In the model every one of these states is reachable with `overlapped` true, and none without.
- `init_lea_wait_ready` (`lib/learner.c:553`) waits before it looks at `learner_ready`.  If
  the learner thread signals first, `learner_init` never returns.  `WaiterReturns` is
  therefore about a caller that waits first.
- `leader_deliver` (`lib/proposer_leader.c:468`) leaves `ready_count` as it was.  A proposer
  that is promoted again, and is delivered an instance it holds ready, counts one too many
  from then on.
- `leader_execute_p2` (line 247): the branch for an instance with a value from phase 1 and one
  of the leader's own is behind two that catch the case; the own value is forgotten
  (`FindInPhase1`).
- `paxos_config.h:18` says that with a concurrency of 1 instance i+1 waits for i; two
  are open at once (`ConcurrencyBounded` has the `+ 1`).  Nor do those count any longer that the phase 2 timer
  saw closed behind an undecided one (`lib/proposer_leader.c:414`): with a concurrency of 3 there may be many more
  instances that have a value and wait for their delivery.
- `leader_deliver` (`lib/proposer_leader.c:464`) returns for an instance that this leader has not opened, and moves
  neither `next_unused_iid` nor `highest_open`.  With the values of another leader, as in `LeaderReelected`,
  the window falls behind `current_iid`; the counters are then wrong (a behaviour of 5 states), `leader_shutdown`
  (line 577), which clears from `current_iid` on, leaves the slots behind in use and the next turn opens over them
  (9 states), and the assertions fail (12 states).  `PendingAndOpenExact`, `OpensEmptySlots` and
  `AssertionsHold` therefore have `~ overtaken` as a condition; without it TLC finds each violated.
- `leader_open_instances_p1` does not keep the window within `PROPOSER_ARRAY_SIZE` of
  `current_iid`; `OpensEmptySlots` has that as a condition.
- `validate_paxos_msg` (`lib/udp_receiver.c:155`): the test of the size is inside the
  switch, after the `return` of its default case, so it is never reached.
- A repeat carries the ballot promised last (`lib/acceptor.c:253`).  Acceptors that
  promised different ballots repeat a chosen value at different ballots, and the learner
  counts them apart until the leader prepares or proposes again.
- A crash between the commit of an accept and its answer leaves a value that no learner
  was told of, and which learners hear of by the repeater or a repeat request only.
  `SilentOnlyIfCutOff` says that nothing else leaves one.
- `acceptor_exit` closes the database from the application's thread, wherever the event loop is (`libpaxos.h:79`
  has a FIXME).  `Exit` may come at any step.
- When `rm -r` fails, `stablestorage_init` (`lib/acceptor_stable_storage.c:184`) prints so and opens the old
  records without recovery; `Start` has that case.
- `pro_handle_oracle_msg` does not look at what `leader_init` returns at a promotion.


## 7. What is not modelled

- *Time*: deadlines and intervals are choices, so a deadline that lies in the past
  because of the carry of `leader_set_expiration` is covered, its arithmetic is not.
- *Batch sizes of requests*: the send buffers of proposers and learners are taken to hold a
  whole batch.  Flushing one when it is full only splits a datagram, and no transaction is
  tied to it.  The learner's model takes acknowledgements one by one.
- *Damage inside the store*: a crash without a log loses records, each as a whole (`Survivors`); a record is never
  torn or garbage, and a database that no longer opens is not modelled.  A failed read, which
  `stablestorage_get_record` (`lib/acceptor_stable_storage.c:355`) prints and takes for a missing record, is left
  out, and so is an `rm -r` that removes a part of the files.
- *The event loop after `acceptor_exit`*: the loop goes on in the code, on a database that is
  closed; in the model the process is gone.
- *Part of the store at a restart, in `Acceptor`*: `Restart` keeps all of it or nothing.  `AcceptorDisk` has the rest.
- *The refinement of `Acceptor` by `AcceptorDisk`*: what a handler answers is the same, but
  a batch that splits is answered in two datagrams, and a crash between commit and answer is
  a step `Acceptor` does not have.
- *Counters for display* (`dropped_count`, the event counters of the leader), heartbeats.
- *Sockets, allocation, start scripts, example programs and
  benchmarks*: input and output, or wrappers with no protocol state of their own.


## 8. Plan

Done: the acceptor, its store, the learner and its start-up, the leader, the pending list, the
composed system and its refinement of atomic broadcast; proofs about the acceptor in memory and
on disk, the learner, the start of a proposer, its pending list, the leader's counters and
values, and the composed system, under one leader and under any number of them.  Next:
`TwoWindows`, two leaders over one sequence of decisions, without acceptors: the
liveness of a leader that is delivered an instance before it opened it
(`lib/proposer_leader.c:464` returns before `next_unused_iid` advances; the instance is then
opened behind `current_iid`, where no timer looks).
