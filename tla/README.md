# Verification of cozal

cozal is a Rust library for deterministic, replayable simulations. A *transposer* is user code that
handles inputs and events it has scheduled for itself; a *source* turns it into something that can be
asked "what is the state at time t?" and "which events come up to time t?", at any time, out of order,
from several channels, keeping only a bounded number of past states. This directory holds TLA+ models of
the parts of it that are compiled and have logic of their own, and of two that are written but not compiled
at present (the duplicates of a source, and `evaluate_to`), the TLC configurations that check them, and
proofs, checked by TLAPS, of what matters most.

The source is under `src/`. Four crates matter: `transposer` (one step of a simulation), `source` (the
chain of steps, the channels, the adapters), `util` (wakers, map entries) and `testing` (a demonstration).

## 1. Inventory

| component | code | state it keeps | operations |
|---|---|---|---|
| Steps | `source/src/sources/transposer/steps.rs` | the deque of steps, the set `not_unsaturated` of those with a state (checkpoints), `num_deleted_steps`, `deleted_before` | `get_before_or_at`, `get_before_or_at_events`, `get_last_mut`, `delete_before`, `saturate` (private) |
| Channel statuses | `.../transposer/channels/*.rs` | what each caller channel is blocked on; per recomputed step a count and a `StackWaker` | `get_channel_status`, the futures' `poll` and `abandon`, `get_pinned_times` |
| NoInputTransposerSource | `.../transposer/no_input_transposer.rs` | the two above and an all-channels waker | `poll`, `poll_events`, `release_channel`, `advance`, `max_channel` |
| Source contract | `source/src/traits/source.rs`, `source_poll.rs` | none (a trait) | what a caller may do and expect |
| Step | `transposer/src/step/mod.rs` | `StepStatus`: unsaturated, saturating (future and event channel), saturated (state); `event_count`, `can_produce_events` | `new_init`, `next_unsaturated`, `saturate_take`, `saturate_clone`, `desaturate`, `poll`, `interpolate` |
| WrappedTransposer and its schedule | `transposer/src/step/{wrapped_transposer,transposer_metadata,sub_step_update_context,time}.rs` | three maps of scheduled events and handles, the handle factory, `last_updated`, the context of the running handler | `init`, `handle_input`, `handle_scheduled`; from handlers `schedule_event`, `schedule_event_expireable`, `expire_event`, `emit_event` |
| StepInputs | `transposer/src/step/step_inputs.rs` | the sorted inputs of one time | `add_event`, `handle` |
| Interpolation | `transposer/src/step/interpolation.rs` | a future over a shared state | `poll` |
| InterruptStream | `source/src/adapters/interrupt_stream.rs` | the source, `current_wait` | `poll_next` |
| StackWaker, ReplaceWaker | `util/src/` | registered wakers | `register`, `wake` |
| evaluate_to, SingleInputState | `transposer/src/{evaluate_to,single_input_state}` | the inputs left, the step, the interpolation, one request for an input state | a future's `poll`; `get_input_state`, `set_state` |
| Duplicate adapter | `source/src/adapters/duplicate/` | per duplicate the stored entries; shared: the source, the children, how far each has advanced, the wakers | `poll`, `poll_forget`, `poll_events`, `advance`, `clone`, `drop`, `max_channel` |
| other adapters | `source/src/adapters/{multiplex,transpose,concurrent,interrupt_iterator,offload}` | | commented out of `adapters/mod.rs`, several with `todo!()` bodies |

How they interact. A caller calls `poll` on a channel. The source looks the channel's status up; when it is
free, `Steps` finds the step at that time, which may plan a new step, choose a checkpoint to give up, and
start a future from the state before; the channel is then blocked on that step (as the *original*
computation, which emits events, or as a *repeat*, which must not) or on an interpolation. Polling a step
polls the future of user code, with the waker of the caller, which is kept until something wakes it. The
future runs handlers, which schedule and expire events in the maps of their own state and emit events into
a channel of one place that `Step::poll` empties. `advance` lets the source drop what lies before a time.
`InterruptStream` drives such a source from a clock. Duplicates share one source between threads: what it tells
the one that polls is stored for all others, and the source's one waker wakes them all. `evaluate_to` needs no source: it
runs the steps of a transposer over inputs that are all known.

What is hard, and what correctness means there:

* *interleaving of channels*: calls are exclusive (`&mut self`), but a call leaves a channel blocked on a
  step that other channels finish, give up, or replace the waker of. Correct: counts exact, nobody waits
  for a wake-up that cannot come, progress of a waiting channel is never given up.
* *giving up and recomputing*: a step may be computed any number of times. Correct: its events reach the
  caller once and in order; the chain can always be extended; memory stays within the budget.
* *three records of one fact* (deque, set of checkpoints, number of deleted steps; and the three maps of the
  schedule): correct if they agree after every operation.
* *threads*: a waker is called, a duplicate polled or cloned, while others hold no lock but are half-way. Correct: who
  waits is woken, what the source says reaches every duplicate.
* *time*: callers poll backwards, advance between two steps, or at the very time of one; handlers schedule for
  their own time while it is being handled. Correct: answers are for the time asked; nothing is left overdue.
* *liveness*: a search that must end, a sleep with no timer, a wish of a caller that must come true.

`PROJECT.json` lists each hazard at its line, with the properties that are about it.

## 2. The modules

| module | models | built on |
|---|---|---|
| `Steps` | `steps.rs`, and of `Step` what it drives; pure operators on a record, one per method | |
| `SourceContract` | the trait `Source`: abstract specification of what callers see; and the weaker one a shared source keeps | |
| `TransposerSource` | `no_input_transposer.rs`, `channels/`, `StackWaker`: one action per turn of a call's loop | `Steps`, implements `SourceContract` |
| `InterruptStream` | `interrupt_stream.rs` over a `TransposerSource`, with a clock | `TransposerSource` |
| `PatientCaller` | a caller that follows the documentation of `Source`, changing its mind at will | `TransposerSource` |
| `StepsReplay` | the unit test of `steps.rs` that fails, replayed with the constants of the code | `Steps` |
| `Agenda` | what `context.rs` promises a handler: abstract specification of scheduling | |
| `Schedule` | inside a step: the handlers' calls, the maps, the loop over the events of one time | implements `Agenda` |
| `StepFuture` | the future of a step, its event channel, desaturation and recomputation | |
| `SharedStep` | callers that share the future of a recomputed step through a `StackWaker`, and the threads that wake it | `StepFuture`, which it implements |
| `EvaluateTo` | `evaluate_to` and `SingleInputState`, against the evaluation a transposer defines | |
| `ChannelMap` | the arithmetic that deals the channels of a source to its duplicates | |
| `Duplicate` | `adapters/duplicate`: duplicates on threads of their own, one action per critical section | `ChannelMap` |
| `TransposerSource_proofs`, `SourceContract_proofs` | theorems about the chain and the source, and which contract it keeps | the second on the first |
| `InterruptStream_proofs`, `PatientCaller_proofs` | theorems about the two users | `SourceContract_proofs` |
| `Schedule_proofs`, `SharedStep_proofs`, `EvaluateTo_proofs`, `Duplicate_proofs` | theorems about the schedule, the future of a step and those who share it, the evaluation, the duplicates and their channels | the module named |
| `MC...` | values of the constants for TLC | |

The levels meet at three interfaces. `Steps` takes a step as one instant with a fixed time and a fixed number
of events: that the times increase along the chain is `NothingOverdue` of `Schedule`, and that a recomputed
step swallows exactly what was delivered, and then falls silent, is `DeliveredOnceInOrder` and
`SilentOnceSaturated` of `StepFuture`. `TransposerSource` lets a wake-up happen in one instant; `SharedStep` has the
lock, the upgrade of the weak reference and the calls behind the lock, and shows which callers are woken all the same, and which
are not (run `forgotten`). `TransposerSource` and `SourceContract` share the history `log`.

`SourceContract` has two specifications. `ContractSpec` is what `source.rs` says: an event must be handled before the state at the
time asked can be made available, so it is at or before that time (`Interrupt`). `SharedContractSpec` also has `InterruptAhead`, an
event from after it, because the code hands such events out when several callers move the chain (run `overtaken`). For
one caller at a time, the stream or the patient caller, `ImplementsContract` is checked and proved; for a shared source, `ImplementsSharedContract`.

### How state and actions correspond to the code

`Steps`. The struct is the record `st`. A step is named by its sequence number; `VecDeque` index i is
`numDeleted + i`. `status` says "absent" outside the deque. `produced[k]` is how many events the running
future of step k has gone past, swallowed or not: it starts at `event_count` because `Step::saturate` hands
that number to the future. Nested searches by time are maxima over sets. The choice of the checkpoint to
give up (`trailing_zeros`, then the number) is kept as it is, because the spacing is what the tests of the
code assert: `MCPatientCaller` assumes that the model spaces them as `basic_test` says, for 200 steps and 30 checkpoints, and TLC evaluates that
on every run of it (`SpacingIsThatOfTheTest`). The uuid checks of debug builds hold by `CanSaturate`.

`TransposerSource`. One call is in progress at most (`call`); `poll` and `poll_events` loop, and each turn is
one action: find a step and block, poll an interpolation, the original step or a repeated one, each with the
outcomes Emitted, Pending and Ready. `blocked` is `blocked_caller_channels`, `repeat` holds the count and the
registered channels of `blocked_repeat_step_wakers`, `held` is the waker each future keeps, `waiting` the
callers who were told Pending and not woken since. Wakers fire at any point, between turns also. Panics and a
loop that never ends set `fault` and end the behaviour, so that a run can ask whether they occur. `log` and
`reply` are history: what callers saw.

`InterruptStream`. The clock runs on its own; `poll_next` reads it, advances, asks for events with the value
read, and compares the announced time with a *second* reading. The waits of the stream are `wait` and the
source's waker. The clock starts before the simulation does, so the first poll may come too early: `advance` then panics
(`steps.rs:117`), and the stream stops (`fault`).

`Schedule`. Payloads are numbered by the call that scheduled them. Each call of a handler is an action
(`ScheduleEvent`, `ScheduleEventExpireable`, `ExpireEvent`), each return and each turn of the loop in
`handle_scheduled` another. The index that tells contexts apart is copied by the code in several ways
(`init` has 0, inputs count `last_updated.index` up and then set it back, the loop has its own copy that the
context does not see); all are kept, since the uniqueness of keys rests on them. `kept` remembers which
event each handle was returned for.

`StepFuture`. A transposer is a program of `await` (emit and await), `send` (emit and drop the future) and
`wait` (anything else that may pend). The channel has room for two: `mpsc::channel(1)` adds one place for
its sender.

`SharedStep`. `weak` is the `Weak` in the entry of a repeated step, 0 for `Weak::new`; an `Arc` is a number, and
it lives while the future, a call of `wake` or the poll holds it (`Lives`), so `upgrade` succeeds exactly then, and a new
one takes a number that nobody holds. `wakers` is the vector behind the mutex. A poll is not one action: `PollRepeat`
registers, the future runs, and one of the `Returns...` ends it, while `Drain` (under the lock), `Call` (after it)
and `WakeReturns` happen on other threads at any point. A step is given up only when no time pins it
(`sequence_number_to_delete`): the channels that were blocked on it since its computation began are its `pins`, until it is done; after that the
pinned times lead to later steps, and it may be given up and computed anew with channels still blocked. These, and those that are told to wait on a step
that is done (`PollGonePends`), are `left` behind.

`EvaluateTo`. A transposer is a program for each of its handlers: `wait`, `ask` (get_input_state), `count`, `emit`, `plan`.
Everything in it, and the fetching of a state, is pending or not as it likes. `running.input_state` is the `SingleInputState`.
The inputs of a step stay with it, `frame.inputs`, so a handler that reads them twice counts them twice.
The code is written against an earlier `Step` that polls its own input state; a step is a handler that runs.

`Duplicate`. A call of a duplicate is a sequence of actions, one per stretch between two locks, and `call[h]` says where it
is. What the source emits is an entry of `source.log`; stored entries are a set ordered and *compared* as `RollbackEvent`'s
`Ord` does, which the `BTreeSet` takes for equality. A lock that is kept over several actions is a guard on who
is where (`SourceFree`, `ChildrenFree`, `AdvancedFree`). A panic is an action too: it drops the handle and
poisons the lock it holds. `heard`, `joined`, `asked` and `overlap` are history.

Arithmetic is that of a debug build: an underflow of a `usize` is a panic, never a wrap.

## 3. The runs

| run | what is asked | bounds | states |
|---|---|---|---|
| `channels` | two channels, polls of state and events, releases and advances in every order: types, agreement of the records, exact counts, events once and in order, bounded checkpoints, progress of waiting channels, how calls fail, the contract of a shared source | 6 steps, 2 checkpoints, 4 poll times, 3 event times, 2 advances, symmetric channels | 374k |
| `stream` | the stream over a source, first polled before its start or later: sleeping is safe, one state in memory, a panic at the start only, never early, every event is played | 6 steps, a clock to 9 | 2,770 |
| `caller` | one caller that changes its mind, gives up and polls unwoken while the chain outgrows its budget: its calls fail only by the search that does not end, no lost wake-up, the answer is to the question, the contract, and every wish is fulfilled unless a call does not return | 5 steps, 3 checkpoints, 7 times | 12,291 |
| `schedule` | handlers schedule and expire in every order, within a step and across steps and inputs | 4 events, 3 times, up to 2 inputs at a time | 216,934 |
| `future` | every program, given up and recomputed at any point, for two callers and wakes on another thread: events once and in order, and who is forgotten | programs of up to 3 instructions, 2 callers, 1 wake under way | 536,479 |
| `duplicate` | duplicates on threads: nothing is missed but entries at one time, views agree but for these, sleepers are woken, channels are apart | 5 scenarios: up to 4 duplicates, 3 threads, 3 interrupts | 2.7M |
| `evaluate` | `evaluate_to`: the outputs and the state are the transposer's, each input state is fetched once, and it ends | 3 transposers, up to 4 inputs in any order, times 0 to 3 | 161,910 |
| `replay_state` | violated: the test that polls for states after `advance` | 200 calls, 30 checkpoints | |
| `lost`, `between`, `overtaken` | violated, of the source: see below | small | |
| `forgotten` | violated, of a shared step | programs of one instruction, 2 callers | |

Why the bounds are enough. In `channels` the budget of 2 is used up by the second step, so that from then on
every new computation gives a checkpoint up, both by taking and by cloning; the chain has adjacent instants
and instants with a time between, silent steps, and a step with two events in other runs; two channels suffice
to share an entry, to replace each other's waker and to pin different times. Event times and advances fall
before, on and between instants. All five ways in which a call fails are reached. In `caller` the fifth step takes the chain past its
budget, so that two neighbours can be given up and the search between them loops. In `schedule` four events are enough for two handlers with two events each, for
an event scheduled at the time of its own step from within the loop, for a handle that outlives its event and
one that is expired in a later step; two inputs exercise the index that is counted up and set back. In `future`
three instructions cover two unawaited emissions with an awaited one before or after them, and a wait between two emissions;
two callers suffice to join a waker, to be first in one that was just drained, and to be in an old
`StackWaker` beside a new one.
In `duplicate` each scenario is the smallest in which its hazard can happen and the product of all would be too large: a
rollback that overtakes a stored event takes two duplicates and three interrupts; a purge of several children, three
duplicates; a third party that hears of neither, three duplicates on two threads; clones, drops and advances that meet at
the locks, four duplicates on three threads. There a handle may advance twice and two clones may get one index; what
the code then does wrong is said below. In `evaluate` four inputs over four instants give
groups of one to four, at the start, at `until` and after it, in each order of arrival.

`CHECK_DEADLOCK FALSE` stands where the system really stops: `Schedule` when the bounds on events and
time are used up, `SharedStep` and `TransposerSource` after a panic or an endless loop of the code, also with one caller, the replay when the
test has panicked, the stream at the end of the clock, the evaluation when it has returned. In `duplicate` deadlock is checked: `Rests` is
for threads that have nothing to do, so nobody is left in a lock.

### Fairness

* `StreamSpec` (`stream`): weak fairness of the clock, of the turns of the stream's task once it is woken and of
  wake-ups that are due (an executor runs woken tasks, a timer fires), and of the futures' wakers; strong
  fairness of getting further: a user future that is polled again and again, because its waker wakes it, emits or finishes in
  the end. Without it a transposer that awaits for ever would be a counterexample to everything.
* `CallerSpec` (`caller`): weak fairness of the turns of `poll`, the body of a loop on the caller's thread; of the
  caller's polls when it was woken (not of those it makes unwoken); and of the three kinds of futures as above. A wish for ever
unfulfilled counts only if no call has failed: the search that does not end takes the caller with it.
* `SharedSpec` (`future`): weak fairness of a poll that was begun (it runs on the caller's stack), of what is awaited, of
  `wake`, which runs to its end on its thread, and of the polls of a caller that was woken. No fairness of anybody who was
  not woken, of giving up, or of saturating again. So `CallersAreWoken` promises that a computation begun with nobody left behind comes
  to its end and wakes those blocked on it, not that they see its result: when they poll again, the step may be done and the poll panic
  (`PollGone`).
* `EvaluateTo`: weak fairness of its next-state relation. There is one task, and all that is awaited wakes it.

### What the violated runs show

Each checks one property that a comment, a test or the documentation states, and TLC finds it violated by
what the code does (`PROJECT.json`, findings):

* `replay_state`, `AdvanceTestPasses`: `get_before_or_at` uses the deque index it found before `saturate`,
  which may pop the front of the deque. The test that polls by state after an advance meets the panic.
* `lost`, `NoLostWakeup`: the future of a step holds one waker; a second caller's poll replaces that of the first.
* `overtaken`, `EventsComeBeforeTheState`: a channel that waits for the original computation polls *the last step* of the chain, which
  another caller has moved past the time the channel asks about, and is handed that step's event.
* `between`, `AdvancedTimeStaysReachable`: a state is taken from the first step because *its* time has been advanced past, though
  the time advanced to lies before the next one. The stream is immune: it never polls for states.
* `forgotten`, `EveryCallerIsWoken`: `RepeatStepFuture::poll` registers in the `StackWaker` before it knows whether there is a future to run. When
  the step was finished by another channel and a `wake` is still under way, the channel is put among wakers nobody will call.

What else goes wrong in the source is in the passing runs, as a `fault` that a property ties to its cause (`CallsFailOnlyAsKnown` in `channels`,
`FailsOnlyBeyondTheBudget` in `caller`, `PanicsOnlyBeforeTheStart` in `stream`):

* *endless_loop*: the loop that walks back to a checkpoint shadows its index (`steps.rs:319`), and stays where it is once two unsaturated
  steps follow each other. That takes more steps than checkpoints; with the budget of 30, a poll back into a chain of 64 steps.
* *step_gone*: two channels wait for one step; both poll again with the same time, as `Pending` tells them to, and the second finds the step
  done. `Err(Saturated)` is unwrapped (`original_step_future.rs:33`). `poll_events` never finds its step gone.
* *stale_index*: the defect of `replay_state`. It takes an advance, as the front is popped only behind one.
* *pin_before_first_step*: a channel that stays blocked while somebody advances pins a time before the first step, and the search for its
  checkpoint underflows (`steps.rs:117`) when the next step is saturated for anybody.
* *before_first_step*: `advance` to a time before the first step underflows likewise, which a stream meets when it is polled before the
  simulation starts; `poll` there unwraps `Err(())`, also at a time advanced to (`between`).

For the same reasons `stream` and `caller` claim what holds for one user at a time: there the code keeps its promises, and
the other runs show where they end. `NoOneForgotten` does not contradict `lost`: it is about repeated steps, which have a
`StackWaker`; the original computation of a step has none. Nor `forgotten`: it is about steps on which nobody was left behind.

Two further divergences have no run. A poll before the time advanced to panics (`no_input_transposer.rs:56`)
where `source.rs:87` speaks of a `PollAfterAdvance` error; the models let callers keep that promise
(`KeepsPromise`). `next_unsaturated` never returns the `InputPastOrPresent` it declares; `Schedule` takes later inputs only.

### What the duplicates do not promise

The adapter is commented out of the crate, so this is about code that is there but does not run. The model does what the code does,
and the properties of `duplicate` say exactly what is left. What is not:

* `pop_first` is unwrapped one lock after the entry was seen (`duplicate_inner.rs:165`). A rollback heard by another thread may
  have purged it, and the caller panics. The model has the panic (`PopStoredPanics`).
* The lock on the source is released before an event is handed to the others (`original.rs:93`), though it is kept for a
  rollback. With polls that overlap a duplicate may store an event after the rollback that takes it back, or be told to sleep past a
  stored one: `ViewsAgree`, and the second half of `SleepersMissNothing`, hold without overlap only.
* `RollbackEvent` compares by time alone, so of two entries at one time a duplicate keeps the first. `NoneMissed` and `ViewsAgree`
  except these, and no others: one thread with two handles and two events of one time is enough for callers to disagree.
* `clone` reads its index under one lock and takes it under the next (`original.rs:41`). Two clones at a time get the same
  index, and one of them hears nothing. The properties of `duplicate` are about handles with an index of their own.
* `index_map` is never updated, so a second `advance` subtracts from the count of somebody else
  (`advanced.rs:36`), and the source is advanced past a handle that may still poll there.
* The first advance beside a handle that has not advanced unwraps the `None` of that handle (`advanced.rs:39`).
* A stored event beside a source that has nothing scheduled leaves the caller with `Ready`: `first_event_time` answers
  `None` without a cutoff (`duplicate_inner.rs:73`).
* `max_channel` underflows or unwraps 0 for a duplicate that its source has no channel for; where it answers it is exact.

## 4. What is proved

All theorems hold for every value of the constants under the named assumptions: any number of steps, any
increasing `StepTime`, any `Emits`, any positive budget, any finite set of channels and any times
(`LastStepAssumption`, `StepTimeAssumption`, `EmitsAssumption`, `NumCheckpointsAssumption`,
`ChannelsAssumption`, `TimesAssumption`); for the stream a clock that stops somewhere and shows times that may be asked for
(`MaxTimeAssumption`, `ClockAssumption`); for the caller a channel of its own and no question about the time before the first
step, where `poll` has no state to unwrap (`CallerAssumption`, `CallerTimesAssumption`); for the schedule any start, horizon and number of events and inputs
(`ScheduleAssumption`), for the future a program of any length (`MaxLengthAssumption`), any set of callers and number of wakes
at a time (`SharedStepAssumption`), for the evaluation any
set of transposers whose interpolation only waits and asks, as it has `&self` (`EvaluateToAssumption`), for the duplicates any
scenarios (`DuplicateAssumption`).

*The chain.* `TransposerSource_proofs` proves `CheckpointsAlwaysMatchSteps`, `FrontierAlwaysRecoverable`,
`RepeatCountsAlwaysExact` and `AlwaysTypeOK` from one inductive invariant, `Typed`, which `AlwaysTyped` states. Its core
is `StepsInv`: the deque is a window of steps with nothing absent in it, the set of checkpoints is what
the statuses say and contains the first step, and a last step that is only planned has a saturated one before it.
No part is inductive alone: that the planned step keeps its predecessor rests on the set `NeededSteps`, which holds the
last checkpoint unless the new step is its direct successor; that this checkpoint is the predecessor rests on the
agreement of the set with the statuses; and that the first step stays in the set rests on both, since the deque is
cut at its front whenever the first step gives its state away. The first part of the module shows for each operator that it
preserves `StepsInv` (one lemma each), and each action of the source is then an application of those. The counts need that
a channel blocked on a step was counted when it was blocked: a lemma on the cardinality of the waiters of a step when one channel changes.

`CheckpointsAlwaysBounded` says that the states kept never outnumber the budget or, where that is more, two and the number of
channels: a step that adds a state first gives one up, unless all are needed, and the needed ones are the first, the last
and one per pinned time. `PinnedProgressAlwaysKept`, an
action property, says that the last checkpoint at or before a pinned time never moves back: what is given up is not
needed, a state taken from the first step is put into the next, and `advance` deletes before that checkpoint only.

*The contract.* `SourceContract_proofs` shows `SourceImplementsSharedContract`: every step of the source is one of `SharedContractNext`, or none a
caller sees, for any number of callers. That events come early is part of it: the stronger contract is false of a shared source (run `overtaken`), and proved for
the two users below, with the lemma `NothingEarly`: a step of the source that hands out no event from after the time asked is one of `ContractNext`. Four invariants carry it. `EmissionInv`: only the last step of the chain has events to give, all before it have given
theirs, `event_count` says how many, and a running future is past exactly that many. `LogInv`: the events in the log are those
that the counts say, in order. `AnswerInv`: an interpolation works on the state after the last instant at or before its time, and
everything up to that instant is out. `PlanInv`: whoever is told when the next step is, is told by a chain that has planned it. `AnswerInv`
needs that a channel's step is still the right one when the future is done, although other channels have grown the chain meanwhile; and
`EmissionInv` that a repeated step cannot be the last that produces. `EventsAlwaysDeliveredOnceInOrder` follows.

*The users.* `InterruptStream_proofs` shows that the stream is a legal user (`StreamIsALegalUser`: `StreamSpec => Spec`), so
that all of the above holds for it, and from `StreamInv` that it keeps one state (`StreamAlwaysHoldsOneState`), panics in its first poll only, and only when that
comes before the simulation (`StreamPanicsOnlyBeforeTheStart`), sees the whole contract (`StreamKeepsContract`), never plays an event early (`StreamNeverEarly`) and never sleeps past one (`StreamNeverOversleeps`). `ClockInv`
keeps the poll's time between the source's and the clock's, from the first poll on; `PanicInv` says how the source was left when it panicked; `AnsweredInv` says what the last answer means now, which
needs `ReplyInv`: an answer of the source stays true while others go on.
`PatientCaller_proofs` shows that the answer is to the last question (`AnswersAlwaysTheQuestion`, from `WishInv`), that it comes under
the whole contract (`CallerSeesTheContract`, from `DueInv`: the step a lone caller waits for is the last one and not after the time asked, since nobody else moves the chain), that the caller is never left
with a future that will not wake it (`PatientCallerNeverForgotten`, from `RepeatInv`, `RegisteredInv` and `BlockedInv`: a `StackWaker` with somebody in it
is held by a future that runs), and how calls fail (`CallerFailsOnlyBeyondTheBudget`): by the search that does not end, in a chain with more
steps behind the first than there are checkpoints, and in no other way. That takes `FewGivenUp`: an unsaturated step in the midst of the chain means the budget is used up; two neighbours make one step more.

*The schedule.* `Schedule_proofs` has five parts. `TypeOK` is inductive. `KeyInv` bounds the index and the
count in every key by those of the context and by `last_updated`, so that a new key is never taken
(`KeysAlwaysFresh`). `TimeInv` says what is pending is never before the handlers' time, and what a finished step
leaves behind is later (`NothingEverOverdue`). This justifies `StepTimeAssumption` above: the times of a chain increase because
the code makes them increase. `HandleInv` joins the two maps, the schedule and the handles given out
(`MapsAlwaysInSync`, `HandlesAlwaysNameTheirEvents`): that a handle names its event needs that payloads are
scheduled at most once, and that keys are fresh. `ScheduleImplementsAgenda` is the refinement. The list of the pending events gives each key the
place that is the number of keys up to it (`Listed`); that this is a list at all is a counting argument (`Places`: a
finite set of n keys fills the places 1 to n). A new key is behind all keys that are not later, by `KeyInv`, so its place is
where `Plan` inserts; one key more or less moves the places behind it by one (`ListedWithOneMore`), which is what `InsertAt` and
`RemoveAt` do; the first key has place 1; and `TimeInv` gives `StepTo` its guard.

*The events of a step.* `SharedStep_proofs` begins with `StepFuture`: it numbers the events of the program and shows `OrderInv`: the events the
future has gone past are those it has swallowed in place of delivered ones and those in the channel, the channel holds
the events that come next, and while something is left to swallow nothing was sent. `AlwaysDeliveredOnceInOrder`
follows, however often the step is given up. With it, an awaited emission that was gone past is a delivered one
(`AwaitedAlwaysDelivered`: `AwaitedIsDelivered` is inductive relative to `OrderInv`), and with `SentInv` (what is in the
channel was sent by an instruction behind the future) a second event in the channel means two unawaited emissions
(`AlwaysPanicsOnlyUnawaited`). `SilentInv` says that a step which was saturated once has delivered all its events, if
its transposer awaits them, and gives `AlwaysSilentOnceSaturated`, an action property.

*The callers of a shared step.* `SharedStep_proofs` then shows `SharedImplementsStep`: polls of a shared future never overlap, so
`SharedSpec => Spec`, and every theorem about `StepFuture` holds for shared steps. `NoOneEverForgotten` is about steps on which nobody was
left behind, whatever their status; with one left behind it is false (run `forgotten`). It needs more than
that a blocked caller is in the waker of the future, because a caller that finds somebody registered does not poll. The invariant
`CallersInv` therefore says two things: who is blocked is being woken, or is in the entry's `StackWaker` *and* the
future has that very one (or is polled with it); and an entry's `StackWaker` with somebody in it is the one the future
has, or one that is about to be drained. The second makes a caller that joins safe, the first makes the first caller's
new `StackWaker` safe for those in an old one. `WokenInv` carries the callers over the end of the computation: while it is polled for one of them, and after it
is done or given up, all the others are being woken. `PinsInv` says that a step with callers and nobody left behind is pinned, so it is not given up under them. Around it: `EntryInv` (the entry goes when the last blocked caller goes, and only a
step that was saturated once has one), `AwaitingInv` (the future of a repeated step never waits for a delivery, so what it waits for has
the waker), `UndrainedInv`, and a counting argument that there is always an unused name for a new `Arc`.

*The evaluation.* `EvaluateTo_proofs` shows `ResultAlwaysTheTransposers`: whatever is pending, `evaluate_to` ends with the outputs
and the state of a reference that knows no frames, schedule or groups: `Instants`, which calls the handlers instant after instant, also at
those where nothing happens. The reference is a recursive function, which is a choice among the solutions of its equation; that there is one
is `IterationExists` (paths of every length exist and agree), so it unfolds one instant, one event or one operation at a time
(`InstantsIs`, `RepeatedIs`, `InHandlerIs`). What it computes is not needed, only that the code does the same. `SortedIs` says that sorting loses and
invents nothing, and with it the groups are the inputs up to `until`, each time once. The invariant has five parts. `ArgsInv` and
`FrameInv`: the arguments stay, and what is scheduled is for the frame's time or the next instant. `EventsInv`: the
groups left are those of the times after the frame, or from it on while init runs. `WorkInv`, the core: the handler under way began at some state, has done
some of its operations, and *when it is done* the transposer is where the reference is after its inputs and so many of its scheduled events; it
says where the handler leads, since no instant of the reference ends within one. `OutcomeInv`: an interpolation has the reference's state
at `until`. Each operation moves along its handler (`WorkGoes`). Between frames the evaluation skips
instants: nothing arrives at them and nothing is due, so the reference does nothing there either (`QuietInstants`, `TimesSkipped`). That an
input comes before what is scheduled for the same time is what makes the next frame begin as the reference does (`InvNextFrame`).
`StatesAlwaysFetchedOnce` follows from `AskedInv`: while the running frame's input state is not full, and none is on its way, none was fetched for it,
and those of earlier frames have smaller numbers and no later times.

*The duplicates.* `Duplicate_proofs` shows that the map from pairs to channels is injective and leaves no gap in a
diagonal, from `DiagonalsHalvesTheProduct` (halving before multiplying loses nothing), and lifts it to
`ChannelsAlwaysApart` over the types of the handles. `NothingIsMissed` rests on four invariants: `StoreInv`, the entries stored
are in the log, whose ids are its places; `CarryInv`, so are those carried, and a rollback is carried out while it is the last of the log;
`ChildInv`, a handle whose index is its own is in `children` under it, and every clone under way has a handle
left to become (by counting); `MissInv`, the property itself, extended to handles that are still being registered.
`SleepersNeverMiss` joins what reaches a sleeper (`ReachInv`: its waker is in the map, and the source has the waker that drains
it), what the source has promised (`PromiseInv`: nothing before the time a sleeper is to come back at) and, when polls do not
overlap, that one handle at most polls and nothing stored or carried is earlier than that time (`LateInv`).
`ViewsAlwaysAgree` is about polls that do not overlap. Besides the places of
children and stores (`PlaceInv`) it rests on `ViewInv`: what is handed out is the last entry of the log, and who asks the source
has no rollback stored; each handle hears rollbacks after the events that came before them, an event it was told of and that
was taken back has its rollback heard, stored or on its way, and no event that is stored was taken back. So what stands for a
handle stands for the source; and what stands for the source and not for the handle was said when an entry at its time stood (`InTheWay`).
`MaxChannelAlwaysExact` is an instance of `MaxChannelIsTheLastThatFits`, for every number of channels. `int_sqrt` is the root rounded
down (`IntSqrtIsSqrt`): a step of Newton's iteration stays at or above the root, and decreases as long as it is above
(`NewtonStep`). The recursive function unfolds since some function satisfies its equation, and that it always ends at the root is by the
least argument where it would not. The root tells the last full diagonal up to one, and that bounds the channels.

*Only model-checked*: liveness (`EventsArePlayed`, `WishesAreFulfilled`, `CallersAreWoken`, `EvaluationEnds`), because
the prover has no rules for fairness; `CallsFailOnlyAsKnown`, how calls fail when several callers share the source; and the spacing of
the checkpoints, which is one computation.

## 5. What is not modelled

* User code: handlers call in any order and user futures pend as they like; what they compute is left out, and
  with it determinism of the transposer itself, which is the user's obligation.
* The random numbers of a step, serialization, the type families of `schedule_storage.rs` and their sharing, the wrappers of
  map entries in `util/src/extended_entry`.
* The sorting of inputs (`step_inputs.rs`); `single_input_state.rs` between threads (its users are on one). No compiled
  source uses inputs.
* `ReplaceWaker`: used only by code that is not compiled.
* `multiplex`, `transpose` and `offload`, which are unfinished (`todo!()` where their logic would be), `MutexSource`, a lock around
  each call, and `InterruptIterator`, all of them commented out of `adapters/mod.rs`. In the duplicate adapter `release_channel` is
  `todo!()`, and has no action.

## 6. Plan

Done, in this order: `Steps`, `SourceContract`, `TransposerSource` with its proofs, the two users
`InterruptStream` and `PatientCaller`, the replay of the test that fails, `Agenda` and `Schedule` with proofs, `StepFuture` with proofs,
`ChannelMap` and `Duplicate` with the proof of their channels, `EvaluateTo`, `SharedStep` with proofs.

Then the theorems about the source as a whole: the bound on checkpoints, pinned progress, the contract, the stream and
the caller; the refinement of `Agenda`; the duplicates; the evaluation. Every safety property of a passing run is a theorem,
but for `CallsFailOnlyAsKnown`.

Next, `CallsFailOnlyAsKnown` as a theorem; and modules: `StepInputs` (insertion keeps the order a transposer asks for, whatever the order of arrival, and its place in
`Schedule`); the input buffer of `transpose`, once its operations are written.
