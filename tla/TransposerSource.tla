-------------------------- MODULE TransposerSource --------------------------
(***************************************************************************)
(* NoInputTransposerSource (sources/transposer/no_input_transposer.rs):    *)
(* the chain of steps, the status of every caller channel                  *)
(* (sources/transposer/channels), and the wakers (util/stack_waker.rs) the *)
(* futures of the steps hold.                                              *)
(*                                                                         *)
(* All methods take &mut self, so a call is never interleaved with another *)
(* call.  Inside a call, `poll` and `poll_events` loop; one turn of the    *)
(* loop is one action, `call` says which call runs.  Wakers are invoked by *)
(* other threads at any time, between the turns of a call too.             *)
(*                                                                         *)
(* User futures decide when they are done: polling one that has no event   *)
(* to emit answers Pending or Ready, both always possible.  A panic of the *)
(* code, and a loop it never leaves, are recorded in `fault` and end the   *)
(* behaviour.  Arithmetic is that of a debug build: an underflow panics.   *)
(***************************************************************************)
EXTENDS Steps, Sequences

CONSTANTS
  Channels,      (* the channels callers poll on                            *)
  EventsCaller,  (* stands, in `waiting`, for the caller of poll_events     *)
  PollTimes,     (* the times passed to poll                                *)
  EventTimes,    (* the times passed to poll_events                         *)
  AdvanceTimes,  (* the times passed to advance                             *)
  KeepsPromise   (* callers do not poll before a time they advanced to      *)

ASSUME ChannelsAssumption ==
  /\ IsFiniteSet(Channels)
  /\ EventsCaller \notin Channels

ASSUME TimesAssumption ==
  /\ PollTimes \subseteq Nat
  /\ EventTimes \subseteq Nat
  /\ AdvanceTimes \subseteq Nat
  /\ KeepsPromise \in BOOLEAN

VARIABLES
  steps,    (* the struct Steps                                             *)
  blocked,  (* blocked_caller_channels                                      *)
  repeat,   (* blocked_repeat_step_wakers: per step, the number of blocked  *)
            (* channels and the channels registered in its StackWaker       *)
  held,     (* which waker the future of each step holds                    *)
  waiting,  (* callers answered Pending and not woken since                 *)
  call,     (* the call in progress                                         *)
  reply,    (* the answer of the last call                                  *)
  log,      (* history: the events delivered to the caller                  *)
  fault     (* how the code failed, "none" while it has not                 *)

vars == <<steps, blocked, repeat, held, waiting, call, reply, log, fault>>

Contract == INSTANCE SourceContract WITH Times <- PollTimes \cup EventTimes

-----------------------------------------------------------------------------
(* The values of the variables *)

\* CallerChannelBlockedReason, with NotBlocked for a channel not in the map.
\* An interpolation holds its own reference to the state after step `base`.
NotBlocked              == [on |-> "nothing"]
OnOriginal(t)           == [on |-> "original", time |-> t]
OnRepeat(k, t)          == [on |-> "repeat", step |-> k, time |-> t]
OnInterpolation(k, t)   == [on |-> "interpolation", base |-> k, time |-> t]

BlockedType ==
  {NotBlocked} \cup {OnOriginal(t) : t \in PollTimes}
    \cup {OnRepeat(k, t) : k \in AllSteps, t \in PollTimes}
    \cup {OnInterpolation(k, t) : k \in AllSteps, t \in PollTimes}

\* An entry of blocked_repeat_step_wakers; a count of 0 is no entry.
\* `registered` is empty when the Weak is dead or its StackWaker was woken.
NoEntry == [count |-> 0, registered |-> {}]

EntryType == [count : 0..Cardinality(Channels), registered : SUBSET Channels]

Idle              == [op |-> "idle"]
PollCall(c, t)    == [op |-> "poll", channel |-> c, time |-> t]
EventsCall(t)     == [op |-> "events", time |-> t]

CallType ==
  {Idle} \cup {PollCall(c, t) : c \in Channels, t \in PollTimes}
         \cup {EventsCall(t) : t \in EventTimes}

Faults == {"none", "before_first_step", "pin_before_first_step", "stale_index",
           "step_gone", "endless_loop"}

\* Mutant: only the channels waiting for events pin their time.
PinnedByOriginal ==
  {blocked[c].time : c \in {d \in Channels : blocked[d].on = "original"}}

\* get_pinned_times
PinnedTimes ==
  {blocked[c].time : c \in {d \in Channels : blocked[d].on \in {"original", "repeat"}}}

\* The calls a caller that keeps its promise to `advance` may make.
MayPollAt(t) == KeepsPromise => t >= steps.deletedBefore

-----------------------------------------------------------------------------
(* Building blocks *)

\* A future that is completed or dropped drops the waker it held, and with it
\* the StackWaker the Weak of the entry points to.
DropWakers(st) ==
  /\ held' = [k \in AllSteps |-> IF st.status[k] = "saturating" THEN held[k] ELSE "none"]
  /\ repeat' = [k \in AllSteps |->
                  IF st.status[k] = "saturating" THEN repeat[k]
                  ELSE [repeat[k] EXCEPT !.registered = {}]]

Turn(op) == fault = "none" /\ call.op = op

Answer(r) ==
  /\ reply' = r
  /\ call' = Idle

Panic(why) ==
  /\ fault' = why
  /\ UNCHANGED <<steps, blocked, repeat, held, waiting, call, reply, log>>

\* Mutant: a channel that leaves does not count down.
EntryKept(c) == repeat

LeftEntry(e) == IF e.count = 1 THEN NoEntry ELSE [e EXCEPT !.count = e.count - 1]

\* Entries left by channel c (the `abandon` of each future).  The StackWaker
\* keeps c registered while other channels share the entry.
WithoutEntry(c) ==
  IF blocked[c].on # "repeat"
  THEN repeat
  ELSE [repeat EXCEPT ![blocked[c].step] = LeftEntry(repeat[blocked[c].step])]

\* The polled future of step k emits: deliver the event, ask to be polled again.
Deliver(st, k, t) ==
  /\ steps' = StepEmitted(st, k)
  /\ log' = Append(log, [step |-> k, event |-> st.produced[k] + 1])
  /\ Answer(Contract!InterruptReply(t, StepTime[k]))

-----------------------------------------------------------------------------
Init ==
  /\ steps = NewSteps
  /\ blocked = [c \in Channels |-> NotBlocked]
  /\ repeat = [k \in AllSteps |-> NoEntry]
  /\ held = [k \in AllSteps |-> "none"]
  /\ waiting = {}
  /\ call = Idle
  /\ reply = Contract!NoReply
  /\ log = <<>>
  /\ fault = "none"

-----------------------------------------------------------------------------
(* poll *)

CallPoll(c, t) ==
  /\ Turn("idle")
  /\ MayPollAt(t)
  /\ call' = PollCall(c, t)
  /\ reply' = Contract!NoReply
  /\ waiting' = waiting \ {c}
  /\ UNCHANGED <<steps, blocked, repeat, held, log, fault>>

Mine == blocked[call.channel]

\* Mutant: the answer is the one to whatever the channel asked before.
PollTurnWhateverTime(on) == Turn("poll") /\ Mine.on = on

PollTurn(on) ==
  /\ Turn("poll")
  /\ Mine.on = on
  /\ on # "nothing" => Mine.time = call.time

\* The channel is blocked on an answer for another time: abandon it.
PollAbandons ==
  /\ Turn("poll")
  /\ Mine.on # "nothing"
  /\ Mine.time # call.time
  /\ blocked' = [blocked EXCEPT ![call.channel] = NotBlocked]
  /\ repeat' = WithoutEntry(call.channel)
  /\ UNCHANGED <<steps, held, waiting, call, reply, log, fault>>

\* The chain get_before_or_at searches, and the step it finds.
Planned == TryNextScheduled(steps)
Target  == LatestAt(Planned, call.time)

\* A Free channel whose poll time lies in a retained step.
FreeTurn == PollTurn("nothing") /\ ~BeforeFirst(Planned, call.time)

\* Block the caller on step k of st: on the events of the last step while it
\* has some to emit, else on its repetition.
BlockOn(st, k) ==
  /\ steps' = st
  /\ IF st.canProduce[k]
     THEN /\ blocked' = [blocked EXCEPT ![call.channel] = OnOriginal(call.time)]
          /\ DropWakers(st)
     ELSE /\ blocked' = [blocked EXCEPT ![call.channel] = OnRepeat(k, call.time)]
          /\ held' = [j \in AllSteps |-> IF st.status[j] = "saturating" THEN held[j] ELSE "none"]
          /\ repeat' = [j \in AllSteps |->
                          [count |-> IF j = k THEN repeat[j].count + 1 ELSE repeat[j].count,
                           registered |-> IF st.status[j] = "saturating"
                                          THEN repeat[j].registered ELSE {}]]
  /\ UNCHANGED <<waiting, call, reply, log, fault>>

PollFindsSaturated ==
  /\ FreeTurn
  /\ Planned.status[Target] = "saturated"
  /\ steps' = Planned
  /\ blocked' = [blocked EXCEPT ![call.channel] = OnInterpolation(Target, call.time)]
  /\ UNCHANGED <<repeat, held, waiting, call, reply, log, fault>>

PollFindsSaturating ==
  /\ FreeTurn
  /\ Planned.status[Target] = "saturating"
  /\ BlockOn(Planned, Target)

PollFindsPreviousSaturating ==
  /\ FreeTurn
  /\ Planned.status[Target] = "unsaturated"
  /\ Planned.status[Target - 1] = "saturating"
  /\ BlockOn(Planned, Target - 1)

\* The step after the search is named by its index in the VecDeque from
\* before `saturate`, which may pop the front.
Saturated   == Saturate(Planned, Target, PinnedTimes)
StaleTarget == Target - Planned.numDeleted + Saturated.numDeleted

PollSaturates ==
  /\ FreeTurn
  /\ Planned.status[Target] = "unsaturated"
  /\ CanSaturate(Planned, Target, PinnedTimes)
  /\ StaleTarget \in Window(Saturated)
  /\ BlockOn(Saturated, StaleTarget)

PollIndexIsStale ==
  /\ FreeTurn
  /\ Planned.status[Target] = "unsaturated"
  /\ CanSaturate(Planned, Target, PinnedTimes)
  /\ StaleTarget \notin Window(Saturated)
  /\ Panic("stale_index")

PollPinUnderflows ==
  /\ FreeTurn
  /\ Planned.status[Target] = "unsaturated"
  /\ Planned.status[Target - 1] = "saturated"
  /\ PinUnderflows(Planned, PinnedTimes, Target)
  /\ Panic("pin_before_first_step")

\* The search for a saturated or saturating step before the target looks at
\* the same step in every turn.
PollLoopsForever ==
  /\ FreeTurn
  /\ Planned.status[Target] = "unsaturated"
  /\ Planned.status[Target - 1] = "unsaturated"
  /\ Panic("endless_loop")

\* get_before_or_at returns Err(()), and poll unwraps it.
PollBeforeFirstStep ==
  /\ PollTurn("nothing")
  /\ BeforeFirst(Planned, call.time)
  /\ Panic("before_first_step")

PollInterpolationPends ==
  /\ PollTurn("interpolation")
  /\ waiting' = waiting \cup {call.channel}
  /\ Answer(Contract!PendingReply)
  /\ UNCHANGED <<steps, blocked, repeat, held, log, fault>>

PollInterpolationReady ==
  /\ PollTurn("interpolation")
  /\ blocked' = [blocked EXCEPT ![call.channel] = NotBlocked]
  /\ Answer(Contract!StateReply(call.time, Mine.base, ScheduledTime(steps)))
  /\ UNCHANGED <<steps, repeat, held, waiting, log, fault>>

\* The events of the last step, whichever step that is by now.
OriginalTurn == PollTurn("original") /\ steps.status[steps.last] = "saturating"

PollOriginalEmits ==
  /\ OriginalTurn
  /\ StepEmits(steps, steps.last)
  /\ Deliver(steps, steps.last, call.time)
  /\ UNCHANGED <<blocked, repeat, held, waiting, fault>>

PollOriginalPends ==
  /\ OriginalTurn
  /\ held' = [held EXCEPT ![steps.last] = "all"]
  /\ waiting' = waiting \cup {call.channel}
  /\ Answer(Contract!PendingReply)
  /\ UNCHANGED <<steps, blocked, repeat, log, fault>>

PollOriginalReady ==
  /\ OriginalTurn
  /\ ~StepEmits(steps, steps.last)
  /\ steps' = StepReady(steps, steps.last)
  /\ DropWakers(steps')
  /\ blocked' = [blocked EXCEPT ![call.channel] = NotBlocked]
  /\ UNCHANGED <<waiting, call, reply, log, fault>>

PollOriginalGone ==
  /\ PollTurn("original")
  /\ steps.status[steps.last] # "saturating"
  /\ Panic("step_gone")

\* StackWaker::register: with another waker registered the step is not
\* polled, the wake-up of that one will reach this channel too.
PollRepeatRegisters ==
  /\ PollTurn("repeat")
  /\ repeat[Mine.step].registered # {}
  /\ repeat' = [repeat EXCEPT ![Mine.step].registered = @ \cup {call.channel}]
  /\ waiting' = waiting \cup {call.channel}
  /\ Answer(Contract!PendingReply)
  /\ UNCHANGED <<steps, blocked, held, log, fault>>

RepeatTurn ==
  /\ PollTurn("repeat")
  /\ repeat[Mine.step].registered = {}
  /\ steps.status[Mine.step] = "saturating"

\* Mutant: the channel is not registered in the StackWaker.
PollRepeatPendsUnregistered ==
  /\ RepeatTurn
  /\ held' = [held EXCEPT ![Mine.step] = "stack"]
  /\ waiting' = waiting \cup {call.channel}
  /\ Answer(Contract!PendingReply)
  /\ UNCHANGED <<steps, blocked, repeat, log, fault>>

PollRepeatPends ==
  /\ RepeatTurn
  /\ held' = [held EXCEPT ![Mine.step] = "stack"]
  /\ repeat' = [repeat EXCEPT ![Mine.step].registered = {call.channel}]
  /\ waiting' = waiting \cup {call.channel}
  /\ Answer(Contract!PendingReply)
  /\ UNCHANGED <<steps, blocked, log, fault>>

PollRepeatReady ==
  /\ RepeatTurn
  /\ ~StepEmits(steps, Mine.step)
  /\ steps' = StepReady(steps, Mine.step)
  /\ held' = [held EXCEPT ![Mine.step] = "none"]
  /\ repeat' = WithoutEntry(call.channel)
  /\ blocked' = [blocked EXCEPT ![call.channel] = NotBlocked]
  /\ UNCHANGED <<waiting, call, reply, log, fault>>

\* The step is no longer there, no longer saturating, or it emits although
\* its events were delivered before: unwrap or panic!().
PollRepeatGone ==
  /\ PollTurn("repeat")
  /\ repeat[Mine.step].registered = {}
  /\ steps.status[Mine.step] = "saturating" => StepEmits(steps, Mine.step)
  /\ Panic("step_gone")

PollTurns ==
  \/ PollAbandons
  \/ PollFindsSaturated \/ PollFindsSaturating \/ PollFindsPreviousSaturating
  \/ PollSaturates
  \/ PollIndexIsStale \/ PollPinUnderflows \/ PollLoopsForever \/ PollBeforeFirstStep
  \/ PollInterpolationPends \/ PollInterpolationReady
  \/ PollOriginalEmits \/ PollOriginalPends \/ PollOriginalReady \/ PollOriginalGone
  \/ PollRepeatRegisters \/ PollRepeatPends \/ PollRepeatReady \/ PollRepeatGone

-----------------------------------------------------------------------------
(* poll_events *)

CallPollEvents(t) ==
  /\ Turn("idle")
  /\ MayPollAt(t)
  /\ call' = EventsCall(t)
  /\ reply' = Contract!NoReply
  /\ waiting' = waiting \ {EventsCaller}
  /\ UNCHANGED <<steps, blocked, repeat, held, log, fault>>

\* Mutant: an event at the very time asked is not waited for.
EventsOutstandingBefore ==
  /\ StepTime[Planned.last] < call.time
  /\ Planned.canProduce[Planned.last]

\* Mutant: the time asked is not looked at.
EventsOutstandingAtAnyTime == Planned.canProduce[Planned.last]

\* The last step may still emit at or before the time asked.
EventsOutstanding ==
  /\ StepTime[Planned.last] <= call.time
  /\ Planned.canProduce[Planned.last]

\* get_before_or_at_events returns Ready.
EventsReady ==
  /\ Turn("events")
  /\ ~EventsOutstanding
  /\ steps' = Planned
  /\ Answer(Contract!EventsReply(call.time,
       IF Planned.canProduce[Planned.last] THEN StepTime[Planned.last] ELSE Never))
  /\ UNCHANGED <<blocked, repeat, held, waiting, log, fault>>

\* The chain with the last step saturating, which is polled in the same turn.
LastSaturating ==
  IF Planned.status[Planned.last] = "unsaturated"
  THEN Saturate(Planned, Planned.last, PinnedTimes)
  ELSE Planned

EventsTurn ==
  /\ Turn("events")
  /\ EventsOutstanding
  /\ \/ Planned.status[Planned.last] = "saturating"
     \/ /\ Planned.status[Planned.last] = "unsaturated"
        /\ CanSaturate(Planned, Planned.last, PinnedTimes)

EventsEmits ==
  /\ EventsTurn
  /\ StepEmits(LastSaturating, Planned.last)
  /\ Deliver(LastSaturating, Planned.last, call.time)
  /\ DropWakers(steps')
  /\ UNCHANGED <<blocked, waiting, fault>>

\* Mutant: the future is not given the waker.
EventsPendsUnregistered ==
  /\ EventsTurn
  /\ steps' = LastSaturating
  /\ DropWakers(steps')
  /\ waiting' = waiting \cup {EventsCaller}
  /\ Answer(Contract!PendingReply)
  /\ UNCHANGED <<blocked, log, fault>>

EventsPends ==
  /\ EventsTurn
  /\ steps' = LastSaturating
  /\ held' = [k \in AllSteps |-> IF k = Planned.last THEN "all"
                                 ELSE IF steps'.status[k] = "saturating" THEN held[k]
                                 ELSE "none"]
  /\ repeat' = [k \in AllSteps |->
                  IF steps'.status[k] = "saturating" THEN repeat[k]
                  ELSE [repeat[k] EXCEPT !.registered = {}]]
  /\ waiting' = waiting \cup {EventsCaller}
  /\ Answer(Contract!PendingReply)
  /\ UNCHANGED <<blocked, log, fault>>

EventsStepReady ==
  /\ EventsTurn
  /\ ~StepEmits(LastSaturating, Planned.last)
  /\ steps' = StepReady(LastSaturating, Planned.last)
  /\ DropWakers(steps')
  /\ UNCHANGED <<blocked, waiting, call, reply, log, fault>>

\* The last step cannot be saturated, or has been, and an unwrap panics.
EventsPanics ==
  /\ Turn("events")
  /\ EventsOutstanding
  /\ IF Planned.status[Planned.last] = "unsaturated"
     THEN ~CanSaturate(Planned, Planned.last, PinnedTimes)
     ELSE Planned.status[Planned.last] = "saturated"
  /\ Panic(IF PinUnderflows(Planned, PinnedTimes, Planned.last)
           THEN "pin_before_first_step" ELSE "step_gone")

EventsTurns ==
  EventsReady \/ EventsEmits \/ EventsPends \/ EventsStepReady \/ EventsPanics

-----------------------------------------------------------------------------
(* release_channel and advance *)

ReleaseChannel(c) ==
  /\ Turn("idle")
  /\ blocked[c] # NotBlocked
  /\ blocked' = [blocked EXCEPT ![c] = NotBlocked]
  /\ repeat' = WithoutEntry(c)
  /\ waiting' = waiting \ {c}
  /\ UNCHANGED <<steps, held, call, reply, log, fault>>

Advance(t) ==
  /\ Turn("idle")
  /\ t > steps.deletedBefore
  /\ ~BeforeFirst(steps, t)
  /\ steps' = DeleteBefore(steps, t)
  /\ DropWakers(steps')
  /\ UNCHANGED <<blocked, waiting, call, reply, log, fault>>

\* The search for the checkpoint of t subtracts one from the index 0.
AdvanceBeforeFirstStep(t) ==
  /\ Turn("idle")
  /\ t > steps.deletedBefore
  /\ BeforeFirst(steps, t)
  /\ Panic("before_first_step")

-----------------------------------------------------------------------------
(* Wakers, invoked by whatever the user futures wait for *)

\* The future of step k wakes the waker it was last polled with: the
\* all_channel_waker, or the StackWaker of the channels blocked on it.
WakeStep(k) ==
  /\ fault = "none"
  /\ held[k] # "none"
  /\ waiting' = IF held[k] = "all" THEN {} ELSE waiting \ repeat[k].registered
  /\ repeat' = [repeat EXCEPT ![k].registered = IF held[k] = "all" THEN @ ELSE {}]
  /\ held' = [held EXCEPT ![k] = "none"]
  /\ UNCHANGED <<steps, blocked, call, reply, log, fault>>

WakeInterpolation(c) ==
  /\ fault = "none"
  /\ c \in waiting
  /\ blocked[c].on = "interpolation"
  /\ waiting' = waiting \ {c}
  /\ UNCHANGED <<steps, blocked, repeat, held, call, reply, log, fault>>

-----------------------------------------------------------------------------
Next ==
  \/ \E c \in Channels, t \in PollTimes : CallPoll(c, t)
  \/ PollTurns
  \/ \E t \in EventTimes : CallPollEvents(t)
  \/ EventsTurns
  \/ \E c \in Channels : ReleaseChannel(c) \/ WakeInterpolation(c)
  \/ \E t \in AdvanceTimes : Advance(t) \/ AdvanceBeforeFirstStep(t)
  \/ \E k \in AllSteps : WakeStep(k)

Spec == Init /\ [][Next]_vars

-----------------------------------------------------------------------------
(* Properties *)

TypeOK ==
  /\ steps \in StepsType
  /\ blocked \in [Channels -> BlockedType]
  /\ repeat \in [AllSteps -> EntryType]
  /\ held \in [AllSteps -> {"none", "all", "stack"}]
  /\ waiting \subseteq Channels \cup {EventsCaller}
  /\ call \in CallType
  /\ fault \in Faults
  /\ log \in Seq([step : AllSteps, event : Nat \ {0}])

\* not_unsaturated is exactly the set of retained steps that hold or compute
\* a state, and the first retained step is one of them: the assertion of
\* Steps::debug_assertions, and what every lookup in the set relies on.
CheckpointsMatchSteps ==
  /\ steps.notUnsat =
       {k \in Window(steps) : steps.status[k] \in {"saturating", "saturated"}}
  /\ steps.numDeleted \in steps.notUnsat

\* Whatever checkpoints are given up, the chain can always be extended: while
\* the last step is only a plan, the step before it holds its state.
FrontierIsRecoverable ==
  steps.status[steps.last] = "unsaturated" =>
    /\ steps.last > steps.numDeleted
    /\ steps.status[steps.last - 1] = "saturated"

\* Steps recomputed after a desaturation swallow their events: each event
\* reaches the caller once and in order, a step is done only with all its
\* events delivered, and a running future is past exactly the events delivered.
EventsDeliveredOnceInOrder ==
  /\ \A i, j \in DOMAIN log : i < j => Contract!Precedes(log[i], log[j])
  /\ \A k \in AllSteps : \A e \in 1..Emits[k] :
       /\ ~steps.canProduce[k] => [step |-> k, event |-> e] \in Contract!Delivered
       /\ steps.status[k] = "saturating" =>
            ([step |-> k, event |-> e] \in Contract!Delivered <=> e <= steps.produced[k])

\* The memory promise of number_of_checkpoints: the states kept never
\* outnumber the budget, or, where blocked channels need more, one per channel,
\* the first and the last.
CheckpointsBounded ==
  Cardinality(steps.notUnsat) <=
    Max({NumCheckpoints, 2 + Cardinality(Channels)})

RepeatWaiters(k) == {c \in Channels : blocked[c].on = "repeat" /\ blocked[c].step = k}

\* The count of an entry of blocked_repeat_step_wakers is the number of
\* channels blocked on its step, so that the last one to leave removes it.
RepeatCountsExact ==
  \A k \in AllSteps : repeat[k].count = Cardinality(RepeatWaiters(k))

\* A channel told Pending is woken when progress can be made: what it waits
\* for still runs, and holds a waker that reaches the channel.
NoLostWakeup ==
  \A c \in waiting \cap Channels :
    \/ blocked[c].on = "interpolation"
    \/ /\ blocked[c].on = "original"
       /\ steps.status[steps.last] = "saturating"
       /\ held[steps.last] = "all"
    \/ /\ blocked[c].on = "repeat"
       /\ steps.status[blocked[c].step] = "saturating"
       /\ held[blocked[c].step] = "stack"
       /\ c \in repeat[blocked[c].step].registered

\* Giving up checkpoints never costs a blocked channel its progress: the
\* checkpoint its answer is computed from never moves back while it waits.
PinnedProgressKept ==
  [][\A c \in Channels :
       /\ blocked[c].on \in {"original", "repeat"}
       /\ blocked'[c] = blocked[c]
       /\ ~BeforeFirst(steps, blocked[c].time)
       /\ ~BeforeFirst(steps', blocked[c].time)
       => NotUnsatAt(steps, blocked[c].time) <= NotUnsatAt(steps', blocked[c].time)]_vars

\* After advance(t) the caller may still poll at t and later: the step the
\* state at t is interpolated from stays in the chain.
AdvancedTimeStaysReachable ==
  steps.deletedBefore # Never => ~BeforeFirst(steps, steps.deletedBefore)

\* Calls fail in no other ways than these: a search that does not end, once the
\* chain has outgrown its budget of checkpoints; an index gone stale or a time
\* from before the first step, once somebody has advanced; a step finished by
\* another caller, in poll.  poll_events always finds its step.
CallsFailOnlyAsKnown ==
  /\ fault = "endless_loop" => steps.last > NumCheckpoints
  /\ fault \in {"stale_index", "pin_before_first_step"} => steps.deletedBefore # Never
  /\ fault = "before_first_step" /\ call.op = "poll" =>
       steps.deletedBefore # Never \/ call.time < StepTime[0]
  /\ fault = "step_gone" => call.op = "poll"

\* The source implements the contract of a Source, however much is given up
\* and recomputed behind it.  True of the users that do not share it: one
\* that plays its events, one that stays with one request.
ImplementsContract == Contract!ContractSpec

\* What is left of the contract for callers that share the source: every event
\* once and in order, answers with everything at or before their time out, but
\* an event may be handed out to a caller who asked about an earlier time.
ImplementsSharedContract == Contract!SharedContractSpec

\* An Interrupt tells the caller of an event it must handle before the state
\* it asked for can be made available (source.rs:51).
EventsComeBeforeTheState == reply.kind = "interrupt" => reply.at <= reply.time
=============================================================================
