---------------------------- MODULE PatientCaller ----------------------------
(***************************************************************************)
(* A caller that uses a NoInputTransposerSource the way traits/source.rs   *)
(* tells it to: it wants the state at a time, polls for it, polls again at *)
(* once after an interrupt and with the same time after Pending, surely    *)
(* when woken, perhaps before, until the state is there.  While it waits   *)
(* it may also change its mind and poll for another time, earlier ones     *)
(* included, or give up and release its channel.                           *)
(***************************************************************************)
EXTENDS TransposerSource

CONSTANT Caller   (* the channel it polls on *)

ASSUME CallerAssumption == Caller \in Channels

\* It does not ask for the state before the simulation starts: there is none, and
\* poll unwraps it.
ASSUME CallerTimesAssumption == \A t \in PollTimes : StepTime[0] <= t

VARIABLE wanted   (* the time it wants the state at, Never for none *)

callerVars == <<vars, wanted>>

CallerInit ==
  /\ Init
  /\ wanted = Never

Wants(t) ==
  /\ wanted = Never
  /\ wanted' = t
  /\ UNCHANGED vars

\* A new wish is polled for at once, it was not told Pending about that.
ChangesMind(t) ==
  /\ wanted \notin {Never, t}
  /\ Turn("idle")
  /\ reply.kind \in {"pending", "interrupt"}
  /\ wanted' = t
  /\ waiting' = waiting \ {Caller}
  /\ UNCHANGED <<steps, blocked, repeat, held, call, reply, log, fault>>

\* A wish that is not fulfilled yet is given up.
GivesUp ==
  /\ wanted # Never
  /\ reply.kind # "state"
  /\ ReleaseChannel(Caller)
  /\ wanted' = Never

Polls ==
  /\ wanted # Never
  /\ reply.kind # "state"
  /\ Caller \notin waiting
  /\ CallPoll(Caller, wanted)
  /\ UNCHANGED wanted

\* A task may be run without having been woken.
PollsUnwoken ==
  /\ wanted # Never
  /\ Caller \in waiting
  /\ CallPoll(Caller, wanted)
  /\ UNCHANGED wanted

\* The answer is read, and the next wish is free to be made.
Receives ==
  /\ Turn("idle")
  /\ wanted # Never
  /\ reply.kind = "state"
  /\ reply' = Contract!NoReply
  /\ wanted' = Never
  /\ UNCHANGED <<steps, blocked, repeat, held, waiting, call, log, fault>>

SourceRuns ==
  /\ PollTurns
  /\ UNCHANGED wanted

FuturesWake ==
  /\ WakeInterpolation(Caller) \/ \E k \in AllSteps : WakeStep(k)
  /\ UNCHANGED wanted

CallerNext ==
  \/ \E t \in PollTimes : Wants(t) \/ ChangesMind(t)
  \/ Polls \/ PollsUnwoken \/ GivesUp \/ Receives \/ SourceRuns \/ FuturesWake

\* A user future polled again and again wakes its waker and gets further.
OriginalAdvances      == (PollOriginalEmits \/ PollOriginalReady) /\ UNCHANGED wanted
RepeatAdvances        == PollRepeatReady /\ UNCHANGED wanted
InterpolationAdvances == PollInterpolationReady /\ UNCHANGED wanted

CallerSpec ==
  /\ CallerInit
  /\ [][CallerNext]_callerVars
  /\ WF_callerVars(Polls)
  /\ WF_callerVars(Receives)
  /\ WF_callerVars(SourceRuns)
  /\ WF_callerVars(FuturesWake)
  /\ SF_callerVars(OriginalAdvances)
  /\ SF_callerVars(RepeatAdvances)
  /\ SF_callerVars(InterpolationAdvances)

-----------------------------------------------------------------------------
(* Properties *)

\* Calls fail in one way only: the search for a checkpoint does not end, which
\* takes a chain with more steps after the initial one than there are
\* checkpoints.  Nothing panics, and all calls return within the budget.
FailsOnlyBeyondTheBudget ==
  fault # "none" => fault = "endless_loop" /\ steps.last > NumCheckpoints

\* Progress is kept from one poll to the next: whatever was polled before and
\* abandoned, and whatever has to be recomputed, a caller that sticks to a wish
\* has it fulfilled, unless a call does not return.
WishesAreFulfilled ==
  \A t \in PollTimes : ~<>[](wanted = t /\ fault = "none")

\* The state a caller receives is the state at the time it wants: no answer
\* to an earlier, abandoned poll is taken for it.
AnswersTheQuestion ==
  reply.kind = "state" => reply.time = wanted /\ Contract!IsLatestInstant(reply.base, wanted)
=============================================================================
