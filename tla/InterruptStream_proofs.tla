----------------------- MODULE InterruptStream_proofs -----------------------
(***************************************************************************)
(* InterruptStream over any NoInputTransposerSource: for all times of the  *)
(* steps, all events they emit, any budget of checkpoints and any clock.   *)
(*                                                                         *)
(* The stream is a legal user of the source, so what is proved of the      *)
(* source holds for it.  The stream knows more: it alone uses the source,  *)
(* it asks for the time it advanced to, and the step of that time is the   *)
(* only one that keeps a state.                                            *)
(***************************************************************************)
EXTENDS InterruptStream, SourceContract_proofs

\* The clock is never behind the poll in progress, nor the source before it,
\* and once polled the first retained step is never ahead of the clock.
ClockInv ==
  /\ now \in 0 .. MaxTime
  /\ stage \in Stages
  /\ pollTime \in {Never} \cup (0 .. now)
  /\ pollTime = Never => stage = "woken" /\ steps = NewSteps /\ log = <<>>
  /\ pollTime # Never /\ fault = "none" =>
       /\ pollTime <= steps.deletedBefore
       /\ StepTime[steps.numDeleted] <= now

\* Nobody else uses the source, and it computes from one state.
UserInv ==
  /\ \/ call = Idle
     \/ stage = "asking" /\ call = EventsCall(pollTime) /\ reply.kind = "none"
  /\ \A c \in Channels : blocked[c] = NotBlocked
  /\ steps.notUnsat = {steps.numDeleted}

\* It panicked only by an advance to a time before the first step, and stays
\* as it was left.
PanicInv ==
  fault # "none" =>
    /\ fault = "before_first_step"
    /\ pollTime # Never /\ pollTime < StepTime[0]
    /\ log = <<>>
    /\ stage = "advanced"

\* What the last answer means for the stream: an event that is due, a future
\* that will wake it, or a time to wait for.
AnsweredInv ==
  /\ reply.kind = "interrupt" =>
       reply.at \in Nat /\ reply.at <= now /\ reply.at <= reply.time
  /\ stage \in {"asking", "asleep"} /\ reply.kind = "pending" =>
       EventsCaller \notin waiting \/ held[steps.last] = "all"
  /\ stage = "asleep" =>
       /\ reply.kind \in {"pending", "events"}
       /\ reply.kind = "events" => reply.next = Never \/ wait = reply.next

StreamInv ==
  ContractInv /\ ReplyInv /\ ClockInv /\ UserInv /\ PanicInv /\ AnsweredInv

-----------------------------------------------------------------------------
(* The times *)

\* The times of the clock are natural numbers, and the source knows them.
LEMMA ClockTimes ==
  \A t \in 0 .. MaxTime : t \in Nat /\ t \in EventTimes /\ t \in AdvanceTimes
  BY ClockAssumption, MaxTimeAssumption

\* So are the clock and the time of a poll in progress.
LEMMA StreamTimes ==
  ASSUME ClockInv
  PROVE  /\ now \in Nat /\ now \in AdvanceTimes
         /\ pollTime # Never => /\ pollTime \in Nat /\ pollTime <= now
                                /\ pollTime \in EventTimes
<1>1. now \in 0 .. MaxTime /\ now \in Nat
  BY ClockTimes DEF ClockInv
<1>2. ASSUME pollTime # Never
      PROVE  pollTime \in 0 .. MaxTime /\ pollTime <= now
  <2>1. pollTime \in 0 .. now
    BY <1>2 DEF ClockInv
  <2> QED
    BY <1>1, <2>1, MaxTimeAssumption
<1> QED
  BY <1>1, <1>2, ClockTimes

\* While the source works for the stream, it works on the time of the poll.
LEMMA AskedTime ==
  ASSUME StreamInv, Turn("events")
  PROVE  /\ stage = "asking" /\ call.time = pollTime
         /\ pollTime \in Nat /\ pollTime <= now /\ now \in Nat
         /\ pollTime <= steps.deletedBefore
         /\ StepTime[steps.numDeleted] <= now
<1>1. call = EventsCall(pollTime) /\ stage = "asking" /\ fault = "none"
  BY DEF StreamInv, UserInv, Turn, Idle
<1>2. ClockInv
  BY DEF StreamInv
<1>3. /\ pollTime # Never /\ pollTime <= steps.deletedBefore
      /\ StepTime[steps.numDeleted] <= now
  BY <1>1, <1>2 DEF ClockInv
<1> QED
  BY <1>1, <1>2, <1>3, StreamTimes DEF EventsCall

-----------------------------------------------------------------------------
(* The stream uses the source as any caller may *)

LEMMA StreamUsesSource ==
  ASSUME ClockInv, [StreamNext]_streamVars
  PROVE  [Next]_vars
<1>1. CASE PollNext
  BY <1>1, StreamTimes DEF PollNext, Next
<1>2. CASE AsksForEvents
  <2>1. pollTime \in EventTimes
    BY <1>2, StreamTimes DEF AsksForEvents, ClockInv
  <2> QED
    BY <1>2, <2>1 DEF AsksForEvents, Next
<1>3. CASE SourceAnswers \/ FutureWakes
  BY <1>3 DEF SourceAnswers, FutureWakes, Next
<1>4. CASE Tick \/ Reads \/ StreamWakes \/ UNCHANGED streamVars
  BY <1>4 DEF Tick, Reads, Yields, SourcePends, NothingScheduled, WaitsForNext,
     WaitIsOver, StreamWakes, streamVars
<1> QED
  BY <1>1, <1>2, <1>3, <1>4 DEF StreamNext

-----------------------------------------------------------------------------
(* One state *)

\* The chain a turn works on.
LEMMA StreamPlanned ==
  ASSUME StreamInv
  PROVE  /\ StepsInv(steps) /\ StepsInv(Planned)
         /\ Planned.notUnsat = {Planned.numDeleted}
         /\ Planned.numDeleted = steps.numDeleted
         /\ Planned.deletedBefore = steps.deletedBefore
         /\ PinnedTimes = {}
<1>1. StepsInv(steps)
  BY DEF StreamInv, ContractInv, Typed
<1>2. PinnedTimes = {}
  BY DEF PinnedTimes, StreamInv, UserInv, NotBlocked
<1> QED
  BY <1>1, <1>2, PlannedInv, TryNextScheduledPlans
     DEF Planned, StreamInv, UserInv, ContractInv

\* The step after the one that keeps the state takes it over.
LEMMA StateIsTakenOver ==
  ASSUME StreamInv, EventsTurn
  PROVE  /\ LastSaturating.notUnsat = {LastSaturating.numDeleted}
         /\ LastSaturating.deletedBefore = steps.deletedBefore
         /\ StepTime[LastSaturating.numDeleted] <= now
<1> DEFINE last == Planned.last
<1>1. /\ StepsInv(Planned) /\ last \in Window(Planned) /\ last \in AllSteps
      /\ StepsInv(LastSaturating)
  BY PlannedEmission, LastSaturatingEmission DEF StreamInv, ContractInv
<1>2. /\ Planned.notUnsat = {Planned.numDeleted} /\ PinnedTimes = {}
      /\ Planned.numDeleted = steps.numDeleted
      /\ Planned.deletedBefore = steps.deletedBefore
  BY StreamPlanned
<1>3. CASE Planned.status[last] = "unsaturated"
  <2>1. CanSaturate(Planned, last, PinnedTimes)
    BY <1>3 DEF EventsTurn
  <2>2. last - 1 = Planned.numDeleted
    <3>1. last - 1 \in Planned.notUnsat
      BY <1>1, <2>1 DEF CanSaturate, StepsInv
    <3> QED
      BY <1>2, <3>1
  <2>3. /\ Planned.numDeleted \in AllSteps /\ Planned.numDeleted < last
        /\ last = Planned.numDeleted + 1
    <3>1. last \in Nat /\ Planned.numDeleted \in AllSteps /\ Planned.numDeleted \in Nat
      BY <1>1, LastStepAssumption DEF StepsInv, StepsType, AllSteps
    <3> HIDE DEF last
    <3> QED
      BY <2>2, <3>1
  <2>4. /\ pollTime \in Nat /\ pollTime <= now /\ now \in Nat
        /\ pollTime <= steps.deletedBefore
        /\ StepTime[last] <= pollTime
    BY AskedTime DEF EventsTurn, EventsOutstanding
  <2>5. /\ StepTime[Planned.numDeleted] \in Nat /\ StepTime[last] \in Nat
        /\ StepTime[Planned.numDeleted] < StepTime[last]
    BY <1>1, <2>3, StepTimeAssumption
  <2>6. steps.deletedBefore \in Int
    BY StreamPlanned, StepsTyped DEF StepsType, Never
  <2>7. FirstIsObsolete(Planned, last)
    <3>1. Min(Planned.notUnsat) = Planned.numDeleted
      BY <1>1, FirstCheckpoint
    <3>2. StepTime[Planned.numDeleted] < Planned.deletedBefore
      BY <1>2, <2>4, <2>5, <2>6
    <3> QED
      BY <2>3, <3>1, <3>2 DEF FirstIsObsolete
  <2>8. SequenceNumberToDelete(Planned, PinnedTimes, last) = {Planned.numDeleted}
    BY <1>1, <2>7, FirstCheckpoint DEF SequenceNumberToDelete
  <2>9. /\ LastSaturating = Saturate(Planned, last, PinnedTimes)
        /\ LastSaturating.notUnsat = {last}
        /\ LastSaturating.deletedBefore = steps.deletedBefore
    BY <1>1, <1>2, <1>3, <2>1, <2>8, SaturateEffect DEF LastSaturating
  <2>10. LastSaturating.numDeleted = last
    BY <1>1, <2>9 DEF StepsInv
  <2> HIDE DEF last
  <2>11. StepTime[last] <= now
    BY <2>4, <2>5
  <2> QED
    BY <2>9, <2>10, <2>11
<1>4. CASE Planned.status[last] # "unsaturated"
  BY <1>2, <1>4, AskedTime DEF LastSaturating, EventsTurn
<1> QED
  BY <1>3, <1>4

\* poll_events never asks for a state that is not there.
LEMMA EventsNeverPanic ==
  ASSUME StreamInv
  PROVE  ~EventsPanics
<1> SUFFICES ASSUME EventsPanics
             PROVE  FALSE
  OBVIOUS
<1>1. /\ StepsInv(Planned) /\ EmissionInv(Planned)
      /\ Planned.last \in AllSteps /\ Planned.last \in Window(Planned)
      /\ PinnedTimes = {}
  BY PlannedEmission, StreamPlanned DEF StreamInv, ContractInv
<1>2. Planned.canProduce[Planned.last]
  BY DEF EventsPanics, EventsOutstanding
<1>3. Planned.status[Planned.last] = "unsaturated"
  BY <1>1, <1>2 DEF EventsPanics, EmissionInv
<1>4. /\ Planned.last > Planned.numDeleted
      /\ Planned.status[Planned.last - 1] = "saturated"
  BY <1>1, <1>3 DEF StepsInv
<1>5. Planned.last - 1 \in Window(Planned)
  <2>1. Planned.last \in Nat /\ Planned.numDeleted \in Nat
    BY <1>1, LastStepAssumption DEF StepsInv, StepsType, AllSteps
  <2> QED
    BY <1>4, <2>1 DEF Window
<1>6. CanSaturate(Planned, Planned.last, PinnedTimes)
  BY <1>1, <1>4, <1>5 DEF CanSaturate, PinUnderflows
<1> QED
  BY <1>3, <1>6 DEF EventsPanics

\* What a turn of poll_events leaves behind.
LEMMA EventsTurnsKeepOneState ==
  ASSUME StreamInv, EventsTurns
  PROVE  /\ steps'.notUnsat = {steps'.numDeleted}
         /\ steps'.deletedBefore = steps.deletedBefore
         /\ StepTime[steps'.numDeleted] <= now
<1>1. CASE EventsReady
  BY <1>1, StreamPlanned, AskedTime DEF EventsReady
<1>2. CASE EventsEmits \/ EventsPends \/ EventsStepReady
  <2>1. /\ EventsTurn
        /\ \/ steps' = LastSaturating
           \/ steps' = StepEmitted(LastSaturating, Planned.last)
           \/ steps' = StepReady(LastSaturating, Planned.last)
    BY <1>2 DEF EventsEmits, EventsPends, EventsStepReady, Deliver
  <2>2. LastSaturating \in StepsType
    BY <2>1, LastSaturatingInv, StepsTyped DEF StreamInv, ContractInv
  <2>3. /\ steps'.notUnsat = LastSaturating.notUnsat
        /\ steps'.numDeleted = LastSaturating.numDeleted
        /\ steps'.deletedBefore = LastSaturating.deletedBefore
    BY <2>1, <2>2 DEF StepEmitted, StepReady, StepsType
  <2> QED
    BY <2>1, <2>3, StateIsTakenOver
<1> QED
  BY <1>1, <1>2, EventsNeverPanic DEF EventsTurns

\* advance deletes nothing else.
LEMMA AdvanceKeepsOneState ==
  ASSUME StreamInv, Advance(now)
  PROVE  /\ steps'.notUnsat = {steps'.numDeleted}
         /\ steps'.numDeleted = steps.numDeleted
         /\ steps'.deletedBefore = now
<1>1. /\ now \in Nat /\ StepsInv(steps) /\ steps \in StepsType
      /\ steps.numDeleted \in Nat
      /\ steps.notUnsat = {steps.numDeleted}
  <2>1. now \in Nat /\ StepsInv(steps) /\ steps.notUnsat = {steps.numDeleted}
    BY StreamTimes, StreamPlanned DEF StreamInv, UserInv
  <2>2. steps \in StepsType
    BY <2>1, StepsTyped
  <2>3. steps.numDeleted \in AllSteps
    BY <2>2 DEF StepsType
  <2>4. steps.numDeleted \in Nat
    BY <2>3, LastStepAssumption DEF AllSteps
  <2> QED
    BY <2>1, <2>2, <2>4
<1>2. /\ now > steps.deletedBefore /\ ~BeforeFirst(steps, now)
      /\ steps' = DeleteBefore(steps, now)
  BY DEF Advance
<1>3. NotUnsatAt(steps, now) = steps.numDeleted
  BY <1>1, <1>2, NotUnsatAtIsCheckpoint
<1>4. ~(now <= steps.deletedBefore)
  BY <1>1, <1>2 DEF StepsType, Never
<1> QED
  BY <1>1, <1>2, <1>3, <1>4 DEF DeleteBefore, StepsType

-----------------------------------------------------------------------------
(* Every step keeps the invariants *)

\* The steps of the stream that leave the source alone.
Beside == Tick \/ Reads \/ StreamWakes

LEMMA BesideLeavesSource == Beside => UNCHANGED vars
  BY DEF Beside, Tick, Reads, Yields, SourcePends, NothingScheduled, WaitsForNext,
     WaitIsOver, StreamWakes

\* The clock goes on, and the source is not ahead of the stream.
LEMMA ClockStep ==
  ASSUME StreamInv, [StreamNext]_streamVars
  PROVE  ClockInv'
<1>1. ClockInv /\ now \in Nat
  BY StreamTimes DEF StreamInv
<1>2. CASE Tick
  <2>1. now < MaxTime /\ now' = now + 1 /\ UNCHANGED <<steps, log, fault, stage, pollTime>>
    BY <1>2 DEF Tick, vars
  <2>2. now' \in 0 .. MaxTime
    BY <1>1, <2>1, MaxTimeAssumption DEF ClockInv
  <2>3. pollTime' \in {Never} \cup (0 .. now')
    BY <1>1, <2>1 DEF ClockInv
  <2>4. StepTime[steps.numDeleted] <= now => StepTime[steps.numDeleted] <= now'
    <3>1. StepTime[steps.numDeleted] \in Nat
      BY StreamPlanned, StepsTyped, StepTimeAssumption DEF StepsType
    <3> QED
      BY <1>1, <2>1, <3>1
  <2> QED
    BY <1>1, <2>1, <2>2, <2>3, <2>4 DEF ClockInv
<1>3. CASE Reads \/ StreamWakes \/ FutureWakes \/ UNCHANGED streamVars
  <2>1. /\ UNCHANGED <<steps, log, fault, now, pollTime>>
        /\ stage' \in {stage, "woken", "asleep"}
    BY <1>3 DEF Reads, Yields, SourcePends, NothingScheduled, WaitsForNext, WaitIsOver,
       StreamWakes, FutureWakes, WakeStep, streamVars, clockVars, vars
  <2>2. stage # "woken" \/ stage' = "woken"
    BY <1>3 DEF Reads, Yields, SourcePends, NothingScheduled, WaitsForNext, WaitIsOver,
       Answered, StreamWakes, FutureWakes, streamVars, clockVars
  <2> QED
    BY <1>1, <2>1, <2>2 DEF ClockInv, Stages
<1>4. CASE PollNext
  <2>1. pollTime' = now /\ stage' = "advanced" /\ now' = now
    BY <1>4 DEF PollNext
  <2>2. CASE fault' = "none"
    <3>1. CASE now <= steps.deletedBefore
      <4>1. steps' = steps /\ fault = "none"
        BY <1>4, <2>2, <3>1 DEF PollNext, vars
      <4>2. steps.deletedBefore # Never
        BY <1>1, <3>1 DEF Never
      <4>3. pollTime # Never
        BY <1>1, <4>2 DEF ClockInv, NewSteps
      <4> QED
        BY <1>1, <2>1, <3>1, <4>1, <4>3 DEF ClockInv, Never, Stages
    <3>2. CASE ~(now <= steps.deletedBefore)
      <4>1. Advance(now)
        BY <1>4, <2>2, <3>2 DEF PollNext, AdvanceBeforeFirstStep, Panic
      <4>2. /\ steps'.deletedBefore = now /\ steps'.numDeleted = steps.numDeleted
        BY <4>1, AdvanceKeepsOneState
      <4>3. StepTime[steps.numDeleted] <= now
        <5>1. StepTime[steps.numDeleted] \in Nat
          BY StreamPlanned, StepsTyped, StepTimeAssumption DEF StepsType
        <5> QED
          BY <1>1, <4>1, <5>1 DEF Advance, BeforeFirst
      <4> QED
        BY <1>1, <2>1, <4>2, <4>3 DEF ClockInv, Never, Stages
    <3> QED
      BY <3>1, <3>2
  <2>3. CASE fault' # "none"
    BY <1>1, <2>1, <2>3 DEF ClockInv, Never, Stages
  <2> QED
    BY <2>2, <2>3
<1>5. CASE AsksForEvents
  <2>1. /\ stage = "advanced" /\ stage' = "asking"
        /\ UNCHANGED <<steps, log, fault, now, pollTime>>
    BY <1>5 DEF AsksForEvents, CallPollEvents
  <2> QED
    BY <1>1, <2>1 DEF ClockInv, Stages
<1>6. CASE SourceAnswers
  <2>1. stage = "asking" /\ pollTime <= steps.deletedBefore
    BY <1>6, AskedTime DEF SourceAnswers, EventsTurns, EventsReady, EventsEmits,
       EventsPends, EventsStepReady, EventsPanics, EventsTurn
  <2> QED
    BY <1>1, <1>6, <2>1, EventsTurnsKeepOneState DEF SourceAnswers, ClockInv, clockVars
<1> QED
  BY <1>2, <1>3, <1>4, <1>5, <1>6 DEF StreamNext

\* The source has one user, one state, and no panic.
LEMMA UserStep ==
  ASSUME StreamInv, [StreamNext]_streamVars
  PROVE  UserInv'
<1>1. UserInv
  BY DEF StreamInv
<1>2. CASE Beside \/ UNCHANGED streamVars
  <2>1. UNCHANGED vars
    BY <1>2, BesideLeavesSource DEF streamVars
  <2>2. call # Idle => stage' = stage /\ pollTime' = pollTime
    BY <1>2 DEF Beside, Tick, Reads, Yields, SourcePends, NothingScheduled, WaitsForNext,
       WaitIsOver, Answered, Turn, StreamWakes, StreamInv, UserInv, EventsCall,
       streamVars, clockVars
  <2> QED
    BY <1>1, <2>1, <2>2 DEF UserInv, vars
<1>3. CASE PollNext
  <2>1. call = Idle
    BY <1>1, <1>3 DEF UserInv, PollNext
  <2>2. /\ UNCHANGED <<call, blocked>>
        /\ steps' = steps \/ Advance(now)
    BY <1>3 DEF PollNext, Advance, AdvanceBeforeFirstStep, Panic, vars
  <2>3. steps'.notUnsat = {steps'.numDeleted}
    BY <1>1, <2>2, AdvanceKeepsOneState DEF UserInv
  <2> QED
    BY <1>1, <2>1, <2>2, <2>3 DEF UserInv
<1>4. CASE AsksForEvents
  BY <1>1, <1>4 DEF AsksForEvents, CallPollEvents, UserInv, Contract!NoReply
<1>5. CASE SourceAnswers
  <2>1. /\ EventsTurns /\ stage' = stage /\ pollTime' = pollTime
        /\ ~EventsPanics
    BY <1>5, EventsNeverPanic DEF SourceAnswers, clockVars
  <2>2. /\ blocked' = blocked
        /\ (call' = call /\ reply' = reply) \/ call' = Idle
    BY <2>1 DEF EventsTurns, EventsReady, EventsEmits, EventsPends, EventsStepReady,
       Deliver, Answer
  <2>3. steps'.notUnsat = {steps'.numDeleted}
    BY <2>1, EventsTurnsKeepOneState
  <2> QED
    BY <1>1, <2>1, <2>2, <2>3 DEF UserInv
<1>6. CASE FutureWakes
  BY <1>1, <1>6 DEF FutureWakes, WakeStep, clockVars, UserInv
<1> QED
  BY <1>2, <1>3, <1>4, <1>5, <1>6 DEF StreamNext, Beside

\* Only the first call of the stream may panic, by advancing the source to a
\* time before its first step.
LEMMA PanicStep ==
  ASSUME StreamInv, [StreamNext]_streamVars
  PROVE  PanicInv'
<1>1. PanicInv /\ ClockInv /\ UserInv
  BY DEF StreamInv
<1>2. CASE PollNext
  <2>1. pollTime' = now /\ stage' = "advanced" /\ stage = "woken"
    BY <1>2 DEF PollNext
  <2>2. CASE AdvanceBeforeFirstStep(now)
    <3>1. /\ fault = "none" /\ fault' = "before_first_step" /\ log' = log
          /\ now < StepTime[steps.numDeleted]
      BY <2>2 DEF AdvanceBeforeFirstStep, Turn, Panic, BeforeFirst
    <3>2. now \in Nat /\ StepTime[steps.numDeleted] \in Nat
      BY <1>1, StreamTimes, StreamPlanned, StepsTyped, StepTimeAssumption DEF StepsType
    <3>3. pollTime = Never
      BY <1>1, <3>1, <3>2 DEF ClockInv
    <3>4. steps.numDeleted = 0 /\ log = <<>>
      BY <1>1, <3>3 DEF ClockInv, NewSteps
    <3> QED
      BY <2>1, <3>1, <3>2, <3>4 DEF PanicInv, Never
  <2>3. CASE ~AdvanceBeforeFirstStep(now)
    BY <1>1, <1>2, <2>1, <2>3 DEF PollNext, Advance, PanicInv, vars
  <2> QED
    BY <2>2, <2>3
<1>3. CASE SourceAnswers
  <2>1. /\ EventsTurns /\ ~EventsPanics /\ fault = "none"
    BY <1>3, EventsNeverPanic DEF SourceAnswers, EventsTurns, EventsReady, EventsEmits,
       EventsPends, EventsStepReady, EventsPanics, EventsTurn, Turn
  <2>2. fault' = fault
    BY <2>1 DEF EventsTurns, EventsReady, EventsEmits, EventsPends, EventsStepReady
  <2> QED
    BY <2>1, <2>2 DEF PanicInv
<1>4. CASE AsksForEvents \/ FutureWakes
  BY <1>4 DEF AsksForEvents, CallPollEvents, FutureWakes, WakeStep, Turn, PanicInv
<1>5. CASE Beside \/ UNCHANGED streamVars
  <2>1. UNCHANGED vars
    BY <1>5, BesideLeavesSource DEF streamVars
  <2>2. stage = "advanced" => stage' = stage /\ pollTime' = pollTime
    BY <1>5 DEF Beside, Tick, Reads, Yields, SourcePends, NothingScheduled, WaitsForNext,
       WaitIsOver, Answered, StreamWakes, streamVars, clockVars
  <2> QED
    BY <1>1, <2>1, <2>2 DEF PanicInv, vars
<1> QED
  BY <1>2, <1>3, <1>4, <1>5 DEF StreamNext, Beside

\* What a turn of poll_events answers.
LEMMA TurnsAnswer ==
  ASSUME StreamInv, SourceAnswers
  PROVE  AnsweredInv'
<1>1. /\ EventsTurns /\ Turn("events") /\ ~EventsPanics
      /\ UNCHANGED <<now, stage, wait>>
  BY EventsNeverPanic
     DEF SourceAnswers, clockVars, EventsTurns, EventsReady, EventsEmits, EventsPends,
         EventsStepReady, EventsPanics, EventsTurn
<1>2. /\ stage = "asking" /\ call.time = pollTime
      /\ pollTime \in Nat /\ pollTime <= now /\ now \in Nat
  BY <1>1, AskedTime
<1>3. /\ Planned.last \in AllSteps
      /\ EventsTurn => LastSaturating.last = Planned.last
  BY PlannedEmission, LastSaturatingEmission DEF StreamInv, ContractInv
<1>4. CASE EventsReady
  <2>1. reply'.kind = "events"
    BY <1>4 DEF EventsReady, Answer, Contract!EventsReply
  <2> QED
    BY <1>1, <1>2, <2>1 DEF AnsweredInv
<1>5. CASE EventsEmits
  <2>1. reply' = Contract!InterruptReply(call.time, StepTime[Planned.last])
    BY <1>5 DEF EventsEmits, Deliver, Answer
  <2>2. /\ reply'.kind = "interrupt" /\ reply'.at = StepTime[Planned.last]
        /\ reply'.time = call.time
    BY <2>1 DEF Contract!InterruptReply
  <2>3. StepTime[Planned.last] \in Nat /\ StepTime[Planned.last] <= call.time
    BY <1>3, <1>5, StepTimeAssumption DEF EventsEmits, EventsTurn, EventsOutstanding
  <2>4. reply'.at \in Nat /\ reply'.at <= now' /\ reply'.at <= reply'.time
    BY <1>1, <1>2, <2>2, <2>3
  <2> QED
    BY <1>1, <1>2, <2>2, <2>4 DEF AnsweredInv
<1>6. CASE EventsPends
  <2>1. reply'.kind = "pending"
    BY <1>6 DEF EventsPends, Answer, Contract!PendingReply
  <2>2. steps'.last = Planned.last /\ held'[Planned.last] = "all"
    BY <1>3, <1>6 DEF EventsPends
  <2> QED
    BY <1>1, <1>2, <2>1, <2>2 DEF AnsweredInv
<1>7. CASE EventsStepReady
  <2>1. reply'.kind = "none"
    <3>1. reply.kind = "none"
      BY <1>1 DEF StreamInv, UserInv, Turn, Idle
    <3> QED
      BY <1>7, <3>1 DEF EventsStepReady
  <2> QED
    BY <1>1, <1>2, <2>1 DEF AnsweredInv
<1> QED
  BY <1>1, <1>4, <1>5, <1>6, <1>7 DEF EventsTurns

\* The other steps leave the answer as it stands.
LEMMA AnsweredStep ==
  ASSUME StreamInv, [StreamNext]_streamVars
  PROVE  AnsweredInv'
<1>1. AnsweredInv /\ now \in Nat
  BY StreamTimes DEF StreamInv
<1>2. CASE Tick
  <2>1. now' = now + 1 /\ UNCHANGED <<steps, held, waiting, reply, stage, wait>>
    BY <1>2 DEF Tick, vars
  <2>2. reply.kind = "interrupt" => reply.at <= now'
    BY <1>1, <2>1 DEF AnsweredInv
  <2> QED
    BY <1>1, <2>1, <2>2 DEF AnsweredInv
<1>3. CASE Reads \/ StreamWakes \/ UNCHANGED streamVars
  <2>1. UNCHANGED <<steps, held, waiting, reply, now>>
    BY <1>3, BesideLeavesSource DEF Beside, Reads, Yields, SourcePends, NothingScheduled,
       WaitsForNext, WaitIsOver, StreamWakes, streamVars, clockVars, vars
  <2>2. CASE Yields \/ WaitIsOver \/ StreamWakes
    <3>1. stage' = "woken"
      BY <2>2 DEF Yields, WaitIsOver, StreamWakes
    <3> QED
      BY <1>1, <2>1, <3>1 DEF AnsweredInv
  <2>3. CASE SourcePends
    BY <1>1, <2>1, <2>3 DEF SourcePends, Answered, AnsweredInv
  <2>4. CASE NothingScheduled \/ WaitsForNext
    <3>1. /\ reply.kind = "events" /\ stage' = "asleep"
          /\ reply.next = Never \/ wait' = reply.next
      BY <2>4 DEF NothingScheduled, WaitsForNext, Answered
    <3> QED
      BY <1>1, <2>1, <3>1 DEF AnsweredInv
  <2>5. CASE UNCHANGED streamVars
    BY <1>1, <2>1, <2>5 DEF streamVars, clockVars, AnsweredInv
  <2> QED
    BY <1>3, <2>2, <2>3, <2>4, <2>5 DEF Reads
<1>4. CASE PollNext
  <2>1. stage' = "advanced" /\ reply' = reply /\ now' = now
    BY <1>4 DEF PollNext, Advance, AdvanceBeforeFirstStep, Panic, vars
  <2> QED
    BY <1>1, <2>1 DEF AnsweredInv
<1>5. CASE AsksForEvents
  <2>1. stage' = "asking" /\ reply'.kind = "none"
    BY <1>5 DEF AsksForEvents, CallPollEvents, Contract!NoReply
  <2> QED
    BY <2>1 DEF AnsweredInv
<1>6. CASE SourceAnswers
  BY <1>6, TurnsAnswer
<1>7. CASE FutureWakes
  <2>1. PICK k \in AllSteps : WakeStep(k)
    BY <1>7 DEF FutureWakes
  <2>2. /\ UNCHANGED <<steps, reply, now, stage, wait>>
        /\ held' = [held EXCEPT ![k] = "none"]
        /\ waiting' = IF held[k] = "all" THEN {} ELSE waiting \ repeat[k].registered
    BY <1>7, <2>1 DEF FutureWakes, WakeStep, clockVars
  <2>3. steps.last \in AllSteps /\ held \in [AllSteps -> {"none", "all", "stack"}]
    BY StreamPlanned, StepsTyped DEF StreamInv, ContractInv, Typed
  <2>4. EventsCaller \notin waiting \/ held[steps.last] = "all"
          => EventsCaller \notin waiting' \/ held'[steps.last] = "all"
    BY <2>2, <2>3
  <2> QED
    BY <1>1, <2>2, <2>4 DEF AnsweredInv
<1> QED
  BY <1>2, <1>3, <1>4, <1>5, <1>6, <1>7 DEF StreamNext

\* The stream starts with an idle source.
LEMMA StreamStarts == StreamInit => StreamInv
<1> SUFFICES ASSUME StreamInit
             PROVE  StreamInv
  OBVIOUS
<1>1. ContractInv
  BY ContractStarts DEF StreamInit
<1>2. /\ steps = NewSteps /\ reply.kind = "none" /\ call = Idle /\ fault = "none"
      /\ \A c \in Channels : blocked[c] = NotBlocked
  BY DEF StreamInit, Init, Contract!NoReply
<1>3. steps.numDeleted = 0 /\ steps.notUnsat = {0} /\ steps.deletedBefore = Never
  BY <1>2 DEF NewSteps
<1>4. ClockInv
  BY <1>2 DEF StreamInit, Init, ClockInv, Stages, Never
<1> QED
  BY <1>1, <1>2, <1>3, <1>4
     DEF StreamInv, ReplyInv, UserInv, PanicInv, AnsweredInv, StreamInit

LEMMA StreamStep ==
  ASSUME StreamInv, [StreamNext]_streamVars
  PROVE  StreamInv'
<1>1. [Next]_vars
  BY StreamUsesSource DEF StreamInv
<1>2. ContractInv' /\ [Contract!SharedContractNext]_(Contract!contractVars)
  BY <1>1, ContractStep, TypedStep DEF StreamInv, ContractInv, KeepsContract
<1>3. ReplyInv'
  BY <1>2, AnswersStayTrue DEF StreamInv
<1> QED
  BY <1>2, <1>3, ClockStep, UserStep, PanicStep, AnsweredStep DEF StreamInv

-----------------------------------------------------------------------------
(* The theorems *)

\* The stream and its source stay in step, in every behaviour of the two.
THEOREM AlwaysStreamInv == StreamSpec => []StreamInv
<1>1. StreamInit => StreamInv
  BY StreamStarts
<1>2. StreamInv /\ [StreamNext]_streamVars => StreamInv'
  BY StreamStep
<1> QED
  BY <1>1, <1>2, PTL DEF StreamSpec

\* poll_next uses the source as the source may be used: all that is proved of
\* NoInputTransposerSource holds of one that a stream plays.
THEOREM StreamIsALegalUser == StreamSpec => Spec
<1>1. StreamInit => Init
  BY DEF StreamInit
<1>2. StreamInv /\ [StreamNext]_streamVars => [Next]_vars
  BY StreamUsesSource DEF StreamInv
<1> QED
  BY <1>1, <1>2, AlwaysStreamInv, PTL DEF StreamSpec, Spec

\* Playing forward needs one state only, whatever the budget: the step being
\* computed takes over the state of the one before.
THEOREM StreamAlwaysHoldsOneState == StreamSpec => []StreamHoldsOneState
<1>1. StreamInv => StreamHoldsOneState
  <2> SUFFICES ASSUME StreamInv
               PROVE  StreamHoldsOneState
    OBVIOUS
  <2>1. steps.notUnsat = {steps.numDeleted}
    BY DEF StreamInv, UserInv
  <2> QED
    BY <2>1, FS_Singleton DEF StreamHoldsOneState
<1> QED
  BY <1>1, AlwaysStreamInv, PTL

\* Only a stream polled before the simulation starts panics, and in its first
\* call, with nothing yielded: later it never asks for what it advanced past,
\* and never for a state that was given up.
THEOREM StreamPanicsOnlyBeforeTheStart == StreamSpec => []PanicsOnlyBeforeTheStart
<1>1. StreamInv => PanicsOnlyBeforeTheStart
  BY DEF StreamInv, PanicInv, PanicsOnlyBeforeTheStart
<1> QED
  BY <1>1, AlwaysStreamInv, PTL

\* Playing a source keeps its whole contract: each event is yielded once and
\* in order, none later than the time asked, and the time announced for the
\* next event is not after it.
THEOREM StreamKeepsContract == StreamSpec => ImplementsContract
<1>1. StreamInit => Contract!ContractInit
  BY ContractStarts DEF StreamInit
<1>2. StreamInv /\ StreamInv' /\ [StreamNext]_streamVars
        => [Contract!ContractNext]_(Contract!contractVars)
  <2> SUFFICES ASSUME StreamInv, StreamInv', [StreamNext]_streamVars
               PROVE  [Contract!ContractNext]_(Contract!contractVars)
    OBVIOUS
  <2>1. [Contract!SharedContractNext]_(Contract!contractVars)
    BY StreamUsesSource, ContractStep DEF StreamInv, KeepsContract
  <2>2. EventsComeBeforeTheState'
    BY DEF StreamInv, AnsweredInv, EventsComeBeforeTheState
  <2> QED
    BY <2>1, <2>2, NothingEarly
<1> QED
  BY <1>1, <1>2, AlwaysStreamInv, PTL
     DEF StreamSpec, ImplementsContract, Contract!ContractSpec

\* An event is never yielded before its time.
THEOREM StreamNeverEarly == StreamSpec => []NeverEarly
<1>1. StreamInv => NeverEarly
  BY DEF StreamInv, AnsweredInv, NeverEarly
<1> QED
  BY <1>1, AlwaysStreamInv, PTL

\* The stream sleeps only while every event still to come is later than the
\* timer, or will be emitted by a future that holds its waker, or it is woken.
THEOREM StreamNeverOversleeps == StreamSpec => []SleepsNoLongerThanTheNextEvent
<1>1. StreamInv => SleepsNoLongerThanTheNextEvent
  <2> SUFFICES ASSUME StreamInv, stage = "asleep", NEW v \in Contract!Undelivered
               PROVE  \/ wait # Never /\ wait <= StepTime[v.step]
                      \/ EventsCaller \notin waiting /\ reply.kind = "pending"
                      \/ held[steps.last] = "all" /\ steps.last <= v.step
    BY DEF SleepsNoLongerThanTheNextEvent
  <2>1. /\ AnsweredInv /\ ReplyInv /\ LogInv /\ EmissionInv(steps)
        /\ StepsInv(steps)
    BY DEF StreamInv, ContractInv, Typed
  <2>2. CASE reply.kind = "pending"
    <3>1. EventsCaller \notin waiting \/ held[steps.last] = "all"
      BY <2>1, <2>2 DEF AnsweredInv
    <3>2. /\ steps.eventCount \in [AllSteps -> Nat] /\ steps.last \in AllSteps
      BY <2>1, StepsTyped DEF StepsType
    <3>3. v.step >= steps.last /\ v.step \in AllSteps
      BY <2>1, <3>2, StillToCome
    <3>4. steps.last <= v.step
      BY <3>2, <3>3, LastStepAssumption DEF AllSteps
    <3> QED
      BY <2>2, <3>1, <3>4
  <2>3. CASE reply.kind = "events"
    <3>1. Contract!EverythingOut(reply.time, reply.next)
      BY <2>1, <2>3 DEF ReplyInv
    <3>2. reply.next # Never
      BY <3>1 DEF Contract!EverythingOut, Contract!None, Never
    <3>3. wait = reply.next
      BY <2>1, <2>3, <3>2 DEF AnsweredInv
    <3>4. StepTime[v.step] >= reply.next
      BY <3>1, <3>2 DEF Contract!EverythingOut, Contract!None, Never
    <3> QED
      BY <3>2, <3>3, <3>4
  <2> QED
    BY <2>1, <2>2, <2>3 DEF AnsweredInv
<1> QED
  BY <1>1, AlwaysStreamInv, PTL
=============================================================================
