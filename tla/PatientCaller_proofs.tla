------------------------ MODULE PatientCaller_proofs ------------------------
(***************************************************************************)
(* A caller with a NoInputTransposerSource for itself, for all times it    *)
(* may want and however often it changes its mind: the answer it gets is   *)
(* the one to its last question, it is never put to sleep by a future that *)
(* will not wake it, it sees the whole contract of a Source, and its calls *)
(* fail in one way only: a search that does not end, once the chain has    *)
(* outgrown the budget of checkpoints.                                     *)
(***************************************************************************)
EXTENDS PatientCaller, SourceContract_proofs

\* A call asks for the time wanted, and an answer is one for it.  Nobody else
\* polls.
WishInv ==
  /\ wanted \in PollTimes \cup {Never}
  /\ \/ call = Idle
     \/ /\ call = PollCall(Caller, wanted) /\ wanted # Never
        /\ Caller \notin waiting /\ reply.kind = "none"
  /\ reply.kind = "state" => wanted # Never /\ reply.time = wanted
  /\ \A c \in Channels \ {Caller} : blocked[c] = NotBlocked
  /\ waiting \subseteq {Caller}

\* A channel waits for the repetition only of a step that has emitted everything.
RepeatInv ==
  \A c \in Channels : blocked[c].on = "repeat" => ~steps.canProduce[blocked[c].step]

\* A StackWaker with channels in it is held by a future that runs, and repeats
\* its step.
RegisteredInv ==
  \A k \in AllSteps : repeat[k].registered # {} =>
    /\ steps.status[k] = "saturating"
    /\ held[k] = "stack"
    /\ ~steps.canProduce[k]

\* What the caller waits for runs.
BlockedInv ==
  /\ blocked[Caller].on = "original" => steps.status[steps.last] = "saturating"
  /\ blocked[Caller].on = "repeat" => steps.status[blocked[Caller].step] = "saturating"

\* It waits for the events of a step that is not after the time it asked about.
DueInv == blocked[Caller].on = "original" => StepTime[steps.last] <= blocked[Caller].time

\* Nothing is deleted from the front of the chain.
FrontInv == steps.numDeleted = 0 /\ steps.deletedBefore = Never

\* Checkpoints are given up only when the budget is used up.
FewGivenUp(st) ==
  \/ \A k \in Window(st) : k # st.last => st.status[k] # "unsaturated"
  \/ NumCheckpoints <= Cardinality(st.notUnsat)

\* The caller can fail only by a search that does not end, in a long chain.
FaultInv == fault = "none" \/ (fault = "endless_loop" /\ steps.last > NumCheckpoints)

CallerInv ==
  /\ ContractInv /\ ReplyInv /\ WishInv /\ RepeatInv /\ RegisteredInv
  /\ BlockedInv /\ DueInv /\ EventsComeBeforeTheState
  /\ FrontInv /\ FewGivenUp(steps) /\ FaultInv

-----------------------------------------------------------------------------
(* Steps that emitted everything *)

\* A step that has emitted everything is not one that will emit again.
LEMMA DoneStaysDone ==
  ASSUME ContractInv, [Next]_vars, NEW k \in AllSteps, ~steps.canProduce[k]
  PROVE  ~steps'.canProduce[k]
<1>1. Typed /\ StepsInv(steps) /\ steps \in StepsType
  BY StepsTyped DEF ContractInv, Typed
<1>2. Planned.canProduce = steps.canProduce /\ StepsInv(Planned)
  BY PlannedEmission DEF ContractInv
<1>3. ASSUME NEW st \in StepsType, NEW j, st.canProduce = steps.canProduce
      PROVE  /\ ~StepEmitted(st, j).canProduce[k]
             /\ ~StepReady(st, j).canProduce[k]
  <2>1. /\ StepEmitted(st, j).canProduce = st.canProduce
        /\ StepReady(st, j).canProduce = [st.canProduce EXCEPT ![j] = FALSE]
        /\ st.canProduce \in [AllSteps -> BOOLEAN]
    BY DEF StepEmitted, StepReady, StepsType
  <2> QED
    BY <1>3, <2>1
<1>4. CASE /\ FreeTurn /\ Planned.status[Target] = "unsaturated"
           /\ CanSaturate(Planned, Target, PinnedTimes)
           /\ steps' = Saturated
  <2>1. steps'.canProduce = Planned.canProduce
    BY <1>1, <1>2, <1>4, TargetRetained, SaturateEffect DEF Saturated
  <2> QED
    BY <1>2, <2>1
<1>5. CASE /\ EventsTurn
           /\ \/ steps' = LastSaturating
              \/ steps' = StepEmitted(LastSaturating, Planned.last)
              \/ steps' = StepReady(LastSaturating, Planned.last)
  <2>1. LastSaturating \in StepsType /\ LastSaturating.canProduce = steps.canProduce
    BY <1>5, LastSaturatingEmission, StepsTyped
  <2> QED
    BY <1>3, <1>5, <2>1
<1>6. ASSUME NEW t \in AdvanceTimes, ~BeforeFirst(steps, t), steps' = DeleteBefore(steps, t)
      PROVE  ~steps'.canProduce[k]
  BY <1>1, <1>6, DeleteBeforeEmission, TimesAssumption DEF ContractInv
<1> QED
  BY <1>1, <1>2, <1>3, <1>4, <1>5, <1>6, ChainMoves

\* A channel is blocked on a repetition only once the step has emitted everything.
LEMMA RepeatStep ==
  ASSUME ContractInv, RepeatInv, [Next]_vars
  PROVE  RepeatInv'
<1> SUFFICES ASSUME NEW c \in Channels, blocked'[c].on = "repeat"
             PROVE  ~steps'.canProduce[blocked'[c].step]
  BY DEF RepeatInv
<1>1. CASE blocked'[c] = blocked[c]
  <2>1. blocked[c].step \in AllSteps /\ ~steps.canProduce[blocked[c].step]
    BY <1>1, BlockedFields DEF RepeatInv, ContractInv, Typed
  <2> QED
    BY <1>1, <2>1, DoneStaysDone
<1>2. ASSUME NEW st, NEW k, BlockOn(st, k), blocked'[c] # blocked[c]
      PROVE  ~steps'.canProduce[blocked'[c].step]
  BY <1>2 DEF BlockOn, OnOriginal, OnRepeat, ContractInv, Typed
<1>3. ASSUME NEW d, NEW b, blocked' = [blocked EXCEPT ![d] = b], b.on # "repeat"
      PROVE  blocked'[c] = blocked[c]
  BY <1>3 DEF ContractInv, Typed
<1>4. CASE PollFindsSaturating \/ PollFindsPreviousSaturating \/ PollSaturates
  BY <1>1, <1>2, <1>4
     DEF PollFindsSaturating, PollFindsPreviousSaturating, PollSaturates
<1>5. CASE \/ PollAbandons \/ PollInterpolationReady \/ PollOriginalReady \/ PollRepeatReady
           \/ \E d \in Channels : ReleaseChannel(d)
  BY <1>1, <1>3, <1>5 DEF PollAbandons, PollInterpolationReady, PollOriginalReady,
     PollRepeatReady, ReleaseChannel, NotBlocked
<1>6. CASE PollFindsSaturated
  BY <1>1, <1>3, <1>6 DEF PollFindsSaturated, OnInterpolation
<1>7. CASE \/ PollIndexIsStale \/ PollPinUnderflows \/ PollLoopsForever \/ PollBeforeFirstStep
           \/ PollInterpolationPends \/ PollOriginalEmits \/ PollOriginalPends
           \/ PollOriginalGone \/ PollRepeatRegisters \/ PollRepeatPends \/ PollRepeatGone
           \/ EventsTurns
           \/ \E d \in Channels, t \in PollTimes : CallPoll(d, t)
           \/ \E t \in EventTimes : CallPollEvents(t)
           \/ \E d \in Channels : WakeInterpolation(d)
           \/ \E t \in AdvanceTimes : Advance(t) \/ AdvanceBeforeFirstStep(t)
           \/ \E k \in AllSteps : WakeStep(k)
           \/ UNCHANGED vars
  BY <1>1, <1>7 DEF PollIndexIsStale, PollPinUnderflows, PollLoopsForever,
     PollBeforeFirstStep, PollInterpolationPends, PollOriginalEmits, PollOriginalPends,
     PollOriginalGone, PollRepeatRegisters, PollRepeatPends, PollRepeatGone, Panic,
     EventsTurns, EventsReady, EventsEmits, EventsPends, EventsStepReady, EventsPanics,
     CallPoll, CallPollEvents, WakeInterpolation, Advance, AdvanceBeforeFirstStep, WakeStep,
     vars
<1> QED
  BY <1>4, <1>5, <1>6, <1>7 DEF Next, PollTurns

-----------------------------------------------------------------------------
(* Registered channels *)

\* Where futures that do not run lose their wakers, those that run keep them.
LEMMA DroppedWakersRegistered ==
  ASSUME ContractInv, RegisteredInv, [Next]_vars,
         \A k \in AllSteps :
           repeat'[k].registered # {} =>
             /\ steps'.status[k] = "saturating"
             /\ repeat[k].registered # {} /\ held'[k] = held[k]
  PROVE  RegisteredInv'
  BY DoneStaysDone DEF RegisteredInv

\* The chain a search works on runs what runs in the chain it started from.
LEMMA SearchKeepsRunning ==
  ASSUME ContractInv, NEW k \in AllSteps, steps.status[k] = "saturating"
  PROVE  Planned.status[k] = "saturating"
<1>1. StepsInv(steps) /\ steps \in StepsType
  BY StepsTyped DEF ContractInv, Typed
<1>2. CASE steps.status[steps.last] = "saturated" /\ steps.last < LastStep
  <2>1. Planned.status = [steps.status EXCEPT ![steps.last + 1] = "unsaturated"]
    BY <1>1, <1>2 DEF Planned, TryNextScheduled, StepsType
  <2>2. steps.last \in AllSteps
    BY <1>1, StepsTyped
  <2>3. steps.last + 1 \in AllSteps /\ steps.last + 1 \notin Window(steps)
    BY <1>2, <2>2, LastStepAssumption DEF AllSteps, Window
  <2>4. steps.status[steps.last + 1] = "absent"
    BY <1>1, <2>3 DEF StepsInv
  <2>5. k # steps.last + 1 /\ steps.status \in [AllSteps -> Statuses]
    BY <1>1, <2>4 DEF StepsType
  <2> QED
    BY <2>1, <2>5
<1>3. CASE ~(steps.status[steps.last] = "saturated" /\ steps.last < LastStep)
  BY <1>3 DEF Planned, TryNextScheduled
<1> QED
  BY <1>2, <1>3

\* The turns of a poll.
LEMMA PollTurnsRegister ==
  ASSUME ContractInv, RepeatInv, RegisteredInv, PollTurns
  PROVE  RegisteredInv'
<1>1. Turn("poll") /\ [Next]_vars /\ Typed /\ StepsInv(steps) /\ EmissionInv(steps)
  BY DEF PollTurns, FreeTurn, PollTurn, OriginalTurn, RepeatTurn, PollAbandons,
     PollFindsSaturated, PollFindsSaturating, PollFindsPreviousSaturating, PollSaturates,
     PollIndexIsStale, PollPinUnderflows, PollLoopsForever, PollBeforeFirstStep,
     PollInterpolationPends, PollInterpolationReady, PollOriginalEmits, PollOriginalPends,
     PollOriginalReady, PollOriginalGone, PollRepeatRegisters, PollRepeatPends,
     PollRepeatReady, PollRepeatGone, Next, ContractInv, Typed
<1>2. /\ call.channel \in Channels /\ (Mine.on = "repeat" => Mine.step \in AllSteps)
      /\ steps.last \in AllSteps
  BY <1>1, BlockedTurn
<1>3. /\ steps \in StepsType
      /\ repeat \in [AllSteps -> [count : Int, registered : SUBSET Channels]]
      /\ held \in [AllSteps -> {"none", "all", "stack"}]
      /\ steps.status \in [AllSteps -> Statuses]
  BY <1>1, StepsTyped DEF Typed
<1>4. ASSUME NEW st, NEW j, BlockOn(st, j)
      PROVE  RegisteredInv'
  <2>1. ASSUME NEW k \in AllSteps, repeat'[k].registered # {}
        PROVE  /\ steps'.status[k] = "saturating"
               /\ repeat[k].registered # {} /\ held'[k] = held[k]
    <3>1. CASE st.canProduce[j]
      BY <1>3, <1>4, <2>1, <3>1 DEF BlockOn, DropWakers
    <3>2. CASE ~st.canProduce[j]
      BY <1>3, <1>4, <2>1, <3>2 DEF BlockOn
    <3> QED
      BY <3>1, <3>2
  <2> QED
    BY <1>1, <2>1, DroppedWakersRegistered
<1>5. CASE PollFindsSaturating \/ PollFindsPreviousSaturating \/ PollSaturates
  BY <1>4, <1>5 DEF PollFindsSaturating, PollFindsPreviousSaturating, PollSaturates
<1>6. CASE PollFindsSaturated
  BY <1>1, <1>6, SearchKeepsRunning, DroppedWakersRegistered
     DEF PollFindsSaturated, RegisteredInv
<1>7. ASSUME NEW k \in AllSteps, repeat' = WithoutEntry(call.channel)
      PROVE  repeat'[k].registered \in {{}, repeat[k].registered}
  <2>1. \A e \in [count : Int, registered : SUBSET Channels] :
          LeftEntry(e).registered \in {{}, e.registered}
    BY DEF LeftEntry, NoEntry
  <2> QED
    BY <1>2, <1>3, <1>7, <2>1 DEF WithoutEntry, Mine
<1>8. CASE PollAbandons
  <2>1. /\ steps' = steps /\ held' = held /\ repeat' = WithoutEntry(call.channel)
    BY <1>8 DEF PollAbandons
  <2> QED
    BY <1>7, <2>1 DEF RegisteredInv
<1>9. CASE PollOriginalPends
  <2>1. steps.canProduce[steps.last]
    BY <1>1, <1>9 DEF PollOriginalPends, OriginalTurn, EmissionInv
  <2>2. steps' = steps /\ repeat' = repeat /\ held' = [held EXCEPT ![steps.last] = "all"]
    BY <1>9 DEF PollOriginalPends
  <2> QED
    BY <1>2, <1>3, <2>1, <2>2 DEF RegisteredInv
<1>10. CASE PollOriginalReady
  <2>1. DropWakers(steps')
    BY <1>10 DEF PollOriginalReady
  <2>2. \A k \in AllSteps :
           repeat'[k].registered # {} =>
             /\ steps'.status[k] = "saturating"
             /\ repeat[k].registered # {} /\ held'[k] = held[k]
    BY <1>3, <2>1 DEF DropWakers
  <2> QED
    BY <1>1, <2>2, DroppedWakersRegistered
<1>11. CASE PollRepeatRegisters
  <2>1. /\ Mine.step \in AllSteps /\ repeat[Mine.step].registered # {}
        /\ steps' = steps /\ held' = held
        /\ repeat' = [repeat EXCEPT ![Mine.step].registered = @ \cup {call.channel}]
    BY <1>2, <1>11 DEF PollRepeatRegisters, PollTurn
  <2>2. \A k \in AllSteps : repeat'[k].registered # {} => repeat[k].registered # {}
    BY <1>3, <2>1
  <2> QED
    BY <2>1, <2>2 DEF RegisteredInv
<1>12. CASE PollRepeatPends
  <2>1. /\ Mine.on = "repeat" /\ Mine.step \in AllSteps
        /\ steps.status[Mine.step] = "saturating"
        /\ steps' = steps /\ held' = [held EXCEPT ![Mine.step] = "stack"]
        /\ repeat' = [repeat EXCEPT ![Mine.step].registered = {call.channel}]
    BY <1>2, <1>12 DEF PollRepeatPends, RepeatTurn, PollTurn
  <2>2. ~steps.canProduce[Mine.step]
    BY <1>2, <2>1 DEF RepeatInv, Mine
  <2>3. \A k \in AllSteps \ {Mine.step} : repeat'[k] = repeat[k] /\ held'[k] = held[k]
    BY <1>3, <2>1
  <2>4. held'[Mine.step] = "stack"
    BY <1>3, <2>1
  <2> QED
    BY <2>1, <2>2, <2>3, <2>4 DEF RegisteredInv
<1>13. CASE PollRepeatReady
  <2>1. /\ Mine.on = "repeat" /\ Mine.step \in AllSteps
        /\ repeat[Mine.step].registered = {}
        /\ steps' = StepReady(steps, Mine.step)
        /\ held' = [held EXCEPT ![Mine.step] = "none"]
        /\ repeat' = WithoutEntry(call.channel)
    BY <1>2, <1>13 DEF PollRepeatReady, RepeatTurn, PollTurn
  <2>2. \A k \in AllSteps \ {Mine.step} :
          steps'.status[k] = steps.status[k] /\ held'[k] = held[k]
    BY <1>3, <2>1 DEF StepReady, StepsType
  <2>3. repeat'[Mine.step].registered = {}
    BY <1>7, <2>1
  <2>4. \A k \in AllSteps :
           repeat'[k].registered # {} =>
             /\ steps'.status[k] = "saturating"
             /\ repeat[k].registered # {} /\ held'[k] = held[k]
    BY <1>7, <2>1, <2>2, <2>3 DEF RegisteredInv
  <2> QED
    BY <1>1, <2>4, DroppedWakersRegistered
<1>14. CASE \/ PollIndexIsStale \/ PollPinUnderflows \/ PollLoopsForever \/ PollBeforeFirstStep
            \/ PollInterpolationPends \/ PollInterpolationReady
            \/ PollOriginalGone \/ PollRepeatGone
  <2>1. UNCHANGED <<steps, held, repeat>>
    BY <1>14 DEF PollIndexIsStale, PollPinUnderflows, PollLoopsForever,
       PollBeforeFirstStep, PollInterpolationPends, PollInterpolationReady,
       PollOriginalGone, PollRepeatGone, Panic
  <2> QED
    BY <2>1 DEF RegisteredInv
<1>15. CASE PollOriginalEmits
  <2>1. /\ held' = held /\ repeat' = repeat
        /\ steps' = StepEmitted(steps, steps.last)
    BY <1>15 DEF PollOriginalEmits, Deliver
  <2>2. steps'.status = steps.status /\ steps'.canProduce = steps.canProduce
    BY <1>3, <2>1 DEF StepEmitted, StepsType
  <2> QED
    BY <2>1, <2>2 DEF RegisteredInv
<1> QED
  BY <1>5, <1>6, <1>8, <1>9, <1>10, <1>11, <1>12, <1>13, <1>14, <1>15 DEF PollTurns

\* Whoever is registered in a StackWaker is reached through a running future.
\* This holds of any number of callers.
LEMMA RegisteredStep ==
  ASSUME ContractInv, RepeatInv, RegisteredInv, [Next]_vars
  PROVE  RegisteredInv'
<1>1. /\ Typed /\ EmissionInv(steps)
      /\ repeat \in [AllSteps -> [count : Int, registered : SUBSET Channels]]
      /\ held \in [AllSteps -> {"none", "all", "stack"}]
  BY DEF ContractInv, Typed
<1>2. ASSUME DropWakers(steps')
      PROVE  RegisteredInv'
  <2>1. \A k \in AllSteps :
           repeat'[k].registered # {} =>
             /\ steps'.status[k] = "saturating"
             /\ repeat[k].registered # {} /\ held'[k] = held[k]
    BY <1>1, <1>2 DEF DropWakers
  <2> QED
    BY <2>1, DroppedWakersRegistered
<1>3. CASE EventsEmits \/ EventsStepReady \/ \E t \in AdvanceTimes : Advance(t)
  BY <1>2, <1>3 DEF EventsEmits, EventsStepReady, Advance
<1>4. CASE EventsPends
  <2>1. /\ Planned.last \in AllSteps /\ Planned.canProduce[Planned.last]
        /\ Planned.canProduce = steps.canProduce
    BY <1>1, <1>4, PlannedEmission DEF EventsPends, EventsTurn, EventsOutstanding
  <2>2. repeat[Planned.last].registered = {}
    BY <2>1 DEF RegisteredInv
  <2>3. \A k \in AllSteps :
           repeat'[k].registered # {} =>
             /\ steps'.status[k] = "saturating"
             /\ repeat[k].registered # {} /\ held'[k] = held[k]
    BY <1>1, <1>4, <2>1, <2>2 DEF EventsPends
  <2> QED
    BY <2>3, DroppedWakersRegistered
<1>5. CASE EventsReady
  BY <1>5, SearchKeepsRunning, DroppedWakersRegistered DEF EventsReady, RegisteredInv
<1>6. ASSUME NEW c \in Channels, ReleaseChannel(c)
      PROVE  RegisteredInv'
  <2>1. \A e \in [count : Int, registered : SUBSET Channels] :
          LeftEntry(e).registered \in {{}, e.registered}
    BY DEF LeftEntry, NoEntry
  <2>2. blocked[c].on = "repeat" => blocked[c].step \in AllSteps
    BY <1>1, BlockedFields DEF Typed
  <2>3. \A k \in AllSteps : repeat'[k].registered \in {{}, repeat[k].registered}
    BY <1>1, <1>6, <2>1, <2>2 DEF ReleaseChannel, WithoutEntry
  <2> QED
    BY <1>6, <2>3 DEF ReleaseChannel, RegisteredInv
<1>7. ASSUME NEW k \in AllSteps, WakeStep(k)
      PROVE  RegisteredInv'
  <2>1. /\ steps' = steps /\ held' = [held EXCEPT ![k] = "none"]
        /\ repeat' = [repeat EXCEPT ![k].registered = IF held[k] = "all" THEN @ ELSE {}]
    BY <1>7 DEF WakeStep
  <2>2. repeat'[k].registered = {}
    BY <1>1, <2>1 DEF RegisteredInv
  <2>3. \A j \in AllSteps \ {k} : repeat'[j] = repeat[j] /\ held'[j] = held[j]
    BY <1>1, <2>1
  <2> QED
    BY <2>1, <2>2, <2>3 DEF RegisteredInv
<1>8. CASE \/ EventsPanics
           \/ \E c \in Channels, t \in PollTimes : CallPoll(c, t)
           \/ \E t \in EventTimes : CallPollEvents(t)
           \/ \E c \in Channels : WakeInterpolation(c)
           \/ \E t \in AdvanceTimes : AdvanceBeforeFirstStep(t)
           \/ UNCHANGED vars
  <2>1. UNCHANGED <<steps, held, repeat>>
    BY <1>8 DEF EventsPanics, CallPoll, CallPollEvents, WakeInterpolation,
       AdvanceBeforeFirstStep, Panic, vars
  <2> QED
    BY <2>1 DEF RegisteredInv
<1> QED
  BY <1>3, <1>4, <1>5, <1>6, <1>7, <1>8, PollTurnsRegister DEF Next, EventsTurns

-----------------------------------------------------------------------------
(* The steps of the caller *)

\* A call in progress is the caller's, for the time it wants.
LEMMA PollIsForTheWish ==
  ASSUME ContractInv, WishInv, Turn("poll")
  PROVE  /\ call = PollCall(Caller, wanted) /\ call.channel = Caller /\ call.time = wanted
         /\ wanted \in PollTimes /\ wanted # Never /\ wanted \in Nat
         /\ waiting = {} /\ reply.kind = "none"
         /\ Mine = blocked[Caller]
<1>1. call # Idle
  BY DEF Turn, Idle
<1>2. /\ call = PollCall(Caller, wanted) /\ wanted # Never
      /\ Caller \notin waiting /\ reply.kind = "none"
  BY <1>1 DEF WishInv
<1>3. call.channel = Caller /\ call.time = wanted
  BY <1>2 DEF PollCall
<1> QED
  BY <1>2, <1>3, TimesAssumption DEF WishInv, Mine

\* A step is one of the source, or the caller moves on by itself.
LEMMA CallerMoves ==
  ASSUME ContractInv, WishInv, [CallerNext]_callerVars
  PROVE  \/ [Next]_vars
         \/ /\ UNCHANGED <<steps, blocked, repeat, held, call, log, fault>>
            /\ reply' \in {reply, Contract!NoReply}
            /\ waiting' \subseteq waiting
<1>1. CASE SourceRuns \/ GivesUp
  BY <1>1, CallerAssumption DEF SourceRuns, GivesUp, Next
<1>2. CASE Polls \/ PollsUnwoken
  BY <1>2, CallerAssumption DEF Polls, PollsUnwoken, Next, WishInv
<1>3. CASE FuturesWake
  BY <1>3, CallerAssumption DEF FuturesWake, Next
<1>4. CASE Receives \/ \E t \in PollTimes : Wants(t) \/ ChangesMind(t)
  BY <1>4 DEF Receives, Wants, ChangesMind
<1>5. CASE UNCHANGED callerVars
  BY <1>5 DEF callerVars
<1> QED
  BY <1>1, <1>2, <1>3, <1>4, <1>5 DEF CallerNext

\* The chain moves only while the source runs.
LEMMA OthersKeepTheChain ==
  ASSUME [CallerNext]_callerVars, ~SourceRuns
  PROVE  UNCHANGED <<steps, log, fault>>
BY DEF CallerNext, Wants, ChangesMind, Polls, PollsUnwoken, GivesUp, Receives,
   FuturesWake, CallPoll, ReleaseChannel, WakeStep, WakeInterpolation, callerVars, vars

\* A step of the caller is one of the contract, shared or not, or none.
LEMMA CallerStepsAreShared ==
  ASSUME ContractInv, WishInv, [CallerNext]_callerVars
  PROVE  [Contract!SharedContractNext]_(Contract!contractVars)
<1>1. CASE [Next]_vars
  BY <1>1, ContractStep DEF KeepsContract
<1>2. CASE /\ UNCHANGED <<steps, blocked, repeat, held, call, log, fault>>
           /\ reply' \in {reply, Contract!NoReply}
           /\ waiting' \subseteq waiting
  BY <1>2, SameChain DEF KeepsContract
<1> QED
  BY <1>1, <1>2, CallerMoves

LEMMA CallerKeepsContract ==
  ASSUME ContractInv, ReplyInv, WishInv, RepeatInv, RegisteredInv,
         [CallerNext]_callerVars
  PROVE  ContractInv' /\ ReplyInv' /\ RepeatInv' /\ RegisteredInv'
<1>1. CASE [Next]_vars
  <2>1. KeepsContract /\ Typed'
    BY <1>1, ContractStep, TypedStep DEF ContractInv
  <2> QED
    BY <1>1, <2>1, AnswersStayTrue, RepeatStep, RegisteredStep DEF KeepsContract, ContractInv
<1>2. CASE /\ UNCHANGED <<steps, blocked, repeat, held, call, log, fault>>
           /\ reply' \in {reply, Contract!NoReply}
           /\ waiting' \subseteq waiting
  <2>1. KeepsContract
    BY <1>2, SameChain
  <2>2. Typed'
    BY <1>2 DEF ContractInv, Typed
  <2>3. RepeatInv' /\ RegisteredInv'
    BY <1>2 DEF RepeatInv, RegisteredInv
  <2> QED
    BY <2>1, <2>2, <2>3, AnswersStayTrue DEF KeepsContract, ContractInv
<1> QED
  BY <1>1, <1>2, CallerMoves

-----------------------------------------------------------------------------
(* The front of the chain, and the budget *)

\* While the budget is not used up every step but the last keeps its state.
LEMMA FewGivenUpPlanned ==
  ASSUME NEW st, StepsInv(st), FewGivenUp(st)
  PROVE  FewGivenUp(TryNextScheduled(st))
<1>1. /\ st \in StepsType /\ st.last \in AllSteps /\ st.numDeleted \in AllSteps
      /\ st.status \in [AllSteps -> Statuses]
      /\ AllSteps \subseteq Nat
  BY StepsTyped, WindowSteps DEF StepsType
<1>2. CASE st.status[st.last] = "saturated" /\ st.last < LastStep
  <2> DEFINE s == TryNextScheduled(st)
  <2>1. /\ s.last = st.last + 1 /\ s.numDeleted = st.numDeleted
        /\ s.notUnsat = st.notUnsat
        /\ s.status = [st.status EXCEPT ![st.last + 1] = "unsaturated"]
    BY <1>1, <1>2 DEF TryNextScheduled, StepsType
  <2>2. ASSUME \A k \in Window(st) : k # st.last => st.status[k] # "unsaturated",
               NEW k \in Window(s), k # s.last
        PROVE  s.status[k] # "unsaturated"
    <3>1. st.last \in Nat /\ st.numDeleted \in Nat
      BY <1>1
    <3>2. k \in Window(st)
      BY <2>1, <2>2, <3>1 DEF Window
    <3>3. k \in AllSteps /\ st.status[k] # "unsaturated"
      BY <1>1, <1>2, <2>2, <3>2, WindowSteps
    <3> QED
      BY <1>1, <2>1, <2>2, <3>3
  <2> QED
    BY <2>1, <2>2 DEF FewGivenUp
<1>3. CASE ~(st.status[st.last] = "saturated" /\ st.last < LastStep)
  BY <1>3 DEF TryNextScheduled
<1> QED
  BY <1>2, <1>3

LEMMA FewGivenUpSaturated ==
  ASSUME NEW st, StepsInv(st), FewGivenUp(st), NEW pins,
         NEW new \in Window(st), st.status[new] = "unsaturated",
         CanSaturate(st, new, pins), st.deletedBefore = Never
  PROVE  FewGivenUp(Saturate(st, new, pins))
<1> DEFINE s    == Saturate(st, new, pins)
           gone == SequenceNumberToDelete(st, pins, new)
<1>1. /\ StepsInv(s) /\ s.last = st.last /\ s.numDeleted = st.numDeleted
      /\ s.notUnsat = (st.notUnsat \ gone) \cup {new}
  BY SaturateInv, SaturateEffect, FirstIsKept
<1>2. CASE NumCheckpoints <= Cardinality(st.notUnsat)
  <2>1. /\ Cardinality(st.notUnsat) \in Nat /\ Cardinality(s.notUnsat) \in Nat
        /\ Cardinality(st.notUnsat) <= Cardinality(s.notUnsat)
    BY SaturateKeepsCount
  <2> HIDE DEF s
  <2>2. NumCheckpoints <= Cardinality(s.notUnsat)
    BY <1>2, <2>1, NumCheckpointsAssumption
  <2> QED
    BY <2>2 DEF FewGivenUp, s
<1>3. CASE ~(NumCheckpoints <= Cardinality(st.notUnsat))
  <2>1. gone = {}
    <3>1. ~FirstIsObsolete(st, new)
      <4>1. st.numDeleted \in AllSteps
        BY StepsTyped DEF StepsType
      <4>2. StepTime[st.numDeleted] \in Nat
        BY <4>1, StepTimeAssumption
      <4> QED
        BY <4>2 DEF FirstIsObsolete, Never
    <3> QED
      BY <1>3, <3>1 DEF SequenceNumberToDelete, OverBudget
  <2>2. ASSUME NEW k \in Window(s), k # s.last
        PROVE  s.status[k] # "unsaturated"
    <3> HIDE DEF s, gone
    <3>1. k \in Window(st) /\ k # st.last
      BY <1>1, <2>2 DEF Window
    <3>2. k \in AllSteps /\ st.status[k] \in {"saturating", "saturated"}
      <4>1. k \in AllSteps
        BY <3>1, StepsTyped, WindowSteps
      <4> QED
        BY <1>3, <3>1, <4>1, StepsTyped DEF FewGivenUp, StepsInv, Statuses
    <3>3. k \in s.notUnsat
      BY <1>1, <2>1, <3>1, <3>2 DEF StepsInv
    <3> QED
      BY <1>1, <3>3 DEF StepsInv
  <2> HIDE DEF s
  <2> QED
    BY <2>2 DEF FewGivenUp, s
<1> QED
  BY <1>2, <1>3

\* Without advance the chain keeps its front, and the search keeps to the budget.
LEMMA PlannedFront ==
  ASSUME Typed, FrontInv, FewGivenUp(steps)
  PROVE  /\ StepsInv(Planned) /\ FewGivenUp(Planned)
         /\ Planned.numDeleted = 0 /\ Planned.deletedBefore = Never
BY PlannedInv, FewGivenUpPlanned, TryNextScheduledPlans DEF Planned, Typed, FrontInv

LEMMA FrontStep ==
  ASSUME Typed, FrontInv, FewGivenUp(steps), PollTurns \/ steps' = steps
  PROVE  FrontInv' /\ FewGivenUp(steps')
<1>1. CASE steps' = steps
  BY <1>1 DEF FrontInv
<1>2. CASE steps' = Planned
  BY <1>2, PlannedFront DEF FrontInv
<1>3. CASE /\ FreeTurn /\ Planned.status[Target] = "unsaturated"
           /\ CanSaturate(Planned, Target, PinnedTimes)
           /\ steps' = Saturated
  BY <1>3, PlannedFront, TargetRetained, FewGivenUpSaturated, FirstIsKept, SaturateEffect
     DEF Saturated, FrontInv
<1>4. ASSUME NEW k \in AllSteps, steps' = StepEmitted(steps, k)
      PROVE  FrontInv' /\ FewGivenUp(steps')
  <2>1. /\ steps'.numDeleted = steps.numDeleted /\ steps'.deletedBefore = steps.deletedBefore
        /\ steps'.last = steps.last /\ steps'.status = steps.status
        /\ steps'.notUnsat = steps.notUnsat
    BY <1>4, StepsTyped DEF StepEmitted, StepsType, Typed
  <2> QED
    BY <2>1 DEF FrontInv, FewGivenUp, Window
<1>5. ASSUME NEW k \in AllSteps, steps' = StepReady(steps, k)
      PROVE  FrontInv' /\ FewGivenUp(steps')
  <2>1. /\ steps'.numDeleted = steps.numDeleted /\ steps'.deletedBefore = steps.deletedBefore
        /\ steps'.last = steps.last /\ steps'.notUnsat = steps.notUnsat
        /\ steps'.status = [steps.status EXCEPT ![k] = "saturated"]
    BY <1>5, StepsTyped DEF StepReady, StepsType, Typed
  <2>2. steps.status \in [AllSteps -> Statuses] /\ Window(steps) \subseteq AllSteps
    BY StepsTyped, WindowSteps DEF Typed
  <2>3. Window(steps') = Window(steps)
    BY <2>1 DEF Window
  <2> QED
    BY <2>1, <2>2, <2>3 DEF FrontInv, FewGivenUp
<1> QED
  BY <1>1, <1>2, <1>3, <1>4, <1>5, PollMoves

-----------------------------------------------------------------------------
(* How a call can fail *)

\* A planned step is not the first one retained.
LEMMA TargetHasPredecessor ==
  ASSUME Typed, FrontInv, FewGivenUp(steps), FreeTurn,
         Planned.status[Target] = "unsaturated"
  PROVE  /\ Target \in AllSteps /\ Target - 1 \in AllSteps
         /\ Target - 1 \in Window(Planned) /\ Target - 1 # Planned.last
<1>1. /\ StepsInv(Planned) /\ Planned.numDeleted = 0 /\ Target \in Window(Planned)
      /\ Planned.last \in AllSteps
  BY PlannedFront, TargetRetained, StepsTyped
<1>2. Planned.numDeleted \in Planned.notUnsat
  BY <1>1 DEF StepsInv
<1>3. Planned.status[0] # "unsaturated"
  BY <1>1, <1>2 DEF StepsInv
<1>4. Target # 0
  BY <1>3
<1>5. Target \in 0..Planned.last /\ Planned.last \in 0..LastStep
  BY <1>1 DEF Window, AllSteps
<1> QED
  BY <1>1, <1>4, <1>5, LastStepAssumption DEF Window, AllSteps

\* A search that does not end has given up two neighbours, in a chain with
\* more steps than the budget.
LEMMA EndlessOnlyInLongChains ==
  ASSUME Typed, FrontInv, FewGivenUp(steps), PollLoopsForever
  PROVE  steps.last > NumCheckpoints
<1> DEFINE W == 0..steps.last
<1>1. /\ FreeTurn /\ Planned.status[Target] = "unsaturated"
      /\ Planned.status[Target - 1] = "unsaturated"
  BY DEF PollLoopsForever
<1>2. /\ Target \in AllSteps /\ Target - 1 \in AllSteps
      /\ Target - 1 \in Window(Planned) /\ Target - 1 # Planned.last
  BY <1>1, TargetHasPredecessor
<1>3. NumCheckpoints <= Cardinality(Planned.notUnsat)
  BY <1>1, <1>2, PlannedFront DEF FewGivenUp
<1>4. /\ StepsInv(steps) /\ steps.last \in Nat /\ steps.numDeleted = 0
      /\ Target \in Int /\ Planned.last \in Int
  <2>1. StepsInv(steps) /\ steps.last \in AllSteps
    BY StepsTyped DEF Typed, StepsType
  <2>2. Planned.last \in AllSteps
    BY PlannedFront, StepsTyped DEF StepsType
  <2> QED
    BY <1>2, <2>1, <2>2, LastStepAssumption DEF FrontInv, AllSteps
<1>5. Target \in W /\ Target - 1 \in W
  <2>1. Target \in Window(Planned) /\ 0 <= Target - 1
    <3>1. Target \in Window(Planned)
      BY <1>1, <1>4, TargetRetained
    <3>2. 0 <= Target - 1
      BY <1>2, LastStepAssumption DEF AllSteps
    <3> QED
      BY <3>1, <3>2
  <2>2. CASE steps.status[steps.last] = "saturated" /\ steps.last < LastStep
    <3>1. /\ Planned.last = steps.last + 1
          /\ Planned.status = [steps.status EXCEPT ![steps.last + 1] = "unsaturated"]
      BY <2>2 DEF Planned, TryNextScheduled
    <3>2. Planned.status[steps.last] = "saturated"
      BY <1>4, <2>2, <3>1, StepsTyped DEF Typed, StepsType
    <3>3. Target - 1 # steps.last
      BY <1>1, <3>2
    <3> QED
      BY <1>4, <2>1, <3>1, <3>3 DEF Window
  <2>3. CASE ~(steps.status[steps.last] = "saturated" /\ steps.last < LastStep)
    <3>1. Planned.last = steps.last
      BY <2>3 DEF Planned, TryNextScheduled
    <3> QED
      BY <1>4, <2>1, <3>1 DEF Window
  <2> QED
    BY <2>2, <2>3
<1>6. Planned.notUnsat \in SUBSET ((W \ {Target}) \ {Target - 1})
  <2>1. Planned.notUnsat = steps.notUnsat /\ steps.notUnsat \subseteq W
    BY <1>4 DEF Planned, TryNextScheduled, StepsInv, Window
  <2>2. StepsInv(Planned)
    BY PlannedFront
  <2>3. Target \notin Planned.notUnsat /\ Target - 1 \notin Planned.notUnsat
    BY <1>1, <2>2 DEF StepsInv
  <2> QED
    BY <2>1, <2>3
<1>7. IsFiniteSet(W) /\ Cardinality(W) = steps.last + 1
  <2>1. 0 \in Int /\ steps.last \in Int
    BY <1>4
  <2>2. IsFiniteSet(0..steps.last)
        /\ Cardinality(0..steps.last) = IF 0 > steps.last THEN 0 ELSE steps.last - 0 + 1
    BY <2>1, FS_Interval
  <2> QED
    BY <1>4, <2>2
<1> HIDE DEF W
<1>8. /\ IsFiniteSet(W \ {Target})
      /\ Cardinality(W \ {Target}) = steps.last
  <2>1. /\ IsFiniteSet(W \ {Target})
        /\ Cardinality(W \ {Target}) = Cardinality(W) - 1
    BY <1>5, <1>7, FS_RemoveElement
  <2> QED
    BY <1>4, <1>7, <2>1
<1>9. Target - 1 # Target
  BY <1>4
<1>10. /\ IsFiniteSet((W \ {Target}) \ {Target - 1})
       /\ Cardinality((W \ {Target}) \ {Target - 1}) = steps.last - 1
  BY <1>5, <1>8, <1>9, FS_RemoveElement
<1>11. /\ IsFiniteSet(Planned.notUnsat)
       /\ Cardinality(Planned.notUnsat) <= steps.last - 1
  BY <1>6, <1>10, FS_Subset
<1>12. Cardinality(Planned.notUnsat) \in Nat
  BY <1>11, FS_CardinalityType
<1> QED
  BY <1>3, <1>4, <1>11, <1>12, NumCheckpointsAssumption

\* The index of the step to wait for is still its index after the saturation.
LEMMA TargetIndexKept ==
  ASSUME Typed, FrontInv, FewGivenUp(steps), FreeTurn,
         Planned.status[Target] = "unsaturated",
         CanSaturate(Planned, Target, PinnedTimes)
  PROVE  /\ StaleTarget = Target /\ StaleTarget \in Window(Saturated)
         /\ Saturated.status[Target] = "saturating"
<1>1. /\ StepsInv(Planned) /\ Planned.numDeleted = 0 /\ Planned.deletedBefore = Never
      /\ Target \in Window(Planned) /\ Target \in AllSteps
  BY PlannedFront, TargetRetained, TargetHasPredecessor
<1>2. /\ Saturated.numDeleted = 0 /\ Saturated.last = Planned.last
      /\ Saturated.status[Target] = "saturating"
  BY <1>1, FirstIsKept, SaturateEffect, SaturateInv DEF Saturated
<1>3. Target \in Nat
  BY <1>1, LastStepAssumption DEF AllSteps
<1> QED
  BY <1>1, <1>2, <1>3 DEF StaleTarget, Window

\* Every turn of a poll is one of a poll.
LEMMA PollTurnsAreTurns ==
  ASSUME PollTurns
  PROVE  Turn("poll")
  BY DEF PollTurns, FreeTurn, PollTurn, OriginalTurn, RepeatTurn, PollAbandons,
     PollFindsSaturated, PollFindsSaturating, PollFindsPreviousSaturating, PollSaturates,
     PollIndexIsStale, PollPinUnderflows, PollLoopsForever, PollBeforeFirstStep,
     PollInterpolationPends, PollInterpolationReady, PollOriginalEmits,
     PollOriginalPends, PollOriginalReady, PollOriginalGone, PollRepeatRegisters,
     PollRepeatPends, PollRepeatReady, PollRepeatGone

\* A caller that has the source for itself fails in a search that does not
\* end, or not at all.
LEMMA FaultStep ==
  ASSUME CallerInv, [CallerNext]_callerVars
  PROVE  FaultInv'
<1> USE DEF CallerInv
<1>1. CASE ~SourceRuns
  BY <1>1, OthersKeepTheChain DEF FaultInv
<1>2. ASSUME FreeTurn \/ PollTurn("nothing")
      PROVE  call.time \in PollTimes /\ PinnedTimes = {}
  <2>1. /\ call.time \in PollTimes /\ blocked[Caller].on = "nothing"
    BY <1>2, PollIsForTheWish DEF FreeTurn, PollTurn
  <2>2. \A c \in Channels : blocked[c].on = "nothing"
    BY <2>1 DEF WishInv, NotBlocked
  <2> QED
    BY <2>1, <2>2 DEF PinnedTimes
<1>3. ~PollIndexIsStale
  BY TargetIndexKept DEF PollIndexIsStale, ContractInv
<1>4. ~PollPinUnderflows
  BY <1>2 DEF PollPinUnderflows, PinUnderflows
<1>5. CASE PollLoopsForever
  <2>1. steps.last > NumCheckpoints
    BY <1>5, EndlessOnlyInLongChains DEF ContractInv
  <2> QED
    BY <1>5, <2>1 DEF PollLoopsForever, Panic, FaultInv
<1>6. ~PollBeforeFirstStep
  <2> SUFFICES ASSUME PollBeforeFirstStep
               PROVE  FALSE
    OBVIOUS
  <2>1. call.time \in PollTimes /\ Planned.numDeleted = 0
    BY <1>2, PlannedFront DEF PollBeforeFirstStep, ContractInv
  <2>2. StepTime[0] <= call.time /\ call.time < StepTime[0]
    BY <2>1, CallerTimesAssumption DEF PollBeforeFirstStep, BeforeFirst
  <2>3. 0 \in AllSteps
    BY LastStepAssumption DEF AllSteps
  <2>4. StepTime[0] \in Nat /\ call.time \in Nat
    BY <2>1, <2>3, StepTimeAssumption, TimesAssumption
  <2> QED
    BY <2>2, <2>4
<1>7. ~PollOriginalGone
  BY PollIsForTheWish DEF PollOriginalGone, PollTurn, BlockedInv
<1>8. ~PollRepeatGone
  <2> SUFFICES ASSUME PollRepeatGone
               PROVE  FALSE
    OBVIOUS
  <2>1. Mine = blocked[Caller] /\ Mine.on = "repeat" /\ Turn("poll")
    BY PollIsForTheWish DEF PollRepeatGone, PollTurn
  <2>2. Mine.step \in AllSteps
    BY <2>1, BlockedTurn DEF ContractInv
  <2>3. steps.status[Mine.step] = "saturating" /\ ~steps.canProduce[Mine.step]
    BY <2>1, CallerAssumption DEF BlockedInv, RepeatInv
  <2>4. steps.produced[Mine.step] = Emits[Mine.step] /\ Emits[Mine.step] \in Nat
    BY <2>2, <2>3, EmitsAssumption DEF ContractInv, EmissionInv
  <2>5. StepEmits(steps, Mine.step)
    BY <2>3 DEF PollRepeatGone
  <2> QED
    BY <2>4, <2>5 DEF StepEmits
<1>9. CASE /\ PollTurns
           /\ ~PollIndexIsStale /\ ~PollPinUnderflows /\ ~PollLoopsForever
           /\ ~PollBeforeFirstStep /\ ~PollOriginalGone /\ ~PollRepeatGone
  <2>1. fault = "none"
    BY <1>9, PollTurnsAreTurns DEF Turn
  <2>2. fault' = fault
    BY <1>9 DEF PollTurns, PollAbandons,
       PollFindsSaturated, PollFindsSaturating, PollFindsPreviousSaturating, PollSaturates,
       BlockOn, PollInterpolationPends, PollInterpolationReady, PollOriginalEmits,
       PollOriginalPends, PollOriginalReady, PollRepeatRegisters, PollRepeatPends,
       PollRepeatReady
  <2> QED
    BY <2>1, <2>2 DEF FaultInv
<1> QED
  BY <1>1, <1>3, <1>4, <1>5, <1>6, <1>7, <1>8, <1>9 DEF SourceRuns

-----------------------------------------------------------------------------
(* What the caller waits for *)

\* What a channel is blocked on by a search runs, and is there to be polled.
LEMMA SearchBlocksOnRunning ==
  ASSUME Typed, FrontInv, FewGivenUp(steps), EmissionInv(steps), call.channel = Caller,
         PollFindsSaturating \/ PollFindsPreviousSaturating \/ PollSaturates
  PROVE  BlockedInv'
<1>1. /\ FreeTurn /\ StepsInv(Planned) /\ EmissionInv(Planned) /\ Target \in Window(Planned)
      /\ Window(Planned) \subseteq AllSteps
  BY TargetRetained, PlannedEmission, PlannedInv
     DEF PollFindsSaturating, PollFindsPreviousSaturating, PollSaturates
<1>2. ASSUME NEW st, StepsInv(st), EmissionInv(st), NEW k \in Window(st),
             st.status[k] = "saturating", BlockOn(st, k)
      PROVE  BlockedInv'
  <2>1. /\ k \in AllSteps /\ k \in Nat /\ st.last \in Nat /\ k <= st.last
        /\ blocked \in [Channels -> BlockedType]
    BY <1>2, StepsTyped, WindowSteps DEF Window, Typed
  <2>2. CASE st.canProduce[k]
    <3>1. ~(k < st.last)
      BY <1>2, <2>1, <2>2 DEF EmissionInv
    <3>2. k = st.last
      BY <2>1, <3>1
    <3>3. steps' = st /\ blocked'[Caller] = OnOriginal(call.time)
      BY <1>2, <2>1, <2>2, CallerAssumption DEF BlockOn
    <3> QED
      BY <1>2, <3>2, <3>3 DEF BlockedInv, OnOriginal
  <2>3. CASE ~st.canProduce[k]
    <3>1. steps' = st /\ blocked'[Caller] = OnRepeat(k, call.time)
      BY <1>2, <2>1, <2>3, CallerAssumption DEF BlockOn
    <3> QED
      BY <1>2, <3>1 DEF BlockedInv, OnRepeat
  <2> QED
    BY <2>2, <2>3
<1>3. CASE PollFindsSaturating
  BY <1>1, <1>2, <1>3 DEF PollFindsSaturating
<1>4. CASE PollFindsPreviousSaturating
  BY <1>1, <1>2, <1>4, TargetHasPredecessor DEF PollFindsPreviousSaturating
<1>5. CASE PollSaturates
  <2>1. /\ Planned.status[Target] = "unsaturated"
        /\ CanSaturate(Planned, Target, PinnedTimes)
        /\ BlockOn(Saturated, StaleTarget)
    BY <1>5 DEF PollSaturates
  <2>2. StepsInv(Saturated) /\ EmissionInv(Saturated)
    BY <1>1, <2>1, SaturateInv, SaturateEmission DEF Saturated
  <2> QED
    BY <1>1, <1>2, <2>1, <2>2, TargetIndexKept
<1> QED
  BY <1>3, <1>4, <1>5

\* It waits for events only of a step at or before the time it asked about.
LEMMA SearchBlocksOnDue ==
  ASSUME Typed, FrontInv, FewGivenUp(steps), EmissionInv(steps), call.channel = Caller,
         PollFindsSaturating \/ PollFindsPreviousSaturating \/ PollSaturates
  PROVE  DueInv'
<1>1. /\ FreeTurn /\ StepsInv(Planned) /\ EmissionInv(Planned) /\ Target \in Window(Planned)
      /\ Window(Planned) \subseteq AllSteps
  BY TargetRetained, PlannedEmission, PlannedInv
     DEF PollFindsSaturating, PollFindsPreviousSaturating, PollSaturates
<1>2. /\ StepTime[Target] <= call.time /\ call.time \in Nat
      /\ StepTime[Target] \in Nat /\ Target \in AllSteps
  BY <1>1, TargetRetained, TimesAssumption, StepTimeAssumption
<1>3. ASSUME NEW st, StepsInv(st), EmissionInv(st), NEW k \in Window(st),
             StepTime[k] <= call.time, BlockOn(st, k)
      PROVE  DueInv'
  <2>1. /\ k \in AllSteps /\ k \in Nat /\ st.last \in Nat /\ k <= st.last
        /\ blocked \in [Channels -> BlockedType]
    BY <1>3, StepsTyped, WindowSteps DEF Window, Typed
  <2>2. CASE st.canProduce[k]
    <3>1. ~(k < st.last)
      BY <1>3, <2>1, <2>2 DEF EmissionInv
    <3>2. k = st.last
      BY <2>1, <3>1
    <3>3. steps' = st /\ blocked'[Caller] = OnOriginal(call.time)
      BY <1>3, <2>1, <2>2, CallerAssumption DEF BlockOn
    <3> QED
      BY <1>3, <3>2, <3>3 DEF DueInv, OnOriginal
  <2>3. CASE ~st.canProduce[k]
    <3>1. blocked'[Caller] = OnRepeat(k, call.time)
      BY <1>3, <2>1, <2>3, CallerAssumption DEF BlockOn
    <3> QED
      BY <3>1 DEF DueInv, OnRepeat
  <2> QED
    BY <2>2, <2>3
<1>4. CASE PollFindsSaturating
  BY <1>1, <1>2, <1>3, <1>4 DEF PollFindsSaturating
<1>5. CASE PollFindsPreviousSaturating
  <2>1. Planned.status[Target] = "unsaturated" /\ BlockOn(Planned, Target - 1)
    BY <1>5 DEF PollFindsPreviousSaturating
  <2>2. Target - 1 \in Window(Planned)
    BY <1>1, <2>1, TargetHasPredecessor
  <2>3. StepTime[Target - 1] <= call.time
    <3>1. Target - 1 \in AllSteps /\ Target - 1 < Target
      BY <1>1, <1>2, <2>2, StepOrder DEF Window
    <3>2. StepTime[Target - 1] \in Nat /\ StepTime[Target - 1] < StepTime[Target]
      BY <1>2, <3>1, StepOrder
    <3> QED
      BY <1>2, <3>2
  <2> QED
    BY <1>1, <1>3, <2>1, <2>2, <2>3
<1>6. CASE PollSaturates
  <2>1. /\ Planned.status[Target] = "unsaturated"
        /\ CanSaturate(Planned, Target, PinnedTimes)
        /\ BlockOn(Saturated, StaleTarget)
    BY <1>6 DEF PollSaturates
  <2>2. StepsInv(Saturated) /\ EmissionInv(Saturated)
    BY <1>1, <2>1, SaturateInv, SaturateEmission DEF Saturated
  <2> QED
    BY <1>1, <1>2, <1>3, <2>1, <2>2, TargetIndexKept
<1> QED
  BY <1>4, <1>5, <1>6

\* What the caller waits for still runs after any step.
LEMMA BlockedStep ==
  ASSUME CallerInv, [CallerNext]_callerVars
  PROVE  BlockedInv'
<1> USE DEF CallerInv
<1>1. /\ Typed /\ EmissionInv(steps) /\ blocked \in [Channels -> BlockedType]
  BY DEF ContractInv, Typed
<1>2. CASE steps' = steps /\ blocked'[Caller] \in {blocked[Caller], NotBlocked}
  BY <1>2 DEF BlockedInv, NotBlocked
<1>3. CASE ~SourceRuns
  <2>1. steps' = steps
    BY <1>3, OthersKeepTheChain
  <2>2. blocked' \in {blocked, [blocked EXCEPT ![Caller] = NotBlocked]}
    BY <1>3 DEF CallerNext, Wants, ChangesMind, Polls, PollsUnwoken, GivesUp, Receives,
       FuturesWake, CallPoll, ReleaseChannel, WakeStep, WakeInterpolation, callerVars, vars
  <2> QED
    BY <1>1, <1>2, <2>1, <2>2, CallerAssumption
<1>4. ASSUME PollTurns
      PROVE  /\ Turn("poll") /\ call.channel = Caller /\ Mine = blocked[Caller]
             /\ blocked[Caller] \in BlockedType
  <2>1. Turn("poll")
    BY <1>4, PollTurnsAreTurns
  <2> QED
    BY <1>1, <2>1, PollIsForTheWish, CallerAssumption
<1>5. CASE PollFindsSaturating \/ PollFindsPreviousSaturating \/ PollSaturates
  BY <1>1, <1>4, <1>5, SearchBlocksOnRunning DEF PollTurns
<1>6. CASE PollFindsSaturated
  <2>1. blocked'[Caller] = OnInterpolation(Target, call.time)
    BY <1>1, <1>4, <1>6, CallerAssumption DEF PollFindsSaturated, PollTurns
  <2> QED
    BY <2>1 DEF BlockedInv, OnInterpolation
<1>7. CASE PollOriginalReady \/ PollRepeatReady
  <2>1. blocked'[Caller] = NotBlocked
    BY <1>1, <1>4, <1>7, CallerAssumption DEF PollOriginalReady, PollRepeatReady, PollTurns
  <2> QED
    BY <2>1 DEF BlockedInv, NotBlocked
<1>8. CASE PollOriginalEmits
  <2>1. blocked' = blocked /\ steps' = StepEmitted(steps, steps.last)
    BY <1>8 DEF PollOriginalEmits, Deliver
  <2>2. steps'.last = steps.last /\ steps'.status = steps.status
    BY <1>1, <2>1, StepsTyped DEF StepEmitted, StepsType, Typed
  <2> QED
    BY <2>1, <2>2 DEF BlockedInv
<1>9. CASE \/ PollAbandons \/ PollIndexIsStale \/ PollPinUnderflows \/ PollLoopsForever
           \/ PollBeforeFirstStep \/ PollInterpolationPends \/ PollInterpolationReady
           \/ PollOriginalPends \/ PollOriginalGone \/ PollRepeatRegisters
           \/ PollRepeatPends \/ PollRepeatGone
  <2>1. /\ steps' = steps
        /\ blocked' \in {blocked, [blocked EXCEPT ![call.channel] = NotBlocked]}
    BY <1>9 DEF PollAbandons, PollIndexIsStale, PollPinUnderflows, PollLoopsForever,
       PollBeforeFirstStep, PollInterpolationPends, PollInterpolationReady,
       PollOriginalPends, PollOriginalGone, PollRepeatRegisters, PollRepeatPends,
       PollRepeatGone, Panic
  <2>2. call.channel = Caller
    BY <1>4, <1>9 DEF PollTurns
  <2> QED
    BY <1>1, <1>2, <2>1, <2>2, CallerAssumption
<1> QED
  BY <1>3, <1>5, <1>6, <1>7, <1>8, <1>9 DEF SourceRuns, PollTurns

-----------------------------------------------------------------------------
(* The time of the events it waits for *)

\* The last step is planned anew only by a search, and a caller that waits for
\* events does not search.
LEMMA DueStep ==
  ASSUME CallerInv, [CallerNext]_callerVars
  PROVE  DueInv'
<1> USE DEF CallerInv
<1>1. Typed /\ EmissionInv(steps) /\ blocked \in [Channels -> BlockedType] /\ DueInv
  BY DEF ContractInv, Typed
<1>2. CASE /\ steps'.last = steps.last
           /\ blocked'[Caller] \in {blocked[Caller], NotBlocked}
  BY <1>1, <1>2 DEF DueInv, NotBlocked
<1>3. CASE ~SourceRuns
  <2>1. steps' = steps
    BY <1>3, OthersKeepTheChain
  <2>2. blocked' \in {blocked, [blocked EXCEPT ![Caller] = NotBlocked]}
    BY <1>3 DEF CallerNext, Wants, ChangesMind, Polls, PollsUnwoken, GivesUp, Receives,
       FuturesWake, CallPoll, ReleaseChannel, WakeStep, WakeInterpolation, callerVars, vars
  <2> QED
    BY <1>1, <1>2, <2>1, <2>2, CallerAssumption
<1>4. ASSUME PollTurns
      PROVE  Turn("poll") /\ call.channel = Caller
  BY <1>1, <1>4, PollIsForTheWish, PollTurnsAreTurns
<1>5. CASE PollFindsSaturating \/ PollFindsPreviousSaturating \/ PollSaturates
  BY <1>1, <1>4, <1>5, SearchBlocksOnDue DEF PollTurns
<1>6. CASE PollFindsSaturated
  <2>1. blocked'[Caller] = OnInterpolation(Target, call.time)
    BY <1>1, <1>4, <1>6, CallerAssumption DEF PollFindsSaturated, PollTurns
  <2> QED
    BY <2>1 DEF DueInv, OnInterpolation
<1>7. CASE PollOriginalReady \/ PollRepeatReady
  <2>1. blocked'[Caller] = NotBlocked
    BY <1>1, <1>4, <1>7, CallerAssumption DEF PollOriginalReady, PollRepeatReady, PollTurns
  <2> QED
    BY <2>1 DEF DueInv, NotBlocked
<1>8. CASE PollOriginalEmits
  <2>1. blocked' = blocked /\ steps' = StepEmitted(steps, steps.last)
    BY <1>8 DEF PollOriginalEmits, Deliver
  <2>2. steps'.last = steps.last
    BY <1>1, <2>1, StepsTyped DEF StepEmitted, StepsType, Typed
  <2> QED
    BY <1>2, <2>1, <2>2
<1>9. CASE \/ PollAbandons \/ PollIndexIsStale \/ PollPinUnderflows \/ PollLoopsForever
           \/ PollBeforeFirstStep \/ PollInterpolationPends \/ PollInterpolationReady
           \/ PollOriginalPends \/ PollOriginalGone \/ PollRepeatRegisters
           \/ PollRepeatPends \/ PollRepeatGone
  <2>1. /\ steps' = steps
        /\ blocked' \in {blocked, [blocked EXCEPT ![call.channel] = NotBlocked]}
    BY <1>9 DEF PollAbandons, PollIndexIsStale, PollPinUnderflows, PollLoopsForever,
       PollBeforeFirstStep, PollInterpolationPends, PollInterpolationReady,
       PollOriginalPends, PollOriginalGone, PollRepeatRegisters, PollRepeatPends,
       PollRepeatGone, Panic
  <2>2. call.channel = Caller
    BY <1>4, <1>9 DEF PollTurns
  <2> QED
    BY <1>1, <1>2, <2>1, <2>2, CallerAssumption
<1> QED
  BY <1>3, <1>5, <1>6, <1>7, <1>8, <1>9 DEF SourceRuns, PollTurns

\* So the event it is interrupted with is due.
LEMMA DueEventStep ==
  ASSUME CallerInv, [CallerNext]_callerVars
  PROVE  EventsComeBeforeTheState'
<1>1. CASE SourceRuns /\ PollOriginalEmits
  <2>1. /\ Turn("poll") /\ Mine.on = "original" /\ Mine.time = call.time
        /\ reply' = Contract!InterruptReply(call.time, StepTime[steps.last])
    BY <1>1 DEF PollOriginalEmits, OriginalTurn, PollTurn, Deliver, Answer
  <2>2. Mine = blocked[Caller]
    BY <2>1, PollIsForTheWish DEF CallerInv
  <2>3. StepTime[steps.last] <= call.time
    BY <2>1, <2>2 DEF CallerInv, DueInv
  <2> QED
    BY <2>1, <2>3 DEF Contract!InterruptReply, EventsComeBeforeTheState
<1>2. CASE SourceRuns /\ ~PollOriginalEmits
  <2>1. reply' = reply \/ reply'.kind \in {"pending", "state"}
    BY <1>2 DEF SourceRuns, PollTurns, PollAbandons, PollFindsSaturated,
       PollFindsSaturating, PollFindsPreviousSaturating, PollSaturates, BlockOn,
       PollIndexIsStale, PollPinUnderflows, PollLoopsForever, PollBeforeFirstStep,
       PollInterpolationPends, PollInterpolationReady, PollOriginalPends,
       PollOriginalReady, PollOriginalGone, PollRepeatRegisters, PollRepeatPends,
       PollRepeatReady, PollRepeatGone, Panic, Answer, Contract!PendingReply,
       Contract!StateReply
  <2> QED
    BY <2>1 DEF CallerInv, EventsComeBeforeTheState
<1>3. CASE ~SourceRuns
  <2>1. reply' \in {reply, Contract!NoReply}
    BY <1>3 DEF CallerNext, Wants, ChangesMind, Polls, PollsUnwoken, GivesUp, Receives,
       FuturesWake, CallPoll, ReleaseChannel, WakeStep, WakeInterpolation, callerVars, vars
  <2> QED
    BY <2>1 DEF CallerInv, EventsComeBeforeTheState, Contract!NoReply
<1> QED
  BY <1>1, <1>2, <1>3

-----------------------------------------------------------------------------
(* The question and its answer *)

\* What a turn of a poll does to the call: it goes on, or it is answered with
\* Pending, an event or the state at the time asked.
LEMMA PollTurnsAnswer ==
  ASSUME Typed, PollTurns, call.channel \in Channels
  PROVE  /\ \/ call' = call /\ reply' = reply /\ waiting' = waiting
            \/ call' = Idle /\ reply'.kind # "state"
            \/ call' = Idle /\ reply'.kind = "state" /\ reply'.time = call.time
         /\ waiting' \subseteq waiting \cup {call.channel}
         /\ Turn("poll")
         /\ \A c \in Channels \ {call.channel} : blocked'[c] = blocked[c]
<1>1. blocked \in [Channels -> BlockedType]
  BY DEF Typed
<1>2. CASE PollFindsSaturating \/ PollFindsPreviousSaturating \/ PollSaturates
  BY <1>1, <1>2 DEF PollFindsSaturating, PollFindsPreviousSaturating, PollSaturates, BlockOn,
     FreeTurn, PollTurn
<1>3. CASE \/ PollIndexIsStale \/ PollPinUnderflows \/ PollLoopsForever
           \/ PollBeforeFirstStep \/ PollOriginalGone \/ PollRepeatGone
  BY <1>1, <1>3 DEF PollIndexIsStale, PollPinUnderflows, PollLoopsForever, PollBeforeFirstStep,
     PollOriginalGone, PollRepeatGone, Panic, FreeTurn, PollTurn
<1>4. CASE PollAbandons \/ PollFindsSaturated \/ PollOriginalReady \/ PollRepeatReady
  BY <1>1, <1>4 DEF PollAbandons, PollFindsSaturated, PollOriginalReady, PollRepeatReady,
     OriginalTurn, RepeatTurn, FreeTurn, PollTurn
<1>5. CASE PollInterpolationPends \/ PollOriginalPends \/ PollRepeatRegisters \/ PollRepeatPends
  BY <1>1, <1>5 DEF PollInterpolationPends, PollOriginalPends, PollRepeatRegisters,
     PollRepeatPends, OriginalTurn, RepeatTurn, PollTurn, Answer, Contract!PendingReply
<1>6. CASE PollInterpolationReady
  BY <1>1, <1>6 DEF PollInterpolationReady, PollTurn, Answer, Contract!StateReply
<1>7. CASE PollOriginalEmits
  BY <1>1, <1>7 DEF PollOriginalEmits, OriginalTurn, PollTurn, Deliver, Answer,
     Contract!InterruptReply
<1> QED
  BY <1>2, <1>3, <1>4, <1>5, <1>6, <1>7 DEF PollTurns

LEMMA WishStep ==
  ASSUME ContractInv, WishInv, [CallerNext]_callerVars
  PROVE  WishInv'
<1>1. /\ PollTimes \subseteq Nat /\ Never \notin Nat
      /\ blocked \in [Channels -> BlockedType]
  BY TimesAssumption DEF ContractInv, Typed, Never
<1>2. CASE SourceRuns
  <2>1. /\ Turn("poll") => call.channel = Caller
    BY PollIsForTheWish
  <2>2. call.op = "poll"
    BY <1>2 DEF SourceRuns, PollTurns, FreeTurn, PollTurn, OriginalTurn, RepeatTurn, Turn,
       PollAbandons,
       PollFindsSaturated, PollFindsSaturating, PollFindsPreviousSaturating, PollSaturates,
       PollIndexIsStale, PollPinUnderflows, PollLoopsForever, PollBeforeFirstStep,
       PollInterpolationPends, PollInterpolationReady, PollOriginalEmits,
       PollOriginalPends, PollOriginalReady, PollOriginalGone, PollRepeatRegisters,
       PollRepeatPends, PollRepeatReady, PollRepeatGone
  <2>3. call.channel \in Channels
    BY <2>2, PollCallFields DEF ContractInv, Typed
  <2>4. /\ \/ call' = call /\ reply' = reply /\ waiting' = waiting
           \/ call' = Idle /\ reply'.kind # "state"
           \/ call' = Idle /\ reply'.kind = "state" /\ reply'.time = call.time
        /\ waiting' \subseteq waiting \cup {call.channel}
        /\ Turn("poll")
        /\ \A c \in Channels \ {call.channel} : blocked'[c] = blocked[c]
        /\ wanted' = wanted
    BY <1>2, <2>3, PollTurnsAnswer DEF SourceRuns, ContractInv
  <2>5. /\ call = PollCall(Caller, wanted) /\ call.channel = Caller /\ call.time = wanted
        /\ wanted # Never
    BY <2>4, PollIsForTheWish
  <2> QED
    BY <2>4, <2>5 DEF WishInv
<1>3. CASE Polls \/ PollsUnwoken
  <2>1. /\ call' = PollCall(Caller, wanted) /\ reply' = Contract!NoReply
        /\ waiting' = waiting \ {Caller} /\ wanted' = wanted /\ blocked' = blocked
        /\ wanted # Never
    BY <1>3 DEF Polls, PollsUnwoken, CallPoll
  <2>2. reply'.kind = "none"
    BY <2>1 DEF Contract!NoReply
  <2> QED
    BY <2>1, <2>2 DEF WishInv
<1>4. CASE GivesUp
  BY <1>1, <1>4 DEF GivesUp, ReleaseChannel, Turn, WishInv, PollCall
<1>5. CASE FuturesWake
  <2>1. /\ UNCHANGED <<call, reply, blocked, wanted>> /\ waiting' \subseteq waiting
    BY <1>5 DEF FuturesWake, WakeInterpolation, WakeStep
  <2> QED
    BY <2>1 DEF WishInv
<1>6. CASE Receives
  <2>1. /\ call.op = "idle" /\ wanted' = Never /\ reply' = Contract!NoReply
        /\ UNCHANGED <<call, blocked, waiting>>
    BY <1>6 DEF Receives, Turn
  <2>2. call = Idle
    BY <2>1 DEF WishInv, PollCall
  <2>3. reply'.kind = "none"
    BY <2>1 DEF Contract!NoReply
  <2> QED
    BY <2>1, <2>2, <2>3 DEF WishInv
<1>7. ASSUME NEW t \in PollTimes, Wants(t)
      PROVE  WishInv'
  BY <1>7 DEF Wants, WishInv, vars
<1>8. ASSUME NEW t \in PollTimes, ChangesMind(t)
      PROVE  WishInv'
  <2>1. /\ call.op = "idle" /\ wanted' = t /\ UNCHANGED <<call, reply, blocked>>
        /\ waiting' = waiting \ {Caller} /\ reply.kind \in {"pending", "interrupt"}
    BY <1>8 DEF ChangesMind, Turn
  <2>2. call = Idle
    BY <2>1 DEF WishInv, PollCall
  <2> QED
    BY <2>1, <2>2 DEF WishInv
<1>9. CASE UNCHANGED callerVars
  BY <1>9 DEF callerVars, vars, WishInv
<1> QED
  BY <1>2, <1>3, <1>4, <1>5, <1>6, <1>7, <1>8, <1>9 DEF CallerNext

-----------------------------------------------------------------------------
(* Being woken *)

\* The caller is reached by the future of what it is blocked on.
Reached ==
  \/ blocked[Caller].on = "interpolation"
  \/ /\ blocked[Caller].on = "original"
     /\ steps.status[steps.last] = "saturating"
     /\ held[steps.last] = "all"
  \/ /\ blocked[Caller].on = "repeat"
     /\ steps.status[blocked[Caller].step] = "saturating"
     /\ held[blocked[Caller].step] = "stack"
     /\ Caller \in repeat[blocked[Caller].step].registered

LEMMA ReachedIsNotLost ==
  ASSUME WishInv
  PROVE  NoLostWakeup <=> (Caller \in waiting => Reached)
BY CallerAssumption DEF WishInv, NoLostWakeup, Reached

\* A turn that tells the caller Pending registers its waker with a running future.
LEMMA PendingTurnsReach ==
  ASSUME CallerInv, PollTurns, Caller \in waiting'
  PROVE  Reached'
<1> USE DEF CallerInv
<1>1. /\ blocked \in [Channels -> BlockedType]
      /\ repeat \in [AllSteps -> [count : Int, registered : SUBSET Channels]]
      /\ held \in [AllSteps -> {"none", "all", "stack"}]
      /\ Typed
  BY DEF ContractInv, Typed
<1>2. Turn("poll")
  BY PollTurnsAreTurns
<1>3. /\ call.channel = Caller /\ Mine = blocked[Caller] /\ waiting = {}
      /\ steps.last \in AllSteps /\ (Mine.on = "repeat" => Mine.step \in AllSteps)
  BY <1>1, <1>2, PollIsForTheWish, BlockedTurn
<1>4. CASE PollInterpolationPends
  <2>1. blocked' = blocked /\ Mine.on = "interpolation"
    BY <1>4 DEF PollInterpolationPends, PollTurn
  <2> QED
    BY <1>3, <2>1 DEF Reached
<1>5. CASE PollOriginalPends
  <2>1. /\ blocked' = blocked /\ Mine.on = "original" /\ steps' = steps
        /\ steps.status[steps.last] = "saturating" /\ held'[steps.last] = "all"
    BY <1>1, <1>3, <1>5 DEF PollOriginalPends, OriginalTurn, PollTurn
  <2> QED
    BY <1>3, <2>1 DEF Reached
<1>6. CASE PollRepeatRegisters
  <2>1. /\ blocked' = blocked /\ Mine.on = "repeat" /\ steps' = steps /\ held' = held
        /\ repeat[Mine.step].registered # {}
        /\ repeat' = [repeat EXCEPT ![Mine.step].registered = @ \cup {Caller}]
    BY <1>3, <1>6 DEF PollRepeatRegisters, PollTurn
  <2>2. Caller \in repeat'[Mine.step].registered
    BY <1>1, <1>3, <2>1
  <2>3. steps.status[Mine.step] = "saturating" /\ held[Mine.step] = "stack"
    BY <1>3, <2>1 DEF RegisteredInv
  <2> QED
    BY <1>3, <2>1, <2>2, <2>3 DEF Reached
<1>7. CASE PollRepeatPends
  <2>1. /\ blocked' = blocked /\ Mine.on = "repeat" /\ steps' = steps
        /\ steps.status[Mine.step] = "saturating"
        /\ held' = [held EXCEPT ![Mine.step] = "stack"]
        /\ repeat' = [repeat EXCEPT ![Mine.step].registered = {Caller}]
    BY <1>3, <1>7 DEF PollRepeatPends, RepeatTurn, PollTurn
  <2>2. held'[Mine.step] = "stack" /\ Caller \in repeat'[Mine.step].registered
    BY <1>1, <1>3, <2>1
  <2> QED
    BY <1>3, <2>1, <2>2 DEF Reached
<1>8. CASE ~(PollInterpolationPends \/ PollOriginalPends \/ PollRepeatRegisters \/ PollRepeatPends)
  <2>1. waiting' = waiting
    BY <1>8 DEF PollTurns, PollAbandons,
       PollFindsSaturated, PollFindsSaturating, PollFindsPreviousSaturating, PollSaturates,
       BlockOn, PollIndexIsStale, PollPinUnderflows, PollLoopsForever, PollBeforeFirstStep,
       Panic, PollInterpolationReady, PollOriginalEmits, PollOriginalReady,
       PollOriginalGone, PollRepeatReady, PollRepeatGone
  <2> QED
    BY <1>3, <2>1
<1> QED
  BY <1>4, <1>5, <1>6, <1>7, <1>8

LEMMA ReachedStep ==
  ASSUME CallerInv, NoLostWakeup, [CallerNext]_callerVars
  PROVE  NoLostWakeup'
<1> USE DEF CallerInv
<1>1. /\ repeat \in [AllSteps -> [count : Int, registered : SUBSET Channels]]
      /\ held \in [AllSteps -> {"none", "all", "stack"}]
      /\ blocked[Caller] \in BlockedType /\ steps.last \in AllSteps
  BY CallerAssumption, StepsTyped DEF ContractInv, Typed
<1>2. Caller \in waiting => Reached
  BY ReachedIsNotLost
<1>3. SUFFICES ASSUME Caller \in waiting'
               PROVE  Reached'
  <2>1. WishInv'
    BY WishStep
  <2>2. NoLostWakeup' <=> (Caller \in waiting' => Reached')
    BY <2>1, CallerAssumption DEF WishInv, NoLostWakeup, Reached
  <2> QED
    BY <1>3, <2>2
<1>4. CASE SourceRuns
  BY <1>3, <1>4, PendingTurnsReach DEF SourceRuns
<1>5. CASE UNCHANGED <<steps, blocked, repeat, held>> /\ waiting' \subseteq waiting
  BY <1>2, <1>3, <1>5 DEF Reached
<1>6. CASE Polls \/ PollsUnwoken \/ GivesUp \/ WakeInterpolation(Caller)
  BY <1>3, <1>6 DEF Polls, PollsUnwoken, CallPoll, GivesUp, ReleaseChannel, WakeInterpolation
<1>7. CASE Receives \/ UNCHANGED callerVars \/ \E t \in PollTimes : Wants(t) \/ ChangesMind(t)
  BY <1>5, <1>7 DEF Receives, Wants, ChangesMind, callerVars, vars
<1>8. ASSUME NEW k \in AllSteps, WakeStep(k)
      PROVE  Reached'
  <2>1. /\ UNCHANGED <<steps, blocked>> /\ held[k] # "none"
        /\ waiting' = IF held[k] = "all" THEN {} ELSE waiting \ repeat[k].registered
        /\ repeat' = [repeat EXCEPT ![k].registered = IF held[k] = "all" THEN @ ELSE {}]
        /\ held' = [held EXCEPT ![k] = "none"]
    BY <1>8 DEF WakeStep
  <2>2. held[k] # "all" /\ Caller \in waiting /\ Caller \notin repeat[k].registered
    BY <1>3, <2>1
  <2>3. \A j \in AllSteps \ {k} : repeat'[j] = repeat[j] /\ held'[j] = held[j]
    BY <1>1, <2>1
  <2>4. CASE blocked[Caller].on = "interpolation"
    BY <2>1, <2>4 DEF Reached
  <2>5. CASE blocked[Caller].on = "original"
    <3>1. /\ steps.status[steps.last] = "saturating" /\ held[steps.last] = "all"
          /\ steps.last # k
      BY <1>2, <2>2, <2>5 DEF Reached
    <3> QED
      BY <1>1, <2>1, <2>3, <2>5, <3>1 DEF Reached
  <2>6. CASE blocked[Caller].on = "repeat"
    <3>1. /\ steps.status[blocked[Caller].step] = "saturating"
          /\ held[blocked[Caller].step] = "stack"
          /\ Caller \in repeat[blocked[Caller].step].registered
          /\ blocked[Caller].step # k /\ blocked[Caller].step \in AllSteps
      BY <1>1, <1>2, <2>2, <2>6, BlockedFields DEF Reached
    <3> QED
      BY <2>1, <2>3, <2>6, <3>1 DEF Reached
  <2> QED
    BY <1>2, <2>2, <2>4, <2>5, <2>6 DEF Reached
<1> QED
  BY <1>4, <1>6, <1>7, <1>8 DEF CallerNext, FuturesWake

-----------------------------------------------------------------------------
(* Theorems *)

LEMMA CallerStep ==
  ASSUME CallerInv, [CallerNext]_callerVars
  PROVE  CallerInv'
<1>1. ContractInv' /\ ReplyInv' /\ RepeatInv' /\ RegisteredInv'
  BY CallerKeepsContract DEF CallerInv
<1>2. WishInv' /\ BlockedInv' /\ DueInv' /\ EventsComeBeforeTheState' /\ FaultInv'
  BY WishStep, BlockedStep, DueStep, DueEventStep, FaultStep DEF CallerInv
<1>3. PollTurns \/ steps' = steps
  BY OthersKeepTheChain DEF SourceRuns
<1>4. FrontInv' /\ FewGivenUp(steps)'
  BY <1>3, FrontStep DEF CallerInv, ContractInv
<1> QED
  BY <1>1, <1>2, <1>4 DEF CallerInv

LEMMA CallerStarts ==
  ASSUME CallerInit
  PROVE  CallerInv /\ NoLostWakeup
<1>1. ContractInv
  BY ContractStarts DEF CallerInit
<1>2. /\ steps = NewSteps /\ blocked = [c \in Channels |-> NotBlocked]
      /\ repeat = [k \in AllSteps |-> NoEntry] /\ waiting = {} /\ call = Idle
      /\ reply = Contract!NoReply /\ fault = "none" /\ wanted = Never
  BY DEF CallerInit, Init
<1>3. /\ ReplyInv /\ WishInv /\ RepeatInv /\ RegisteredInv
      /\ BlockedInv /\ DueInv /\ EventsComeBeforeTheState /\ FaultInv
  BY <1>2, CallerAssumption DEF ReplyInv, WishInv, RepeatInv, RegisteredInv, BlockedInv,
     DueInv, EventsComeBeforeTheState, FaultInv, NotBlocked, NoEntry, Contract!NoReply
<1>4. FrontInv
  BY <1>2 DEF FrontInv, NewSteps
<1>5. FewGivenUp(steps)
  BY <1>2 DEF FewGivenUp, NewSteps, Window
<1>6. NoLostWakeup
  BY <1>2 DEF NoLostWakeup
<1> QED
  BY <1>1, <1>3, <1>4, <1>5, <1>6 DEF CallerInv

\* The invariant holds however many futures are woken and wishes abandoned.
THEOREM AlwaysCallerInv == CallerSpec => [](CallerInv /\ NoLostWakeup)
<1>1. CallerInit => CallerInv /\ NoLostWakeup
  BY CallerStarts
<1>2. CallerInv /\ NoLostWakeup /\ [CallerNext]_callerVars => (CallerInv /\ NoLostWakeup)'
  BY CallerStep, ReachedStep
<1> QED
  BY <1>1, <1>2, PTL DEF CallerSpec

\* poll answers the question of its caller: the state handed out is the one at
\* the time asked last, whatever was asked and abandoned before.
THEOREM AnswersAlwaysTheQuestion == CallerSpec => []AnswersTheQuestion
<1>1. CallerInv => AnswersTheQuestion
  BY DEF CallerInv, WishInv, ReplyInv, AnswersTheQuestion
<1> QED
  BY <1>1, AlwaysCallerInv, PTL

\* The source keeps its whole contract with a caller that has it for itself:
\* an event it is interrupted with is one the state it asked for depends on.
THEOREM CallerSeesTheContract == CallerSpec => ImplementsContract
<1>1. CallerInit => Contract!ContractInit
  BY ContractStarts DEF CallerInit
<1>2. CallerInv /\ CallerInv' /\ [CallerNext]_callerVars
        => [Contract!ContractNext]_(Contract!contractVars)
  BY CallerStepsAreShared, NothingEarly DEF CallerInv
<1> QED
  BY <1>1, <1>2, AlwaysCallerInv, PTL
     DEF CallerSpec, ImplementsContract, Contract!ContractSpec

\* A caller with the source for itself that is told Pending is reached by the
\* waker of a future that runs.
THEOREM PatientCallerNeverForgotten == CallerSpec => []NoLostWakeup
  BY AlwaysCallerInv, PTL

\* Within the budget calls of poll neither panic nor loop, and beyond it the
\* only failure is the search for a checkpoint that does not end: no unwrap and
\* no subtraction fails for one caller.
THEOREM CallerFailsOnlyBeyondTheBudget == CallerSpec => []FailsOnlyBeyondTheBudget
<1>1. CallerInv => FailsOnlyBeyondTheBudget
  BY DEF CallerInv, FaultInv, FailsOnlyBeyondTheBudget
<1> QED
  BY <1>1, AlwaysCallerInv, PTL
=============================================================================
