----------------------- MODULE SourceContract_proofs -----------------------
(***************************************************************************)
(* NoInputTransposerSource keeps the shared contract of a Source: whatever *)
(* is given up and recomputed behind it, its callers see every event once  *)
(* and in order, and a state that is a function of time alone.  It keeps   *)
(* the contract itself wherever no event comes early.                      *)
(*                                                                         *)
(* Four invariants carry the proof.  EmissionInv: only the last step of    *)
(* the chain has events to give, and event_count says how many it gave.    *)
(* LogInv: the events given are the events delivered.  AnswerInv: the      *)
(* state an interpolation works on is the right one for its time.          *)
(* PlanInv: the chain has planned the next step whenever it tells a caller *)
(* when that is.                                                           *)
(***************************************************************************)
EXTENDS TransposerSource_proofs, SequenceTheorems

\* What the steps before the last emit has been emitted, and what those after
\* it emit has not; a running future is past exactly what was delivered of it.
EmissionInv(st) ==
  /\ \A k \in AllSteps :
       /\ st.eventCount[k] <= Emits[k]
       /\ st.status[k] = "saturating" => st.produced[k] = st.eventCount[k]
       /\ ~st.canProduce[k] => st.eventCount[k] = Emits[k]
       /\ k < st.last => ~st.canProduce[k]
       /\ k > st.last => st.canProduce[k] /\ st.eventCount[k] = 0
  /\ st.canProduce[st.last] <=> st.status[st.last] # "saturated"

\* The event counts of the steps are the record of what was delivered, and
\* the log is in order.
LogInv ==
  /\ \A k \in AllSteps, e \in Nat \ {0} :
       [step |-> k, event |-> e] \in Contract!Delivered <=> e <= steps.eventCount[k]
  /\ \A i, j \in DOMAIN log : i < j => Contract!Precedes(log[i], log[j])

\* An interpolation starts from the state after the last instant at or before
\* its time, and everything up to that instant has been emitted.
IsAnswer(st, k, t) == Contract!IsLatestInstant(k, t) /\ ~st.canProduce[k]

AnswerInv ==
  \A c \in Channels : blocked[c].on = "interpolation" =>
    IsAnswer(steps, blocked[c].base, blocked[c].time)

\* A chain whose last step is done has not planned the next one only while a
\* call has still to search it.
PlanInv ==
  steps.status[steps.last] = "saturated" /\ steps.last < LastStep =>
    \/ call.op = "events"
    \/ call.op = "poll" /\ Mine.on = "nothing"

ContractInv == Typed /\ EmissionInv(steps) /\ LogInv /\ AnswerInv /\ PlanInv

\* A step that keeps the invariants and is one of the contract, or none.
KeepsContract ==
  /\ EmissionInv(steps)' /\ LogInv' /\ AnswerInv' /\ PlanInv'
  /\ [Contract!SharedContractNext]_(Contract!contractVars)

-----------------------------------------------------------------------------
(* The methods of Steps *)

\* Steps::new has emitted nothing.
LEMMA NewStepsEmission == EmissionInv(NewSteps)
  BY LastStepAssumption, EmitsAssumption DEF EmissionInv, NewSteps, AllSteps

\* The step planned next has emitted nothing, and those before it everything.
LEMMA TryNextScheduledEmission ==
  ASSUME NEW st, StepsInv(st), EmissionInv(st)
  PROVE  EmissionInv(TryNextScheduled(st))
<1> DEFINE s == TryNextScheduled(st)
<1>1. CASE st.status[st.last] = "saturated" /\ st.last < LastStep
  <2>1. s = [st EXCEPT !.last = @ + 1,
                       !.status = [@ EXCEPT ![st.last + 1] = "unsaturated"]]
    BY <1>1 DEF TryNextScheduled
  <2>2. /\ st.last \in Nat /\ st.last + 1 \in AllSteps
        /\ st \in StepsType /\ st.status \in [AllSteps -> Statuses]
        /\ AllSteps \subseteq Nat
    BY <1>1, LastStepAssumption, StepsTyped DEF AllSteps
  <2>3. /\ s.last = st.last + 1 /\ s.eventCount = st.eventCount
        /\ s.produced = st.produced /\ s.canProduce = st.canProduce
        /\ s.status = [st.status EXCEPT ![st.last + 1] = "unsaturated"]
    BY <2>1, <2>2 DEF StepsType
  <2>4. \A k \in AllSteps : s.status[k] = IF k = st.last + 1 THEN "unsaturated" ELSE st.status[k]
    BY <2>2, <2>3
  <2> HIDE DEF s
  <2>5. ASSUME NEW k \in AllSteps
        PROVE  /\ s.eventCount[k] <= Emits[k]
               /\ s.status[k] = "saturating" => s.produced[k] = s.eventCount[k]
               /\ ~s.canProduce[k] => s.eventCount[k] = Emits[k]
               /\ k < s.last => ~s.canProduce[k]
               /\ k > s.last => s.canProduce[k] /\ s.eventCount[k] = 0
    <3>1. k \in Nat /\ (k < st.last + 1 => k < st.last \/ k = st.last)
      BY <2>2
    <3>2. ~st.canProduce[st.last]
      BY <1>1 DEF EmissionInv
    <3> QED
      BY <2>2, <2>3, <2>4, <3>1, <3>2 DEF EmissionInv
  <2>6. s.canProduce[s.last] /\ s.status[s.last] # "saturated"
    <3>1. st.last + 1 > st.last
      BY <2>2
    <3>2. st.canProduce[st.last + 1]
      BY <2>2, <3>1 DEF EmissionInv
    <3> QED
      BY <2>2, <2>3, <2>4, <3>2
  <2> QED
    BY <2>5, <2>6 DEF EmissionInv, s
<1>2. CASE ~(st.status[st.last] = "saturated" /\ st.last < LastStep)
  BY <1>2 DEF TryNextScheduled
<1> QED
  BY <1>1, <1>2

\* A step saturated anew swallows what it has emitted.
LEMMA SaturateEmission ==
  ASSUME NEW st, StepsInv(st), EmissionInv(st), NEW pins,
         NEW new \in Window(st), st.status[new] = "unsaturated",
         CanSaturate(st, new, pins)
  PROVE  EmissionInv(Saturate(st, new, pins))
<1> DEFINE s == Saturate(st, new, pins)
<1>1. /\ s.last = st.last
      /\ s.eventCount = st.eventCount /\ s.canProduce = st.canProduce
      /\ \A k \in AllSteps :
           /\ s.status[k] = "saturating" /\ k # new =>
                st.status[k] = "saturating" /\ s.produced[k] = st.produced[k]
           /\ s.status[k] = "saturated" => st.status[k] = "saturated"
      /\ s.produced[new] = st.eventCount[new]
      /\ st.status[st.last] = "saturated" => s.status[st.last] = "saturated"
  BY SaturateEffect
<1>2. st.last \in AllSteps
  BY StepsTyped
<1> HIDE DEF s
<1> QED
  BY <1>1, <1>2 DEF EmissionInv, s

\* What is deleted has emitted its events, and the last step stays.
LEMMA DeleteBeforeEmission ==
  ASSUME NEW st, StepsInv(st), EmissionInv(st), NEW t \in Nat, ~BeforeFirst(st, t)
  PROVE  /\ EmissionInv(DeleteBefore(st, t))
         /\ DeleteBefore(st, t).last = st.last
         /\ DeleteBefore(st, t).eventCount = st.eventCount
         /\ DeleteBefore(st, t).canProduce = st.canProduce
         /\ DeleteBefore(st, t).status[st.last] = st.status[st.last]
<1> DEFINE first == NotUnsatAt(st, t)
           g == [k \in AllSteps |-> IF k < first THEN "absent" ELSE st.status[k]]
           s == [st EXCEPT !.deletedBefore = t, !.numDeleted = first,
                           !.notUnsat = {k \in st.notUnsat : k >= first}, !.status = g]
<1>1. CASE t <= st.deletedBefore
  BY <1>1 DEF DeleteBefore
<1>2. CASE ~(t <= st.deletedBefore)
  <2>1. DeleteBefore(st, t) = s
    BY <1>2 DEF DeleteBefore
  <2>2. /\ st.last \in AllSteps /\ st \in StepsType
        /\ first \in Window(st)
        /\ first \in AllSteps /\ AllSteps \subseteq Nat
        /\ st.last \in Nat /\ first \in Nat /\ first <= st.last
    <3>1. st.last \in AllSteps /\ st \in StepsType /\ first \in Window(st)
      BY StepsTyped, NotUnsatAtIsCheckpoint DEF StepsInv
    <3> HIDE DEF first
    <3> QED
      BY <3>1, WindowSteps DEF Window
  <2>3. /\ s.last = st.last /\ s.eventCount = st.eventCount
        /\ s.canProduce = st.canProduce /\ s.produced = st.produced /\ s.status = g
    BY <2>2 DEF StepsType
  <2> HIDE DEF s, first, g
  <2>4. /\ s.status[st.last] = st.status[st.last]
        /\ \A k \in AllSteps : s.status[k] = "saturating" => st.status[k] = "saturating"
    <3>1. st.last \in Nat /\ first \in Nat /\ ~(st.last < first)
      BY <2>2
    <3>2. \A k \in AllSteps : g[k] = IF k < first THEN "absent" ELSE st.status[k]
      BY DEF g
    <3> QED
      BY <2>2, <2>3, <3>1, <3>2
  <2>5. EmissionInv(s)
    BY <2>2, <2>3, <2>4 DEF EmissionInv
  <2> QED
    BY <2>1, <2>3, <2>4, <2>5
<1> QED
  BY <1>1, <1>2

\* An event of the last step, which is not past all it emits.
LEMMA StepEmittedEmission ==
  ASSUME NEW st, StepsInv(st), EmissionInv(st),
         st.status[st.last] = "saturating", StepEmits(st, st.last)
  PROVE  /\ EmissionInv(StepEmitted(st, st.last))
         /\ StepEmitted(st, st.last).last = st.last
         /\ StepEmitted(st, st.last).status = st.status
         /\ StepEmitted(st, st.last).canProduce = st.canProduce
         /\ StepEmitted(st, st.last).eventCount
              = [st.eventCount EXCEPT ![st.last] = @ + 1]
<1> DEFINE s == StepEmitted(st, st.last)
<1>1. /\ st.last \in AllSteps /\ st \in StepsType
      /\ st.eventCount \in [AllSteps -> Nat] /\ st.produced \in [AllSteps -> Nat]
      /\ AllSteps \subseteq Nat
  BY StepsTyped, LastStepAssumption DEF StepsType, AllSteps
<1>2. /\ s.last = st.last /\ s.status = st.status /\ s.canProduce = st.canProduce
      /\ s.eventCount = [st.eventCount EXCEPT ![st.last] = @ + 1]
      /\ s.produced = [st.produced EXCEPT ![st.last] = @ + 1]
  BY <1>1 DEF StepEmitted, StepsType
<1> HIDE DEF s
<1>3. \A k \in AllSteps :
        /\ s.eventCount[k] = IF k = st.last THEN st.eventCount[k] + 1 ELSE st.eventCount[k]
        /\ s.produced[k] = IF k = st.last THEN st.produced[k] + 1 ELSE st.produced[k]
  BY <1>1, <1>2
<1>4. /\ st.produced[st.last] = st.eventCount[st.last]
      /\ st.produced[st.last] < Emits[st.last]
      /\ Emits[st.last] \in Nat
  BY <1>1, EmitsAssumption DEF StepEmits, EmissionInv
<1>5. ASSUME NEW k \in AllSteps
      PROVE  /\ s.eventCount[k] <= Emits[k]
             /\ s.status[k] = "saturating" => s.produced[k] = s.eventCount[k]
             /\ ~s.canProduce[k] => s.eventCount[k] = Emits[k]
             /\ k < s.last => ~s.canProduce[k]
             /\ k > s.last => s.canProduce[k] /\ s.eventCount[k] = 0
  <2>1. CASE k = st.last
    <3>1. st.canProduce[k]
      BY <2>1 DEF EmissionInv
    <3>2. s.eventCount[k] <= Emits[k] /\ s.produced[k] = s.eventCount[k]
      BY <1>1, <1>3, <1>4, <2>1
    <3> QED
      BY <1>1, <1>2, <2>1, <3>1, <3>2
  <2>2. CASE k # st.last
    BY <1>2, <1>3, <2>2 DEF EmissionInv
  <2> QED
    BY <2>1, <2>2
<1>6. s.canProduce[s.last] <=> s.status[s.last] # "saturated"
  BY <1>2 DEF EmissionInv
<1> QED
  BY <1>2, <1>5, <1>6 DEF EmissionInv, s

\* A step that is done has emitted everything.
LEMMA StepReadyEmission ==
  ASSUME NEW st, StepsInv(st), EmissionInv(st), NEW k \in AllSteps,
         st.status[k] = "saturating", ~StepEmits(st, k)
  PROVE  /\ EmissionInv(StepReady(st, k))
         /\ StepReady(st, k).last = st.last
         /\ StepReady(st, k).eventCount = st.eventCount
         /\ \A j \in AllSteps : ~st.canProduce[j] => ~StepReady(st, k).canProduce[j]
         /\ k # st.last => StepReady(st, k).status[st.last] = st.status[st.last]
<1> DEFINE s == StepReady(st, k)
<1>1. /\ st.last \in AllSteps /\ st \in StepsType
      /\ st.status \in [AllSteps -> Statuses]
      /\ st.canProduce \in [AllSteps -> BOOLEAN] /\ st.produced \in [AllSteps -> Nat]
      /\ st.eventCount \in [AllSteps -> Nat]
      /\ AllSteps \subseteq Nat
  <2>1. st \in StepsType /\ st.last \in AllSteps
    BY StepsTyped
  <2>2. AllSteps \subseteq Nat
    BY LastStepAssumption DEF AllSteps
  <2> QED
    BY <2>1, <2>2 DEF StepsType
<1>2. /\ s.last = st.last /\ s.eventCount = st.eventCount
      /\ s.status = [st.status EXCEPT ![k] = "saturated"]
      /\ s.produced = [st.produced EXCEPT ![k] = 0]
      /\ s.canProduce = [st.canProduce EXCEPT ![k] = FALSE]
  BY <1>1 DEF StepReady, StepsType
<1> HIDE DEF s
<1>3. \A j \in AllSteps :
        /\ s.status[j] = IF j = k THEN "saturated" ELSE st.status[j]
        /\ s.produced[j] = IF j = k THEN 0 ELSE st.produced[j]
        /\ s.canProduce[j] = IF j = k THEN FALSE ELSE st.canProduce[j]
  BY <1>1, <1>2
<1>4. st.eventCount[k] = Emits[k]
  <2>1. st.produced[k] = st.eventCount[k] /\ st.eventCount[k] <= Emits[k]
    BY DEF EmissionInv
  <2>2. ~(st.produced[k] < Emits[k])
    BY DEF StepEmits
  <2>3. Emits[k] \in Nat /\ st.eventCount[k] \in Nat
    BY <1>1, EmitsAssumption
  <2> QED
    BY <2>1, <2>2, <2>3
<1>5. k <= st.last
  BY <1>1, WindowSteps DEF StepsInv, Window
<1>6. ASSUME NEW j \in AllSteps
      PROVE  /\ s.eventCount[j] <= Emits[j]
             /\ s.status[j] = "saturating" => s.produced[j] = s.eventCount[j]
             /\ ~s.canProduce[j] => s.eventCount[j] = Emits[j]
             /\ j < s.last => ~s.canProduce[j]
             /\ j > s.last => s.canProduce[j] /\ s.eventCount[j] = 0
  <2>1. CASE j = k
    <3>1. ~(j > st.last) /\ s.eventCount[j] <= Emits[j]
      BY <1>1, <1>2, <1>5, <2>1 DEF EmissionInv
    <3> QED
      BY <1>2, <1>3, <1>4, <2>1, <3>1
  <2>2. CASE j # k
    BY <1>2, <1>3, <2>2 DEF EmissionInv
  <2> QED
    BY <2>1, <2>2
<1>7. s.canProduce[s.last] <=> s.status[s.last] # "saturated"
  BY <1>1, <1>2, <1>3 DEF EmissionInv
<1>8. EmissionInv(s)
  BY <1>6, <1>7 DEF EmissionInv
<1> QED
  BY <1>1, <1>2, <1>3, <1>8 DEF s

-----------------------------------------------------------------------------
(* The events *)

\* The events of the contract are those of the steps.
LEMMA ContractEvents ==
  ASSUME NEW v
  PROVE  /\ v \in Contract!Events <=>
              \E k \in AllSteps : \E e \in 1..Emits[k] : v = [step |-> k, event |-> e]
         /\ v \in Contract!Events =>
              /\ v.step \in AllSteps /\ v.event \in Nat \ {0} /\ v.event <= Emits[v.step]
              /\ v = [step |-> v.step, event |-> v.event]
<1>1. v \in Contract!Events <=>
        \E k \in AllSteps : \E e \in 1..Emits[k] : v = [step |-> k, event |-> e]
  BY DEF Contract!Events, Contract!Instants, AllSteps
<1>2. ASSUME NEW k \in AllSteps, NEW e \in 1..Emits[k], v = [step |-> k, event |-> e]
      PROVE  /\ v.step \in AllSteps /\ v.event \in Nat \ {0} /\ v.event <= Emits[v.step]
             /\ v = [step |-> v.step, event |-> v.event]
  <2>1. Emits[k] \in Nat
    BY EmitsAssumption
  <2>2. v.step = k /\ v.event = e
    BY <1>2
  <2> QED
    BY <1>2, <2>1, <2>2
<1> QED
  BY <1>1, <1>2

\* What is still to come, for a chain that agrees with the log, comes from
\* the last step or one after it.
LEMMA StillToCome ==
  ASSUME LogInv, NEW st, EmissionInv(st), st.eventCount = steps.eventCount,
         st.eventCount \in [AllSteps -> Nat], st.last \in AllSteps,
         NEW v \in Contract!Undelivered
  PROVE  /\ v.step \in AllSteps /\ v.event \in Nat \ {0}
         /\ v = [step |-> v.step, event |-> v.event]
         /\ v.event > st.eventCount[v.step]
         /\ st.canProduce[v.step]
         /\ v.step >= st.last
<1>1. /\ v.step \in AllSteps /\ v.event \in Nat \ {0} /\ v.event <= Emits[v.step]
      /\ v = [step |-> v.step, event |-> v.event]
      /\ v \notin Contract!Delivered
  BY ContractEvents DEF Contract!Undelivered
<1>2. v.event > st.eventCount[v.step]
  <2>1. ~(v.event <= st.eventCount[v.step])
    BY <1>1 DEF LogInv
  <2> QED
    BY <1>1, <2>1
<1>3. st.canProduce[v.step]
  <2>1. st.eventCount[v.step] # Emits[v.step]
    BY <1>1, <1>2, EmitsAssumption
  <2> QED
    BY <1>1, <2>1 DEF EmissionInv
<1>4. v.step >= st.last
  BY <1>1, <1>3, LastStepAssumption DEF EmissionInv, AllSteps
<1> QED
  BY <1>1, <1>2, <1>3, <1>4

\* An event that is appended to the log is delivered, with those before it.
LEMMA AppendDelivers ==
  ASSUME log \in Seq(LogEntry), NEW ev \in LogEntry, log' = Append(log, ev)
  PROVE  /\ Contract!Delivered' = Contract!Delivered \cup {ev}
         /\ \A i \in DOMAIN log : log'[i] = log[i]
         /\ DOMAIN log' = DOMAIN log \cup {Len(log) + 1}
         /\ log'[Len(log) + 1] = ev
<1>1. /\ Len(log) \in Nat /\ DOMAIN log = 1..Len(log)
      /\ DOMAIN log' = 1..(Len(log) + 1)
      /\ \A i \in 1..Len(log) : log'[i] = log[i]
      /\ log'[Len(log) + 1] = ev
  OBVIOUS
<1>2. DOMAIN log' = DOMAIN log \cup {Len(log) + 1}
  BY <1>1
<1>3. Contract!Delivered' = {log'[i] : i \in DOMAIN log'}
  BY DEF Contract!Delivered
<1> QED
  BY <1>1, <1>2, <1>3 DEF Contract!Delivered

-----------------------------------------------------------------------------
(* What a step of the source leaves to show *)

\* The chain a search works on.
LEMMA PlannedEmission ==
  ASSUME Typed, EmissionInv(steps)
  PROVE  /\ StepsInv(Planned) /\ EmissionInv(Planned)
         /\ Planned.status[Planned.last] = "saturated" => Planned.last = LastStep
         /\ Planned.eventCount = steps.eventCount
         /\ Planned.canProduce = steps.canProduce
         /\ Planned.last \in AllSteps /\ Planned.last \in Window(Planned)
         /\ Planned.eventCount \in [AllSteps -> Nat]
<1>1. StepsInv(steps)
  BY DEF Typed
<1>2. /\ StepsInv(Planned) /\ Planned.last \in Window(Planned)
      /\ EmissionInv(Planned)
      /\ Planned.status[Planned.last] = "saturated" => Planned.last = LastStep
      /\ Planned.eventCount = steps.eventCount
      /\ Planned.canProduce = steps.canProduce
  BY <1>1, PlannedInv, TryNextScheduledEmission, TryNextScheduledPlans DEF Planned
<1>3. Planned \in StepsType /\ Planned.last \in AllSteps
  BY <1>2, StepsTyped
<1> QED
  BY <1>2, <1>3 DEF StepsType

\* A step that delivers nothing keeps the log in agreement with the chain.
LEMMA QuietLog ==
  ASSUME LogInv, log' = log, steps'.eventCount = steps.eventCount
  PROVE  LogInv'
  BY DEF LogInv, Contract!Delivered

\* A step that delivers nothing; what it answers, beside Pending, is to be shown.
LEMMA QuietStep ==
  ASSUME ContractInv, log' = log,
         \/ reply' \in {reply, Contract!NoReply, Contract!PendingReply}
         \/ Contract!ContractNext,
         EmissionInv(steps'), steps'.eventCount = steps.eventCount,
         \A k \in AllSteps : ~steps.canProduce[k] => ~steps'.canProduce[k],
         \A c \in Channels : \/ blocked'[c] = blocked[c]
                             \/ blocked'[c].on = "interpolation" =>
                                  IsAnswer(steps', blocked'[c].base, blocked'[c].time),
         PlanInv'
  PROVE  KeepsContract
<1>1. LogInv'
  BY QuietLog DEF ContractInv
<1>2. AnswerInv'
  <2> SUFFICES ASSUME NEW c \in Channels, blocked'[c].on = "interpolation"
               PROVE  IsAnswer(steps', blocked'[c].base, blocked'[c].time)
    BY DEF AnswerInv
  <2>1. CASE blocked'[c] = blocked[c]
    <3>1. IsAnswer(steps, blocked[c].base, blocked[c].time)
      BY <2>1 DEF ContractInv, AnswerInv
    <3>2. blocked[c].base \in AllSteps
      BY <2>1, BlockedFields DEF ContractInv, Typed
    <3> QED
      BY <2>1, <3>1, <3>2 DEF IsAnswer
  <2> QED
    BY <2>1
<1>3. [Contract!ContractNext]_(Contract!contractVars)
  <2>1. CASE reply' = reply
    BY <2>1 DEF Contract!contractVars
  <2>2. CASE reply' = Contract!NoReply
    BY <2>2 DEF Contract!ContractNext, Contract!Call
  <2>3. CASE reply' = Contract!PendingReply
    BY <2>3 DEF Contract!ContractNext, Contract!Pending
  <2> QED
    BY <2>1, <2>2, <2>3
<1> QED
  BY <1>1, <1>2, <1>3 DEF KeepsContract, Contract!SharedContractNext

\* A step that leaves the chain alone while no call has still to search it.
LEMMA SameChain ==
  ASSUME ContractInv, log' = log, steps' = steps,
         \/ reply' \in {reply, Contract!NoReply, Contract!PendingReply}
         \/ Contract!ContractNext,
         \A c \in Channels : blocked'[c] = blocked[c] \/ blocked'[c].on # "interpolation",
         \/ call.op = "idle"
         \/ call.op = "poll" /\ Mine.on # "nothing"
         \/ UNCHANGED <<call, blocked>>
  PROVE  KeepsContract
<1>1. EmissionInv(steps') /\ steps'.eventCount = steps.eventCount
  BY DEF ContractInv
<1>2. PlanInv'
  BY DEF ContractInv, PlanInv, Mine
<1> QED
  BY <1>1, <1>2, QuietStep

\* The delivery of an event of the last step.
LEMMA DeliverKeepsContract ==
  ASSUME ContractInv, NEW st, StepsInv(st), EmissionInv(st),
         st.eventCount = steps.eventCount, st.canProduce = steps.canProduce,
         st.status[st.last] = "saturating", StepEmits(st, st.last),
         NEW t \in PollTimes \cup EventTimes, Deliver(st, st.last, t),
         blocked' = blocked
  PROVE  KeepsContract
<1> DEFINE k  == st.last
           ev == [step |-> k, event |-> st.produced[k] + 1]
<1>1. /\ k \in AllSteps /\ st \in StepsType
      /\ st.eventCount \in [AllSteps -> Nat] /\ st.produced[k] \in Nat
      /\ AllSteps \subseteq Nat
  BY StepsTyped, WindowSteps DEF StepsType
<1>2. /\ steps' = StepEmitted(st, k)
      /\ log' = Append(log, ev)
      /\ reply' = Contract!InterruptReply(t, StepTime[k])
      /\ log \in Seq(LogEntry)
  BY DEF Deliver, Answer, ContractInv, Typed
<1>3. /\ EmissionInv(steps')
      /\ steps'.last = k /\ steps'.status = st.status
      /\ steps'.canProduce = steps.canProduce
      /\ steps'.eventCount = [steps.eventCount EXCEPT ![k] = @ + 1]
  BY <1>2, StepEmittedEmission
<1>4. /\ st.produced[k] = steps.eventCount[k]
      /\ ev.event = steps.eventCount[k] + 1 /\ ev.step = k
      /\ ev.event \in Nat \ {0} /\ ev.event <= Emits[k]
  <2>1. st.produced[k] = steps.eventCount[k]
    BY <1>1 DEF EmissionInv
  <2>2. st.produced[k] < Emits[k] /\ Emits[k] \in Nat
    BY <1>1, EmitsAssumption DEF StepEmits
  <2> QED
    BY <1>1, <2>1, <2>2
<1>5. ev \in LogEntry /\ ev \in Contract!Events
  BY <1>1, <1>4, ContractEvents, EmitsAssumption DEF LogEntry
<1>6. /\ Contract!Delivered' = Contract!Delivered \cup {ev}
      /\ \A i \in DOMAIN log : log'[i] = log[i]
      /\ DOMAIN log' = DOMAIN log \cup {Len(log) + 1}
      /\ log'[Len(log) + 1] = ev
  BY <1>2, <1>5, AppendDelivers
<1>7. ev \notin Contract!Delivered
  <2>1. ev = [step |-> k, event |-> ev.event] /\ ~(ev.event <= steps.eventCount[k])
    BY <1>1, <1>4
  <2> QED
    BY <1>1, <1>4, <2>1 DEF LogInv, ContractInv
<1> HIDE DEF ev
<1>8. \A v \in Contract!Undelivered : v = ev \/ Contract!Precedes(ev, v)
  <2> TAKE v \in Contract!Undelivered
  <2>1. /\ v.step \in AllSteps /\ v.event \in Nat \ {0}
        /\ v = [step |-> v.step, event |-> v.event]
        /\ v.event > steps.eventCount[v.step]
        /\ v.step >= k
    BY <1>1, StillToCome DEF ContractInv
  <2>2. CASE v.step > k
    BY <1>4, <2>2 DEF Contract!Precedes
  <2>3. CASE v.step = k
    <3>1. v.event = ev.event \/ v.event > ev.event
      BY <1>1, <1>4, <2>1, <2>3
    <3>2. CASE v.event = ev.event
      <4>1. ev = [step |-> k, event |-> ev.event]
        BY DEF ev
      <4> QED
        BY <2>1, <2>3, <3>2, <4>1
    <3> QED
      BY <1>4, <2>3, <3>1, <3>2 DEF Contract!Precedes
  <2> QED
    BY <1>1, <2>1, <2>2, <2>3
<1>9. Contract!Interrupt(t) \/ Contract!InterruptAhead(t)
  <2>1. ev \in Contract!Undelivered
    BY <1>5, <1>7 DEF Contract!Undelivered
  <2>2. Contract!HandsOut(ev, t)
    BY <1>2, <1>4, <1>8, <2>1 DEF Contract!HandsOut
  <2>3. StepTime[ev.step] \in Nat /\ t \in Nat
    BY <1>1, <1>4, StepTimeAssumption, TimesAssumption
  <2>4. StepTime[ev.step] <= t \/ StepTime[ev.step] > t
    BY <2>3
  <2> QED
    BY <2>1, <2>2, <2>4 DEF Contract!Interrupt, Contract!InterruptAhead
<1>10. LogInv'
  <2>1. ASSUME NEW j \in AllSteps, NEW e \in Nat \ {0}
        PROVE  [step |-> j, event |-> e] \in Contract!Delivered' <=> e <= steps'.eventCount[j]
    <3>1. [step |-> j, event |-> e] \in Contract!Delivered <=> e <= steps.eventCount[j]
      BY DEF LogInv, ContractInv
    <3>2. [step |-> j, event |-> e] = ev <=> j = k /\ e = ev.event
      BY <1>4 DEF ev
    <3>3. steps'.eventCount[j] = IF j = k THEN steps.eventCount[j] + 1 ELSE steps.eventCount[j]
      BY <1>1, <1>3
    <3>4. steps.eventCount[j] \in Nat
      BY <1>1
    <3> QED
      BY <1>4, <1>6, <3>1, <3>2, <3>3, <3>4
  <2>2. ASSUME NEW i \in DOMAIN log', NEW j \in DOMAIN log', i < j
        PROVE  Contract!Precedes(log'[i], log'[j])
    <3>1. Len(log) \in Nat /\ DOMAIN log = 1..Len(log)
      BY <1>2
    <3>2. CASE j \in DOMAIN log
      <4>1. i \in DOMAIN log
        BY <1>6, <2>2, <3>1, <3>2
      <4> QED
        BY <1>6, <2>2, <3>2, <4>1 DEF LogInv, ContractInv
    <3>3. CASE j = Len(log) + 1
      <4>1. i \in DOMAIN log
        BY <1>6, <2>2, <3>1, <3>3
      <4>2. log[i] \in LogEntry /\ log[i] \in Contract!Delivered
        BY <1>2, <4>1 DEF Contract!Delivered
      <4>3. /\ log[i].step \in AllSteps /\ log[i].event \in Nat \ {0}
            /\ log[i] = [step |-> log[i].step, event |-> log[i].event]
        BY <4>2 DEF LogEntry
      <4>4. log[i].event <= steps.eventCount[log[i].step]
        BY <4>2, <4>3 DEF LogInv, ContractInv
      <4>5. log[i].step <= k
        <5>1. log[i].step > k => steps.eventCount[log[i].step] = 0
          BY <4>3 DEF EmissionInv
        <5> QED
          BY <1>1, <4>3, <4>4, <5>1
      <4>6. Contract!Precedes(log[i], ev)
        <5>1. /\ log[i].step \in Nat /\ k \in Nat
              /\ steps.eventCount[k] \in Nat /\ log[i].event \in Nat
          BY <1>1, <4>3
        <5>2. log[i].step < k \/ (log[i].step = k /\ log[i].event < ev.event)
          BY <1>4, <4>4, <4>5, <5>1
        <5> QED
          BY <1>4, <5>2 DEF Contract!Precedes
      <4> QED
        BY <1>6, <3>3, <4>1, <4>6
    <3> QED
      BY <1>6, <3>2, <3>3
  <2> QED
    BY <2>1, <2>2 DEF LogInv
<1>11. AnswerInv'
  <2>1. \A c \in Channels : blocked[c].on = "interpolation" =>
          IsAnswer(steps, blocked[c].base, blocked[c].time)
    BY DEF ContractInv, AnswerInv
  <2> QED
    BY <1>3, <2>1 DEF AnswerInv, IsAnswer
<1>12. PlanInv'
  BY <1>3 DEF PlanInv
<1> QED
  BY <1>3, <1>9, <1>10, <1>11, <1>12
     DEF KeepsContract, Contract!ContractNext, Contract!SharedContractNext

-----------------------------------------------------------------------------
(* The actions *)

\* Steps and their times are in the same order.
LEMMA StepOrder ==
  ASSUME NEW j \in AllSteps, NEW k \in AllSteps
  PROVE  /\ j \in Nat /\ k \in Nat /\ LastStep \in Nat /\ k <= LastStep
         /\ StepTime[j] \in Nat /\ StepTime[k] \in Nat
         /\ j < k => StepTime[j] < StepTime[k]
         /\ j < k \/ j = k \/ k < j
<1>1. j \in Nat /\ k \in Nat /\ LastStep \in Nat /\ k <= LastStep
  BY LastStepAssumption DEF AllSteps
<1>2. /\ StepTime[j] \in Nat /\ StepTime[k] \in Nat
      /\ j < k => StepTime[j] < StepTime[k]
  BY StepTimeAssumption
<1> QED
  BY <1>1, <1>2

\* A saturated step that a search finds holds the state of the time searched.
LEMMA SearchFindsAnswer ==
  ASSUME ContractInv, FreeTurn, Planned.status[Target] = "saturated"
  PROVE  IsAnswer(Planned, Target, call.time)
<1>1. /\ Target \in Window(Planned) /\ call.time \in Nat
      /\ ~BeforeFirst(Planned, call.time)
  BY TargetRetained, TimesAssumption DEF ContractInv, FreeTurn
<1>2. /\ StepsInv(Planned) /\ EmissionInv(Planned)
      /\ Planned.status[Planned.last] = "saturated" => Planned.last = LastStep
      /\ Planned.last \in AllSteps /\ Planned.last \in Window(Planned)
      /\ Window(Planned) \subseteq AllSteps /\ AllSteps \subseteq Nat
      /\ LastStep \in Nat
  BY PlannedEmission, WindowSteps, LastStepAssumption DEF ContractInv, StepsInv
<1>3. /\ \A k \in Window(Planned) : StepTime[k] <= call.time => k <= Target
      /\ StepTime[Target] <= call.time
  <2> DEFINE S == {k \in Window(Planned) : StepTime[k] <= call.time}
  <2>1. S \in SUBSET AllSteps
    BY <1>2
  <2>2. Planned.numDeleted \in S
    <3>1. /\ Planned.numDeleted \in AllSteps /\ StepTime[Planned.numDeleted] \in Nat
          /\ Planned.numDeleted \in Window(Planned)
      BY <1>2, StepTimeAssumption, WindowSteps DEF StepsInv, StepsType, Window, AllSteps
    <3> QED
      BY <1>1, <3>1 DEF BeforeFirst
  <2> QED
    BY <2>1, <2>2, MaxOfSteps DEF Target, LatestAt
<1>4. ~Planned.canProduce[Target]
  <2>1. Target < Planned.last \/ Target = Planned.last
    BY <1>1, <1>2 DEF Window
  <2> QED
    BY <1>1, <1>2, <2>1 DEF EmissionInv
<1>5. ASSUME NEW j \in AllSteps, StepTime[j] <= call.time
      PROVE  j <= Target
  <2>1. CASE j <= Planned.last
    <3>1. CASE j \in Window(Planned)
      BY <1>3, <1>5, <3>1
    <3>2. CASE j \notin Window(Planned)
      BY <1>1, <1>2, <2>1, <3>2 DEF Window, StepsInv, StepsType, AllSteps
    <3> QED
      BY <3>1, <3>2
  <2>2. CASE ~(j <= Planned.last)
    <3>1. /\ StepTime[Planned.last] < StepTime[j] /\ j > Planned.last
          /\ StepTime[Planned.last] \in Nat /\ StepTime[j] \in Nat
          /\ Planned.last \in Nat /\ j \in Nat /\ j <= LastStep
      <4>1. /\ Planned.last \in Nat /\ j \in Nat /\ j <= LastStep
            /\ StepTime[Planned.last] \in Nat /\ StepTime[j] \in Nat
            /\ Planned.last < j => StepTime[Planned.last] < StepTime[j]
        BY <1>2, StepOrder
      <4> QED
        BY <2>2, <4>1
    <3>2. StepTime[Planned.last] <= call.time
      BY <1>1, <1>5, <3>1
    <3>3. Planned.last = Target
      <4>1. Planned.last <= Target
        BY <1>2, <1>3, <3>2
      <4> QED
        BY <1>1, <1>2, <4>1 DEF Window
    <3>4. Planned.last = LastStep
      BY <1>2, <3>3
    <3> QED
      BY <1>2, <3>1, <3>4
  <2> QED
    BY <2>1, <2>2
<1> QED
  BY <1>1, <1>3, <1>4, <1>5 DEF IsAnswer, Contract!IsLatestInstant, Contract!Instants, AllSteps

\* What blocking a caller on a chain leaves to show.
LEMMA BlockOnKeepsContract ==
  ASSUME ContractInv, call.channel \in Channels, NEW st, NEW k, BlockOn(st, k),
         EmissionInv(st), st.eventCount = steps.eventCount,
         st.canProduce = steps.canProduce,
         st.status[st.last] = "saturated" => st.last = LastStep
  PROVE  KeepsContract
<1>1. steps' = st /\ UNCHANGED <<waiting, call, reply, log, fault>>
  BY DEF BlockOn
<1>2. PICK b : blocked' = [blocked EXCEPT ![call.channel] = b] /\ b.on # "interpolation"
  <2>1. OnOriginal(call.time).on # "interpolation" /\ OnRepeat(k, call.time).on # "interpolation"
    BY DEF OnOriginal, OnRepeat
  <2> QED
    BY <2>1 DEF BlockOn
<1>3. \A c \in Channels : blocked'[c] = blocked[c] \/ blocked'[c].on # "interpolation"
  BY <1>2 DEF ContractInv, Typed
<1>4. PlanInv'
  BY <1>1, LastStepAssumption DEF PlanInv
<1> QED
  BY <1>1, <1>3, <1>4, QuietStep

\* A search that blocks the caller.
LEMMA SearchesKeepContract ==
  ASSUME ContractInv,
         \/ PollFindsSaturated \/ PollFindsSaturating \/ PollFindsPreviousSaturating
         \/ PollSaturates
  PROVE  KeepsContract
<1>1. FreeTurn
  BY DEF PollFindsSaturated, PollFindsSaturating, PollFindsPreviousSaturating, PollSaturates
<1>2. call.channel \in Channels /\ Target \in Window(Planned)
  BY <1>1, TargetRetained DEF ContractInv
<1>3. /\ StepsInv(Planned) /\ EmissionInv(Planned)
      /\ Planned.status[Planned.last] = "saturated" => Planned.last = LastStep
      /\ Planned.eventCount = steps.eventCount
      /\ Planned.canProduce = steps.canProduce
  BY PlannedEmission DEF ContractInv
<1>4. CASE PollFindsSaturated
  <2>1. /\ steps' = Planned
        /\ blocked' = [blocked EXCEPT ![call.channel] = OnInterpolation(Target, call.time)]
        /\ UNCHANGED <<repeat, held, waiting, call, reply, log, fault>>
    BY <1>4 DEF PollFindsSaturated
  <2>2. IsAnswer(Planned, Target, call.time)
    BY <1>1, <1>4, SearchFindsAnswer DEF PollFindsSaturated
  <2>3. \A c \in Channels : \/ blocked'[c] = blocked[c]
                            \/ IsAnswer(steps', blocked'[c].base, blocked'[c].time)
    BY <2>1, <2>2 DEF OnInterpolation, ContractInv, Typed
  <2>4. PlanInv'
    BY <1>3, <2>1, LastStepAssumption DEF PlanInv
  <2> QED
    BY <1>3, <2>1, <2>3, <2>4, QuietStep
<1>5. CASE PollFindsSaturating
  BY <1>2, <1>3, <1>5, BlockOnKeepsContract DEF PollFindsSaturating
<1>6. CASE PollFindsPreviousSaturating
  BY <1>2, <1>3, <1>6, BlockOnKeepsContract DEF PollFindsPreviousSaturating
<1>7. CASE PollSaturates
  <2>1. /\ Planned.status[Target] = "unsaturated"
        /\ CanSaturate(Planned, Target, PinnedTimes)
        /\ BlockOn(Saturated, StaleTarget)
    BY <1>7 DEF PollSaturates
  <2>2. EmissionInv(Saturated)
    BY <1>2, <1>3, <2>1, SaturateEmission DEF Saturated
  <2>3. /\ Saturated.last = Planned.last
        /\ Saturated.eventCount = Planned.eventCount
        /\ Saturated.canProduce = Planned.canProduce
        /\ \A k \in AllSteps : Saturated.status[k] = "saturated" => Planned.status[k] = "saturated"
    BY <1>2, <1>3, <2>1, SaturateEffect DEF Saturated
  <2>4. Planned.last \in AllSteps
    BY <1>3, StepsTyped
  <2> QED
    BY <1>2, <1>3, <2>1, <2>2, <2>3, <2>4, BlockOnKeepsContract
<1> QED
  BY <1>4, <1>5, <1>6, <1>7

\* Everything up to the base of an interpolation is out, and the time told
\* for the next event comes before everything that is not.
LEMMA AnswerIsComplete ==
  ASSUME ContractInv, NEW k \in AllSteps, NEW t \in Nat, IsAnswer(steps, k, t),
         steps.status[steps.last] = "saturated" => steps.last = LastStep
  PROVE  /\ Contract!EverythingOut(t, ScheduledTime(steps))
         /\ ScheduledTime(steps)
              \in {StepTime[j] : j \in Contract!Instants} \cup {Contract!None}
<1>1. /\ EmissionInv(steps) /\ steps.last \in AllSteps
      /\ steps.eventCount \in [AllSteps -> Nat]
      /\ LogInv /\ k \in Nat /\ steps.last \in Nat
      /\ \A j \in AllSteps : j \in Nat /\ StepTime[j] \in Nat
  <2>1. steps \in StepsType /\ steps.last \in AllSteps
    BY StepsTyped DEF ContractInv, Typed
  <2>2. \A j \in AllSteps : j \in Nat /\ StepTime[j] \in Nat
    BY StepOrder
  <2> QED
    BY <2>1, <2>2 DEF ContractInv, StepsType
<1>2. ASSUME NEW v \in Contract!Undelivered
      PROVE  v.step \in AllSteps /\ steps.canProduce[v.step] /\ v.step >= steps.last
  BY <1>1, StillToCome
<1>3. ASSUME NEW v \in Contract!Undelivered
      PROVE  StepTime[v.step] > t
  <2>1. /\ v.step \in AllSteps /\ v.step >= steps.last /\ steps.canProduce[v.step]
        /\ v.step \in Nat /\ StepTime[v.step] \in Nat
    BY <1>1, <1>2
  <2>2. k <= steps.last
    <3>1. ~(k > steps.last)
      BY <1>1 DEF IsAnswer, EmissionInv
    <3> QED
      BY <1>1, <3>1
  <2>3. ~(v.step <= k)
    <3>1. v.step # k
      BY <2>1 DEF IsAnswer
    <3> QED
      BY <1>1, <2>1, <2>2, <3>1
  <2>4. ~(StepTime[v.step] <= t)
    BY <2>1, <2>3 DEF IsAnswer, Contract!IsLatestInstant, Contract!Instants, AllSteps
  <2> QED
    BY <2>1, <2>4
<1>4. CASE steps.status[steps.last] = "saturated"
  <2>1. ScheduledTime(steps) = Contract!None
    BY <1>4 DEF ScheduledTime, Never, Contract!None
  <2>2. Contract!Undelivered = {}
    <3> SUFFICES ASSUME NEW v \in Contract!Undelivered
                 PROVE  FALSE
      OBVIOUS
    <3>1. v.step = steps.last
      <4>1. /\ v.step \in AllSteps /\ v.step >= steps.last /\ steps.last = LastStep
            /\ v.step \in Nat
        BY <1>1, <1>2, <1>4
      <4>2. v.step <= LastStep
        BY <4>1, StepOrder
      <4> QED
        BY <1>1, <4>1, <4>2
    <3> QED
      BY <1>1, <1>2, <1>4, <3>1 DEF EmissionInv
  <2> QED
    BY <2>1, <2>2 DEF Contract!EverythingOut
<1>5. CASE steps.status[steps.last] # "saturated"
  <2>1. ScheduledTime(steps) = StepTime[steps.last] /\ StepTime[steps.last] \in Nat
    BY <1>1, <1>5, StepTimeAssumption DEF ScheduledTime
  <2>2. StepTime[steps.last] > t
    <3>1. steps.canProduce[steps.last]
      BY <1>5, <1>1 DEF EmissionInv
    <3>2. ~(steps.last <= k)
      <4>1. ~(k > steps.last) /\ k # steps.last
        BY <3>1 DEF IsAnswer, EmissionInv, ContractInv
      <4> QED
        BY <1>1, <4>1
    <3>3. ~(StepTime[steps.last] <= t)
      BY <1>1, <3>2 DEF IsAnswer, Contract!IsLatestInstant, Contract!Instants, AllSteps
    <3> QED
      BY <2>1, <3>3
  <2>3. \A v \in Contract!Undelivered : StepTime[v.step] >= StepTime[steps.last]
    <3> TAKE v \in Contract!Undelivered
    <3>1. v.step \in AllSteps /\ v.step >= steps.last
      BY <1>2
    <3>2. v.step \in Nat /\ StepTime[v.step] \in Nat
      BY <1>1, <3>1
    <3>3. v.step = steps.last \/ steps.last < v.step
      BY <1>1, <3>1, <3>2
    <3>4. steps.last < v.step => StepTime[steps.last] < StepTime[v.step]
      BY <1>1, <3>1, StepTimeAssumption
    <3> QED
      BY <2>1, <3>2, <3>3, <3>4
  <2>4. StepTime[steps.last] # Contract!None
    BY <2>1 DEF Contract!None
  <2> QED
    BY <1>1, <1>3, <2>1, <2>2, <2>3, <2>4
       DEF Contract!EverythingOut, Contract!Instants, AllSteps
<1> QED
  BY <1>4, <1>5

\* The beginning of a call, a panic, a release and the wakers.
LEMMA CallsKeepContract ==
  ASSUME ContractInv,
         \/ \E c \in Channels, t \in PollTimes : CallPoll(c, t)
         \/ \E t \in EventTimes : CallPollEvents(t)
         \/ \E why : Panic(why)
         \/ \E c \in Channels : ReleaseChannel(c) \/ WakeInterpolation(c)
         \/ \E k \in AllSteps : WakeStep(k)
         \/ UNCHANGED vars
  PROVE  KeepsContract
<1>1. ASSUME NEW c \in Channels, NEW t \in PollTimes, CallPoll(c, t)
      PROVE  KeepsContract
  BY <1>1, SameChain DEF CallPoll, Turn
<1>2. ASSUME NEW t \in EventTimes, CallPollEvents(t)
      PROVE  KeepsContract
  BY <1>2, SameChain DEF CallPollEvents, Turn
<1>3. ASSUME NEW why, Panic(why)
      PROVE  KeepsContract
  BY <1>3, SameChain DEF Panic
<1>4. ASSUME NEW c \in Channels, ReleaseChannel(c)
      PROVE  KeepsContract
  <2>1. /\ blocked' = [blocked EXCEPT ![c] = NotBlocked]
        /\ UNCHANGED <<steps, reply, log>> /\ call.op = "idle"
    BY <1>4 DEF ReleaseChannel, Turn
  <2>2. \A d \in Channels : blocked'[d] = blocked[d] \/ blocked'[d].on # "interpolation"
    BY <2>1 DEF NotBlocked, ContractInv, Typed
  <2> QED
    BY <2>1, <2>2, SameChain
<1>5. ASSUME NEW c \in Channels, WakeInterpolation(c)
      PROVE  KeepsContract
  BY <1>5, SameChain DEF WakeInterpolation
<1>6. ASSUME NEW k \in AllSteps, WakeStep(k)
      PROVE  KeepsContract
  BY <1>6, SameChain DEF WakeStep
<1>7. CASE UNCHANGED vars
  BY <1>7, SameChain DEF vars
<1> QED
  BY <1>1, <1>2, <1>3, <1>4, <1>5, <1>6, <1>7

\* A poll of a blocked channel that moves at most this channel.
LEMMA BlockedPollsKeepContract ==
  ASSUME ContractInv,
         \/ PollAbandons
         \/ PollInterpolationPends \/ PollInterpolationReady
         \/ PollOriginalPends
         \/ PollRepeatRegisters \/ PollRepeatPends
  PROVE  KeepsContract
<1>1. /\ Turn("poll") /\ Mine.on # "nothing"
      /\ UNCHANGED <<steps, log>>
      /\ blocked' \in {blocked, [blocked EXCEPT ![call.channel] = NotBlocked]}
  BY DEF PollAbandons, PollInterpolationPends, PollInterpolationReady, PollOriginalPends,
     PollRepeatRegisters, PollRepeatPends, OriginalTurn, RepeatTurn, PollTurn
<1>2. /\ call.op = "poll"
      /\ call.channel \in Channels /\ call.time \in PollTimes /\ call.time \in Nat
      /\ Mine \in BlockedType
  BY <1>1, PollCallFields, BlockedTurn DEF Turn, ContractInv, Typed
<1>3. \A c \in Channels : blocked'[c] = blocked[c] \/ blocked'[c].on # "interpolation"
  BY <1>1 DEF NotBlocked, ContractInv, Typed
<1>4. CASE PollInterpolationReady
  <2>1. /\ Mine.on = "interpolation" /\ Mine.time = call.time
        /\ reply' = Contract!StateReply(call.time, Mine.base, ScheduledTime(steps))
    BY <1>4 DEF PollInterpolationReady, PollTurn, Answer
  <2>2. IsAnswer(steps, Mine.base, call.time) /\ Mine.base \in AllSteps
    BY <1>2, <2>1, BlockedFields DEF ContractInv, AnswerInv, Mine
  <2>3. steps.status[steps.last] = "saturated" => steps.last = LastStep
    <3>1. ~(steps.status[steps.last] = "saturated" /\ steps.last < LastStep)
      BY <1>1, <1>2 DEF ContractInv, PlanInv
    <3>2. steps.last \in AllSteps
      BY StepsTyped DEF ContractInv, Typed
    <3>3. steps.last \in Nat /\ LastStep \in Nat /\ steps.last <= LastStep
      BY <3>2, StepOrder
    <3> QED
      BY <3>1, <3>3
  <2>4. /\ Contract!EverythingOut(call.time, ScheduledTime(steps))
        /\ ScheduledTime(steps)
              \in {StepTime[j] : j \in Contract!Instants} \cup {Contract!None}
    BY <1>2, <2>2, <2>3, AnswerIsComplete
  <2>5. Contract!ReadyWithState(call.time)
    BY <1>1, <2>1, <2>2, <2>4
       DEF Contract!ReadyWithState, IsAnswer, Contract!Instants, AllSteps
  <2> QED
    BY <1>1, <1>2, <1>3, <2>5, SameChain DEF Contract!ContractNext
<1>5. CASE ~PollInterpolationReady
  <2>1. reply' \in {reply, Contract!NoReply, Contract!PendingReply}
    BY <1>5 DEF PollAbandons, PollInterpolationPends, PollOriginalPends,
       PollRepeatRegisters, PollRepeatPends, Answer
  <2> QED
    BY <1>1, <1>2, <1>3, <2>1, SameChain
<1> QED
  BY <1>4, <1>5

\* A poll that completes the step its channel waits for.
LEMMA CompletionsKeepContract ==
  ASSUME ContractInv, PollOriginalReady \/ PollRepeatReady
  PROVE  KeepsContract
<1>1. /\ Turn("poll")
      /\ blocked' = [blocked EXCEPT ![call.channel] = NotBlocked]
      /\ UNCHANGED <<call, reply, log>>
  BY DEF PollOriginalReady, PollRepeatReady, OriginalTurn, RepeatTurn, PollTurn
<1>2. /\ call.op = "poll" /\ call.channel \in Channels /\ steps.last \in AllSteps
      /\ Mine.on = "repeat" => Mine.step \in AllSteps
  BY <1>1, BlockedTurn DEF Turn, ContractInv
<1>3. PICK k \in AllSteps : /\ steps.status[k] = "saturating" /\ ~StepEmits(steps, k)
                            /\ steps' = StepReady(steps, k)
  BY <1>2 DEF PollOriginalReady, PollRepeatReady, OriginalTurn, RepeatTurn, PollTurn
<1>4. /\ EmissionInv(steps') /\ steps'.eventCount = steps.eventCount
      /\ \A j \in AllSteps : ~steps.canProduce[j] => ~steps'.canProduce[j]
  BY <1>3, StepReadyEmission DEF ContractInv, Typed
<1>5. \A c \in Channels : blocked'[c] = blocked[c] \/ blocked'[c].on # "interpolation"
  BY <1>1 DEF NotBlocked, ContractInv, Typed
<1>6. PlanInv'
  <2>1. Mine' = NotBlocked
    BY <1>1, <1>2 DEF Mine, ContractInv, Typed
  <2> QED
    BY <1>1, <1>2, <2>1 DEF PlanInv, NotBlocked
<1> QED
  BY <1>1, <1>4, <1>5, <1>6, QuietStep

\* The chain poll_events polls the last step of.
LEMMA LastSaturatingEmission ==
  ASSUME ContractInv, EventsTurn
  PROVE  /\ StepsInv(LastSaturating) /\ EmissionInv(LastSaturating)
         /\ LastSaturating.last = Planned.last
         /\ LastSaturating.status[Planned.last] = "saturating"
         /\ LastSaturating.eventCount = steps.eventCount
         /\ LastSaturating.canProduce = steps.canProduce
<1>1. /\ StepsInv(Planned) /\ EmissionInv(Planned) /\ Planned.last \in Window(Planned)
      /\ Planned.eventCount = steps.eventCount /\ Planned.canProduce = steps.canProduce
  BY PlannedEmission DEF ContractInv
<1>2. /\ StepsInv(LastSaturating)
      /\ LastSaturating.status[Planned.last] = "saturating"
  BY LastSaturatingInv DEF ContractInv
<1>3. CASE Planned.status[Planned.last] = "unsaturated"
  <2>1. CanSaturate(Planned, Planned.last, PinnedTimes)
    BY <1>3 DEF EventsTurn
  <2> QED
    BY <1>1, <1>2, <1>3, <2>1, SaturateEmission, SaturateEffect DEF LastSaturating
<1>4. CASE Planned.status[Planned.last] # "unsaturated"
  BY <1>1, <1>2, <1>4 DEF LastSaturating
<1> QED
  BY <1>3, <1>4

\* The delivery of an event, to the caller of poll or of poll_events.
LEMMA EmitsKeepContract ==
  ASSUME ContractInv, PollOriginalEmits \/ EventsEmits
  PROVE  KeepsContract
<1>1. CASE PollOriginalEmits
  <2>1. /\ Turn("poll") /\ steps.status[steps.last] = "saturating"
        /\ StepEmits(steps, steps.last) /\ Deliver(steps, steps.last, call.time)
        /\ blocked' = blocked
    BY <1>1 DEF PollOriginalEmits, OriginalTurn, PollTurn
  <2>2. call.time \in PollTimes
    BY <2>1, PollCallFields DEF Turn, ContractInv, Typed
  <2>3. StepsInv(steps) /\ EmissionInv(steps)
    BY DEF ContractInv, Typed
  <2> QED
    BY <2>1, <2>2, <2>3, DeliverKeepsContract
<1>2. CASE EventsEmits
  <2>1. /\ EventsTurn /\ call.op = "events"
        /\ StepEmits(LastSaturating, Planned.last)
        /\ Deliver(LastSaturating, Planned.last, call.time)
        /\ blocked' = blocked
    BY <1>2 DEF EventsEmits, EventsTurn, Turn
  <2>2. call.time \in EventTimes
    BY <2>1, EventsCallFields DEF ContractInv, Typed
  <2> QED
    BY <2>1, <2>2, LastSaturatingEmission, DeliverKeepsContract
<1> QED
  BY <1>1, <1>2

\* poll_events with nothing outstanding says when the next event may come.
LEMMA EventsReadyKeepsContract ==
  ASSUME ContractInv, EventsReady
  PROVE  KeepsContract
<1>1. /\ Turn("events") /\ ~EventsOutstanding
      /\ steps' = Planned /\ log' = log /\ blocked' = blocked
      /\ reply' = Contract!EventsReply(call.time,
           IF Planned.canProduce[Planned.last] THEN StepTime[Planned.last] ELSE Never)
  BY DEF EventsReady, Answer
<1>2. call.time \in EventTimes /\ call.time \in Nat
  BY <1>1, EventsCallFields DEF Turn, ContractInv, Typed
<1>3. /\ EmissionInv(Planned) /\ Planned.last \in AllSteps
      /\ Planned.status[Planned.last] = "saturated" => Planned.last = LastStep
      /\ Planned.eventCount = steps.eventCount /\ Planned.canProduce = steps.canProduce
      /\ Planned.eventCount \in [AllSteps -> Nat]
      /\ Planned.last \in Nat /\ StepTime[Planned.last] \in Nat
  BY PlannedEmission, StepOrder DEF ContractInv
<1>4. ASSUME NEW v \in Contract!Undelivered
      PROVE  /\ v.step \in AllSteps /\ v.step \in Nat /\ v.step <= LastStep
             /\ Planned.canProduce[v.step]
             /\ v.step >= Planned.last /\ StepTime[v.step] >= StepTime[Planned.last]
             /\ StepTime[v.step] \in Nat
  <2>1. v.step \in AllSteps /\ Planned.canProduce[v.step] /\ v.step >= Planned.last
    BY <1>3, StillToCome DEF ContractInv
  <2>2. /\ v.step \in Nat /\ StepTime[v.step] \in Nat /\ v.step <= LastStep
        /\ Planned.last < v.step => StepTime[Planned.last] < StepTime[v.step]
        /\ Planned.last < v.step \/ Planned.last = v.step \/ v.step < Planned.last
    BY <1>3, <2>1, StepOrder
  <2> QED
    BY <1>3, <2>1, <2>2
<1>5. Contract!ReadyWithoutState(call.time)
  <2>1. CASE Planned.canProduce[Planned.last]
    <3>1. reply' = Contract!EventsReply(call.time, StepTime[Planned.last])
      BY <1>1, <2>1
    <3>2. StepTime[Planned.last] > call.time
      BY <1>1, <1>2, <1>3, <2>1 DEF EventsOutstanding
    <3>3. \A v \in Contract!Undelivered : StepTime[v.step] > call.time
      BY <1>2, <1>3, <1>4, <3>2
    <3>4. StepTime[Planned.last] # Contract!None
      BY <1>3 DEF Contract!None
    <3>5. Contract!EverythingOut(call.time, StepTime[Planned.last])
      BY <1>4, <3>2, <3>3, <3>4 DEF Contract!EverythingOut
    <3> QED
      BY <1>1, <1>3, <3>1, <3>5 DEF Contract!ReadyWithoutState, Contract!Instants, AllSteps
  <2>2. CASE ~Planned.canProduce[Planned.last]
    <3>1. reply' = Contract!EventsReply(call.time, Contract!None)
      BY <1>1, <2>2 DEF Never, Contract!None
    <3>2. Planned.last = LastStep
      BY <1>3, <2>2 DEF EmissionInv
    <3>3. Contract!Undelivered = {}
      <4> SUFFICES ASSUME NEW v \in Contract!Undelivered
                   PROVE  FALSE
        OBVIOUS
      <4>1. v.step = Planned.last
        BY <1>3, <1>4, <3>2
      <4> QED
        BY <1>4, <2>2, <4>1
    <3>4. Contract!EverythingOut(call.time, Contract!None)
      BY <3>3 DEF Contract!EverythingOut
    <3> QED
      BY <1>1, <3>1, <3>4 DEF Contract!ReadyWithoutState
  <2> QED
    BY <2>1, <2>2
<1>6. PlanInv'
  BY <1>1, <1>3 DEF PlanInv
<1> QED
  BY <1>1, <1>2, <1>3, <1>5, <1>6, QuietStep DEF Contract!ContractNext

\* The other turns of poll_events.
LEMMA EventsTurnsKeepContract ==
  ASSUME ContractInv, EventsTurns
  PROVE  KeepsContract
<1>1. CASE EventsReady
  BY <1>1, EventsReadyKeepsContract
<1>2. CASE EventsEmits
  BY <1>2, EmitsKeepContract
<1>3. CASE EventsPends
  <2>1. /\ EventsTurn /\ steps' = LastSaturating /\ log' = log /\ blocked' = blocked
        /\ reply' = Contract!PendingReply
    BY <1>3 DEF EventsPends, Answer
  <2>2. /\ EmissionInv(LastSaturating) /\ LastSaturating.last = Planned.last
        /\ LastSaturating.status[Planned.last] = "saturating"
        /\ LastSaturating.eventCount = steps.eventCount
        /\ LastSaturating.canProduce = steps.canProduce
    BY <2>1, LastSaturatingEmission
  <2>3. PlanInv'
    BY <2>1, <2>2 DEF PlanInv
  <2> QED
    BY <2>1, <2>2, <2>3, QuietStep
<1>4. CASE EventsStepReady
  <2>1. /\ EventsTurn /\ ~StepEmits(LastSaturating, Planned.last)
        /\ steps' = StepReady(LastSaturating, Planned.last)
        /\ UNCHANGED <<blocked, call, reply, log>>
        /\ call.op = "events"
    BY <1>4 DEF EventsStepReady, EventsTurn, Turn
  <2>2. /\ StepsInv(LastSaturating) /\ EmissionInv(LastSaturating)
        /\ LastSaturating.status[Planned.last] = "saturating"
        /\ LastSaturating.eventCount = steps.eventCount
        /\ LastSaturating.canProduce = steps.canProduce
        /\ Planned.last \in AllSteps
    BY <2>1, LastSaturatingEmission, LastSaturatingInv DEF ContractInv
  <2>3. /\ EmissionInv(steps') /\ steps'.eventCount = steps.eventCount
        /\ \A j \in AllSteps : ~steps.canProduce[j] => ~steps'.canProduce[j]
    BY <2>1, <2>2, StepReadyEmission
  <2>4. PlanInv'
    BY <2>1 DEF PlanInv
  <2> QED
    BY <2>1, <2>3, <2>4, QuietStep
<1>5. CASE EventsPanics
  BY <1>5, CallsKeepContract DEF EventsPanics
<1> QED
  BY <1>1, <1>2, <1>3, <1>4, <1>5 DEF EventsTurns

\* advance gives up steps that have emitted everything.
LEMMA AdvanceKeepsContract ==
  ASSUME ContractInv, NEW t \in AdvanceTimes, Advance(t)
  PROVE  KeepsContract
<1>1. /\ call.op = "idle" /\ ~BeforeFirst(steps, t) /\ t \in Nat
      /\ steps' = DeleteBefore(steps, t)
      /\ UNCHANGED <<blocked, call, reply, log>>
  BY TimesAssumption DEF Advance, Turn
<1>2. StepsInv(steps) /\ EmissionInv(steps)
  BY DEF ContractInv, Typed
<1>3. /\ EmissionInv(steps') /\ steps'.last = steps.last
      /\ steps'.eventCount = steps.eventCount
      /\ steps'.canProduce = steps.canProduce
      /\ steps'.status[steps.last] = steps.status[steps.last]
  BY <1>1, <1>2, DeleteBeforeEmission
<1>4. PlanInv'
  BY <1>1, <1>3 DEF PlanInv, ContractInv
<1> QED
  BY <1>1, <1>3, <1>4, QuietStep

\* Every step of the source keeps the invariants and is one of the contract.
LEMMA ContractStep ==
  ASSUME ContractInv, [Next]_vars
  PROVE  KeepsContract
<1>1. CASE PollTurns
  <2>1. CASE \/ PollIndexIsStale \/ PollPinUnderflows \/ PollLoopsForever
             \/ PollBeforeFirstStep \/ PollOriginalGone \/ PollRepeatGone
    BY <2>1, CallsKeepContract
       DEF PollIndexIsStale, PollPinUnderflows, PollLoopsForever,
           PollBeforeFirstStep, PollOriginalGone, PollRepeatGone
  <2> QED
    BY <1>1, <2>1, SearchesKeepContract, BlockedPollsKeepContract,
       CompletionsKeepContract, EmitsKeepContract DEF PollTurns
<1>2. CASE EventsTurns
  BY <1>2, EventsTurnsKeepContract
<1>3. ASSUME NEW t \in AdvanceTimes, Advance(t)
      PROVE  KeepsContract
  BY <1>3, AdvanceKeepsContract
<1>4. CASE \/ \E c \in Channels, t \in PollTimes : CallPoll(c, t)
           \/ \E t \in EventTimes : CallPollEvents(t)
           \/ \E c \in Channels : ReleaseChannel(c) \/ WakeInterpolation(c)
           \/ \E t \in AdvanceTimes : AdvanceBeforeFirstStep(t)
           \/ \E k \in AllSteps : WakeStep(k)
           \/ UNCHANGED vars
  BY <1>4, CallsKeepContract DEF AdvanceBeforeFirstStep
<1> QED
  BY <1>1, <1>2, <1>3, <1>4 DEF Next

\* The source starts with nothing emitted and nothing to answer.
LEMMA ContractStarts ==
  ASSUME Init
  PROVE  ContractInv /\ Contract!ContractInit
<1>1. Typed /\ EmissionInv(steps)
  BY TypedInit, NewStepsEmission DEF Init
<1>2. LogInv
  BY DEF Init, LogInv, Contract!Delivered, NewSteps
<1>3. AnswerInv
  BY DEF Init, AnswerInv, NotBlocked
<1>4. PlanInv
  BY LastStepAssumption DEF Init, PlanInv, NewSteps, AllSteps
<1> QED
  BY <1>1, <1>2, <1>3, <1>4 DEF ContractInv, Init, Contract!ContractInit

-----------------------------------------------------------------------------
(* The answer stays true *)

\* As long as it stands, an answer says the truth: the state is the one at the
\* time asked, and nothing is left before the time announced.
ReplyInv ==
  /\ reply.kind = "state" => Contract!IsLatestInstant(reply.base, reply.time)
  /\ reply.kind \in {"state", "events"} => Contract!EverythingOut(reply.time, reply.next)

\* No step of the contract makes an answer untrue.
LEMMA AnswersStayTrue ==
  ASSUME ReplyInv, [Contract!SharedContractNext]_(Contract!contractVars)
  PROVE  ReplyInv'
<1>1. CASE UNCHANGED Contract!contractVars
  <2>1. reply' = reply /\ log' = log
    BY <1>1 DEF Contract!contractVars
  <2> QED
    BY <2>1 DEF ReplyInv, Contract!IsLatestInstant, Contract!EverythingOut,
       Contract!Undelivered, Contract!Delivered
<1>2. CASE Contract!Call \/ Contract!Pending
  BY <1>2 DEF Contract!Call, Contract!Pending, Contract!NoReply, Contract!PendingReply, ReplyInv
<1>3. ASSUME NEW t, Contract!Interrupt(t) \/ Contract!InterruptAhead(t)
      PROVE  ReplyInv'
  BY <1>3 DEF Contract!Interrupt, Contract!InterruptAhead, Contract!HandsOut,
     Contract!InterruptReply, ReplyInv
<1>4. ASSUME NEW t, Contract!ReadyWithState(t)
      PROVE  ReplyInv'
  <2>1. PICK k, hint :
          /\ Contract!IsLatestInstant(k, t) /\ Contract!EverythingOut(t, hint)
          /\ reply' = Contract!StateReply(t, k, hint) /\ log' = log
    BY <1>4 DEF Contract!ReadyWithState
  <2>2. reply'.base = k /\ reply'.time = t /\ reply'.next = hint
    BY <2>1 DEF Contract!StateReply
  <2>3. Contract!Undelivered' = Contract!Undelivered
    BY <2>1 DEF Contract!Undelivered, Contract!Delivered, Contract!Events
  <2> QED
    BY <2>1, <2>2, <2>3 DEF ReplyInv, Contract!IsLatestInstant, Contract!EverythingOut
<1>5. ASSUME NEW t, Contract!ReadyWithoutState(t)
      PROVE  ReplyInv'
  <2>1. PICK hint :
          /\ Contract!EverythingOut(t, hint)
          /\ reply' = Contract!EventsReply(t, hint) /\ log' = log
    BY <1>5 DEF Contract!ReadyWithoutState
  <2>2. reply'.kind = "events" /\ reply'.time = t /\ reply'.next = hint
    BY <2>1 DEF Contract!EventsReply
  <2>3. Contract!Undelivered' = Contract!Undelivered
    BY <2>1 DEF Contract!Undelivered, Contract!Delivered, Contract!Events
  <2> QED
    BY <2>1, <2>2, <2>3 DEF ReplyInv, Contract!EverythingOut
<1> QED
  BY <1>1, <1>2, <1>3, <1>4, <1>5 DEF Contract!ContractNext, Contract!SharedContractNext

-----------------------------------------------------------------------------
(* The contract of a source that is not shared *)

\* A step of the shared contract that hands out no event early is one of the
\* contract.
LEMMA NothingEarly ==
  ASSUME [Contract!SharedContractNext]_(Contract!contractVars),
         EventsComeBeforeTheState'
  PROVE  [Contract!ContractNext]_(Contract!contractVars)
<1>1. ASSUME NEW t \in PollTimes \cup EventTimes, Contract!InterruptAhead(t)
      PROVE  FALSE
  <2>1. PICK ev \in Contract!Undelivered :
          StepTime[ev.step] > t /\ reply' = Contract!InterruptReply(t, StepTime[ev.step])
    BY <1>1 DEF Contract!InterruptAhead, Contract!HandsOut
  <2>2. ev.step \in AllSteps
    BY ContractEvents DEF Contract!Undelivered
  <2>3. StepTime[ev.step] \in Nat /\ t \in Nat
    BY <2>2, StepOrder, TimesAssumption
  <2>4. reply'.kind = "interrupt" /\ reply'.time = t /\ reply'.at = StepTime[ev.step]
    BY <2>1 DEF Contract!InterruptReply
  <2>5. StepTime[ev.step] <= t
    BY <2>4 DEF EventsComeBeforeTheState
  <2> QED
    BY <2>1, <2>3, <2>5
<1> QED
  BY <1>1 DEF Contract!SharedContractNext

-----------------------------------------------------------------------------
(* The theorems *)

\* The invariants that carry the contract hold in every behaviour.
THEOREM AlwaysContractInv == Spec => []ContractInv
<1>1. Init => ContractInv
  BY ContractStarts
<1>2. ContractInv /\ [Next]_vars => ContractInv'
  BY ContractStep, TypedStep DEF ContractInv, KeepsContract
<1> QED
  BY <1>1, <1>2, PTL DEF Spec

\* Callers that share a NoInputTransposerSource see one list of events, each
\* delivered once and in order, and one state for each time, given only with
\* every event at or before it delivered: polls, event polls, releases,
\* advances, wake-ups and the recomputation of steps are not visible, whatever
\* the channels, times, steps and checkpoints.  That an event comes no later
\* than the time polled is not part of it.
THEOREM SourceImplementsSharedContract == Spec => ImplementsSharedContract
<1>1. Init => Contract!ContractInit
  BY ContractStarts
<1>2. ContractInv /\ [Next]_vars => [Contract!SharedContractNext]_(Contract!contractVars)
  BY ContractStep DEF KeepsContract
<1> QED
  BY <1>1, <1>2, AlwaysContractInv, PTL
     DEF Spec, ImplementsSharedContract, Contract!SharedContractSpec

\* Steps recomputed after a desaturation swallow their events: each event
\* reaches the caller once and in order, and a step is done only with all its
\* events delivered.
THEOREM EventsAlwaysDeliveredOnceInOrder == Spec => []EventsDeliveredOnceInOrder
<1>1. ContractInv => EventsDeliveredOnceInOrder
  <2> SUFFICES ASSUME ContractInv
               PROVE  EventsDeliveredOnceInOrder
    OBVIOUS
  <2>1. ASSUME NEW k \in AllSteps, NEW e \in 1..Emits[k]
        PROVE  /\ ~steps.canProduce[k] => [step |-> k, event |-> e] \in Contract!Delivered
               /\ steps.status[k] = "saturating" =>
                    ([step |-> k, event |-> e] \in Contract!Delivered
                       <=> e <= steps.produced[k])
    <3>1. Emits[k] \in Nat
      BY EmitsAssumption
    <3>2. e \in Nat \ {0} /\ e <= Emits[k]
      BY <3>1
    <3>3. [step |-> k, event |-> e] \in Contract!Delivered <=> e <= steps.eventCount[k]
      BY <3>2 DEF ContractInv, LogInv
    <3> QED
      BY <3>2, <3>3 DEF ContractInv, EmissionInv
  <2> QED
    BY <2>1 DEF ContractInv, LogInv, EventsDeliveredOnceInOrder
<1> QED
  BY <1>1, AlwaysContractInv, PTL
=============================================================================
