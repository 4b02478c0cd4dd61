-------------------------- MODULE SharedStep_proofs --------------------------
(***************************************************************************)
(* The events of one step, for transposers of every length: however often  *)
(* the step is given up and computed anew, its events are delivered once   *)
(* and in order, what is awaited is delivered, and the channel overflows   *)
(* only for a transposer that leaves two emissions unawaited.              *)
(*                                                                         *)
(* Callers that share the computation of a step use its future as          *)
(* StepFuture says, so what is proved of it holds for them; and as long as *)
(* nobody was left behind on the step, none of them is forgotten, for any  *)
(* number of channels and of wakes under way.                              *)
(***************************************************************************)
EXTENDS SharedStep, FiniteSetTheorems, TLAPS

-----------------------------------------------------------------------------
(* The instructions of a transposer *)

Instructions == {"await", "send", "wait"}

\* All that the program emits.
Total == Event(Len(program))

-----------------------------------------------------------------------------
(* Numbering the events *)

\* The number of an event is that of the instruction before, and one more if it emits.
LEMMA EventCounts ==
  ASSUME program \in Seq(Instructions)
  PROVE  /\ Event(0) = 0
         /\ \A i \in Nat : Event(i) \in Nat
         /\ \A i \in 1..Len(program) :
              Event(i) = IF Emits(i) THEN Event(i - 1) + 1 ELSE Event(i - 1)
<1> DEFINE E(i) == {j \in 1..i : Emits(j)}
<1>1. \A i \in Nat : IsFiniteSet(E(i)) /\ Cardinality(E(i)) \in Nat
  <2> TAKE i \in Nat
  <2>1. IsFiniteSet(1..i)
    BY FS_Interval
  <2>2. E(i) \in SUBSET (1..i)
    OBVIOUS
  <2> HIDE DEF E
  <2>3. IsFiniteSet(E(i))
    BY <2>1, <2>2, FS_Subset
  <2> QED
    BY <2>3, FS_CardinalityType
<1>2. Event(0) = 0
  <2>1. {j \in 1..0 : Emits(j)} = {}
    OBVIOUS
  <2> QED
    BY <2>1, FS_EmptySet DEF Event
<1>3. \A i \in Nat : Event(i) = Cardinality(E(i))
  BY DEF Event
<1>4. ASSUME NEW i \in 1..Len(program)
      PROVE  Cardinality(E(i)) = IF Emits(i) THEN Cardinality(E(i - 1)) + 1
                                             ELSE Cardinality(E(i - 1))
  <2>1. i - 1 \in Nat
    OBVIOUS
  <2>2. CASE Emits(i)
    <3>1. E(i) = E(i - 1) \cup {i} /\ i \notin E(i - 1)
      <4>1. 1..i = (1..(i - 1)) \cup {i} /\ i \notin 1..(i - 1)
        OBVIOUS
      <4> QED
        BY <4>1, <2>2
    <3> HIDE DEF E
    <3> QED
      BY <3>1, <2>1, <2>2, <1>1, FS_AddElement
  <2>3. CASE ~Emits(i)
    <3>1. E(i) = E(i - 1)
      <4>1. 1..i = (1..(i - 1)) \cup {i}
        OBVIOUS
      <4> QED
        BY <4>1, <2>3
    <3> QED
      BY <3>1, <2>3
  <2> QED
    BY <2>2, <2>3
<1> HIDE DEF E
<1>5. \A i \in 1..Len(program) : i \in Nat /\ i - 1 \in Nat
  OBVIOUS
<1> QED
  BY <1>1, <1>2, <1>3, <1>4, <1>5

\* Later instructions have later events, so no number exceeds the total.
LEMMA EventsGrow ==
  ASSUME program \in Seq(Instructions), NEW i \in 0..Len(program)
  PROVE  Event(i) <= Total
<1>1. IsFiniteSet(1..Len(program))
  BY FS_Interval
<1>2. {j \in 1..Len(program) : Emits(j)} \in SUBSET (1..Len(program))
  OBVIOUS
<1>3. IsFiniteSet({j \in 1..Len(program) : Emits(j)})
  BY <1>1, <1>2, FS_Subset
<1>4. {j \in 1..i : Emits(j)} \in SUBSET {j \in 1..Len(program) : Emits(j)}
  <2>1. 1..i \subseteq 1..Len(program)
    OBVIOUS
  <2> QED
    BY <2>1
<1> QED
  BY <1>3, <1>4, FS_Subset DEF Total, Event

-----------------------------------------------------------------------------
(* Types *)

FlagsTyped == polling \in BOOLEAN /\ can_produce_events \in BOOLEAN

DataTyped ==
  /\ program \in Seq(Instructions)
  /\ status \in {"unsaturated", "saturating", "saturated", "panicked"}
  /\ at \in 1..(Len(program) + 1)
  /\ outputs_to_swallow \in Nat
  /\ channel \in Seq(Nat)
  /\ awaiting \in Nat
  /\ event_count \in Nat
  /\ delivered \in Seq(Nat)

\* The programs are sequences of instructions, and a new step has its types.
LEMMA TypedInit == Init => FlagsTyped /\ DataTyped
<1>1. SUFFICES ASSUME Init PROVE FlagsTyped /\ DataTyped
  OBVIOUS
<1>2. PICK n \in 0..MaxLength : program \in [1..n -> Instructions]
  BY <1>1 DEF Init, SeqOf, Instructions
<1>3. program \in Seq(Instructions) /\ Len(program) \in Nat
  BY <1>2, MaxLengthAssumption
<1>4. FlagsTyped
  BY <1>1 DEF Init, FlagsTyped
<1>5. DataTyped
  BY <1>1, <1>3 DEF Init, DataTyped
<1> QED
  BY <1>4, <1>5

\* Every step leaves the flags Boolean.
LEMMA FlagsStep == FlagsTyped /\ [Next]_vars => FlagsTyped'
BY Zenon DEF FlagsTyped, Next, vars, Saturate, Desaturate, Poll, EmitSwallowed, Emit, EmitPanics,
             WaitIsOver, PollEmitted, PollPending, PollReady

\* No step changes the program.
LEMMA ProgramIsFixed == [Next]_vars => program' = program
BY Zenon DEF Next, vars, Saturate, Desaturate, Poll, EmitSwallowed, Emit, EmitPanics,
             WaitIsOver, PollEmitted, PollPending, PollReady

\* Each step keeps the types.
LEMMA DataStep == DataTyped /\ [Next]_vars => DataTyped'
<1>1. SUFFICES ASSUME DataTyped, [Next]_vars PROVE DataTyped'
  OBVIOUS
<1> USE <1>1 DEF DataTyped
<1>2. \A i \in Nat : Event(i) \in Nat
  BY EventCounts
<1>3. CASE Saturate
  BY <1>3 DEF Saturate
<1>4. CASE Desaturate
  BY <1>4 DEF Desaturate
<1>5. CASE Poll
  BY <1>5 DEF Poll
<1>6. CASE EmitSwallowed
  BY <1>6 DEF EmitSwallowed, Runs
<1>7. CASE Emit
  BY <1>2, <1>7 DEF Emit, Runs
<1>8. CASE EmitPanics
  BY <1>8 DEF EmitPanics
<1>9. CASE WaitIsOver
  BY <1>9 DEF WaitIsOver, Runs
<1>10. CASE PollEmitted
  BY <1>10 DEF PollEmitted
<1>11. CASE PollPending
  BY <1>11 DEF PollPending
<1>12. CASE PollReady
  BY <1>12 DEF PollReady
<1>13. CASE UNCHANGED vars
  BY <1>13 DEF vars
<1> QED
  BY <1>3, <1>4, <1>5, <1>6, <1>7, <1>8, <1>9, <1>10, <1>11, <1>12, <1>13 DEF Next

\* TypeOK is an invariant; outputs_to_swallow never underflows.
THEOREM AlwaysTypeOK == Spec => []TypeOK
<1>1. FlagsTyped /\ DataTyped => TypeOK
  BY DEF FlagsTyped, DataTyped, TypeOK
<1> QED
  BY TypedInit, FlagsStep, DataStep, <1>1, PTL DEF Spec

-----------------------------------------------------------------------------
(* The order of the events *)

\* The events the future has gone past are those it swallowed or that were delivered, and behind
\* them those in the channel; while it has some to swallow, it has sent none.
OrderInv ==
  /\ delivered = [n \in 1..event_count |-> n]
  /\ \A j \in DOMAIN channel : channel[j] = event_count + j
  /\ status = "saturating" =>
       /\ Event(at - 1) + outputs_to_swallow = event_count + Len(channel)
       /\ outputs_to_swallow > 0 => channel = <<>>
  /\ event_count <= Total

\* A step is polled only while its future is there.
PollingInv == polling => status = "saturating"

\* A new step has delivered nothing and not been polled.
LEMMA OrderInit == Init => OrderInv /\ PollingInv
<1>1. SUFFICES ASSUME Init PROVE OrderInv /\ PollingInv
  OBVIOUS
<1>2. DataTyped /\ event_count = 0 /\ channel = <<>> /\ delivered = <<>>
  BY <1>1, TypedInit DEF Init
<1>3. Event(0) = 0 /\ Total \in Nat
  BY <1>2, EventCounts DEF DataTyped, Total
<1>4. at = 1 /\ outputs_to_swallow = 0 /\ Event(at - 1) = 0
  BY <1>1, <1>3 DEF Init
<1>5. delivered = [n \in 1..event_count |-> n]
  BY <1>2
<1>6. OrderInv
  BY <1>2, <1>3, <1>4, <1>5 DEF OrderInv
<1> QED
  BY <1>1, <1>6 DEF Init, PollingInv

\* A poll begins on a saturating step and is over when the status changes.
LEMMA PollingStep == PollingInv /\ [Next]_vars => PollingInv'
BY Zenon DEF PollingInv, Next, vars, Saturate, Desaturate, Poll, EmitSwallowed, Emit, EmitPanics,
             WaitIsOver, PollEmitted, PollPending, PollReady, Runs, Suspended

\* The number of an instruction does not change.
LEMMA EventIsFixed ==
  ASSUME [Next]_vars
  PROVE  /\ \A i : Event(i)' = Event(i)
         /\ Event(at - 1)' = Event(at' - 1)
         /\ Total' = Total
BY ProgramIsFixed DEF Total, Event, Emits

\* Every step keeps the events in order.
LEMMA OrderStep == DataTyped /\ OrderInv /\ PollingInv /\ [Next]_vars => OrderInv'
<1>1. SUFFICES ASSUME DataTyped, OrderInv, PollingInv, [Next]_vars PROVE OrderInv'
  OBVIOUS
<1>2. DataTyped' /\ Event(at - 1)' = Event(at' - 1) /\ Total' = Total
  BY <1>1, DataStep, EventIsFixed
<1>3. /\ Event(0) = 0
      /\ \A i \in Nat : Event(i) \in Nat
      /\ \A i \in 1..Len(program) : Event(i) = IF Emits(i) THEN Event(i - 1) + 1 ELSE Event(i - 1)
  BY <1>1, EventCounts DEF DataTyped
<1>4. at - 1 \in Nat /\ Event(at - 1) \in Nat /\ Total \in Nat /\ Len(program) \in Nat
  <2>1. at - 1 \in Nat /\ Len(program) \in Nat
    BY <1>1 DEF DataTyped
  <2> QED
    BY <1>3, <2>1 DEF Total
<1>5. CASE Saturate
  BY <1>1, <1>2, <1>3, <1>5 DEF Saturate, OrderInv, DataTyped
<1>6. CASE Desaturate
  BY <1>1, <1>2, <1>6 DEF Desaturate, OrderInv, DataTyped
<1>7. CASE Poll \/ PollPending
  BY <1>1, <1>2, <1>7 DEF Poll, PollPending, OrderInv, DataTyped
<1>8. CASE EmitSwallowed
  <2>1. at \in 1..Len(program) /\ Event(at) = Event(at - 1) + 1 /\ at' - 1 = at
    BY <1>1, <1>3, <1>8 DEF EmitSwallowed, Runs, DataTyped
  <2>2. status = "saturating" => channel = <<>>
    BY <1>1, <1>8 DEF EmitSwallowed, OrderInv
  <2> QED
    BY <1>1, <1>2, <1>4, <1>8, <2>1, <2>2 DEF EmitSwallowed, OrderInv, DataTyped
<1>9. CASE Emit
  <2>1. at \in 1..Len(program) /\ Event(at) = Event(at - 1) + 1 /\ at' - 1 = at
    BY <1>1, <1>3, <1>9 DEF Emit, Runs, DataTyped
  <2>2. status = "saturating"
    BY <1>1, <1>9 DEF Emit, Runs, PollingInv
  <2>3. Event(at) = event_count + Len(channel) + 1
    BY <1>1, <1>4, <1>9, <2>1, <2>2 DEF Emit, OrderInv, DataTyped
  <2>4. channel' = Append(channel, Event(at)) /\ Len(channel') = Len(channel) + 1
    BY <1>1, <1>3, <1>9 DEF Emit, DataTyped
  <2>5. \A j \in DOMAIN channel' : channel'[j] = event_count + j
    <3> TAKE j \in DOMAIN channel'
    <3>1. CASE j = Len(channel) + 1
      BY <1>1, <2>3, <2>4, <3>1 DEF DataTyped
    <3>2. CASE j # Len(channel) + 1
      <4>1. channel \in Seq(Nat) /\ Event(at) \in Nat /\ j \in 1..(Len(channel) + 1)
        BY <1>1, <1>2, <1>3, <2>1, <2>4 DEF DataTyped
      <4>2. j \in DOMAIN channel /\ channel'[j] = channel[j]
        BY <2>4, <3>2, <4>1
      <4> QED
        BY <1>1, <4>2 DEF OrderInv
    <3> QED
      BY <3>1, <3>2
  <2> QED
    BY <1>1, <1>2, <1>4, <1>9, <2>1, <2>3, <2>4, <2>5 DEF Emit, OrderInv, DataTyped
<1>10. CASE EmitPanics
  BY <1>1, <1>2, <1>10 DEF EmitPanics, OrderInv
<1>11. CASE WaitIsOver
  <2>1. at \in 1..Len(program) /\ at' - 1 = at /\ ~Emits(at)
    BY <1>1, <1>11 DEF WaitIsOver, Runs, Emits, DataTyped
  <2>2. Event(at) = Event(at - 1)
    BY <1>3, <2>1
  <2> QED
    BY <1>1, <1>2, <1>11, <2>1, <2>2 DEF WaitIsOver, OrderInv
<1>12. CASE PollEmitted
  <2>1. channel # <<>> /\ Len(channel) \in Nat \ {0} /\ Head(channel) = event_count + 1
    BY <1>1, <1>12 DEF PollEmitted, OrderInv, DataTyped
  <2>2. status = "saturating"
    BY <1>1, <1>12 DEF PollEmitted, Suspended, PollingInv
  <2>3. /\ event_count' = event_count + 1 /\ at' = at
        /\ outputs_to_swallow' = outputs_to_swallow /\ outputs_to_swallow = 0
        /\ channel' = Tail(channel) /\ Len(channel') = Len(channel) - 1
    BY <1>1, <1>12, <2>1, <2>2 DEF PollEmitted, OrderInv, DataTyped
  <2>4. delivered' = [n \in 1..event_count' |-> n]
    BY <1>1, <1>12, <2>1, <2>3 DEF PollEmitted, OrderInv, DataTyped
  <2>5. \A j \in DOMAIN channel' : channel'[j] = event_count' + j
    <3> TAKE j \in DOMAIN channel'
    <3>1. j \in Nat /\ j + 1 \in DOMAIN channel /\ channel'[j] = channel[j + 1]
      <4>1. channel \in Seq(Nat) /\ channel # <<>> /\ channel' = Tail(channel)
        BY <1>1, <2>1, <2>3 DEF DataTyped
      <4>2. j \in 1..(Len(channel) - 1)
        BY <4>1
      <4> QED
        BY <4>1, <4>2
    <3>2. channel[j + 1] = event_count + (j + 1)
      BY <1>1, <3>1 DEF OrderInv
    <3>3. event_count \in Nat
      BY <1>1 DEF DataTyped
    <3> QED
      BY <2>3, <3>1, <3>2, <3>3
  <2>6. Event(at - 1) = event_count + Len(channel)
    BY <1>1, <1>4, <2>2, <2>3 DEF OrderInv, DataTyped
  <2>7. event_count' <= Total
    <3>1. Event(at - 1) <= Total
      BY <1>1, EventsGrow DEF DataTyped
    <3> QED
      BY <1>1, <1>4, <2>1, <2>3, <2>6, <3>1 DEF DataTyped
  <2> QED
    BY <1>1, <1>2, <1>4, <2>1, <2>2, <2>3, <2>4, <2>5, <2>6, <2>7 DEF OrderInv, DataTyped
<1>13. CASE PollReady
  BY <1>1, <1>2, <1>13 DEF PollReady, OrderInv, DataTyped
<1>14. CASE UNCHANGED vars
  BY <1>1, <1>2, <1>14 DEF vars, OrderInv
<1> QED
  BY <1>1, <1>5, <1>6, <1>7, <1>8, <1>9, <1>10, <1>11, <1>12, <1>13, <1>14 DEF Next

\* What a step delivers, over all its computations, is its events once and in order.
THEOREM AlwaysDeliveredOnceInOrder == Spec => []DeliveredOnceInOrder
<1>1. OrderInv => DeliveredOnceInOrder
  BY DEF OrderInv, DeliveredOnceInOrder
<1> QED
  BY TypedInit, DataStep, OrderInit, OrderStep, PollingStep, <1>1, PTL DEF Spec

-----------------------------------------------------------------------------
(* What is awaited is delivered *)

\* The instructions before a place of the program are in it.
LEMMA InsideProgram ==
  ASSUME NEW l \in Nat, NEW m \in 1..(l + 1), NEW i \in 1..(m - 1)
  PROVE  i \in 1..l
OBVIOUS

\* What was run stays run when the future goes on.
LEMMA StillBefore ==
  ASSUME NEW m \in Nat, NEW n \in {m, m + 1}, NEW i \in 1..(m - 1)
  PROVE  i \in 1..(n - 1)
OBVIOUS

\* An instruction that emits has a number above zero.
LEMMA EmittedAboveZero ==
  ASSUME program \in Seq(Instructions), NEW i \in 1..Len(program), Emits(i)
  PROVE  Event(i) \in Nat \ {0}
<1>1. i \in Nat /\ i - 1 \in Nat /\ Event(i - 1) \in Nat /\ Event(i) = Event(i - 1) + 1
  BY EventCounts
<1> QED
  BY <1>1

\* Every step keeps the awaited events delivered.
LEMMA AwaitedStep ==
  DataTyped /\ OrderInv /\ PollingInv /\ AwaitedIsDelivered /\ [Next]_vars => AwaitedIsDelivered'
<1> SUFFICES ASSUME DataTyped, OrderInv, PollingInv, AwaitedIsDelivered, [Next]_vars
             PROVE  AwaitedIsDelivered'
  OBVIOUS
<1>2. program' = program /\ DataTyped' /\ \A i : Event(i)' = Event(i)
  BY ProgramIsFixed, DataStep, EventIsFixed
<1>1. SUFFICES ASSUME NEW i, i \in 1..(at' - 1), program'[i] = "await", Event(i) # awaiting',
                      status' # "unsaturated"
               PROVE  Event(i) <= event_count'
  BY <1>2 DEF AwaitedIsDelivered
<1>3. i \in 1..Len(program) /\ Emits(i) /\ Event(i) \in Nat \ {0}
  <2>1. at' \in 1..(Len(program) + 1) /\ Len(program) \in Nat
    BY <1>2 DEF DataTyped
  <2>2. i \in 1..Len(program)
    BY <1>1, <2>1, InsideProgram, Zenon
  <2>3. Emits(i)
    BY <1>1, <1>2 DEF Emits
  <2> QED
    BY <2>2, <2>3, EmittedAboveZero DEF DataTyped
<1>4. i \in 1..(at - 1) /\ Event(i) # awaiting /\ status # "unsaturated" => Event(i) <= event_count
  BY <1>1, <1>2 DEF AwaitedIsDelivered
<1>5. CASE Saturate
  BY <1>1, <1>5 DEF Saturate
<1>6. CASE Desaturate
  BY <1>1, <1>6 DEF Desaturate
<1>7. CASE Poll \/ PollPending
  BY <1>1, <1>4, <1>7 DEF Poll, PollPending
<1>8. CASE EmitSwallowed
  <2>1. /\ status = "saturating" /\ at' = at + 1 /\ awaiting' = awaiting /\ awaiting = 0
        /\ event_count' = event_count /\ outputs_to_swallow \in Nat \ {0}
    BY <1>1, <1>8 DEF EmitSwallowed, Runs, PollingInv, DataTyped
  <2>2. CASE i = at
    <3>1. Event(at - 1) \in Nat /\ Event(at) = Event(at - 1) + 1
      BY <1>1, <1>3, <2>2, EventCounts DEF DataTyped
    <3>2. Event(at - 1) + outputs_to_swallow = event_count
      <4>1. Event(at - 1) + outputs_to_swallow = event_count + Len(channel) /\ channel = <<>>
        BY <2>1 DEF OrderInv
      <4> QED
        BY <4>1 DEF DataTyped
    <3> QED
      BY <1>1, <2>1, <2>2, <3>1, <3>2 DEF DataTyped
  <2>3. CASE i # at
    BY <1>1, <1>3, <1>4, <2>1, <2>3 DEF DataTyped
  <2> QED
    BY <2>2, <2>3
<1>9. CASE Emit
  <2>1. /\ status = "saturating" /\ at' = at + 1 /\ awaiting = 0
        /\ awaiting' = (IF program[at] = "await" THEN Event(at) ELSE 0)
        /\ event_count' = event_count
    BY <1>1, <1>9 DEF Emit, Runs, PollingInv
  <2>2. i # at
    BY <1>1, <1>2, <2>1
  <2> QED
    BY <1>1, <1>3, <1>4, <2>1, <2>2 DEF DataTyped
<1>10. CASE EmitPanics
  <2>1. status = "saturating"
    BY <1>1, <1>10 DEF EmitPanics, Runs, PollingInv
  <2> QED
    BY <1>1, <1>4, <1>10, <2>1 DEF EmitPanics
<1>11. CASE WaitIsOver
  <2>1. status = "saturating" /\ at' = at + 1 /\ awaiting' = awaiting /\ event_count' = event_count
    BY <1>1, <1>11 DEF WaitIsOver, Runs, PollingInv
  <2>2. program[at] = "wait"
    BY <1>11 DEF WaitIsOver
  <2>3. i # at
    BY <1>1, <1>2, <2>2
  <2> QED
    BY <1>1, <1>4, <2>1, <2>3 DEF DataTyped
<1>12. CASE PollEmitted
  <2>1. channel # <<>> /\ Head(channel) = event_count + 1
    BY <1>1, <1>12 DEF PollEmitted, OrderInv, DataTyped
  <2>2. status = "saturating"
    BY <1>1, <1>12 DEF PollEmitted, Suspended, PollingInv
  <2>3. /\ event_count' = event_count + 1 /\ at' = at
        /\ awaiting' = (IF awaiting = event_count + 1 THEN 0 ELSE awaiting)
    BY <1>12, <2>1 DEF PollEmitted
  <2> QED
    BY <1>1, <1>3, <1>4, <2>2, <2>3 DEF DataTyped
<1>13. CASE PollReady
  <2>1. status = "saturating"
    BY <1>1, <1>13 DEF PollReady, PollingInv
  <2> QED
    BY <1>1, <1>4, <1>13, <2>1 DEF PollReady
<1>14. CASE UNCHANGED vars
  BY <1>1, <1>4, <1>14 DEF vars
<1> QED
  BY <1>1, <1>5, <1>6, <1>7, <1>8, <1>9, <1>10, <1>11, <1>12, <1>13, <1>14 DEF Next

\* At the start no instruction was run.
LEMMA AwaitedInit == Init => AwaitedIsDelivered
BY DEF Init, AwaitedIsDelivered

\* A handler goes on behind an awaited emission only when that was delivered.
THEOREM AwaitedAlwaysDelivered == Spec => []AwaitedIsDelivered
BY TypedInit, DataStep, OrderInit, OrderStep, PollingStep, AwaitedInit, AwaitedStep, PTL DEF Spec

-----------------------------------------------------------------------------
(* What is not awaited *)

\* Every event in the channel was sent by an instruction the future has run.
SentInv == \A j \in DOMAIN channel : \E i \in 1..(at - 1) : Emits(i) /\ Event(i) = channel[j]

\* At the start the channel is empty.
LEMMA SentInit == Init => SentInv
BY DEF Init, SentInv

\* Every step keeps the events of the channel accounted for.
LEMMA SentStep == DataTyped /\ SentInv /\ [Next]_vars => SentInv'
<1> SUFFICES ASSUME DataTyped, SentInv, [Next]_vars PROVE SentInv'
  OBVIOUS
<1>2. DataTyped' /\ \A i : Event(i)' = Event(i) /\ (Emits(i)' <=> Emits(i))
  BY DataStep, EventIsFixed, ProgramIsFixed DEF Emits
<1>1. SUFFICES ASSUME NEW j \in DOMAIN channel'
               PROVE  \E i \in 1..(at' - 1) : Emits(i) /\ Event(i) = channel'[j]
  BY <1>2 DEF SentInv
<1>3. ASSUME at' \in {at, at + 1}, j \in DOMAIN channel, channel'[j] = channel[j]
      PROVE  \E i \in 1..(at' - 1) : Emits(i) /\ Event(i) = channel'[j]
  <2>1. PICK i \in 1..(at - 1) : Emits(i) /\ Event(i) = channel[j]
    BY <1>1, <1>3 DEF SentInv
  <2>2. at \in Nat
    BY DEF DataTyped
  <2>3. i \in 1..(at' - 1)
    BY <1>3, <2>2, StillBefore, Zenon
  <2> QED
    BY <1>3, <2>1, <2>3
<1>4. CASE Saturate \/ Desaturate \/ PollReady
  <2>1. channel' = <<>>
    BY <1>4 DEF Saturate, Desaturate, PollReady
  <2> QED
    BY <1>1, <2>1
<1>5. CASE Poll \/ EmitSwallowed \/ EmitPanics \/ WaitIsOver \/ PollPending \/ UNCHANGED vars
  <2>1. at' \in {at, at + 1} /\ channel' = channel
    BY <1>5 DEF Poll, EmitSwallowed, EmitPanics, WaitIsOver, PollPending, vars
  <2> QED
    BY <1>1, <1>3, <2>1
<1>6. CASE Emit
  <2>1. channel' = Append(channel, Event(at)) /\ at' = at + 1 /\ Emits(at)
    BY <1>6 DEF Emit
  <2>2. channel \in Seq(Nat) /\ channel' \in Seq(Nat) /\ at \in Nat \ {0} /\ Event(at) \in Nat
    <3>1. at \in Nat \ {0}
      BY <1>1 DEF DataTyped
    <3> QED
      BY <1>1, <1>2, <3>1, EventCounts DEF DataTyped
  <2>3. j \in 1..(Len(channel) + 1)
    BY <1>1, <2>1, <2>2
  <2>4. CASE j = Len(channel) + 1
    <3>1. channel'[j] = Event(at) /\ at \in 1..(at' - 1)
      BY <2>1, <2>2, <2>4
    <3> QED
      BY <2>1, <3>1
  <2>5. CASE j # Len(channel) + 1
    <3>1. j \in DOMAIN channel /\ channel'[j] = channel[j]
      BY <2>1, <2>2, <2>3, <2>5
    <3> QED
      BY <1>3, <2>1, <3>1
  <2> QED
    BY <2>4, <2>5
<1>7. CASE PollEmitted
  <2>1. channel # <<>> /\ channel' = Tail(channel) /\ at' = at
    BY <1>7 DEF PollEmitted
  <2>2. j + 1 \in DOMAIN channel /\ channel'[j] = channel[j + 1]
    BY <1>1, <1>2, <2>1 DEF DataTyped
  <2> QED
    BY <1>1, <2>1, <2>2 DEF SentInv
<1> QED
  BY <1>1, <1>4, <1>5, <1>6, <1>7 DEF Next

\* While the future awaits nothing, what is left in the channel was sent unawaited.
LEMMA LeftInChannelIsSent ==
  ASSUME DataTyped, OrderInv, AwaitedIsDelivered, SentInv,
         status # "unsaturated", awaiting = 0, NEW j \in DOMAIN channel
  PROVE  \E i \in 1..(at - 1) : program[i] = "send" /\ Event(i) = event_count + j
<1>1. PICK i \in 1..(at - 1) : Emits(i) /\ Event(i) = event_count + j
  BY DEF SentInv, OrderInv
<1>2. j \in Nat \ {0} /\ event_count \in Nat
  BY DEF DataTyped
<1>3. program[i] # "await"
  BY <1>1, <1>2 DEF AwaitedIsDelivered
<1> QED
  BY <1>1, <1>3 DEF Emits

\* A panic finds two events in the channel, and once panicked the step stays as it is.
LEMMA PanicStep ==
  DataTyped /\ OrderInv /\ PollingInv /\ AwaitedIsDelivered /\ SentInv /\ PanicsOnlyUnawaited
    /\ [Next]_vars => PanicsOnlyUnawaited'
<1>1. SUFFICES ASSUME DataTyped, OrderInv, PollingInv, AwaitedIsDelivered, SentInv,
                      PanicsOnlyUnawaited, [Next]_vars, status' = "panicked"
               PROVE  Cardinality({i \in 1..(at' - 1) : program'[i] = "send"}) >= 2
  BY DEF PanicsOnlyUnawaited
<1>2. CASE EmitPanics
  <2>1. /\ at' = at /\ program' = program /\ awaiting = 0 /\ status = "saturating"
        /\ Len(channel) >= 2
    BY <1>1, <1>2 DEF EmitPanics, Runs, PollingInv, Capacity
  <2>2. 1 \in DOMAIN channel /\ 2 \in DOMAIN channel
    BY <1>1, <2>1 DEF DataTyped
  <2>3. PICK a \in 1..(at - 1) : program[a] = "send" /\ Event(a) = event_count + 1
    BY <1>1, <2>1, <2>2, LeftInChannelIsSent
  <2>4. PICK b \in 1..(at - 1) : program[b] = "send" /\ Event(b) = event_count + 2
    BY <1>1, <2>1, <2>2, LeftInChannelIsSent
  <2> DEFINE S == {i \in 1..(at - 1) : program[i] = "send"}
  <2>5. a # b
    BY <1>1, <2>3, <2>4 DEF DataTyped
  <2>6. IsFiniteSet(S)
    <3>1. IsFiniteSet(1..(at - 1))
      BY <1>1, FS_Interval DEF DataTyped
    <3>2. S \in SUBSET (1..(at - 1))
      OBVIOUS
    <3> HIDE DEF S
    <3> QED
      BY <3>1, <3>2, FS_Subset
  <2>7. {a, b} \in SUBSET S
    BY <2>3, <2>4
  <2>8. Cardinality({a, b}) = 2
    <3>1. IsFiniteSet({a}) /\ Cardinality({a}) = 1
      BY FS_Singleton
    <3>2. {a, b} = {a} \cup {b} /\ b \notin {a}
      BY <2>5
    <3> QED
      BY <3>1, <3>2, FS_AddElement
  <2> HIDE DEF S
  <2>9. Cardinality({a, b}) <= Cardinality(S) /\ Cardinality(S) \in Nat
    BY <2>6, <2>7, FS_Subset, FS_CardinalityType
  <2>10. Cardinality(S) >= 2
    BY <2>8, <2>9
  <2> QED
    BY <2>1, <2>10 DEF S
<1>3. CASE UNCHANGED vars
  BY <1>1, <1>3 DEF vars, PanicsOnlyUnawaited
<1>4. CASE Next /\ ~EmitPanics
  BY <1>1, <1>4 DEF Next, Saturate, Desaturate, Poll, EmitSwallowed, Emit, WaitIsOver, PollEmitted,
       PollPending, PollReady, Runs, Suspended, PollingInv
<1> QED
  BY <1>1, <1>2, <1>3, <1>4

\* At the start nothing has panicked.
LEMMA PanicInit == Init => PanicsOnlyUnawaited
BY DEF Init, PanicsOnlyUnawaited

\* The unwrap of try_send fails only for a transposer that left two emissions unawaited.
THEOREM AlwaysPanicsOnlyUnawaited == Spec => []PanicsOnlyUnawaited
BY TypedInit, DataStep, OrderInit, OrderStep, PollingStep, AwaitedInit, AwaitedStep, SentInit,
   SentStep, PanicInit, PanicStep, PTL DEF Spec

-----------------------------------------------------------------------------
(* Silence *)

\* A step that was saturated once has delivered all its events, if its transposer awaits them.
SilentInv == AwaitsAll /\ can_produce_events = FALSE => event_count = Total

\* While a poll could still return an event, not all are delivered.
LEMMA NotAllDelivered ==
  DataTyped /\ OrderInv /\ PollingInv /\ PollEmitted => event_count < Total
<1>1. SUFFICES ASSUME DataTyped, OrderInv, PollingInv, PollEmitted PROVE event_count < Total
  OBVIOUS
<1>2. channel # <<>> /\ status = "saturating"
  BY <1>1 DEF PollEmitted, Suspended, PollingInv
<1>3. Len(channel) \in Nat \ {0} /\ outputs_to_swallow = 0
  BY <1>1, <1>2 DEF OrderInv, DataTyped
<1>4. Event(at - 1) + outputs_to_swallow = event_count + Len(channel)
  BY <1>1, <1>2 DEF OrderInv
<1>5. at - 1 \in 0..Len(program) /\ Len(program) \in Nat /\ event_count \in Nat
  BY <1>1 DEF DataTyped
<1>6. Event(at - 1) \in Nat /\ Event(at - 1) <= Total /\ Total \in Nat
  <2>1. program \in Seq(Instructions) /\ at - 1 \in Nat
    BY <1>1, <1>5 DEF DataTyped
  <2>2. Event(at - 1) <= Total
    BY <1>5, <2>1, EventsGrow
  <2> QED
    BY <1>5, <2>1, <2>2, EventCounts DEF Total
<1> QED
  BY <1>3, <1>4, <1>5, <1>6

\* The future of a transposer that awaits all it emits is not done before all is delivered.
LEMMA AllDeliveredWhenReady ==
  DataTyped /\ OrderInv /\ PollingInv /\ AwaitedIsDelivered /\ SentInv /\ AwaitsAll /\ PollReady
    => event_count = Total
<1>1. SUFFICES ASSUME DataTyped, OrderInv, PollingInv, AwaitedIsDelivered, SentInv, AwaitsAll,
                      PollReady
               PROVE  event_count = Total
  OBVIOUS
<1>2. status = "saturating" /\ awaiting = 0 /\ at > Len(program)
  BY <1>1 DEF PollReady, PollingInv
<1>3. at - 1 = Len(program) /\ Len(program) \in Nat
  BY <1>1, <1>2 DEF DataTyped
<1>4. channel = <<>>
  <2>1. SUFFICES ASSUME channel # <<>> PROVE FALSE
    OBVIOUS
  <2>2. 1 \in DOMAIN channel
    BY <1>1, <2>1 DEF DataTyped
  <2>3. PICK i \in 1..(at - 1) : program[i] = "send"
    BY <1>1, <1>2, <2>2, LeftInChannelIsSent
  <2>4. i \in DOMAIN program
    BY <1>1, <1>3, <2>3 DEF DataTyped
  <2> QED
    BY <1>1, <2>3, <2>4 DEF AwaitsAll
<1>5. Event(at - 1) + outputs_to_swallow = event_count + Len(channel)
  BY <1>1, <1>2 DEF OrderInv
<1>6. Len(channel) = 0 /\ Event(at - 1) = Total
  BY <1>3, <1>4 DEF Total
<1>7. Total \in Nat /\ event_count <= Total /\ event_count \in Nat /\ outputs_to_swallow \in Nat
  BY <1>1, <1>3, EventCounts DEF OrderInv, DataTyped, Total
<1> QED
  BY <1>5, <1>6, <1>7

\* Every step keeps the silence.
LEMMA SilentStep ==
  DataTyped /\ OrderInv /\ PollingInv /\ AwaitedIsDelivered /\ SentInv /\ SilentInv
    /\ [Next]_vars => SilentInv'
<1> SUFFICES ASSUME DataTyped, OrderInv, PollingInv, AwaitedIsDelivered, SentInv, SilentInv,
                    [Next]_vars
             PROVE  SilentInv'
  OBVIOUS
<1>1. Total' = Total /\ (AwaitsAll' <=> AwaitsAll)
  BY EventIsFixed, ProgramIsFixed DEF AwaitsAll
<1>2. CASE PollEmitted
  <2>1. event_count < Total /\ event_count \in Nat
    BY <1>2, NotAllDelivered DEF DataTyped
  <2>2. event_count # Total
    BY <2>1
  <2>3. can_produce_events' = can_produce_events
    BY <1>2 DEF PollEmitted
  <2> QED
    BY <1>1, <2>2, <2>3 DEF SilentInv
<1>3. CASE PollReady
  <2>1. event_count' = event_count
    BY <1>3 DEF PollReady
  <2> QED
    BY <1>1, <1>3, <2>1, AllDeliveredWhenReady DEF SilentInv
<1>4. CASE Saturate \/ Desaturate \/ Poll \/ EmitSwallowed \/ Emit \/ EmitPanics \/ WaitIsOver
             \/ PollPending \/ UNCHANGED vars
  <2>1. event_count' = event_count /\ can_produce_events' = can_produce_events
    BY <1>4, Zenon DEF Saturate, Desaturate, Poll, EmitSwallowed, Emit, EmitPanics, WaitIsOver,
                       PollPending, vars
  <2> QED
    BY <1>1, <2>1 DEF SilentInv
<1> QED
  BY <1>2, <1>3, <1>4 DEF Next

\* At the start the step can produce events.
LEMMA SilentInit == Init => SilentInv
BY DEF Init, SilentInv

\* Once a step was saturated, no recomputation of it delivers an event.
THEOREM AlwaysSilentOnceSaturated == Spec => SilentOnceSaturated
<1>1. FlagsTyped /\ DataTyped /\ OrderInv /\ PollingInv /\ SilentInv /\ [Next]_vars =>
        [AwaitsAll /\ ~can_produce_events => event_count' = event_count]_vars
  <2>1. SUFFICES ASSUME FlagsTyped, DataTyped, OrderInv, PollingInv, SilentInv, Next,
                        AwaitsAll, ~can_produce_events
                 PROVE  event_count' = event_count
    OBVIOUS
  <2>2. can_produce_events = FALSE
    BY <2>1 DEF FlagsTyped
  <2>3. event_count = Total /\ event_count \in Nat
    BY <2>1, <2>2 DEF SilentInv, DataTyped
  <2>4. ~PollEmitted
    BY <2>1, <2>3, NotAllDelivered
  <2> QED
    BY <2>1, <2>4 DEF Next, Saturate, Desaturate, Poll, EmitSwallowed, Emit, EmitPanics,
                      WaitIsOver, PollPending, PollReady
<1> QED
  BY TypedInit, FlagsStep, DataStep, OrderInit, OrderStep, PollingStep, AwaitedInit, AwaitedStep,
     SentInit, SentStep, SilentInit, SilentStep, <1>1, PTL DEF Spec, SilentOnceSaturated

-----------------------------------------------------------------------------
(* A shared step is a step *)

\* Step::poll runs while somebody polls.
SomebodyPolls == poller # NoOne /\ poller # Panicked

PollerInv == /\ polling \in BOOLEAN
             /\ polling <=> SomebodyPolls

\* At the start nobody polls.
LEMMA PollerInit == SharedInit => PollerInv
BY DEF SharedInit, Init, PollerInv, SomebodyPolls, NoOne

\* One who registers first polls, and one who does not leaves the poller as it was.
LEMMA RegisterPolls ==
  ASSUME NEW c \in Channels, Register(c)
  PROVE  /\ poller' # Panicked
         /\ poller' = NoOne \/ poller' = [is |-> c, waker |-> Upgraded]
         /\ Registered = {} => poller' # NoOne
<1>1. c \notin {"none", "original", "panicked"}
  BY SharedStepAssumption
<1> QED
  BY <1>1 DEF Register, NoOne, Panicked

\* What was awaited and its wake leave the step and its poller alone.
LEMMA WakesLeave == Completes \/ Wakes => UNCHANGED <<vars, blocked, weak, poller, kept>>
<1>1. Completes => UNCHANGED <<vars, blocked, weak, poller, kept>>
  BY DEF Completes
<1>2. ASSUME NEW n \in Calls, Drain(n) \/ Call(n) \/ WakeReturns(n)
      PROVE  UNCHANGED <<vars, blocked, weak, poller, kept>>
  BY <1>2 DEF Drain, Call, WakeReturns
<1> QED
  BY <1>1, <1>2 DEF Wakes

\* Each step of the shared step is a step of StepFuture or leaves it alone.
LEMMA SharedStepIsStep == PollerInv /\ [SharedNext]_sharedVars => [Next]_vars
<1> SUFFICES ASSUME PollerInv, SharedNext PROVE [Next]_vars
  BY DEF sharedVars
<1>1. CASE PollOriginal
  BY <1>1 DEF PollOriginal, Next
<1>2. CASE FutureRuns \/ Panics \/ RepeatPanics \/ SaturateAgain \/ GiveUp
  BY <1>2 DEF FutureRuns, RunsOn, WaitEnds, ReturnsPending, ReturnsEmitted, ReturnsReady, Panics,
              RepeatPanics, SaturateAgain, GiveUp, Next
<1>3. CASE Completes \/ Wakes
  BY <1>3, WakesLeave
<1>4. ASSUME NEW c \in Channels, PollRepeat(c) PROVE [Next]_vars
  <2>1. polling = FALSE /\ status = "saturating"
    BY <1>4 DEF PollerInv, SomebodyPolls, PollRepeat
  <2>2. polling' = TRUE \/ polling' = FALSE
    BY <1>4 DEF PollRepeat
  <2> QED
    BY <1>4, <2>1, <2>2 DEF PollRepeat, Next, Poll, vars
<1>5. ASSUME NEW c \in Channels, PollGone(c) \/ PollGonePends(c) \/ Abandon(c) PROVE [Next]_vars
  BY <1>5 DEF PollGone, PollGonePends, Gone, Abandon
<1> QED
  BY <1>1, <1>2, <1>3, <1>4, <1>5 DEF SharedNext

\* Step::poll runs while somebody polls, after each step.
LEMMA PollerStep == PollerInv /\ [SharedNext]_sharedVars => PollerInv'
<1> SUFFICES ASSUME PollerInv, [SharedNext]_sharedVars PROVE PollerInv'
  OBVIOUS
<1> USE DEF PollerInv, SomebodyPolls
<1>1. CASE PollOriginal
  BY <1>1 DEF PollOriginal, Poll, NoOne, Panicked
<1>2. CASE RunsOn \/ WaitEnds
  BY <1>2 DEF RunsOn, WaitEnds, EmitSwallowed, Emit, WaitIsOver, shared
<1>3. CASE ReturnsPending \/ ReturnsEmitted \/ ReturnsReady \/ Panics
  BY <1>3 DEF ReturnsPending, ReturnsEmitted, ReturnsReady, Panics, PollPending, PollEmitted,
              PollReady, EmitPanics, Returns
<1>4. CASE RepeatPanics
  BY <1>4 DEF RepeatPanics, PollEmitted
<1>5. CASE SaturateAgain \/ GiveUp
  BY <1>5 DEF SaturateAgain, GiveUp, Saturate, Desaturate, shared
<1>6. CASE Completes \/ Wakes
  BY <1>6, WakesLeave DEF vars
<1>7. ASSUME NEW c \in Channels, PollRepeat(c) PROVE PollerInv'
  BY <1>7, RegisterPolls DEF PollRepeat
<1>8. ASSUME NEW c \in Channels, PollGone(c) PROVE PollerInv'
  BY <1>8 DEF PollGone, Gone, vars
<1>9. ASSUME NEW c \in Channels, PollGonePends(c) PROVE PollerInv'
  BY <1>9 DEF PollGonePends, Gone, Register, vars
<1>10. ASSUME NEW c \in Channels, Abandon(c) PROVE PollerInv'
  BY <1>10 DEF Abandon, vars
<1>11. CASE UNCHANGED sharedVars
  BY <1>11 DEF sharedVars, shared, vars
<1> QED
  BY <1>1, <1>2, <1>3, <1>4, <1>5, <1>6, <1>7, <1>8, <1>9, <1>10, <1>11 DEF SharedNext, FutureRuns

\* The callers of a shared step use its future one at a time, as Step::poll expects, so all that is
\* proved of StepFuture holds for them.
THEOREM SharedImplementsStep == SharedSpec => Spec
<1>1. SharedInit => Init
  BY DEF SharedInit
<1> QED
  BY PollerInit, PollerStep, SharedStepIsStep, <1>1, PTL DEF SharedSpec, Spec

-----------------------------------------------------------------------------
(* The StackWaker *)

Original == [is |-> "original", waker |-> 0]

\* A call of wake that has still to drain its StackWaker.
Undrained(n) == waking[n].arc # 0 /\ ~waking[n].drained

SharedTyped ==
  /\ poller \in {NoOne, Panicked, Original} \cup [is : Channels, waker : Arcs]
  /\ awaited \in [is : {"none", "pending", "ready"}, waker : {0} \cup Arcs]
  /\ weak \in {0} \cup Arcs
  /\ blocked \in SUBSET Channels
  /\ wakers \in [Arcs -> SUBSET Channels]
  /\ waking \in [Calls -> [arc : {0} \cup Arcs, drained : BOOLEAN, calls : SUBSET Channels]]

\* Someone holds every Arc but one at most: there is a place for a new one.
LEMMA DeadArc ==
  ASSUME SharedTyped, poller = NoOne
  PROVE  \E a \in Arcs : ~Lives(a)
<1> DEFINE f == [n \in Calls |-> waking[n].arc]
           I == {f[n] : n \in Calls}
           H == I \cup {awaited.waker}
<1>1. MaxWakes \in Nat /\ IsFiniteSet(Calls) /\ Cardinality(Calls) = MaxWakes
  BY SharedStepAssumption, FS_Interval DEF Calls
<1>2. f \in Surjection(Calls, I)
  BY DEF Surjection
<1>3. IsFiniteSet(I) /\ Cardinality(I) <= MaxWakes /\ Cardinality(I) \in Nat
  <2> HIDE DEF f, I
  <2>1. IsFiniteSet(I) /\ Cardinality(I) <= Cardinality(Calls)
    BY <1>1, <1>2, FS_Surjection
  <2> QED
    BY <1>1, <2>1, FS_CardinalityType
<1>4. IsFiniteSet(H) /\ Cardinality(H) <= MaxWakes + 1
  <2> HIDE DEF I
  <2>1. IsFiniteSet(H) /\ (Cardinality(H) = Cardinality(I) \/ Cardinality(H) = Cardinality(I) + 1)
    BY <1>3, FS_AddElement
  <2> QED
    BY <1>1, <1>3, <2>1
<1>5. Cardinality(Arcs) = MaxWakes + 2
  BY <1>1, FS_Interval DEF Arcs
<1>6. ~(Arcs \subseteq H)
  <2> HIDE DEF H
  <2>1. SUFFICES ASSUME Arcs \in SUBSET H PROVE FALSE
    OBVIOUS
  <2>2. Cardinality(Arcs) <= Cardinality(H) /\ Cardinality(H) \in Nat
    BY <1>4, <2>1, FS_Subset, FS_CardinalityType
  <2> QED
    BY <1>1, <1>4, <1>5, <2>2
<1>7. PICK a \in Arcs : a \notin H
  BY <1>6
<1>8. a # 0
  BY <1>1 DEF Arcs
<1> QED
  BY <1>7, <1>8 DEF Lives, NoOne

\* To register keeps the wakers that others hold, and either the caller polls with the waker that
\* is now the entry's, or it has joined the others in it.
LEMMA RegisterKeeps ==
  ASSUME SharedTyped, poller = NoOne, NEW c \in Channels, Register(c)
  PROVE  /\ weak' \in Arcs
         /\ wakers' \in [Arcs -> SUBSET Channels]
         /\ c \in wakers'[weak']
         /\ \A a \in Arcs : Lives(a) => wakers[a] \subseteq wakers'[a]
         /\ \/ Registered = {} /\ poller' = [is |-> c, waker |-> weak']
            \/ /\ poller' = NoOne
               /\ weak' = weak /\ weak # 0 /\ wakers[weak] # {}
<1>1. PICK d \in Arcs : ~Lives(d)
  BY DeadArc
<1>2. Upgraded \in Arcs
  BY <1>1 DEF Upgraded, Upgrades, SharedTyped
<1>3. Registered \in SUBSET Channels
  BY DEF Registered, Upgrades, SharedTyped
<1>4. /\ weak' = Upgraded
      /\ wakers' = [wakers EXCEPT ![Upgraded] = Registered \cup {c}]
      /\ poller' = IF Registered # {} THEN NoOne ELSE [is |-> c, waker |-> Upgraded]
  BY DEF Register
<1>5. wakers' \in [Arcs -> SUBSET Channels] /\ c \in wakers'[weak']
  BY <1>2, <1>3, <1>4 DEF SharedTyped
<1>6. ASSUME NEW a \in Arcs, Lives(a) PROVE wakers[a] \subseteq wakers'[a]
  <2>1. CASE a = Upgraded
    <3>1. Upgrades
      <4>1. ~Upgrades => ~Lives(Upgraded)
        <5>1. SUFFICES ASSUME ~Upgrades PROVE ~Lives(Upgraded)
          OBVIOUS
        <5>2. Upgraded = CHOOSE x \in Arcs : ~Lives(x)
          BY <5>1 DEF Upgraded
        <5> QED
          BY <1>1, <5>2
      <4> QED
        BY <1>6, <2>1, <4>1
    <3>2. Registered = wakers[a]
      BY <2>1, <3>1 DEF Registered, Upgraded
    <3> QED
      BY <1>2, <1>4, <2>1, <3>2 DEF SharedTyped
  <2>2. CASE a # Upgraded
    BY <1>4, <2>2 DEF SharedTyped
  <2> QED
    BY <2>1, <2>2
<1>7. CASE Registered = {}
  BY <1>2, <1>4, <1>5, <1>6, <1>7
<1>8. CASE Registered # {}
  <2>1. Upgrades
    BY <1>8 DEF Registered
  <2>2. weak # 0 /\ Upgraded = weak /\ Registered = wakers[weak]
    BY <2>1 DEF Upgrades, Upgraded, Registered
  <2> QED
    BY <1>2, <1>4, <1>5, <1>6, <1>8, <2>2
<1> QED
  BY <1>7, <1>8

-----------------------------------------------------------------------------
(* Types, and what the entry of a repeated step says *)

\* At the start nobody is blocked and nothing is awaited.
LEMMA SharedTypedInit == SharedInit => SharedTyped
<1> SUFFICES ASSUME SharedInit PROVE SharedTyped
  OBVIOUS
<1>1. NoCall \in [arc : {0} \cup Arcs, drained : BOOLEAN, calls : SUBSET Channels]
  BY DEF NoCall
<1> QED
  BY <1>1 DEF SharedInit, SharedTyped, Nothing

\* The wakers that are kept are some of those that were there.
LEMMA DropKeeps ==
  ASSUME SharedTyped, Drop
  PROVE  /\ wakers' \in [Arcs -> SUBSET Channels]
         /\ \A a \in Arcs : wakers'[a] \subseteq wakers[a]
         /\ \A a \in Arcs : Lives(a)' => wakers'[a] = wakers[a]
BY DEF SharedTyped, Drop

\* Each step keeps the types.
LEMMA SharedTypedStep == SharedTyped /\ PollerInv /\ [SharedNext]_sharedVars => SharedTyped'
<1> SUFFICES ASSUME SharedTyped, PollerInv, [SharedNext]_sharedVars PROVE SharedTyped'
  OBVIOUS
<1>1. CASE PollOriginal
  BY <1>1 DEF PollOriginal, SharedTyped, Original
<1>2. CASE RunsOn \/ SaturateAgain \/ UNCHANGED sharedVars
  BY <1>2 DEF RunsOn, SaturateAgain, shared, sharedVars, SharedTyped
<1>3. CASE WaitEnds
  BY <1>3 DEF WaitEnds, SharedTyped, Nothing
<1>4. poller.waker \in {0} \cup Arcs
  BY DEF SharedTyped, NoOne, Panicked, Original
<1>5. CASE ReturnsPending \/ ReturnsEmitted \/ Panics
  <2>1. wakers' \in [Arcs -> SUBSET Channels]
    BY <1>5, DropKeeps DEF ReturnsPending, ReturnsEmitted, Panics, Returns
  <2>2. awaited' \in [is : {"none", "pending", "ready"}, waker : {0} \cup Arcs]
    BY <1>4, <1>5 DEF ReturnsPending, ReturnsEmitted, Panics, Awaits, SharedTyped
  <2> QED
    BY <1>5, <2>1, <2>2 DEF ReturnsPending, ReturnsEmitted, Panics, Returns, StaysBlocked, SharedTyped
<1>6. CASE ReturnsReady
  <2>1. wakers' \in [Arcs -> SUBSET Channels]
    BY <1>6, DropKeeps DEF ReturnsReady, Returns
  <2> QED
    BY <1>6, <2>1 DEF ReturnsReady, Returns, Leaves, SharedTyped
<1>7. CASE RepeatPanics
  BY <1>7 DEF RepeatPanics, SharedTyped
<1>8. CASE GiveUp
  <2>1. wakers' \in [Arcs -> SUBSET Channels]
    BY <1>8, DropKeeps DEF GiveUp
  <2> QED
    BY <1>8, <2>1 DEF GiveUp, SharedTyped, Nothing
<1>9. CASE Completes
  BY <1>9 DEF Completes, SharedTyped
<1>10. ASSUME NEW n \in Calls, Drain(n) PROVE SharedTyped'
  BY <1>10 DEF Drain, SharedTyped
<1>11. ASSUME NEW n \in Calls, Call(n) PROVE SharedTyped'
  BY <1>11 DEF Call, SharedTyped
<1>12. ASSUME NEW n \in Calls, WakeReturns(n) PROVE SharedTyped'
  <2>1. wakers' \in [Arcs -> SUBSET Channels]
    BY <1>12, DropKeeps DEF WakeReturns
  <2>2. NoCall \in [arc : {0} \cup Arcs, drained : BOOLEAN, calls : SUBSET Channels]
    BY DEF NoCall
  <2> QED
    BY <1>12, <2>1, <2>2 DEF WakeReturns, SharedTyped
<1>13. ASSUME NEW c \in Channels, PollRepeat(c) \/ PollGonePends(c) PROVE SharedTyped'
  <2>1. poller = NoOne /\ Register(c)
    BY <1>13 DEF PollRepeat, PollGonePends, Gone
  <2>2. /\ weak' \in Arcs /\ wakers' \in [Arcs -> SUBSET Channels]
        /\ poller' \in {NoOne} \cup [is : Channels, waker : Arcs]
    BY <2>1, RegisterKeeps
  <2>3. blocked' \in SUBSET Channels /\ awaited' = awaited /\ waking' = waking
    BY <1>13 DEF PollRepeat, PollGonePends, SharedTyped
  <2> QED
    BY <2>2, <2>3 DEF SharedTyped
<1>14. ASSUME NEW c \in Channels, PollGone(c) PROVE SharedTyped'
  BY <1>14 DEF PollGone, SharedTyped
<1>15. ASSUME NEW c \in Channels, Abandon(c) PROVE SharedTyped'
  BY <1>15 DEF Abandon, Leaves, SharedTyped
<1> QED
  BY <1>1, <1>2, <1>3, <1>5, <1>6, <1>7, <1>8, <1>9, <1>10, <1>11, <1>12, <1>13, <1>14, <1>15
     DEF SharedNext, FutureRuns, Wakes

\* There is an entry with a StackWaker as long as somebody is blocked, which is only for a step that
\* was saturated once; who polls it does so with that StackWaker.
EntryInv ==
  /\ blocked = {} <=> weak = 0
  /\ blocked # {} => can_produce_events = FALSE
  /\ poller.is = "original" => can_produce_events
  /\ poller.is \in Channels => poller.waker = weak /\ weak # 0 /\ can_produce_events = FALSE
  /\ poller = Panicked => can_produce_events = FALSE

\* Names of channels are not those of the other pollers.
LEMMA PollersApart ==
  /\ NoOne.is \notin Channels \cup {"original"}
  /\ Panicked.is \notin Channels \cup {"original"}
  /\ NoOne # Panicked
  /\ "original" \notin Channels
BY SharedStepAssumption DEF NoOne, Panicked

\* At the start nobody is blocked.
LEMMA EntryInit == SharedInit => EntryInv
BY PollersApart DEF SharedInit, Init, EntryInv, Panicked, NoOne

\* Each step keeps the entry as it says.
LEMMA EntryStep ==
  SharedTyped /\ PollerInv /\ EntryInv /\ [SharedNext]_sharedVars => EntryInv'
<1> SUFFICES ASSUME SharedTyped, PollerInv, EntryInv, [SharedNext]_sharedVars PROVE EntryInv'
  OBVIOUS
<1>1. CASE PollOriginal
  BY <1>1, PollersApart DEF PollOriginal, Poll, EntryInv, Panicked
<1>2. CASE RunsOn \/ WaitEnds \/ UNCHANGED sharedVars
  BY <1>2 DEF RunsOn, WaitEnds, EmitSwallowed, Emit, WaitIsOver, vars, shared, sharedVars, EntryInv
<1>3. CASE ReturnsPending \/ ReturnsEmitted \/ Panics
  BY <1>3, PollersApart DEF ReturnsPending, ReturnsEmitted, Panics, PollPending, PollEmitted,
     EmitPanics, Returns, StaysBlocked, EntryInv
<1>4. CASE ReturnsReady
  BY <1>4, PollersApart DEF ReturnsReady, PollReady, Returns, Leaves, EntryInv
<1>5. CASE RepeatPanics
  BY <1>5, PollersApart DEF RepeatPanics, PollEmitted, EntryInv
<1>6. CASE SaturateAgain
  BY <1>6 DEF SaturateAgain, Saturate, shared, EntryInv
<1>7. CASE GiveUp
  BY <1>7 DEF GiveUp, Desaturate, EntryInv
<1>8. CASE Completes \/ Wakes
  BY <1>8, WakesLeave DEF vars, EntryInv
<1>9. ASSUME NEW c \in Channels, PollRepeat(c) PROVE EntryInv'
  <2>1. weak' \in Arcs /\ (poller' = NoOne \/ poller' = [is |-> c, waker |-> weak'])
    BY <1>9, RegisterKeeps DEF PollRepeat
  <2>2. weak' # 0
    BY <2>1, SharedStepAssumption DEF Arcs
  <2>3. blocked' # {} /\ status' = "saturating" /\ ~can_produce_events'
    BY <1>9 DEF PollRepeat
  <2> QED
    BY <2>1, <2>2, <2>3, PollersApart DEF EntryInv
<1>10. ASSUME NEW c \in Channels, PollGone(c) PROVE EntryInv'
  BY <1>10, PollersApart DEF PollGone, Gone, vars, EntryInv
<1>11. ASSUME NEW c \in Channels, PollGonePends(c) PROVE EntryInv'
  <2>1. weak' \in Arcs /\ poller' = NoOne
    BY <1>11, RegisterKeeps DEF PollGonePends, Gone, Register
  <2>2. weak' # 0
    BY <2>1, SharedStepAssumption DEF Arcs
  <2> QED
    BY <1>11, <2>1, <2>2, PollersApart DEF PollGonePends, Gone, vars, EntryInv
<1>12. ASSUME NEW c \in Channels, Abandon(c) PROVE EntryInv'
  BY <1>12, PollersApart DEF Abandon, Leaves, vars, EntryInv
<1> QED
  BY <1>1, <1>2, <1>3, <1>4, <1>5, <1>6, <1>7, <1>8, <1>9, <1>10, <1>11, <1>12
     DEF SharedNext, FutureRuns

\* While a step is computed with nobody left behind, all that are blocked on it pin it; once it is
\* done they do not any more.
PinsInv ==
  /\ left = {} /\ status = "saturating" => pins = blocked
  /\ status \in {"saturated", "unsaturated"} => pins = {}

\* At the start nobody is blocked.
LEMMA PinsInit == SharedInit => PinsInv
BY DEF SharedInit, Init, PinsInv

\* Each step keeps the pins as they say.
LEMMA PinsStep == PinsInv /\ [SharedNext]_sharedVars => PinsInv'
<1> SUFFICES ASSUME PinsInv, [SharedNext]_sharedVars PROVE PinsInv'
  OBVIOUS
<1>1. CASE PollOriginal
  BY <1>1 DEF PollOriginal, Poll, kept, PinsInv
<1>2. CASE RunsOn \/ WaitEnds \/ UNCHANGED sharedVars
  BY <1>2 DEF RunsOn, WaitEnds, EmitSwallowed, Emit, WaitIsOver, vars, shared, kept, sharedVars,
     PinsInv
<1>3. CASE ReturnsPending \/ ReturnsEmitted \/ Panics
  BY <1>3 DEF ReturnsPending, ReturnsEmitted, Panics, PollPending, PollEmitted, EmitPanics,
     StaysBlocked, kept, PinsInv
<1>4. CASE ReturnsReady
  BY <1>4 DEF ReturnsReady, PollReady, PinsInv
<1>5. CASE RepeatPanics
  BY <1>5 DEF RepeatPanics, PollEmitted, kept, PinsInv
<1>6. CASE SaturateAgain
  BY <1>6 DEF SaturateAgain, Saturate, PinsInv
<1>7. CASE GiveUp
  BY <1>7 DEF GiveUp, Desaturate, kept, PinsInv
<1>8. CASE Completes \/ Wakes
  BY <1>8, WakesLeave DEF vars, kept, PinsInv
<1>9. ASSUME NEW c \in Channels, PollRepeat(c) PROVE PinsInv'
  BY <1>9 DEF PollRepeat, PinsInv
<1>10. ASSUME NEW c \in Channels, PollGone(c) \/ PollGonePends(c) PROVE PinsInv'
  BY <1>10 DEF PollGone, PollGonePends, Gone, vars, kept, PinsInv
<1>11. ASSUME NEW c \in Channels, Abandon(c) PROVE PinsInv'
  BY <1>11 DEF Abandon, Leaves, vars, PinsInv
<1> QED
  BY <1>1, <1>2, <1>3, <1>4, <1>5, <1>6, <1>7, <1>8, <1>9, <1>10, <1>11 DEF SharedNext, FutureRuns

-----------------------------------------------------------------------------
(* Nobody is forgotten *)

\* The event that is awaited is the last one in the channel.
AwaitingInv == awaiting # 0 => channel # <<>> /\ awaiting = channel[Len(channel)]

\* At the start nothing is awaited.
LEMMA AwaitingInit == Init => AwaitingInv
BY DEF Init, AwaitingInv

\* An event is awaited as soon as it is sent, and until it is received.
LEMMA AwaitingStep == DataTyped /\ AwaitingInv /\ [Next]_vars => AwaitingInv'
<1> SUFFICES ASSUME DataTyped, AwaitingInv, [Next]_vars PROVE AwaitingInv'
  OBVIOUS
<1>1. CASE Emit
  <2>1. channel \in Seq(Nat) /\ Event(at) \in Nat
    BY EventCounts DEF DataTyped
  <2> QED
    BY <1>1, <2>1 DEF Emit, AwaitingInv
<1>2. CASE PollEmitted
  <2>1. channel \in Seq(Nat) /\ channel # <<>> /\ channel' = Tail(channel)
    BY <1>2 DEF PollEmitted, DataTyped
  <2>2. CASE Len(channel) = 1
    BY <1>2, <2>1, <2>2 DEF PollEmitted, AwaitingInv
  <2>3. CASE Len(channel) # 1
    <3>1. channel' # <<>> /\ channel'[Len(channel')] = channel[Len(channel)]
      <4>1. Len(channel) \in Nat \ {0, 1} /\ Len(channel') = Len(channel) - 1
        BY <2>1, <2>3
      <4>2. channel' # <<>>
        BY <4>1
      <4> QED
        BY <2>1, <4>1, <4>2
    <3>2. awaiting' = 0 \/ awaiting' = awaiting
      BY <1>2 DEF PollEmitted
    <3> QED
      BY <3>1, <3>2 DEF AwaitingInv
  <2> QED
    BY <2>2, <2>3
<1>3. CASE Saturate \/ Desaturate \/ Poll \/ EmitSwallowed \/ EmitPanics \/ WaitIsOver
             \/ PollPending \/ PollReady \/ UNCHANGED vars
  BY <1>3 DEF Saturate, Desaturate, Poll, EmitSwallowed, EmitPanics, WaitIsOver,
              PollPending, PollReady, vars, AwaitingInv
<1> QED
  BY <1>1, <1>2, <1>3 DEF Next

\* The StackWaker of the entry is the one the future has, or is polled with.
Held == poller.is \in Channels \/ (awaited.is = "pending" /\ awaited.waker = weak)

\* Who is blocked is being woken or in that StackWaker; and a StackWaker that has somebody in it, so
\* that others will not poll, is that one or about to be drained.  This is so with nobody left behind.
CallersInv ==
  left = {} /\ status = "saturating" /\ poller # Panicked =>
    /\ \A c \in blocked : BeingWoken(c) \/ (Held /\ c \in wakers[weak])
    /\ weak # 0 /\ wakers[weak] # {} => Held \/ \E n \in Calls : waking[n].arc = weak /\ ~waking[n].drained

\* A call of wake calls nobody before it has drained.
UndrainedInv == \A n \in Calls : ~waking[n].drained => waking[n].calls = {}

\* At the start nobody is called.
LEMMA UndrainedInit == SharedInit => UndrainedInv
BY DEF SharedInit, UndrainedInv, NoCall

\* Only who was drained is called.
LEMMA UndrainedStep == SharedTyped /\ UndrainedInv /\ [SharedNext]_sharedVars => UndrainedInv'
<1> SUFFICES ASSUME SharedTyped, UndrainedInv, [SharedNext]_sharedVars PROVE UndrainedInv'
  OBVIOUS
<1>1. CASE waking' = waking
  BY <1>1 DEF UndrainedInv
<1>2. CASE Completes
  BY <1>2 DEF Completes, UndrainedInv, SharedTyped, NoCall
<1>3. ASSUME NEW n \in Calls, Drain(n) PROVE UndrainedInv'
  BY <1>3 DEF Drain, UndrainedInv, SharedTyped
<1>4. ASSUME NEW n \in Calls, Call(n) PROVE UndrainedInv'
  BY <1>4 DEF Call, UndrainedInv, SharedTyped
<1>5. ASSUME NEW n \in Calls, WakeReturns(n) PROVE UndrainedInv'
  BY <1>5 DEF WakeReturns, UndrainedInv, SharedTyped, NoCall
<1>6. CASE PollOriginal \/ FutureRuns \/ Panics \/ RepeatPanics \/ SaturateAgain \/ GiveUp
             \/ UNCHANGED sharedVars
  BY <1>1, <1>6 DEF PollOriginal, FutureRuns, RunsOn, WaitEnds, ReturnsPending, ReturnsEmitted,
     ReturnsReady, Returns, Panics, RepeatPanics, SaturateAgain, GiveUp, shared, sharedVars
<1>7. ASSUME NEW c \in Channels, PollRepeat(c) \/ PollGone(c) \/ PollGonePends(c) \/ Abandon(c)
      PROVE  UndrainedInv'
  BY <1>1, <1>7 DEF PollRepeat, PollGone, PollGonePends, Abandon
<1> QED
  BY <1>2, <1>3, <1>4, <1>5, <1>6, <1>7 DEF SharedNext, Wakes

\* Who is being woken stays so as long as the calls of wake go on and find the wakers.
LEMMA StillWoken ==
  ASSUME NEW c, BeingWoken(c), c \in woken => c \in woken', waking' = waking,
         \A n \in Calls : Undrained(n) => wakers[waking[n].arc] \subseteq wakers'[waking[n].arc]
  PROVE  BeingWoken(c)'
BY DEF BeingWoken, Undrained

\* So it is when a StackWaker goes that nobody holds.
LEMMA WokenDrop ==
  ASSUME SharedTyped, Drop, waking' = waking, NEW c, BeingWoken(c), c \in woken => c \in woken'
  PROVE  BeingWoken(c)'
<1>1. \A n \in Calls : Undrained(n) => wakers[waking[n].arc] \subseteq wakers'[waking[n].arc]
  <2> SUFFICES ASSUME NEW n \in Calls, Undrained(n)
               PROVE  wakers'[waking[n].arc] = wakers[waking[n].arc]
    OBVIOUS
  <2>1. waking[n].arc \in Arcs
    BY DEF Undrained, SharedTyped
  <2>2. Lives(waking[n].arc)'
    BY DEF Lives
  <2> QED
    BY <2>1, <2>2, DropKeeps
<1> QED
  BY <1>1, StillWoken

\* So it is when another one registers.
LEMMA WokenRegister ==
  ASSUME SharedTyped, poller = NoOne, NEW c \in Channels, Register(c),
         waking' = waking, woken' = woken \ {c}, NEW d, d # c, BeingWoken(d)
  PROVE  BeingWoken(d)'
<1>1. \A n \in Calls : Undrained(n) => wakers[waking[n].arc] \subseteq wakers'[waking[n].arc]
  <2> SUFFICES ASSUME NEW n \in Calls, Undrained(n)
               PROVE  wakers[waking[n].arc] \subseteq wakers'[waking[n].arc]
    OBVIOUS
  <2>1. waking[n].arc \in Arcs /\ Lives(waking[n].arc)
    BY DEF Undrained, SharedTyped, Lives
  <2> QED
    BY <2>1, RegisterKeeps
<1> QED
  BY <1>1, StillWoken

\* So it is when another call of wake begins.
LEMMA WokenComplete ==
  ASSUME SharedTyped, Completes, NEW c, BeingWoken(c)
  PROVE  BeingWoken(c)'
<1>1. PICK n \in Calls : waking[n] = NoCall /\ waking' = [waking EXCEPT ![n].arc = awaited.waker]
  BY DEF Completes
<1>2. wakers' = wakers /\ woken' = woken
  BY DEF Completes
<1>3. \A m \in Calls \ {n} : waking'[m] = waking[m]
  BY <1>1 DEF SharedTyped
<1> QED
  BY <1>1, <1>2, <1>3 DEF BeingWoken, NoCall

\* Who is drained is called.
LEMMA WokenDrain ==
  ASSUME SharedTyped, UndrainedInv, NEW n \in Calls, Drain(n), NEW c, BeingWoken(c)
  PROVE  BeingWoken(c)'
<1> DEFINE a == waking[n].arc
<1>1. /\ a \in Arcs /\ ~waking[n].drained
      /\ wakers' = [wakers EXCEPT ![a] = {}]
      /\ waking' = [waking EXCEPT ![n].drained = TRUE, ![n].calls = wakers[a]]
      /\ woken' = woken
  BY DEF Drain, SharedTyped
<1>2. /\ waking'[n].calls = wakers[a]
      /\ \A m \in Calls \ {n} : waking'[m] = waking[m]
      /\ \A b \in Arcs \ {a} : wakers'[b] = wakers[b]
  BY <1>1 DEF SharedTyped
<1>3. c \in wakers[a] => BeingWoken(c)'
  BY <1>2 DEF BeingWoken
<1>4. CASE c \in woken
  BY <1>1, <1>4 DEF BeingWoken
<1>5. ASSUME NEW m \in Calls, c \in waking[m].calls PROVE BeingWoken(c)'
  <2>1. CASE m = n
    BY <1>1, <1>5, <2>1 DEF UndrainedInv
  <2>2. CASE m # n
    BY <1>2, <1>5, <2>2 DEF BeingWoken
  <2> QED
    BY <2>1, <2>2
<1>6. ASSUME NEW m \in Calls, waking[m].arc # 0, ~waking[m].drained, c \in wakers[waking[m].arc]
      PROVE  BeingWoken(c)'
  <2>1. CASE waking[m].arc = a
    BY <1>3, <1>6, <2>1
  <2>2. CASE waking[m].arc # a
    <3>1. m # n /\ waking[m].arc \in Arcs
      BY <1>6, <2>2 DEF SharedTyped
    <3> QED
      BY <1>2, <1>6, <2>2, <3>1 DEF BeingWoken
  <2> QED
    BY <2>1, <2>2
<1> QED
  BY <1>4, <1>5, <1>6 DEF BeingWoken

\* Who was called is awake.
LEMMA WokenCall ==
  ASSUME SharedTyped, NEW n \in Calls, Call(n), NEW c \in blocked, BeingWoken(c)
  PROVE  BeingWoken(c)'
<1>1. PICK d \in waking[n].calls : /\ woken' = woken \cup ({d} \cap blocked)
                                   /\ waking' = [waking EXCEPT ![n].calls = @ \ {d}]
  BY DEF Call
<1>2. wakers' = wakers
  BY DEF Call
<1>3. /\ waking'[n].calls = waking[n].calls \ {d}
      /\ \A m \in Calls : /\ waking'[m].arc = waking[m].arc
                          /\ waking'[m].drained = waking[m].drained
                          /\ m # n => waking'[m] = waking[m]
  <2>1. waking \in [Calls -> [arc : {0} \cup Arcs, drained : BOOLEAN, calls : SUBSET Channels]]
    BY DEF SharedTyped
  <2>2. waking'[n].calls = waking[n].calls \ {d}
    BY <1>1, <2>1
  <2>3. waking'[n].arc = waking[n].arc /\ waking'[n].drained = waking[n].drained
    BY <1>1, <2>1
  <2>4. \A m \in Calls \ {n} : waking'[m] = waking[m]
    BY <1>1, <2>1
  <2> QED
    BY <2>2, <2>3, <2>4
<1>4. CASE c \in woken \/ c = d
  BY <1>1, <1>4 DEF BeingWoken
<1>5. ASSUME NEW m \in Calls, c \in waking[m].calls, c # d PROVE BeingWoken(c)'
  <2>1. c \in waking'[m].calls
    BY <1>3, <1>5
  <2> QED
    BY <2>1 DEF BeingWoken
<1>6. ASSUME NEW m \in Calls, waking[m].arc # 0, ~waking[m].drained, c \in wakers[waking[m].arc]
      PROVE  BeingWoken(c)'
  <2>1. waking'[m].arc # 0 /\ ~waking'[m].drained /\ c \in wakers'[waking'[m].arc]
    BY <1>2, <1>3, <1>6
  <2> QED
    BY <2>1 DEF BeingWoken
<1> QED
  BY <1>4, <1>5, <1>6 DEF BeingWoken

\* A call of wake that returns has woken all it drained.
LEMMA WokenReturn ==
  ASSUME SharedTyped, NEW n \in Calls, WakeReturns(n), NEW c, BeingWoken(c)
  PROVE  BeingWoken(c)'
<1>1. /\ waking[n].drained /\ waking[n].calls = {}
      /\ waking' = [waking EXCEPT ![n] = NoCall]
      /\ woken' = woken
      /\ Drop
  BY DEF WakeReturns
<1>2. waking'[n] = NoCall /\ \A m \in Calls \ {n} : waking'[m] = waking[m]
  BY <1>1 DEF SharedTyped
<1>3. \A a : (\E m \in Calls \ {n} : a = waking[m].arc) => Lives(a)'
  BY <1>1, <1>2 DEF Lives
<1>4. \A a \in Arcs : Lives(a)' => wakers'[a] = wakers[a]
  BY <1>1, DropKeeps
<1>5. CASE c \in woken
  BY <1>1, <1>5 DEF BeingWoken
<1>6. ASSUME NEW m \in Calls, c \in waking[m].calls PROVE BeingWoken(c)'
  BY <1>1, <1>2, <1>6 DEF BeingWoken
<1>7. ASSUME NEW m \in Calls, waking[m].arc # 0, ~waking[m].drained, c \in wakers[waking[m].arc]
      PROVE  BeingWoken(c)'
  <2>1. m # n /\ waking[m].arc \in Arcs
    BY <1>1, <1>7 DEF SharedTyped
  <2>2. wakers'[waking[m].arc] = wakers[waking[m].arc]
    BY <1>3, <1>4, <2>1
  <2> QED
    BY <1>2, <1>7, <2>1, <2>2 DEF BeingWoken
<1> QED
  BY <1>5, <1>6, <1>7 DEF BeingWoken

\* Nobody is forgotten where nobody is blocked.
LEMMA NobodyBlocked == EntryInv /\ blocked = {} /\ UNCHANGED <<blocked, weak>> => CallersInv'
BY DEF EntryInv, CallersInv

\* While a poll runs, either nobody is blocked or one who is blocked polls.
LEMMA WhoPolls ==
  SharedTyped /\ PollerInv /\ EntryInv /\ polling
    => blocked = {} \/ (poller.is \in Channels /\ poller.waker = weak /\ weak \in Arcs /\ weak # 0)
<1> SUFFICES ASSUME SharedTyped, PollerInv, EntryInv, polling, poller.is \notin Channels
             PROVE  blocked = {}
  BY DEF EntryInv, SharedTyped
<1>1. poller # NoOne /\ poller # Panicked
  BY DEF PollerInv, SomebodyPolls
<1>2. poller = Original
  BY <1>1 DEF SharedTyped
<1>3. can_produce_events
  BY <1>2 DEF EntryInv, Original
<1> QED
  BY <1>3 DEF EntryInv

\* A poll that returns Pending leaves its StackWaker, with all that are in it, with what is awaited.
LEMMA CallersPending ==
  ASSUME SharedTyped, PollerInv, EntryInv, AwaitingInv, PollingInv, CallersInv, ReturnsPending
  PROVE  CallersInv'
<1> SUFFICES ASSUME left = {} PROVE CallersInv'
  BY DEF ReturnsPending, StaysBlocked, kept, CallersInv
<1>1. polling /\ channel = <<>> /\ status = "saturating" /\ UNCHANGED <<blocked, weak, woken, waking>>
  BY DEF ReturnsPending, PollPending, Suspended, PollingInv, StaysBlocked, Returns
<1>2. CASE blocked = {}
  BY <1>1, <1>2, NobodyBlocked
<1>3. CASE poller.is \in Channels /\ poller.waker = weak /\ weak \in Arcs /\ weak # 0
  <2>1. awaiting = 0
    BY <1>1 DEF AwaitingInv
  <2>2. awaited' = [is |-> "pending", waker |-> weak]
    BY <1>3, <2>1 DEF ReturnsPending, Awaits
  <2>3. Drop
    BY DEF ReturnsPending, Returns
  <2>4. \A a : a = weak \/ (\E n \in Calls : a = waking[n].arc) => Lives(a)'
    BY <1>1, <2>2 DEF Lives
  <2>5. wakers'[weak] = wakers[weak]
    BY <1>3, <2>3, <2>4, DropKeeps
  <2>7. poller # Panicked
    BY <1>3, PollersApart
  <2>8. \A c \in blocked : BeingWoken(c)' \/ c \in wakers'[weak]
    <3> TAKE c \in blocked
    <3>1. BeingWoken(c) \/ c \in wakers[weak]
      BY <1>1, <2>7 DEF CallersInv
    <3> QED
      BY <1>1, <2>3, <2>5, <3>1, WokenDrop
  <2>9. Held'
    BY <1>1, <2>2 DEF Held
  <2> QED
    BY <1>1, <2>8, <2>9 DEF CallersInv
<1> QED
  BY <1>1, <1>2, <1>3, WhoPolls

\* One who is the first to register is so because all others are being woken.
LEMMA FirstIsAlone ==
  ASSUME SharedTyped, EntryInv, CallersInv, left = {},
         NEW c \in Channels, PollRepeat(c), Registered = {}, NEW d \in blocked, d # c
  PROVE  BeingWoken(d)'
<1>1. /\ poller = NoOne /\ Register(c) /\ status = "saturating"
      /\ woken' = woken \ {c} /\ waking' = waking
  BY DEF PollRepeat
<1>2. poller # Panicked /\ poller.is \notin Channels
  BY <1>1, PollersApart
<1>3. ~(Held /\ d \in wakers[weak])
  <2> SUFFICES ASSUME Held, d \in wakers[weak] PROVE FALSE
    OBVIOUS
  <2>1. weak # 0 /\ Lives(weak)
    BY <1>2 DEF EntryInv, Held, Lives
  <2>2. Registered = wakers[weak]
    BY <2>1 DEF Registered, Upgrades
  <2> QED
    BY <2>2
<1>4. BeingWoken(d)
  BY <1>1, <1>2, <1>3 DEF CallersInv
<1> QED
  BY <1>1, <1>4, WokenRegister

\* One who polls joins those who are in the StackWaker, or polls because they are being woken.
LEMMA CallersRepeat ==
  ASSUME SharedTyped, PollerInv, EntryInv, CallersInv, NEW c \in Channels, PollRepeat(c)
  PROVE  CallersInv'
<1> SUFFICES ASSUME left = {} PROVE CallersInv'
  BY DEF PollRepeat, CallersInv
<1>1. /\ poller = NoOne /\ Register(c) /\ status = "saturating"
      /\ blocked' = blocked \cup {c} /\ woken' = woken \ {c} /\ waking' = waking
      /\ awaited' = awaited
  BY DEF PollRepeat
<1>2. /\ weak' \in Arcs /\ c \in wakers'[weak']
      /\ \A a \in Arcs : Lives(a) => wakers[a] \subseteq wakers'[a]
      /\ \/ Registered = {} /\ poller' = [is |-> c, waker |-> weak']
         \/ poller' = NoOne /\ weak' = weak /\ weak # 0 /\ wakers[weak] # {}
  BY <1>1, RegisterKeeps
<1>3. poller # Panicked /\ poller.is \notin Channels
  BY <1>1, PollersApart
<1>5. ASSUME NEW d \in blocked, d # c, BeingWoken(d) PROVE BeingWoken(d)'
  BY <1>1, <1>5, WokenRegister
<1>6. \A d \in blocked : BeingWoken(d) \/ (Held /\ d \in wakers[weak])
  BY <1>1, <1>3 DEF CallersInv
<1>7. Held /\ weak # 0 => Lives(weak) /\ weak \in Arcs
  BY <1>3 DEF Held, Lives, SharedTyped
<1>8. CASE Registered = {} /\ poller' = [is |-> c, waker |-> weak']
  <2>1. Held'
    BY <1>8 DEF Held
  <2>2. ASSUME NEW d \in blocked, d # c PROVE BeingWoken(d)'
    BY <1>8, <2>2, FirstIsAlone
  <2> QED
    BY <1>1, <1>2, <2>1, <2>2 DEF CallersInv
<1>9. CASE poller' = NoOne /\ weak' = weak /\ weak # 0 /\ wakers[weak] # {}
  <2>1. Held' <=> Held
    BY <1>1, <1>9 DEF Held
  <2>2. Held \/ \E n \in Calls : waking[n].arc = weak /\ ~waking[n].drained
    BY <1>1, <1>3, <1>9 DEF CallersInv
  <2>3. BeingWoken(c)' \/ Held
    <3> SUFFICES ASSUME ~Held PROVE BeingWoken(c)'
      OBVIOUS
    <3>1. PICK n \in Calls : waking[n].arc = weak /\ ~waking[n].drained
      BY <2>2
    <3> QED
      BY <1>1, <1>2, <1>9, <3>1 DEF BeingWoken
  <2>4. \A d \in blocked' : BeingWoken(d)' \/ (Held' /\ d \in wakers'[weak'])
    <3> TAKE d \in blocked'
    <3>1. CASE d = c
      BY <1>2, <2>1, <2>3, <3>1
    <3>2. CASE d # c
      <4>1. d \in blocked
        BY <1>1, <3>2
      <4>2. Held /\ d \in wakers[weak] => d \in wakers'[weak']
        BY <1>2, <1>7, <1>9
      <4> QED
        BY <1>5, <1>6, <2>1, <3>2, <4>1, <4>2
    <3> QED
      BY <3>1, <3>2
  <2> QED
    BY <1>1, <1>9, <2>1, <2>2, <2>4 DEF CallersInv
<1> QED
  BY <1>2, <1>8, <1>9

\* What is ready passes its StackWaker to a call of wake.
LEMMA CallersComplete ==
  ASSUME SharedTyped, EntryInv, CallersInv, Completes
  PROVE  CallersInv'
<1>1. PICK n \in Calls : waking[n] = NoCall /\ waking' = [waking EXCEPT ![n].arc = awaited.waker]
  BY DEF Completes
<1>2. /\ UNCHANGED <<vars, blocked, weak, wakers, poller, woken, kept>>
      /\ awaited.is = "pending"
  BY DEF Completes
<1>3. /\ waking'[n].arc = awaited.waker /\ ~waking'[n].drained
      /\ \A m \in Calls \ {n} : waking'[m] = waking[m]
  <2>1. waking \in [Calls -> [arc : {0} \cup Arcs, drained : BOOLEAN, calls : SUBSET Channels]]
    BY DEF SharedTyped
  <2>2. waking'[n] = [waking[n] EXCEPT !.arc = awaited.waker]
    BY <1>1, <2>1
  <2>3. waking'[n].arc = awaited.waker /\ ~waking'[n].drained
    BY <1>1, <2>1, <2>2 DEF NoCall
  <2> QED
    BY <1>1, <2>1, <2>3
<1>4. ASSUME NEW c, BeingWoken(c) PROVE BeingWoken(c)'
  BY <1>4, WokenComplete
<1>5. ASSUME Held PROVE Held' \/ (waking'[n].arc = weak /\ ~waking'[n].drained)
  BY <1>2, <1>3, <1>5 DEF Held
<1>6. SUFFICES ASSUME left = {}, status = "saturating", poller # Panicked
               PROVE  /\ \A c \in blocked : BeingWoken(c)' \/ (Held' /\ c \in wakers[weak])
                      /\ weak # 0 /\ wakers[weak] # {} =>
                           Held' \/ \E m \in Calls : waking'[m].arc = weak /\ ~waking'[m].drained
  BY <1>2 DEF CallersInv, vars, kept
<1>7. ASSUME NEW c \in blocked PROVE BeingWoken(c)' \/ (Held' /\ c \in wakers[weak])
  <2>1. CASE BeingWoken(c)
    BY <1>4, <2>1
  <2>2. CASE Held /\ c \in wakers[weak]
    <3>1. weak # 0
      BY <1>7 DEF EntryInv
    <3> QED
      BY <1>2, <1>5, <2>2, <3>1 DEF BeingWoken
  <2> QED
    BY <1>6, <2>1, <2>2 DEF CallersInv
<1>8. ASSUME weak # 0, wakers[weak] # {}
      PROVE  Held' \/ \E m \in Calls : waking'[m].arc = weak /\ ~waking'[m].drained
  <2>1. CASE Held
    BY <1>5, <2>1
  <2>2. ASSUME NEW m \in Calls, waking[m].arc = weak, ~waking[m].drained
        PROVE  waking'[m].arc = weak /\ ~waking'[m].drained
    BY <1>1, <1>3, <1>8, <2>2 DEF NoCall
  <2> QED
    BY <1>6, <1>8, <2>1, <2>2 DEF CallersInv
<1> QED
  BY <1>7, <1>8

\* Who is drained is called.
LEMMA CallersDrain ==
  ASSUME SharedTyped, EntryInv, UndrainedInv, CallersInv, NEW n \in Calls, Drain(n)
  PROVE  CallersInv'
<1> DEFINE a == waking[n].arc
<1>1. /\ a \in Arcs /\ ~waking[n].drained
      /\ wakers' = [wakers EXCEPT ![a] = {}]
      /\ waking' = [waking EXCEPT ![n].drained = TRUE, ![n].calls = wakers[a]]
      /\ UNCHANGED <<vars, blocked, weak, poller, awaited, woken, kept>>
  BY DEF Drain, SharedTyped
<1>2. /\ waking'[n].calls = wakers[a]
      /\ \A m \in Calls \ {n} : waking'[m] = waking[m]
      /\ wakers'[a] = {}
      /\ \A b \in Arcs \ {a} : wakers'[b] = wakers[b]
  BY <1>1 DEF SharedTyped
<1>3. Held' <=> Held
  BY <1>1 DEF Held
<1>4. ASSUME NEW c, c \in wakers[a] PROVE BeingWoken(c)'
  BY <1>2, <1>4 DEF BeingWoken
<1>5. ASSUME NEW c, BeingWoken(c) PROVE BeingWoken(c)'
  BY <1>5, WokenDrain
<1>6. SUFFICES ASSUME left = {}, status = "saturating", poller # Panicked
               PROVE  /\ \A c \in blocked : BeingWoken(c)' \/ (Held' /\ c \in wakers'[weak])
                      /\ weak # 0 /\ wakers'[weak] # {} =>
                           Held' \/ \E m \in Calls : waking'[m].arc = weak /\ ~waking'[m].drained
  BY <1>1 DEF CallersInv, vars, kept
<1>7. weak # 0 /\ weak # a => wakers'[weak] = wakers[weak]
  BY <1>2 DEF SharedTyped
<1>8. ASSUME NEW c \in blocked PROVE BeingWoken(c)' \/ (Held' /\ c \in wakers'[weak])
  <2>1. weak # 0
    BY <1>8 DEF EntryInv
  <2>2. BeingWoken(c) \/ (Held /\ c \in wakers[weak])
    BY <1>6, <1>8 DEF CallersInv
  <2> QED
    BY <1>3, <1>4, <1>5, <1>7, <2>1, <2>2
<1>9. ASSUME weak # 0, wakers'[weak] # {}
      PROVE  Held' \/ \E m \in Calls : waking'[m].arc = weak /\ ~waking'[m].drained
  <2>1. weak # a /\ wakers[weak] # {}
    BY <1>2, <1>7, <1>9
  <2>2. Held \/ \E m \in Calls : waking[m].arc = weak /\ ~waking[m].drained
    BY <1>6, <1>9, <2>1 DEF CallersInv
  <2> QED
    BY <1>2, <1>3, <2>1, <2>2
<1> QED
  BY <1>8, <1>9

\* Who was called is awake.
LEMMA CallersCall ==
  ASSUME SharedTyped, CallersInv, NEW n \in Calls, Call(n)
  PROVE  CallersInv'
<1>1. PICK d \in waking[n].calls : /\ woken' = woken \cup ({d} \cap blocked)
                                   /\ waking' = [waking EXCEPT ![n].calls = @ \ {d}]
  BY DEF Call
<1>2. UNCHANGED <<vars, blocked, weak, wakers, poller, awaited, kept>>
  BY DEF Call
<1>3. /\ waking'[n].calls = waking[n].calls \ {d}
      /\ \A m \in Calls : /\ waking'[m].arc = waking[m].arc
                          /\ waking'[m].drained = waking[m].drained
                          /\ m # n => waking'[m] = waking[m]
  <2>1. waking \in [Calls -> [arc : {0} \cup Arcs, drained : BOOLEAN, calls : SUBSET Channels]]
    BY DEF SharedTyped
  <2>2. waking'[n].calls = waking[n].calls \ {d}
    BY <1>1, <2>1
  <2>3. waking'[n].arc = waking[n].arc /\ waking'[n].drained = waking[n].drained
    BY <1>1, <2>1
  <2>4. \A m \in Calls \ {n} : waking'[m] = waking[m]
    BY <1>1, <2>1
  <2> QED
    BY <2>2, <2>3, <2>4
<1>4. ASSUME NEW c \in blocked, BeingWoken(c) PROVE BeingWoken(c)'
  BY <1>4, WokenCall
<1>5. Held' <=> Held
  BY <1>2 DEF Held
<1>6. SUFFICES ASSUME left = {}, status = "saturating", poller # Panicked
               PROVE  /\ \A c \in blocked : BeingWoken(c)' \/ (Held' /\ c \in wakers[weak])
                      /\ weak # 0 /\ wakers[weak] # {} =>
                           Held' \/ \E m \in Calls : waking'[m].arc = weak /\ ~waking'[m].drained
  BY <1>2 DEF CallersInv, vars, kept
<1>7. \A c \in blocked : BeingWoken(c)' \/ (Held' /\ c \in wakers'[weak])
  BY <1>2, <1>4, <1>5, <1>6 DEF CallersInv
<1>8. ASSUME weak # 0, wakers[weak] # {}
      PROVE  Held' \/ \E m \in Calls : waking'[m].arc = weak /\ ~waking'[m].drained
  <2>1. Held \/ \E m \in Calls : waking[m].arc = weak /\ ~waking[m].drained
    BY <1>6, <1>8 DEF CallersInv
  <2> QED
    BY <1>3, <1>5, <2>1
<1> QED
  BY <1>2, <1>7, <1>8

\* A StackWaker that goes is nobody's.
LEMMA CallersReturn ==
  ASSUME SharedTyped, EntryInv, CallersInv, NEW n \in Calls, WakeReturns(n)
  PROVE  CallersInv'
<1>1. /\ waking[n].drained /\ waking[n].calls = {}
      /\ waking' = [waking EXCEPT ![n] = NoCall]
      /\ UNCHANGED <<vars, blocked, weak, poller, awaited, woken, kept>>
      /\ Drop
  BY DEF WakeReturns
<1>2. waking'[n] = NoCall /\ \A m \in Calls \ {n} : waking'[m] = waking[m]
  BY <1>1 DEF SharedTyped
<1>3. \A a : a = awaited.waker \/ a = poller.waker \/ (\E m \in Calls \ {n} : a = waking[m].arc)
          => Lives(a)'
  BY <1>1, <1>2 DEF Lives
<1>4. /\ \A a \in Arcs : wakers'[a] \subseteq wakers[a]
      /\ \A a \in Arcs : Lives(a)' => wakers'[a] = wakers[a]
  BY <1>1, DropKeeps
<1>5. ASSUME NEW c, BeingWoken(c) PROVE BeingWoken(c)'
  BY <1>5, WokenReturn
<1>6. Held' <=> Held
  BY <1>1 DEF Held
<1>7. SUFFICES ASSUME left = {}, status = "saturating", poller # Panicked
               PROVE  /\ \A c \in blocked : BeingWoken(c)' \/ (Held' /\ c \in wakers'[weak])
                      /\ weak # 0 /\ wakers'[weak] # {} =>
                           Held' \/ \E m \in Calls : waking'[m].arc = weak /\ ~waking'[m].drained
  BY <1>1 DEF CallersInv, vars, kept
<1>8. weak # 0 /\ Held => wakers'[weak] = wakers[weak]
  BY <1>3, <1>4 DEF Held, EntryInv, SharedTyped
<1>9. blocked # {} => weak # 0
  BY DEF EntryInv
<1>10. \A c \in blocked : BeingWoken(c)' \/ (Held' /\ c \in wakers'[weak])
  BY <1>5, <1>6, <1>7, <1>8, <1>9 DEF CallersInv
<1>11. ASSUME weak # 0, wakers'[weak] # {}
       PROVE  Held' \/ \E m \in Calls : waking'[m].arc = weak /\ ~waking'[m].drained
  <2>1. weak \in Arcs /\ wakers[weak] # {}
    BY <1>4, <1>11 DEF SharedTyped
  <2>2. Held \/ \E m \in Calls : waking[m].arc = weak /\ ~waking[m].drained
    BY <1>7, <1>11, <2>1 DEF CallersInv
  <2> QED
    BY <1>1, <1>2, <1>6, <2>2
<1> QED
  BY <1>10, <1>11

\* A channel that leaves takes nobody with it.
LEMMA CallersAbandon ==
  ASSUME SharedTyped, EntryInv, CallersInv, NEW c \in Channels, Abandon(c)
  PROVE  CallersInv'
<1>1. /\ UNCHANGED <<vars, wakers, poller, awaited, waking, left>>
      /\ blocked' = blocked \ {c} /\ woken' = woken \ {c}
      /\ weak' = IF blocked \subseteq {c} THEN 0 ELSE weak
  BY DEF Abandon, Leaves
<1>2. CASE blocked' = {}
  BY <1>1, <1>2 DEF CallersInv
<1>3. CASE blocked' # {}
  <2>1. weak' = weak
    BY <1>1, <1>3
  <2>2. \A d \in blocked' : d \in blocked /\ d # c
    BY <1>1
  <2>3. ASSUME NEW d \in blocked', BeingWoken(d) PROVE BeingWoken(d)'
    BY <1>1, <2>2, <2>3 DEF BeingWoken
  <2>4. Held' <=> Held
    BY <1>1, <2>1 DEF Held
  <2> QED
    BY <1>1, <2>1, <2>2, <2>3, <2>4 DEF CallersInv, vars
<1> QED
  BY <1>2, <1>3

\* At the start nobody is blocked.
LEMMA CallersInit == SharedInit => CallersInv
BY DEF SharedInit, CallersInv

\* Nobody is forgotten by a step.
LEMMA CallersStep ==
  SharedTyped /\ PollerInv /\ EntryInv /\ UndrainedInv /\ AwaitingInv /\ PollingInv /\ CallersInv
    /\ [SharedNext]_sharedVars => CallersInv'
<1> SUFFICES ASSUME SharedTyped, PollerInv, EntryInv, UndrainedInv, AwaitingInv, PollingInv,
                    CallersInv, [SharedNext]_sharedVars
             PROVE  CallersInv'
  OBVIOUS
<1>1. CASE PollOriginal
  BY <1>1, NobodyBlocked DEF PollOriginal, EntryInv
<1>2. CASE RunsOn \/ UNCHANGED sharedVars
  <2>1. UNCHANGED <<status, shared>>
    BY <1>2 DEF RunsOn, EmitSwallowed, Emit, sharedVars, vars
  <2> QED
    BY <2>1 DEF shared, kept, CallersInv, Held, BeingWoken
<1>3. CASE WaitEnds
  <2>1. polling /\ UNCHANGED <<status, blocked, weak, wakers, poller, waking, woken, left>>
    BY <1>3 DEF WaitEnds, WaitIsOver, Runs, kept
  <2>2. CASE blocked = {}
    BY <2>1, <2>2, NobodyBlocked
  <2>3. CASE poller.is \in Channels
    BY <2>1, <2>3 DEF CallersInv, Held, BeingWoken
  <2> QED
    BY <2>1, <2>2, <2>3, WhoPolls
<1>4. CASE ReturnsPending
  BY <1>4, CallersPending
<1>5. CASE ReturnsEmitted
  BY <1>5, NobodyBlocked DEF ReturnsEmitted, StaysBlocked, EntryInv
<1>6. CASE ReturnsReady \/ Panics \/ GiveUp
  BY <1>6 DEF ReturnsReady, PollReady, Panics, EmitPanics, GiveUp, Desaturate, CallersInv
<1>7. CASE RepeatPanics
  BY <1>7 DEF RepeatPanics, CallersInv
<1>8. CASE SaturateAgain
  <2>1. CASE blocked = {}
    BY <1>8, <2>1, NobodyBlocked DEF SaturateAgain
  <2>2. CASE blocked # {}
    BY <1>8, <2>2 DEF SaturateAgain, CallersInv
  <2> QED
    BY <2>1, <2>2
<1>9. CASE Completes
  BY <1>9, CallersComplete
<1>10. ASSUME NEW n \in Calls, Drain(n) \/ Call(n) \/ WakeReturns(n) PROVE CallersInv'
  BY <1>10, CallersDrain, CallersCall, CallersReturn
<1>11. ASSUME NEW c \in Channels, PollRepeat(c) PROVE CallersInv'
  BY <1>11, CallersRepeat
<1>12. ASSUME NEW c \in Channels, PollGone(c) \/ PollGonePends(c) PROVE CallersInv'
  BY <1>12 DEF PollGone, PollGonePends, Gone, vars, CallersInv
<1>13. ASSUME NEW c \in Channels, Abandon(c) PROVE CallersInv'
  BY <1>13, CallersAbandon
<1> QED
  BY <1>1, <1>2, <1>3, <1>4, <1>5, <1>6, <1>7, <1>8, <1>9, <1>10, <1>11, <1>12, <1>13
     DEF SharedNext, FutureRuns, Wakes

\* Who is still blocked when the step is done is being woken, and so are those for whom it is polled.
WokenInv ==
  left = {} /\ status # "panicked" /\ poller # Panicked =>
    /\ status # "saturating" => \A c \in blocked : BeingWoken(c)
    /\ poller.is \in Channels => \A c \in blocked \ {poller.is} : BeingWoken(c)

\* At the start nobody is blocked.
LEMMA WokenInit == SharedInit => WokenInv
BY DEF SharedInit, WokenInv

\* What was awaited and its wake wake all they should.
LEMMA WokenWakes ==
  ASSUME SharedTyped, UndrainedInv, Completes \/ Wakes, NEW c \in blocked, BeingWoken(c)
  PROVE  BeingWoken(c)'
<1>1. CASE Completes
  BY <1>1, WokenComplete
<1>2. ASSUME NEW n \in Calls, Drain(n) \/ Call(n) \/ WakeReturns(n) PROVE BeingWoken(c)'
  BY <1>2, WokenDrain, WokenCall, WokenReturn
<1> QED
  BY <1>1, <1>2 DEF Wakes

\* The one who finds the step done leaves others behind that are being woken.
LEMMA WokenReady ==
  ASSUME SharedTyped, PollerInv, EntryInv, PollingInv, WokenInv, ReturnsReady
  PROVE  WokenInv'
<1> SUFFICES ASSUME left = {} PROVE WokenInv'
  BY DEF ReturnsReady, WokenInv
<1>1. polling /\ status = "saturating" /\ poller # Panicked
  BY DEF ReturnsReady, PollReady, PollingInv, PollerInv, SomebodyPolls
<1>2. /\ blocked' = blocked \ {poller.is}
      /\ poller' = NoOne /\ Drop /\ waking' = waking /\ woken' = woken
  BY DEF ReturnsReady, Leaves, Returns
<1>3. \A c \in blocked' : BeingWoken(c)
  BY <1>1, <1>2, WhoPolls DEF WokenInv
<1>4. \A c \in blocked' : BeingWoken(c)'
  BY <1>2, <1>3, WokenDrop
<1> QED
  BY <1>2, <1>4, PollersApart DEF WokenInv

\* A step that is given up is pinned by nobody: those who are blocked on it are being woken.
LEMMA WokenGiveUp ==
  ASSUME SharedTyped, PinsInv, WokenInv, GiveUp
  PROVE  WokenInv'
<1> SUFFICES ASSUME left = {} PROVE WokenInv'
  BY DEF GiveUp, kept, WokenInv
<1>1. /\ poller = NoOne /\ pins = {} /\ status \in {"saturating", "saturated"}
      /\ blocked' = blocked /\ poller' = poller /\ waking' = waking /\ woken' = woken /\ Drop
  BY DEF GiveUp, Desaturate
<1>2. \A c \in blocked : BeingWoken(c)
  <2>1. CASE status = "saturating"
    BY <1>1, <2>1 DEF PinsInv
  <2>2. CASE status # "saturating"
    BY <1>1, <2>2, PollersApart DEF WokenInv
  <2> QED
    BY <2>1, <2>2
<1>3. \A c \in blocked : BeingWoken(c)'
  BY <1>1, <1>2, WokenDrop
<1> QED
  BY <1>1, <1>3, PollersApart DEF WokenInv

\* Nobody is left behind by a step who is not woken.
LEMMA WokenStep ==
  SharedTyped /\ PollerInv /\ EntryInv /\ PinsInv /\ UndrainedInv /\ PollingInv /\ CallersInv
    /\ WokenInv /\ [SharedNext]_sharedVars => WokenInv'
<1> SUFFICES ASSUME SharedTyped, PollerInv, EntryInv, PinsInv, UndrainedInv, PollingInv,
                    CallersInv, WokenInv, [SharedNext]_sharedVars
             PROVE  WokenInv'
  OBVIOUS
<1>1. CASE PollOriginal
  BY <1>1, PollersApart DEF PollOriginal, Poll, WokenInv
<1>2. CASE RunsOn \/ WaitEnds \/ UNCHANGED sharedVars
  <2>1. UNCHANGED <<status, left, blocked, poller, wakers, waking, woken>>
    BY <1>2 DEF RunsOn, WaitEnds, EmitSwallowed, Emit, WaitIsOver, vars, shared, kept, sharedVars
  <2> QED
    BY <2>1 DEF WokenInv, BeingWoken
<1>3. CASE ReturnsPending \/ ReturnsEmitted
  <2>1. polling /\ status' = status /\ poller' = NoOne
    BY <1>3 DEF ReturnsPending, ReturnsEmitted, PollPending, PollEmitted, Suspended, Returns
  <2> QED
    BY <2>1, PollersApart DEF PollingInv, WokenInv
<1>4. CASE Panics
  BY <1>4 DEF Panics, EmitPanics, WokenInv
<1>5. CASE ReturnsReady
  BY <1>5, WokenReady
<1>6. CASE RepeatPanics
  BY <1>6 DEF RepeatPanics, WokenInv
<1>7. CASE SaturateAgain
  BY <1>7, PollersApart DEF SaturateAgain, Saturate, WokenInv
<1>8. CASE GiveUp
  BY <1>8, WokenGiveUp
<1>9. CASE Completes \/ Wakes
  <2>1. UNCHANGED <<status, left, blocked, poller>>
    BY <1>9, WakesLeave DEF vars, kept
  <2>2. \A c \in blocked : BeingWoken(c) => BeingWoken(c)'
    BY <1>9, WokenWakes
  <2> QED
    BY <2>1, <2>2 DEF WokenInv
<1>10. ASSUME NEW c \in Channels, PollRepeat(c) PROVE WokenInv'
  <2> SUFFICES ASSUME left = {} PROVE WokenInv'
    BY <1>10 DEF PollRepeat, WokenInv
  <2>1. status' = "saturating" /\ poller = NoOne /\ Register(c) /\ blocked' = blocked \cup {c}
    BY <1>10 DEF PollRepeat
  <2>2. CASE poller' = NoOne
    BY <2>1, <2>2, PollersApart DEF WokenInv
  <2>3. CASE Registered = {} /\ poller'.is = c
    <3>1. \A d \in blocked' \ {c} : BeingWoken(d)'
      BY <1>10, <2>1, <2>3, FirstIsAlone
    <3> QED
      BY <2>1, <2>3, <3>1 DEF WokenInv
  <2> QED
    BY <2>1, <2>2, <2>3, RegisterKeeps
<1>11. ASSUME NEW c \in Channels, PollGone(c) PROVE WokenInv'
  BY <1>11 DEF PollGone, WokenInv
<1>12. ASSUME NEW c \in Channels, PollGonePends(c) PROVE WokenInv'
  BY <1>12 DEF PollGonePends, WokenInv
<1>13. ASSUME NEW c \in Channels, Abandon(c) PROVE WokenInv'
  <2>1. /\ UNCHANGED <<status, left, wakers, poller, waking>> /\ poller = NoOne
        /\ blocked' = blocked \ {c} /\ woken' = woken \ {c}
    BY <1>13 DEF Abandon, Leaves, vars
  <2>2. \A d \in blocked' : BeingWoken(d) => BeingWoken(d)'
    BY <2>1 DEF BeingWoken
  <2> QED
    BY <2>1, <2>2, PollersApart DEF WokenInv
<1> QED
  BY <1>1, <1>2, <1>3, <1>4, <1>5, <1>6, <1>7, <1>8, <1>9, <1>10, <1>11, <1>12, <1>13
     DEF SharedNext, FutureRuns

\* As long as nobody was left behind on the step, and however polls on one thread and wakes on
\* others interleave, no caller is forgotten: register asks under the lock whether it is the first,
\* who is not relies on a waker that the future has or that is about to be drained, and who saturates
\* the step polls because all others are being woken.
THEOREM NoOneEverForgotten == SharedSpec => []NoOneForgotten
<1>1. EntryInv /\ CallersInv /\ WokenInv => NoOneForgotten
  <2> SUFFICES ASSUME EntryInv, CallersInv, WokenInv, left = {}, poller = NoOne,
                      status # "panicked", NEW c \in blocked
               PROVE  WillBeWoken(c)
    BY DEF NoOneForgotten, EveryCallerIsWoken, Undisturbed
  <2>1. poller # Panicked /\ poller.is \notin Channels /\ weak # 0
    BY PollersApart DEF EntryInv
  <2>2. BeingWoken(c) \/ (Held /\ c \in wakers[weak])
    BY <2>1 DEF CallersInv, WokenInv
  <2> QED
    BY <2>1, <2>2 DEF WillBeWoken, Held
<1>2. SharedInit => Init
  BY DEF SharedInit
<1> QED
  BY <1>1, <1>2, SharedTypedInit, SharedTypedStep, PollerInit, PollerStep, EntryInit, EntryStep,
     PinsInit, PinsStep, UndrainedInit, UndrainedStep, CallersInit, CallersStep, WokenInit, WokenStep,
     SharedStepIsStep, TypedInit, DataStep, AwaitingInit, AwaitingStep, OrderInit, PollingStep, PTL
     DEF SharedSpec
=============================================================================
