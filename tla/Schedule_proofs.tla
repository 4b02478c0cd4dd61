-------------------------- MODULE Schedule_proofs --------------------------
(***************************************************************************)
(* The schedule of a transposer, for every number of events, inputs and    *)
(* times: keys are never taken twice, the three maps stay in sync, handles *)
(* keep naming their events, and nothing pending is left behind.           *)
(***************************************************************************)
EXTENDS Schedule, FiniteSetTheorems, SequenceTheorems, WellFoundedInduction, TLAPS

-----------------------------------------------------------------------------
(* The first key *)

\* A non-empty set of naturals has a least element.
LEMMA LeastNatural ==
  ASSUME NEW S \in SUBSET Nat, S # {}
  PROVE  \E x \in S : \A y \in S : x <= y
<1> DEFINE R == OpToRel(<, Nat)
<1>1. \E x \in S : \A y \in S : ~ (<<y, x>> \in R)
  BY WFMin, NatLessThanWellFounded
<1>2. ASSUME NEW x \in S, NEW y \in S, ~ (<<y, x>> \in R)
      PROVE  x <= y
  BY <1>2, SMT DEF OpToRel
<1> QED
  BY <1>1, <1>2

\* A non-empty set of keys has a first: get_first answers None for an empty schedule only.
LEMMA FirstExists ==
  ASSUME NEW S \in SUBSET Keys, S # {}
  PROVE  \E k \in S : IsFirst(k, S)
<1>1. PICK t \in {k.time : k \in S} : \A u \in {k.time : k \in S} : t <= u
  <2>1. {k.time : k \in S} \in SUBSET Nat
    BY DEF Keys
  <2>2. {k.time : k \in S} # {}
    OBVIOUS
  <2> QED
    BY <2>1, <2>2, LeastNatural
<1> DEFINE T == {k \in S : k.time = t}
<1>2. PICK p \in {k.parent_index : k \in T} : \A q \in {k.parent_index : k \in T} : p <= q
  <2>1. {k.parent_index : k \in T} \in SUBSET Nat
    BY DEF Keys
  <2>2. {k.parent_index : k \in T} # {}
    BY <1>1
  <2> QED
    BY <2>1, <2>2, LeastNatural
<1> DEFINE P == {k \in T : k.parent_index = p}
<1>3. PICK e \in {k.emission_index : k \in P} : \A f \in {k.emission_index : k \in P} : e <= f
  <2>1. {k.emission_index : k \in P} \in SUBSET Nat
    BY DEF Keys
  <2>2. {k.emission_index : k \in P} # {}
    BY <1>2
  <2> QED
    BY <2>1, <2>2, LeastNatural
<1>4. PICK k \in P : k.emission_index = e
  BY <1>3
<1>5. ASSUME NEW l \in S, l # k
      PROVE  Less(k, l)
  <2>1. /\ k \in Keys /\ l \in Keys
        /\ k.time <= l.time
        /\ l.time = k.time => k.parent_index <= l.parent_index
        /\ l.time = k.time /\ l.parent_index = k.parent_index
             => k.emission_index <= l.emission_index
    BY <1>1, <1>2, <1>3, <1>4
  <2> QED
    BY <1>5, <2>1 DEF Keys, Less
<1> QED
  BY <1>4, <1>5 DEF IsFirst

-----------------------------------------------------------------------------
(* Types *)

\* The types hold at the start, when the maps are empty.
LEMMA TypeInit == Init => TypeOK
BY ScheduleAssumption DEF Init, TypeOK, NoEntries, ContextAt

\* The key of a new event is one, and schedule_event keeps the types of all but the handles.
LEMMA SchedulesTypes ==
  ASSUME TypeOK, NEW t \in Times, Schedules(t)
  PROVE  /\ Spawn(t) \in Keys
         /\ DOMAIN schedule' = DOMAIN schedule \cup {Spawn(t)}
         /\ schedule' \in [DOMAIN schedule' -> 1..planned']
         /\ schedule'[Spawn(t)] = planned'
         /\ \A k \in DOMAIN schedule : k # Spawn(t) => schedule'[k] = schedule[k]
         /\ planned' = planned + 1 /\ planned' \in Nat
         /\ cx' = [time |-> cx.time, index |-> cx.index, emission |-> cx.emission + 1]
         /\ cx' \in [time : Nat, index : Nat, emission : Nat]
<1>1. Spawn(t) \in Keys
  BY ScheduleAssumption DEF TypeOK, Spawn, Keys, Times
<1>2. planned' = planned + 1 /\ planned' \in Nat /\ 1..planned \subseteq 1..planned'
  BY DEF TypeOK, Schedules
<1>3. schedule \in [DOMAIN schedule -> 1..planned'] /\ planned + 1 \in 1..planned'
  BY <1>2 DEF TypeOK
<1>4. schedule' = Put(schedule, Spawn(t), planned + 1)
  BY DEF Schedules
<1>5. cx' = [time |-> cx.time, index |-> cx.index, emission |-> cx.emission + 1]
  BY DEF Schedules, TypeOK
<1>6. /\ DOMAIN schedule' = DOMAIN schedule \cup {Spawn(t)}
      /\ schedule' \in [DOMAIN schedule' -> 1..planned']
      /\ schedule'[Spawn(t)] = planned + 1
      /\ \A k \in DOMAIN schedule : k # Spawn(t) => schedule'[k] = schedule[k]
  BY <1>3, <1>4 DEF Put
<1>7. cx' \in [time : Nat, index : Nat, emission : Nat]
  BY <1>5 DEF TypeOK
<1> QED
  BY <1>1, <1>2, <1>5, <1>6, <1>7

\* The two halves of TypeOK: the maps, and what runs over them.
MapsTyped ==
  /\ DOMAIN schedule \subseteq Keys
  /\ schedule \in [DOMAIN schedule -> 1..planned]
  /\ DOMAIN expire_handles_forward \subseteq 0..(next_handle - 1)
  /\ expire_handles_forward \in [DOMAIN expire_handles_forward -> Keys]
  /\ DOMAIN expire_handles_backward \subseteq Keys
  /\ expire_handles_backward \in [DOMAIN expire_handles_backward -> 0..(next_handle - 1)]
  /\ next_handle \in Nat
  /\ kept \in [0..(next_handle - 1) -> 1..planned]

LoopTyped ==
  /\ last_updated \in [index : Nat, time : Nat]
  /\ cx \in [time : Nat, index : Nat, emission : Nat]
  /\ index \in Nat
  /\ mode \in {"init", "input", "handler", "loop", "idle"}
  /\ inputs \in Nat /\ event \in Nat /\ planned \in Nat
  /\ mode = "input" => inputs > 0

\* The two halves make up TypeOK.
LEMMA TypeHalves == (TypeOK <=> MapsTyped /\ LoopTyped) /\ (TypeOK' <=> MapsTyped' /\ LoopTyped')
BY DEF TypeOK, MapsTyped, LoopTyped

\* A step that leaves the maps alone keeps their types.
LEMMA MapsKept == MapsTyped /\ UNCHANGED <<schedule, handles, planned>> => MapsTyped'
BY DEF MapsTyped, handles

\* Every call of a handler and every step of the loop keeps the types.
LEMMA TypeStep == TypeOK /\ [Next]_vars => TypeOK'
<1> SUFFICES ASSUME TypeOK, [Next]_vars
             PROVE  TypeOK'
  OBVIOUS
<1>1. ASSUME NEW t \in Times, ScheduleEvent(t)
      PROVE  TypeOK'
  <2>1. 1..planned \subseteq 1..planned'
    <3>1. planned' = planned + 1 /\ planned \in Nat
      BY <1>1, SchedulesTypes DEF TypeOK, ScheduleEvent
    <3> QED
      BY <3>1
  <2>2. DOMAIN schedule' \subseteq Keys /\ schedule' \in [DOMAIN schedule' -> 1..planned']
    BY <1>1, SchedulesTypes DEF TypeOK, ScheduleEvent
  <2>3. cx' \in [time : Nat, index : Nat, emission : Nat] /\ planned' \in Nat
    BY <1>1, SchedulesTypes DEF ScheduleEvent
  <2>4. kept' \in [0..(next_handle' - 1) -> 1..planned']
    BY <1>1, <2>1 DEF ScheduleEvent, TypeOK, handles
  <2> QED
    BY <1>1, <2>2, <2>3, <2>4 DEF ScheduleEvent, Schedules, TypeOK, handles
<1>2. ASSUME NEW t \in Times, ScheduleEventExpireable(t)
      PROVE  TypeOK'
  <2>1. Schedules(t)
    BY <1>2 DEF ScheduleEventExpireable
  <2>2. /\ next_handle' = next_handle + 1 /\ next_handle' \in Nat
        /\ 0..(next_handle' - 1) = (0..(next_handle - 1)) \cup {next_handle}
        /\ next_handle \in 0..(next_handle' - 1)
    <3>1. next_handle' = next_handle + 1 /\ next_handle \in Nat
      BY <1>2 DEF ScheduleEventExpireable, TypeOK
    <3> QED
      BY <3>1
  <2>3. /\ DOMAIN expire_handles_forward' \subseteq 0..(next_handle' - 1)
        /\ expire_handles_forward' \in [DOMAIN expire_handles_forward' -> Keys]
    <3>1. Spawn(t) \in Keys
      BY <2>1, SchedulesTypes
    <3> QED
      BY <1>2, <2>2, <3>1 DEF ScheduleEventExpireable, TypeOK, Put
  <2>4. /\ DOMAIN expire_handles_backward' \subseteq Keys
        /\ expire_handles_backward' \in [DOMAIN expire_handles_backward' -> 0..(next_handle' - 1)]
    <3>1. expire_handles_backward \in [DOMAIN expire_handles_backward -> 0..(next_handle' - 1)]
      BY <2>2 DEF TypeOK
    <3>2. Spawn(t) \in Keys
      BY <2>1, SchedulesTypes
    <3> QED
      BY <1>2, <2>2, <3>1, <3>2 DEF ScheduleEventExpireable, TypeOK, Put
  <2>5. kept' \in [0..(next_handle' - 1) -> 1..planned']
    <3>1. 1..planned \subseteq 1..planned' /\ planned + 1 \in 1..planned'
      <4>1. planned' = planned + 1 /\ planned \in Nat
        BY <2>1, SchedulesTypes DEF TypeOK
      <4> QED
        BY <4>1
    <3>2. kept \in [DOMAIN kept -> 1..planned'] /\ DOMAIN kept = 0..(next_handle - 1)
      BY <3>1 DEF TypeOK
    <3> QED
      BY <1>2, <2>2, <3>1, <3>2 DEF ScheduleEventExpireable, Put
  <2>6. DOMAIN schedule' \subseteq Keys /\ schedule' \in [DOMAIN schedule' -> 1..planned']
    BY <2>1, SchedulesTypes DEF TypeOK
  <2>7. cx' \in [time : Nat, index : Nat, emission : Nat] /\ planned' \in Nat
    BY <2>1, SchedulesTypes
  <2> QED
    BY <2>1, <2>2, <2>3, <2>4, <2>5, <2>6, <2>7 DEF Schedules, TypeOK
<1>3. ASSUME NEW h \in DOMAIN expire_handles_forward, ExpireEvent(h)
      PROVE  TypeOK'
  <2>1. DOMAIN schedule' \subseteq Keys /\ schedule' \in [DOMAIN schedule' -> 1..planned]
    BY <1>3 DEF ExpireEvent, TypeOK, Without
  <2>2. /\ DOMAIN expire_handles_forward' \subseteq 0..(next_handle - 1)
        /\ expire_handles_forward' \in [DOMAIN expire_handles_forward' -> Keys]
    BY <1>3 DEF ExpireEvent, TypeOK, Without
  <2>3. /\ DOMAIN expire_handles_backward' \subseteq Keys
        /\ expire_handles_backward' \in [DOMAIN expire_handles_backward' -> 0..(next_handle - 1)]
    BY <1>3 DEF ExpireEvent, TypeOK, Without
  <2> QED
    BY <1>3, <2>1, <2>2, <2>3 DEF ExpireEvent, TypeOK
<1>4. CASE InitReturns
  <2>1. MapsTyped'
    BY <1>4, TypeHalves, MapsKept DEF InitReturns
  <2>2. LoopTyped'
    BY <1>4, TypeHalves DEF InitReturns, StartLoop, ContextAt, LoopTyped
  <2> QED
    BY <2>1, <2>2, TypeHalves
<1>5. CASE InputReturns
  <2>1. MapsTyped'
    BY <1>5, TypeHalves, MapsKept DEF InputReturns
  <2>2. inputs' \in Nat /\ (inputs' # 0 => inputs' > 0)
    BY <1>5, TypeHalves DEF InputReturns, LoopTyped
  <2>3. LoopTyped'
    <3>1. CASE inputs' = 0
      BY <1>5, <2>2, <3>1, TypeHalves DEF InputReturns, StartLoop, ContextAt, LoopTyped
    <3>2. CASE inputs' # 0
      BY <1>5, <2>2, <3>2, TypeHalves DEF InputReturns, LoopTyped
    <3> QED
      BY <3>1, <3>2
  <2> QED
    BY <2>1, <2>3, TypeHalves
<1>6. CASE HandlerReturns
  <2>1. MapsTyped'
    BY <1>6, TypeHalves, MapsKept DEF HandlerReturns
  <2>2. LoopTyped'
    BY <1>6, TypeHalves DEF HandlerReturns, LoopTyped
  <2> QED
    BY <2>1, <2>2, TypeHalves
<1>7. CASE LoopEnds
  <2>1. MapsTyped'
    BY <1>7, TypeHalves, MapsKept DEF LoopEnds
  <2>2. LoopTyped'
    BY <1>7, TypeHalves DEF LoopEnds, LoopTyped
  <2> QED
    BY <2>1, <2>2, TypeHalves
<1>8. ASSUME NEW k \in DOMAIN schedule, PopFirstEvent(k)
      PROVE  TypeOK'
  <2>1. /\ DOMAIN schedule' \subseteq Keys /\ schedule' \in [DOMAIN schedule' -> 1..planned]
        /\ event' \in Nat
    BY <1>8 DEF PopFirstEvent, TypeOK, Without
  <2>2. /\ DOMAIN expire_handles_forward' \subseteq 0..(next_handle - 1)
        /\ expire_handles_forward' \in [DOMAIN expire_handles_forward' -> Keys]
    BY <1>8 DEF PopFirstEvent, TypeOK, Without
  <2>3. /\ DOMAIN expire_handles_backward' \subseteq Keys
        /\ expire_handles_backward' \in [DOMAIN expire_handles_backward' -> 0..(next_handle - 1)]
    BY <1>8 DEF PopFirstEvent, TypeOK, Without
  <2> QED
    BY <1>8, <2>1, <2>2, <2>3 DEF PopFirstEvent, TypeOK
<1>9. ASSUME NEW k \in DOMAIN schedule, NextScheduled(k)
      PROVE  TypeOK'
  <2>1. k.time \in Nat
    BY DEF TypeOK, Keys
  <2>2. MapsTyped'
    BY <1>9, TypeHalves, MapsKept DEF NextScheduled
  <2>3. LoopTyped'
    BY <1>9, <2>1, TypeHalves DEF NextScheduled, StartLoop, ContextAt, LoopTyped
  <2> QED
    BY <2>2, <2>3, TypeHalves
<1>10. ASSUME NEW t \in Times, NEW n \in 1..MaxInputs, NextInputs(t, n)
       PROVE  TypeOK'
  <2>1. t \in Nat /\ n \in Nat /\ n > 0
    BY ScheduleAssumption DEF Times
  <2>2. MapsTyped'
    BY <1>10, TypeHalves, MapsKept DEF NextInputs
  <2>3. LoopTyped'
    BY <1>10, <2>1, TypeHalves DEF NextInputs, ContextAt, LoopTyped
  <2> QED
    BY <2>2, <2>3, TypeHalves
<1>11. CASE UNCHANGED vars
  <2>1. MapsTyped'
    BY <1>11, TypeHalves, MapsKept DEF vars
  <2>2. LoopTyped'
    BY <1>11, TypeHalves DEF vars, LoopTyped
  <2> QED
    BY <2>1, <2>2, TypeHalves
<1> QED
  BY <1>1, <1>2, <1>3, <1>4, <1>5, <1>6, <1>7, <1>8, <1>9, <1>10, <1>11 DEF Next

\* TypeOK is an invariant, whatever the handlers call in which order.
THEOREM AlwaysTypeOK == Spec => []TypeOK
BY TypeInit, TypeStep, PTL DEF Spec

-----------------------------------------------------------------------------
(* Keys *)

\* Every key was made before the next key of the context: by an earlier handler call, which has a
\* smaller index, or by this one with a smaller count.  Between the handlers the indexes are such
\* that the context of the next step keeps it so.
KeyInv ==
  /\ \A k \in DOMAIN schedule :
       \/ k.parent_index < cx.index
       \/ k.parent_index = cx.index /\ k.emission_index < cx.emission
  /\ mode = "init" => cx.index = last_updated.index
  /\ mode = "handler" => cx.index <= index
  /\ mode = "loop" => cx.index <= index /\ (cx.index = index => cx.emission = 0)
                        /\ index = last_updated.index + 1
  /\ mode = "idle" => \/ cx.index <= last_updated.index
                      \/ cx.index = last_updated.index + 1 /\ cx.emission = 0

\* At the start no key is taken.
LEMMA KeyInit == Init => KeyInv
BY DEF Init, KeyInv, NoEntries, ContextAt

\* A context that starts behind the last index has not made any of the keys.
LEMMA StartLoopKeys ==
  ASSUME TypeOK, TypeOK', NEW t, NEW last \in Nat, StartLoop(t, last),
         UNCHANGED schedule, last_updated'.index = last,
         \A k \in DOMAIN schedule : k.parent_index <= last
  PROVE  KeyInv'
<1>1. /\ cx'.index = last + 1 /\ cx'.emission = 0 /\ index' = last + 1 /\ mode' = "loop"
  BY DEF StartLoop, ContextAt
<1>2. \A k \in DOMAIN schedule' : k.parent_index \in Nat /\ k.parent_index <= last
  BY DEF TypeOK, Keys
<1> QED
  BY <1>1, <1>2 DEF KeyInv

\* No step takes a key that the running handler may still make.
LEMMA KeyStep == TypeOK /\ TypeOK' /\ KeyInv /\ [Next]_vars => KeyInv'
<1> SUFFICES ASSUME TypeOK, TypeOK', KeyInv, [Next]_vars
             PROVE  KeyInv'
  OBVIOUS
<1>a. \A k \in DOMAIN schedule : /\ k.parent_index \in Nat
                                 /\ k.emission_index \in Nat
  BY DEF TypeOK, Keys
<1>1. ASSUME NEW t \in Times, Schedules(t)
      PROVE  KeyInv'
  <2>1. /\ DOMAIN schedule' = DOMAIN schedule \cup {Spawn(t)}
        /\ cx'.index = cx.index /\ cx'.emission = cx.emission + 1
    <3>1. cx' = [time |-> cx.time, index |-> cx.index, emission |-> cx.emission + 1]
      BY <1>1, SchedulesTypes
    <3>2. DOMAIN schedule' = DOMAIN schedule \cup {Spawn(t)}
      BY <1>1, SchedulesTypes
    <3> QED
      BY <3>1, <3>2
  <2>2. Spawn(t).parent_index = cx.index /\ Spawn(t).emission_index = cx.emission
    BY DEF Spawn
  <2>3. cx.index \in Nat /\ cx.emission \in Nat
    BY DEF TypeOK
  <2>4. \A k \in DOMAIN schedule' :
           \/ k.parent_index < cx'.index
           \/ k.parent_index = cx'.index /\ k.emission_index < cx'.emission
    BY <1>a, <2>1, <2>2, <2>3 DEF KeyInv
  <2>5. mode \in {"init", "input", "handler"} /\ UNCHANGED <<mode, index, last_updated>>
    BY <1>1 DEF Schedules, HandlerRuns
  <2> QED
    BY <2>1, <2>4, <2>5 DEF KeyInv
<1>2. ASSUME NEW h \in DOMAIN expire_handles_forward, ExpireEvent(h)
      PROVE  KeyInv'
  BY <1>2 DEF ExpireEvent, KeyInv, Without
<1>3. CASE InitReturns
  <2>1. StartLoop(cx.time, last_updated.index) /\ UNCHANGED <<schedule, last_updated>>
    BY <1>3 DEF InitReturns
  <2>2. last_updated.index \in Nat /\ cx.index = last_updated.index
    BY <1>3 DEF InitReturns, TypeOK, KeyInv
  <2>3. \A k \in DOMAIN schedule : k.parent_index <= last_updated.index
    BY <1>a, <2>2 DEF KeyInv
  <2> QED
    BY <2>1, <2>2, <2>3, StartLoopKeys
<1>4. CASE InputReturns
  <2>1. CASE inputs' = 0
    <3>1. StartLoop(cx.time, cx.index) /\ UNCHANGED schedule /\ last_updated'.index = cx.index
      <4>1. last_updated' = [index |-> cx.index, time |-> cx.time]
        BY <1>4, <2>1 DEF InputReturns
      <4> QED
        BY <1>4, <2>1, <4>1 DEF InputReturns
    <3>2. cx.index \in Nat
      BY DEF TypeOK
    <3>3. \A k \in DOMAIN schedule : k.parent_index <= cx.index
      BY <1>a, <3>2 DEF KeyInv
    <3> QED
      BY <3>1, <3>2, <3>3, StartLoopKeys
  <2>2. CASE inputs' # 0
    BY <1>4, <2>2 DEF InputReturns, KeyInv
  <2> QED
    BY <2>1, <2>2
<1>5. CASE HandlerReturns
  <2>1. mode' = "loop" /\ index' = index + 1 /\ last_updated'.index = index
    BY <1>5 DEF HandlerReturns
  <2>2. UNCHANGED <<schedule, cx>> /\ cx.index <= index /\ cx.index \in Nat /\ index \in Nat
    BY <1>5 DEF HandlerReturns, KeyInv, TypeOK
  <2> QED
    BY <2>1, <2>2 DEF KeyInv
<1>6. CASE LoopEnds
  <2>1. /\ mode = "loop" /\ mode' = "idle" /\ UNCHANGED <<schedule, cx, last_updated>>
        /\ cx.index \in Nat /\ index \in Nat /\ last_updated.index \in Nat
    BY <1>6 DEF LoopEnds, TypeOK
  <2> QED
    BY <2>1 DEF KeyInv
<1>7. ASSUME NEW k \in DOMAIN schedule, PopFirstEvent(k)
      PROVE  KeyInv'
  <2>1. /\ DOMAIN schedule' \subseteq DOMAIN schedule /\ mode = "loop" /\ mode' = "handler"
        /\ UNCHANGED <<cx, index>>
    BY <1>7 DEF PopFirstEvent, Without
  <2> QED
    BY <2>1 DEF KeyInv
<1>b. ASSUME mode = "idle"
      PROVE  \A k \in DOMAIN schedule : k.parent_index <= last_updated.index
  <2>1. last_updated.index \in Nat /\ cx.index \in Nat
    BY DEF TypeOK
  <2> QED
    BY <1>a, <1>b, <2>1 DEF KeyInv
<1>8. ASSUME NEW k \in DOMAIN schedule, NextScheduled(k)
      PROVE  KeyInv'
  <2>1. /\ StartLoop(k.time, last_updated.index) /\ UNCHANGED <<schedule, last_updated>>
        /\ mode = "idle" /\ last_updated.index \in Nat
    BY <1>8 DEF NextScheduled, TypeOK
  <2> QED
    BY <1>b, <2>1, StartLoopKeys
<1>9. ASSUME NEW t \in Times, NEW n \in 1..MaxInputs, NextInputs(t, n)
      PROVE  KeyInv'
  <2>1. /\ mode = "idle" /\ mode' = "input" /\ UNCHANGED <<schedule, last_updated>>
        /\ cx'.index = last_updated.index + 1 /\ last_updated.index \in Nat
    BY <1>9 DEF NextInputs, ContextAt, TypeOK
  <2> QED
    BY <1>a, <1>b, <2>1 DEF KeyInv
<1>10. CASE UNCHANGED vars
  BY <1>10 DEF vars, KeyInv
<1> QED
  BY <1>1, <1>2, <1>3, <1>4, <1>5, <1>6, <1>7, <1>8, <1>9, <1>10
     DEF Next, ScheduleEvent, ScheduleEventExpireable

\* The key of the next event is new, for any number of events, inputs and steps: insert never
\* replaces a scheduled event.
THEOREM KeysAlwaysFresh == Spec => []KeysAreFresh
<1>1. TypeOK /\ KeyInv => KeysAreFresh
  <2>1. ASSUME TypeOK, KeyInv, NEW k \in DOMAIN schedule, k.parent_index = cx.index
        PROVE  k.emission_index < cx.emission
    <3>1. k.parent_index \in Nat /\ cx.index \in Nat
      BY <2>1 DEF TypeOK, Keys
    <3> QED
      BY <2>1, <3>1 DEF KeyInv
  <2> QED
    BY <2>1 DEF KeysAreFresh
<1> QED
  BY <1>1, TypeInit, TypeStep, KeyInit, KeyStep, PTL DEF Spec

-----------------------------------------------------------------------------
(* Times *)

\* Nothing pending is before the context, and the time that was updated last is the context's, but
\* for a step that has just started for an event at its time, or for inputs.
TimeInv ==
  /\ NothingOverdue
  /\ mode = "init" => last_updated.time = cx.time
  /\ mode = "loop" => \/ last_updated.time = cx.time
                      \/ \E k \in DOMAIN schedule : k.time = cx.time

\* At the start nothing is pending.
LEMMA TimeInit == Init => TimeInv
BY ScheduleAssumption DEF Init, TimeInv, NothingOverdue, NoEntries, ContextAt

\* Every step keeps what is pending at or after the time of the handlers, and behind a finished step.
LEMMA TimeStep == TypeOK /\ TypeOK' /\ TimeInv /\ [Next]_vars => TimeInv'
<1> SUFFICES ASSUME TypeOK, TypeOK', TimeInv, [Next]_vars
             PROVE  TimeInv'
  OBVIOUS
<1>a. cx.time \in Nat /\ last_updated.time \in Nat /\ \A k \in DOMAIN schedule : k.time \in Nat
  BY DEF TypeOK, Keys
<1>1. ASSUME NEW t \in Times, Schedules(t)
      PROVE  TimeInv'
  <2>1. /\ DOMAIN schedule' = DOMAIN schedule \cup {Spawn(t)}
        /\ cx'.time = cx.time /\ Spawn(t).time = t /\ t >= cx.time
    BY <1>1, SchedulesTypes DEF Spawn, Schedules
  <2>2. /\ mode \in {"init", "input", "handler"} /\ UNCHANGED <<mode, last_updated>>
    BY <1>1 DEF Schedules, HandlerRuns
  <2> QED
    BY <2>1, <2>2 DEF TimeInv, NothingOverdue
<1>2. ASSUME NEW h \in DOMAIN expire_handles_forward, ExpireEvent(h)
      PROVE  TimeInv'
  BY <1>2 DEF ExpireEvent, TimeInv, NothingOverdue, Without
<1>3. CASE InitReturns
  BY <1>3 DEF InitReturns, StartLoop, ContextAt, TimeInv, NothingOverdue
<1>4. CASE InputReturns
  BY <1>4 DEF InputReturns, StartLoop, ContextAt, TimeInv, NothingOverdue
<1>5. CASE HandlerReturns
  BY <1>5 DEF HandlerReturns, TimeInv, NothingOverdue
<1>6. CASE LoopEnds
  <2>1. /\ mode = "loop" /\ mode' = "idle" /\ UNCHANGED <<schedule, cx, last_updated>>
        /\ \A k \in DOMAIN schedule : IsFirst(k, DOMAIN schedule) => k.time # cx.time
    BY <1>6 DEF LoopEnds
  <2>2. ASSUME NEW k \in DOMAIN schedule
        PROVE  k.time # cx.time
    <3>1. PICK f \in DOMAIN schedule : IsFirst(f, DOMAIN schedule)
      BY FirstExists DEF TypeOK
    <3>2. f.time <= k.time /\ f.time # cx.time /\ f.time >= cx.time
      BY <1>a, <2>1, <3>1 DEF IsFirst, Less, TimeInv, NothingOverdue
    <3> QED
      BY <1>a, <3>2
  <2>3. \A k \in DOMAIN schedule : k.time > cx.time
    BY <1>a, <2>2 DEF TimeInv, NothingOverdue
  <2>4. last_updated.time = cx.time
    BY <2>1, <2>2 DEF TimeInv
  <2> QED
    BY <2>1, <2>3, <2>4 DEF TimeInv, NothingOverdue
<1>7. ASSUME NEW k \in DOMAIN schedule, PopFirstEvent(k)
      PROVE  TimeInv'
  <2>1. /\ DOMAIN schedule' \subseteq DOMAIN schedule /\ mode = "loop" /\ mode' = "handler"
        /\ UNCHANGED cx
    BY <1>7 DEF PopFirstEvent, Without
  <2> QED
    BY <2>1 DEF TimeInv, NothingOverdue
<1>8. ASSUME NEW k \in DOMAIN schedule, NextScheduled(k)
      PROVE  TimeInv'
  <2>1. /\ cx'.time = k.time /\ mode' = "loop" /\ UNCHANGED schedule
        /\ \A l \in DOMAIN schedule : l = k \/ Less(k, l)
    BY <1>8 DEF NextScheduled, StartLoop, ContextAt, IsFirst
  <2>2. \A l \in DOMAIN schedule : l.time >= k.time
    BY <1>a, <2>1 DEF Less
  <2> QED
    BY <2>1, <2>2 DEF TimeInv, NothingOverdue
<1>9. ASSUME NEW t \in Times, NEW n \in 1..MaxInputs, NextInputs(t, n)
      PROVE  TimeInv'
  <2>1. /\ cx'.time = t /\ mode' = "input" /\ UNCHANGED schedule
        /\ \A k \in DOMAIN schedule : t <= k.time
    BY <1>9 DEF NextInputs, ContextAt
  <2>2. t \in Nat
    BY ScheduleAssumption DEF Times
  <2> QED
    BY <1>a, <2>1, <2>2 DEF TimeInv, NothingOverdue
<1>10. CASE UNCHANGED vars
  BY <1>10 DEF vars, TimeInv, NothingOverdue
<1> QED
  BY <1>1, <1>2, <1>3, <1>4, <1>5, <1>6, <1>7, <1>8, <1>9, <1>10
     DEF Next, ScheduleEvent, ScheduleEventExpireable

\* A finished step leaves nothing pending at or before its time.
THEOREM NothingEverOverdue == Spec => []NothingOverdue
<1>1. TimeInv => NothingOverdue
  BY DEF TimeInv
<1> QED
  BY <1>1, TypeInit, TypeStep, TimeInit, TimeStep, PTL DEF Spec

-----------------------------------------------------------------------------
(* Handles *)

\* The maps are in sync, the handles name their events, and no event is scheduled twice.
HandleInv ==
  /\ MapsInSync
  /\ HandlesNameTheirEvents
  /\ \A k, l \in DOMAIN schedule : schedule[k] = schedule[l] => k = l

\* At the start there are no handles.
LEMMA HandleInit == Init => HandleInv
BY DEF Init, HandleInv, MapsInSync, HandlesNameTheirEvents, NoEntries

\* What a call of schedule_event finds: its key and its payload are new.
LEMMA NewEventIsNew ==
  ASSUME TypeOK, KeyInv, HandleInv, NEW t \in Times, Schedules(t)
  PROVE  /\ Spawn(t) \notin DOMAIN schedule
         /\ Spawn(t) \notin DOMAIN expire_handles_backward
         /\ \A h \in DOMAIN expire_handles_forward : expire_handles_forward[h] # Spawn(t)
         /\ \A k \in DOMAIN schedule : schedule[k] # planned + 1
         /\ \A h \in DOMAIN kept : kept[h] # planned + 1
<1>1. Spawn(t) \notin DOMAIN schedule
  <2>1. ASSUME Spawn(t) \in DOMAIN schedule
        PROVE  FALSE
    <3>1. Spawn(t).parent_index = cx.index /\ Spawn(t).emission_index = cx.emission
      BY DEF Spawn
    <3>2. cx.index \in Nat /\ cx.emission \in Nat
      BY DEF TypeOK
    <3> QED
      BY <2>1, <3>1, <3>2 DEF KeyInv
  <2> QED
    BY <2>1
<1>2. Spawn(t) \notin DOMAIN expire_handles_backward
  BY <1>1 DEF HandleInv, MapsInSync
<1>3. \A h \in DOMAIN expire_handles_forward : expire_handles_forward[h] # Spawn(t)
  BY <1>1 DEF HandleInv, MapsInSync
<1>4. /\ planned \in Nat
      /\ \A k \in DOMAIN schedule : schedule[k] \in 1..planned
      /\ \A h \in DOMAIN kept : kept[h] \in 1..planned
  BY DEF TypeOK
<1> QED
  BY <1>1, <1>2, <1>3, <1>4

\* No event is scheduled twice, after a new one too.
LEMMA SchedulesOnce ==
  ASSUME TypeOK, KeyInv, HandleInv, NEW t \in Times, Schedules(t)
  PROVE  \A k, l \in DOMAIN schedule' : schedule'[k] = schedule'[l] => k = l
<1>1. /\ DOMAIN schedule' = DOMAIN schedule \cup {Spawn(t)}
      /\ schedule'[Spawn(t)] = planned + 1
      /\ \A k \in DOMAIN schedule : schedule'[k] = schedule[k]
  BY SchedulesTypes, NewEventIsNew
<1>2. \A k \in DOMAIN schedule : schedule[k] # planned + 1
  BY NewEventIsNew
<1> QED
  BY <1>1, <1>2 DEF HandleInv

\* An event without a handle leaves the handles and what they name alone.
LEMMA HandleScheduleEvent ==
  ASSUME TypeOK, KeyInv, HandleInv, NEW t \in Times, ScheduleEvent(t)
  PROVE  HandleInv'
<1>0. Schedules(t) /\ UNCHANGED <<expire_handles_forward, expire_handles_backward, kept>>
  BY DEF ScheduleEvent, handles
<1>1. /\ DOMAIN schedule' = DOMAIN schedule \cup {Spawn(t)}
      /\ schedule'[Spawn(t)] = planned + 1
      /\ \A k \in DOMAIN schedule : schedule'[k] = schedule[k]
  BY <1>0, SchedulesTypes, NewEventIsNew
<1>2. MapsInSync'
  BY <1>0, <1>1 DEF HandleInv, MapsInSync
<1>3. HandlesNameTheirEvents'
  <2> SUFFICES ASSUME NEW h \in DOMAIN kept
               PROVE  IF h \in DOMAIN expire_handles_forward
                      THEN expire_handles_forward[h] \in DOMAIN schedule'
                             /\ schedule'[expire_handles_forward[h]] = kept[h]
                      ELSE \A k \in DOMAIN schedule' : schedule'[k] # kept[h]
    BY <1>0 DEF HandlesNameTheirEvents
  <2>1. kept[h] # planned + 1
    BY <1>0, NewEventIsNew
  <2> QED
    BY <1>1, <2>1 DEF HandleInv, HandlesNameTheirEvents
<1> QED
  BY <1>0, <1>2, <1>3, SchedulesOnce DEF HandleInv

\* An event with a handle: the handle is new, and names the new event.
LEMMA HandleScheduleEventExpireable ==
  ASSUME TypeOK, KeyInv, HandleInv, NEW t \in Times, ScheduleEventExpireable(t)
  PROVE  HandleInv'
<1>0. Schedules(t)
  BY DEF ScheduleEventExpireable
<1>1. /\ DOMAIN schedule' = DOMAIN schedule \cup {Spawn(t)}
      /\ schedule'[Spawn(t)] = planned + 1
      /\ \A k \in DOMAIN schedule : schedule'[k] = schedule[k]
  BY <1>0, SchedulesTypes, NewEventIsNew
<1>2. next_handle \notin DOMAIN expire_handles_forward /\ next_handle \notin DOMAIN kept
  BY DEF TypeOK
<1>3. /\ DOMAIN expire_handles_forward' = DOMAIN expire_handles_forward \cup {next_handle}
      /\ expire_handles_forward'[next_handle] = Spawn(t)
      /\ \A h \in DOMAIN expire_handles_forward :
           expire_handles_forward'[h] = expire_handles_forward[h]
  BY <1>2 DEF ScheduleEventExpireable, Put
<1>4. /\ DOMAIN expire_handles_backward' = DOMAIN expire_handles_backward \cup {Spawn(t)}
      /\ expire_handles_backward'[Spawn(t)] = next_handle
      /\ \A k \in DOMAIN expire_handles_backward :
           expire_handles_backward'[k] = expire_handles_backward[k]
  <2>1. Spawn(t) \notin DOMAIN expire_handles_backward
    BY <1>0, NewEventIsNew
  <2> QED
    BY <2>1 DEF ScheduleEventExpireable, Put
<1>5. /\ DOMAIN kept' = DOMAIN kept \cup {next_handle}
      /\ kept'[next_handle] = planned + 1
      /\ \A h \in DOMAIN kept : kept'[h] = kept[h]
  BY <1>2 DEF ScheduleEventExpireable, Put
<1>6. MapsInSync'
  BY <1>1, <1>3, <1>4 DEF HandleInv, MapsInSync
<1>7. HandlesNameTheirEvents'
  <2> SUFFICES ASSUME NEW h \in DOMAIN kept'
               PROVE  IF h \in DOMAIN expire_handles_forward'
                      THEN expire_handles_forward'[h] \in DOMAIN schedule'
                             /\ schedule'[expire_handles_forward'[h]] = kept'[h]
                      ELSE \A k \in DOMAIN schedule' : schedule'[k] # kept'[h]
    BY DEF HandlesNameTheirEvents
  <2>1. CASE h = next_handle
    BY <1>1, <1>3, <1>5, <2>1
  <2>2. CASE h # next_handle
    <3>1. h \in DOMAIN kept /\ kept'[h] = kept[h] /\ kept[h] # planned + 1
      BY <1>0, <1>5, <2>2, NewEventIsNew
    <3> QED
      BY <1>1, <1>3, <2>2, <3>1 DEF HandleInv, HandlesNameTheirEvents
  <2> QED
    BY <2>1, <2>2
<1> QED
  BY <1>0, <1>6, <1>7, SchedulesOnce DEF HandleInv

\* An event that leaves the schedule with its handle, if it had one, leaves the others in order.
LEMMA EventLeaves ==
  ASSUME TypeOK, HandleInv, NEW k \in DOMAIN schedule, UNCHANGED kept,
         schedule' = Without(schedule, k),
         expire_handles_backward' = Without(expire_handles_backward, k),
         DOMAIN expire_handles_forward' =
           {h \in DOMAIN expire_handles_forward : expire_handles_forward[h] # k},
         \A h \in DOMAIN expire_handles_forward' :
           expire_handles_forward'[h] = expire_handles_forward[h]
  PROVE  HandleInv'
<1>1. /\ DOMAIN schedule' = DOMAIN schedule \ {k}
      /\ \A l \in DOMAIN schedule' : schedule'[l] = schedule[l]
  BY DEF Without
<1>2. /\ DOMAIN expire_handles_backward' = DOMAIN expire_handles_backward \ {k}
      /\ \A l \in DOMAIN expire_handles_backward' :
           expire_handles_backward'[l] = expire_handles_backward[l]
  BY DEF Without
<1>3. MapsInSync'
  BY <1>1, <1>2 DEF HandleInv, MapsInSync
<1>4. HandlesNameTheirEvents'
  <2> SUFFICES ASSUME NEW h \in DOMAIN kept
               PROVE  IF h \in DOMAIN expire_handles_forward'
                      THEN expire_handles_forward'[h] \in DOMAIN schedule'
                             /\ schedule'[expire_handles_forward'[h]] = kept[h]
                      ELSE \A l \in DOMAIN schedule' : schedule'[l] # kept[h]
    BY DEF HandlesNameTheirEvents
  <2>1. CASE h \in DOMAIN expire_handles_forward /\ expire_handles_forward[h] = k
    BY <1>1, <2>1 DEF HandleInv, HandlesNameTheirEvents
  <2>2. CASE ~(h \in DOMAIN expire_handles_forward /\ expire_handles_forward[h] = k)
    BY <1>1, <2>2 DEF HandleInv, HandlesNameTheirEvents
  <2> QED
    BY <2>1, <2>2
<1>5. \A l, m \in DOMAIN schedule' : schedule'[l] = schedule'[m] => l = m
  BY <1>1 DEF HandleInv
<1> QED
  BY <1>3, <1>4, <1>5 DEF HandleInv

\* Every call that schedules or expires, and every event that is popped, keeps the handles true.
LEMMA HandleStep == TypeOK /\ KeyInv /\ HandleInv /\ [Next]_vars => HandleInv'
<1> SUFFICES ASSUME TypeOK, KeyInv, HandleInv, [Next]_vars
             PROVE  HandleInv'
  OBVIOUS
<1>1. ASSUME NEW h \in DOMAIN expire_handles_forward, ExpireEvent(h)
      PROVE  HandleInv'
  <2> DEFINE k == expire_handles_forward[h]
  <2>1. /\ k \in DOMAIN schedule /\ expire_handles_backward[k] = h
        /\ \A g \in DOMAIN expire_handles_forward : expire_handles_forward[g] = k => g = h
    BY DEF HandleInv, MapsInSync
  <2>2. /\ DOMAIN expire_handles_forward' = DOMAIN expire_handles_forward \ {h}
        /\ \A g \in DOMAIN expire_handles_forward' :
             expire_handles_forward'[g] = expire_handles_forward[g]
    BY <1>1 DEF ExpireEvent, Without
  <2>3. /\ schedule' = Without(schedule, k)
        /\ expire_handles_backward' = Without(expire_handles_backward, k)
        /\ UNCHANGED kept
    BY <1>1 DEF ExpireEvent
  <2>4. DOMAIN expire_handles_forward' =
          {g \in DOMAIN expire_handles_forward : expire_handles_forward[g] # k}
    BY <2>1, <2>2
  <2> QED
    BY <2>1, <2>2, <2>3, <2>4, EventLeaves
<1>2. ASSUME NEW k \in DOMAIN schedule, PopFirstEvent(k)
      PROVE  HandleInv'
  <2>1. schedule' = Without(schedule, k) /\ UNCHANGED kept
    BY <1>2 DEF PopFirstEvent
  <2>2. CASE k \in DOMAIN expire_handles_backward
    <3> DEFINE h == expire_handles_backward[k]
    <3>1. \A g \in DOMAIN expire_handles_forward : expire_handles_forward[g] = k <=> g = h
      BY <2>2 DEF HandleInv, MapsInSync
    <3>2. /\ expire_handles_backward' = Without(expire_handles_backward, k)
          /\ DOMAIN expire_handles_forward' = DOMAIN expire_handles_forward \ {h}
          /\ \A g \in DOMAIN expire_handles_forward' :
               expire_handles_forward'[g] = expire_handles_forward[g]
      BY <1>2, <2>2 DEF PopFirstEvent, Without
    <3>3. DOMAIN expire_handles_forward' =
            {g \in DOMAIN expire_handles_forward : expire_handles_forward[g] # k}
      BY <3>1, <3>2
    <3> QED
      BY <2>1, <3>2, <3>3, EventLeaves
  <2>3. CASE k \notin DOMAIN expire_handles_backward
    <3>1. \A g \in DOMAIN expire_handles_forward : expire_handles_forward[g] # k
      BY <2>3 DEF HandleInv, MapsInSync
    <3>2. UNCHANGED <<expire_handles_forward, expire_handles_backward>>
      BY <1>2, <2>3 DEF PopFirstEvent
    <3>3. expire_handles_backward = Without(expire_handles_backward, k)
      BY <2>3 DEF TypeOK, Without
    <3>4. DOMAIN expire_handles_forward' =
            {g \in DOMAIN expire_handles_forward : expire_handles_forward[g] # k}
      BY <3>1, <3>2
    <3> QED
      BY <2>1, <3>2, <3>3, <3>4, EventLeaves
  <2> QED
    BY <2>2, <2>3
<1>3. CASE UNCHANGED <<schedule, handles>>
  BY <1>3 DEF handles, HandleInv, MapsInSync, HandlesNameTheirEvents
<1>4. CASE InitReturns \/ InputReturns \/ HandlerReturns \/ LoopEnds
  BY <1>3, <1>4 DEF InitReturns, InputReturns, HandlerReturns, LoopEnds
<1>5. ASSUME NEW k \in DOMAIN schedule, NextScheduled(k)
      PROVE  HandleInv'
  BY <1>3, <1>5 DEF NextScheduled
<1>6. ASSUME NEW t \in Times, NEW n \in 1..MaxInputs, NextInputs(t, n)
      PROVE  HandleInv'
  BY <1>3, <1>6 DEF NextInputs
<1>7. CASE UNCHANGED vars
  BY <1>3, <1>7 DEF vars
<1> QED
  BY <1>1, <1>2, <1>4, <1>5, <1>6, <1>7, HandleScheduleEvent, HandleScheduleEventExpireable
     DEF Next

\* The maps of the handles are always in sync: the unwrap in expire_event never fails.
THEOREM MapsAlwaysInSync == Spec => []MapsInSync
<1>1. HandleInv => MapsInSync
  BY DEF HandleInv
<1> QED
  BY <1>1, TypeInit, TypeStep, KeyInit, KeyStep, HandleInit, HandleStep, PTL DEF Spec

\* A handle expires the event it was returned for, or nothing once that event is gone.
THEOREM HandlesAlwaysNameTheirEvents == Spec => []HandlesNameTheirEvents
<1>1. HandleInv => HandlesNameTheirEvents
  BY DEF HandleInv
<1> QED
  BY <1>1, TypeInit, TypeStep, KeyInit, KeyStep, HandleInit, HandleStep, PTL DEF Spec

-----------------------------------------------------------------------------
(* Keys in order *)

\* The derived order of ScheduledTime is total.
LEMMA LessIsTotal ==
  ASSUME NEW k \in Keys, NEW l \in Keys
  PROVE  /\ ~Less(k, k)
         /\ Less(k, l) => ~Less(l, k)
         /\ k # l => Less(k, l) \/ Less(l, k)
<1>1. /\ k.time \in Nat /\ k.parent_index \in Nat /\ k.emission_index \in Nat
      /\ l.time \in Nat /\ l.parent_index \in Nat /\ l.emission_index \in Nat
      /\ k = [time |-> k.time, parent_index |-> k.parent_index,
              emission_index |-> k.emission_index]
      /\ l = [time |-> l.time, parent_index |-> l.parent_index,
              emission_index |-> l.emission_index]
  BY DEF Keys
<1>2. \/ k.time < l.time \/ l.time < k.time
      \/ k.time = l.time /\ (k.parent_index < l.parent_index \/ l.parent_index < k.parent_index)
      \/ k.time = l.time /\ k.parent_index = l.parent_index
           /\ (k.emission_index < l.emission_index \/ l.emission_index < k.emission_index)
      \/ k.time = l.time /\ k.parent_index = l.parent_index
           /\ k.emission_index = l.emission_index
  BY <1>1
<1>3. k # l => Less(k, l) \/ Less(l, k)
  BY <1>1, <1>2 DEF Less
<1>4. ~Less(k, k) /\ (Less(k, l) => ~Less(l, k))
  BY <1>1 DEF Less
<1> QED
  BY <1>3, <1>4

LEMMA LessIsTransitive ==
  ASSUME NEW k \in Keys, NEW l \in Keys, NEW m \in Keys, Less(k, l), Less(l, m)
  PROVE  Less(k, m)
BY DEF Keys, Less

\* Every place is taken by one key, and places are in order.
LEMMA Places ==
  ASSUME NEW S \in SUBSET Keys, IsFiniteSet(S)
  PROVE  /\ Cardinality(S) \in Nat
         /\ \A k \in S : Place(k, S) \in 1..Cardinality(S)
         /\ \A k, l \in S : Less(k, l) => Place(k, S) < Place(l, S)
         /\ \A k, l \in S : Place(k, S) = Place(l, S) => k = l
         /\ \A i \in 1..Cardinality(S) : \E k \in S : Place(k, S) = i
<1> DEFINE Upto(k) == {l \in S : l = k \/ Less(l, k)}
           n == Cardinality(S)
<1>1. n \in Nat
  BY FS_CardinalityType
<1>2. \A k \in S : /\ IsFiniteSet(Upto(k)) /\ Cardinality(Upto(k)) = Place(k, S)
                   /\ Place(k, S) \in Nat /\ Place(k, S) <= n
  <2> TAKE k \in S
  <2>1. Upto(k) \in SUBSET S
    OBVIOUS
  <2>2. Cardinality(Upto(k)) = Place(k, S)
    BY DEF Place
  <2> HIDE DEF Upto
  <2> QED
    BY <2>1, <2>2, FS_Subset, FS_CardinalityType
<1>3. \A k \in S : Place(k, S) \in 1..n
  <2> TAKE k \in S
  <2>1. k \in Upto(k)
    OBVIOUS
  <2> HIDE DEF Upto
  <2>2. Cardinality(Upto(k)) # 0
    BY <1>2, <2>1, FS_EmptySet
  <2> HIDE DEF n
  <2>3. Place(k, S) \in Nat /\ Place(k, S) <= n /\ Place(k, S) # 0
    BY <1>2, <2>2
  <2> QED
    BY <1>1, <2>3
<1>4. ASSUME NEW k \in S, NEW l \in S, Less(k, l)
      PROVE  Place(k, S) < Place(l, S)
  <2>1. Upto(k) \in SUBSET Upto(l)
    BY <1>4, LessIsTransitive
  <2>2. l \in Upto(l) /\ l \notin Upto(k)
    BY <1>4, LessIsTotal
  <2> HIDE DEF Upto
  <2>3. /\ Cardinality(Upto(k)) <= Cardinality(Upto(l))
        /\ Cardinality(Upto(k)) # Cardinality(Upto(l))
    BY <1>2, <2>1, <2>2, FS_Subset
  <2> QED
    BY <1>2, <2>3
<1>5. ASSUME NEW k \in S, NEW l \in S, Place(k, S) = Place(l, S)
      PROVE  k = l
  <2>1. Place(k, S) \in Nat /\ Place(l, S) \in Nat
    BY <1>2
  <2>2. ~(Place(k, S) < Place(l, S)) /\ ~(Place(l, S) < Place(k, S))
    BY <1>5, <2>1
  <2>3. ~Less(k, l) /\ ~Less(l, k)
    BY <1>4, <2>2
  <2> QED
    BY <2>3, LessIsTotal
<1>6. ASSUME NEW i \in 1..n
      PROVE  \E k \in S : Place(k, S) = i
  <2> DEFINE F == [k \in S |-> Place(k, S)]
  <2>1. F \in Injection(S, 1..n)
    <3>1. F \in [S -> 1..n]
      BY <1>3
    <3>2. \A a, b \in S : F[a] = F[b] => a = b
      BY <1>5
    <3> HIDE DEF F
    <3> QED
      BY <3>1, <3>2 DEF Injection, IsInjective
  <2>2. IsFiniteSet(1..n) /\ Cardinality(1..n) = n
    <3>1. 1 \in Int /\ n \in Int
      BY <1>1
    <3>2. IsFiniteSet(1..n) /\ Cardinality(1..n) = IF 1 > n THEN 0 ELSE n - 1 + 1
      BY <3>1, FS_Interval
    <3> HIDE DEF n
    <3> QED
      BY <1>1, <3>2
  <2>3. F \in Surjection(S, 1..n)
    <3> HIDE DEF F
    <3> QED
      BY <2>1, <2>2, FS_Injection
  <2> QED
    BY <2>3 DEF Surjection
<1> QED
  BY <1>1, <1>3, <1>4, <1>5, <1>6

\* The keys in order.
LEMMA OrderedKeys ==
  ASSUME NEW S \in SUBSET Keys, IsFiniteSet(S)
  PROVE  /\ InOrder(S) \in [1..Cardinality(S) -> S]
         /\ \A k \in S : Place(k, S) \in 1..Cardinality(S) /\ InOrder(S)[Place(k, S)] = k
<1>1. ASSUME NEW i \in 1..Cardinality(S)
      PROVE  InOrder(S)[i] \in S /\ Place(InOrder(S)[i], S) = i
  <2>1. \E k \in S : Place(k, S) = i
    BY Places
  <2>2. InOrder(S)[i] = CHOOSE k \in S : Place(k, S) = i
    BY DEF InOrder
  <2> QED
    BY <2>1, <2>2
<1>2. InOrder(S) \in [1..Cardinality(S) -> S]
  BY <1>1 DEF InOrder
<1>3. ASSUME NEW k \in S
      PROVE  Place(k, S) \in 1..Cardinality(S) /\ InOrder(S)[Place(k, S)] = k
  <2>1. Place(k, S) \in 1..Cardinality(S)
    BY Places
  <2>2. /\ InOrder(S)[Place(k, S)] \in S
        /\ Place(InOrder(S)[Place(k, S)], S) = Place(k, S)
    BY <1>1, <2>1
  <2> QED
    BY <2>1, <2>2, Places
<1> QED
  BY <1>2, <1>3

\* A new key moves the places of the keys behind it.
LEMMA NewKeyPlaces ==
  ASSUME NEW S \in SUBSET Keys, IsFiniteSet(S), NEW s \in Keys, s \notin S
  PROVE  LET T == S \cup {s}
         IN  /\ T \in SUBSET Keys /\ IsFiniteSet(T) /\ Cardinality(T) = Cardinality(S) + 1
             /\ \A k \in S : Less(k, s) => Place(k, T) = Place(k, S)
             /\ \A k \in S : Less(s, k) => Place(k, T) = Place(k, S) + 1
<1> DEFINE T == S \cup {s}
           Upto(k) == {l \in S : l = k \/ Less(l, k)}
           UptoT(k) == {l \in T : l = k \/ Less(l, k)}
<1>1. T \in SUBSET Keys /\ IsFiniteSet(T) /\ Cardinality(T) = Cardinality(S) + 1
  BY FS_AddElement
<1>2. ASSUME NEW k \in S, Less(k, s)
      PROVE  Place(k, T) = Place(k, S)
  <2>1. UptoT(k) = Upto(k)
    BY <1>2, LessIsTotal
  <2> QED
    BY <2>1 DEF Place
<1>3. ASSUME NEW k \in S, Less(s, k)
      PROVE  Place(k, T) = Place(k, S) + 1
  <2>1. UptoT(k) = Upto(k) \cup {s} /\ s \notin Upto(k) /\ Upto(k) \in SUBSET S
    BY <1>3
  <2>2. Place(k, T) = Cardinality(UptoT(k)) /\ Place(k, S) = Cardinality(Upto(k))
    BY DEF Place
  <2> HIDE DEF Upto, UptoT
  <2>3. IsFiniteSet(Upto(k))
    BY <2>1, FS_Subset
  <2>4. Cardinality(Upto(k) \cup {s}) = Cardinality(Upto(k)) + 1
    BY <2>1, <2>3, FS_AddElement
  <2> HIDE DEF T
  <2> QED
    BY <2>1, <2>2, <2>4
<1> QED
  BY <1>1, <1>2, <1>3

-----------------------------------------------------------------------------
(* The list of the pending events *)

Entry == [time : Nat, event : Nat]

\* What an insertion and a removal do to the elements of a sequence.
LEMMA InsertedElements ==
  ASSUME NEW S, NEW seq \in Seq(S), NEW e \in S, NEW p \in 1..(Len(seq) + 1)
  PROVE  /\ InsertAt(seq, p, e) \in Seq(S)
         /\ Len(InsertAt(seq, p, e)) = Len(seq) + 1
         /\ \A i \in 1..(Len(seq) + 1) :
              InsertAt(seq, p, e)[i] = IF i < p THEN seq[i] ELSE IF i = p THEN e ELSE seq[i - 1]
<1> DEFINE n == Len(seq)
           front == SubSeq(seq, 1, p - 1)
           back  == SubSeq(seq, p, n)
<1>1. n \in Nat /\ p \in Nat /\ 1 <= p /\ p <= n + 1 /\ \A i \in 1..n : seq[i] \in S
  BY LenProperties, ElementOfSeq
<1>2. /\ front \in Seq(S) /\ Len(front) = p - 1
      /\ \A i \in 1..(p - 1) : front[i] = seq[i]
  <2>1. 1 \in Int /\ p - 1 \in Int /\ \A i \in 1..(p - 1) : seq[i] \in S
    BY <1>1
  <2>2. /\ front \in Seq(S)
        /\ Len(front) = IF 1 <= p - 1 THEN p - 1 - 1 + 1 ELSE 0
        /\ \A i \in 1..(p - 1 - 1 + 1) : front[i] = seq[1 + i - 1]
    BY <2>1, SubSeqProperties
  <2> HIDE DEF front
  <2> QED
    BY <1>1, <2>2
<1>3. /\ back \in Seq(S) /\ Len(back) = n - p + 1
      /\ \A i \in 1..(n - p + 1) : back[i] = seq[p + i - 1]
  <2>1. p \in Int /\ n \in Int /\ \A i \in p..n : seq[i] \in S
    BY <1>1
  <2>2. /\ back \in Seq(S)
        /\ Len(back) = IF p <= n THEN n - p + 1 ELSE 0
        /\ \A i \in 1..(n - p + 1) : back[i] = seq[p + i - 1]
    BY <2>1, SubSeqProperties
  <2> HIDE DEF back
  <2> QED
    BY <1>1, <2>2
<1>4. /\ <<e>> \in Seq(S) /\ Len(<<e>>) = 1 /\ <<e>>[1] = e
  OBVIOUS
<1>5. InsertAt(seq, p, e) = (front \o <<e>>) \o back
  BY DEF InsertAt
<1> HIDE DEF front, back, n
<1>6. /\ front \o <<e>> \in Seq(S) /\ Len(front \o <<e>>) = p
      /\ \A i \in 1..p : (front \o <<e>>)[i] = IF i <= p - 1 THEN front[i] ELSE <<e>>[i - (p - 1)]
  <2>1. /\ front \o <<e>> \in Seq(S) /\ Len(front \o <<e>>) = Len(front) + Len(<<e>>)
        /\ \A i \in 1..(Len(front) + Len(<<e>>)) : (front \o <<e>>)[i] =
             IF i <= Len(front) THEN front[i] ELSE <<e>>[i - Len(front)]
    BY <1>2, <1>4, ConcatProperties
  <2> QED
    BY <1>1, <1>2, <1>4, <2>1
<1> DEFINE all == (front \o <<e>>) \o back
<1>7. /\ all \in Seq(S) /\ Len(all) = n + 1
      /\ \A i \in 1..(n + 1) : all[i] = IF i <= p THEN (front \o <<e>>)[i] ELSE back[i - p]
  <2> DEFINE f == front \o <<e>>
  <2>1. f \in Seq(S) /\ Len(f) = p
    BY <1>6
  <2> HIDE DEF f
  <2>2. /\ f \o back \in Seq(S) /\ Len(f \o back) = Len(f) + Len(back)
        /\ \A i \in 1..(Len(f) + Len(back)) : (f \o back)[i] =
             IF i <= Len(f) THEN f[i] ELSE back[i - Len(f)]
    BY <1>3, <2>1, ConcatProperties
  <2>3. Len(f) + Len(back) = n + 1
    BY <1>1, <1>3, <2>1
  <2> QED
    BY <2>1, <2>2, <2>3 DEF f
<1> HIDE DEF all
<1>8. ASSUME NEW i \in 1..(n + 1)
      PROVE  all[i] = IF i < p THEN seq[i] ELSE IF i = p THEN e ELSE seq[i - 1]
  <2>1. CASE i < p
    BY <1>1, <1>2, <1>6, <1>7, <2>1
  <2>2. CASE i = p
    BY <1>1, <1>4, <1>6, <1>7, <2>2
  <2>3. CASE i > p
    <3>1. i - p \in 1..(n - p + 1) /\ p + (i - p) - 1 = i - 1 /\ ~(i <= p)
      BY <1>1, <2>3
    <3>2. all[i] = back[i - p]
      BY <1>7, <3>1
    <3>3. back[i - p] = seq[p + (i - p) - 1]
      BY <1>3, <3>1
    <3>4. ~(i < p) /\ i # p
      BY <1>1, <2>3
    <3> QED
      BY <3>1, <3>2, <3>3, <3>4
  <2> QED
    BY <1>1, <2>1, <2>2, <2>3
<1> QED
  BY <1>5, <1>7, <1>8 DEF n, all

LEMMA RemovedElements ==
  ASSUME NEW S, NEW seq \in Seq(S), NEW p \in 1..Len(seq)
  PROVE  /\ RemoveAt(seq, p) \in Seq(S)
         /\ Len(RemoveAt(seq, p)) = Len(seq) - 1
         /\ \A i \in 1..(Len(seq) - 1) :
              RemoveAt(seq, p)[i] = IF i < p THEN seq[i] ELSE seq[i + 1]
<1> DEFINE n == Len(seq)
           front == SubSeq(seq, 1, p - 1)
           back  == SubSeq(seq, p + 1, n)
<1>1. n \in Nat /\ p \in Nat /\ 1 <= p /\ p <= n /\ \A i \in 1..n : seq[i] \in S
  BY LenProperties, ElementOfSeq
<1>2. /\ front \in Seq(S) /\ Len(front) = p - 1
      /\ \A i \in 1..(p - 1) : front[i] = seq[i]
  <2>1. 1 \in Int /\ p - 1 \in Int /\ \A i \in 1..(p - 1) : seq[i] \in S
    BY <1>1
  <2>2. /\ front \in Seq(S)
        /\ Len(front) = IF 1 <= p - 1 THEN p - 1 - 1 + 1 ELSE 0
        /\ \A i \in 1..(p - 1 - 1 + 1) : front[i] = seq[1 + i - 1]
    BY <2>1, SubSeqProperties
  <2> HIDE DEF front
  <2> QED
    BY <1>1, <2>2
<1>3. /\ back \in Seq(S) /\ Len(back) = n - p
      /\ \A i \in 1..(n - p) : back[i] = seq[p + i]
  <2>1. p + 1 \in Int /\ n \in Int /\ \A i \in (p + 1)..n : seq[i] \in S
    BY <1>1
  <2>2. /\ back \in Seq(S)
        /\ Len(back) = IF p + 1 <= n THEN n - (p + 1) + 1 ELSE 0
        /\ \A i \in 1..(n - (p + 1) + 1) : back[i] = seq[p + 1 + i - 1]
    BY <2>1, SubSeqProperties
  <2> HIDE DEF back
  <2>3. n - (p + 1) + 1 = n - p /\ (p + 1 <= n => n - p > 0) /\ (~(p + 1 <= n) => n - p = 0)
    BY <1>1
  <2> HIDE DEF back, n
  <2>4. Len(back) = n - p
    BY <2>2, <2>3
  <2>5. ASSUME NEW i \in 1..(n - p)
        PROVE  back[i] = seq[p + i]
    <3>1. p + 1 + i - 1 = p + i
      BY <1>1
    <3>2. back[i] = seq[p + 1 + i - 1]
      BY <2>2, <2>3
    <3> QED
      BY <3>1, <3>2
  <2> QED
    BY <2>2, <2>4, <2>5
<1>4. RemoveAt(seq, p) = front \o back
  BY DEF RemoveAt
<1> HIDE DEF front, back, n
<1>5. /\ front \o back \in Seq(S) /\ Len(front \o back) = n - 1
      /\ \A i \in 1..(n - 1) : (front \o back)[i] = IF i <= p - 1 THEN front[i] ELSE back[i - (p - 1)]
  <2>1. /\ front \o back \in Seq(S) /\ Len(front \o back) = Len(front) + Len(back)
        /\ \A i \in 1..(Len(front) + Len(back)) : (front \o back)[i] =
             IF i <= Len(front) THEN front[i] ELSE back[i - Len(front)]
    BY <1>2, <1>3, ConcatProperties
  <2>2. Len(front) + Len(back) = n - 1
    BY <1>1, <1>2, <1>3
  <2> QED
    BY <1>2, <2>1, <2>2
<1>6. ASSUME NEW i \in 1..(n - 1)
      PROVE  (front \o back)[i] = IF i < p THEN seq[i] ELSE seq[i + 1]
  <2>1. CASE i < p
    BY <1>1, <1>2, <1>5, <2>1
  <2>2. CASE ~(i < p)
    <3>1. i - (p - 1) \in 1..(n - p) /\ p + (i - (p - 1)) = i + 1 /\ ~(i <= p - 1)
      BY <1>1, <2>2
    <3> QED
      BY <1>3, <1>5, <2>2, <3>1
  <2> QED
    BY <2>1, <2>2
<1> QED
  BY <1>4, <1>5, <1>6 DEF n

\* The elements of the list, each at the place of its key.
LEMMA ListedElements ==
  ASSUME NEW f, DOMAIN f \in SUBSET Keys, IsFiniteSet(DOMAIN f), \A k \in DOMAIN f : f[k] \in Nat
  PROVE  /\ Listed(f) \in Seq(Entry)
         /\ Len(Listed(f)) = Cardinality(DOMAIN f) /\ Cardinality(DOMAIN f) \in Nat
         /\ DOMAIN Listed(f) = 1..Cardinality(DOMAIN f)
         /\ \A k \in DOMAIN f : /\ Place(k, DOMAIN f) \in 1..Cardinality(DOMAIN f)
                                /\ Listed(f)[Place(k, DOMAIN f)] = [time |-> k.time, event |-> f[k]]
<1> DEFINE n == Cardinality(DOMAIN f)
           keys == InOrder(DOMAIN f)
<1>1. n \in Nat
  BY FS_CardinalityType
<1>2. /\ keys \in [1..n -> DOMAIN f]
      /\ \A k \in DOMAIN f : Place(k, DOMAIN f) \in 1..n /\ keys[Place(k, DOMAIN f)] = k
  BY OrderedKeys
<1>3. Listed(f) = [i \in DOMAIN keys |-> [time |-> keys[i].time, event |-> f[keys[i]]]]
  BY DEF Listed
<1> HIDE DEF n, keys
<1>4. DOMAIN keys = 1..n
  BY <1>2
<1>5. ASSUME NEW i \in 1..n
      PROVE  [time |-> keys[i].time, event |-> f[keys[i]]] \in Entry
  <2>1. keys[i] \in DOMAIN f
    BY <1>2
  <2>2. keys[i].time \in Nat /\ f[keys[i]] \in Nat
    BY <2>1 DEF Keys
  <2> QED
    BY <2>2 DEF Entry
<1>6. Listed(f) \in [1..n -> Entry]
  BY <1>3, <1>4, <1>5
<1>7. /\ Listed(f) \in Seq(Entry) /\ Len(Listed(f)) = n
      /\ DOMAIN Listed(f) = 1..n
  <2>1. Listed(f) \in Seq(Entry)
    BY <1>1, <1>6, SeqDef
  <2>2. DOMAIN Listed(f) = 1..n
    BY <1>6
  <2>3. Len(Listed(f)) \in Nat /\ DOMAIN Listed(f) = 1..Len(Listed(f))
    BY <2>1, LenProperties
  <2>4. Len(Listed(f)) = n
    BY <1>1, <2>2, <2>3
  <2> QED
    BY <2>1, <2>2, <2>4
<1>8. ASSUME NEW k \in DOMAIN f
      PROVE  /\ Place(k, DOMAIN f) \in 1..n
             /\ Listed(f)[Place(k, DOMAIN f)] = [time |-> k.time, event |-> f[k]]
  BY <1>2, <1>3, <1>4
<1> QED
  BY <1>1, <1>7, <1>8 DEF n

\* One key more puts its event at its place and moves those behind it, and taking the key out
\* again moves them back.
LEMMA ListedWithOneMore ==
  ASSUME NEW f, DOMAIN f \in SUBSET Keys, IsFiniteSet(DOMAIN f), \A k \in DOMAIN f : f[k] \in Nat,
         NEW s \in Keys, s \notin DOMAIN f,
         NEW g, DOMAIN g = DOMAIN f \cup {s}, g[s] \in Nat, \A k \in DOMAIN f : g[k] = f[k]
  PROVE  /\ Place(s, DOMAIN g) \in 1..(Len(Listed(f)) + 1)
         /\ Listed(g) = InsertAt(Listed(f), Place(s, DOMAIN g), [time |-> s.time, event |-> g[s]])
         /\ Place(s, DOMAIN g) \in DOMAIN Listed(g)
         /\ Listed(f) = RemoveAt(Listed(g), Place(s, DOMAIN g))
<1> DEFINE S == DOMAIN f
           T == DOMAIN g
           n == Cardinality(S)
           p == Place(s, T)
           e == [time |-> s.time, event |-> g[s]]
           before == Listed(f)
           after == Listed(g)
<1>1. /\ T \in SUBSET Keys /\ IsFiniteSet(T) /\ Cardinality(T) = n + 1 /\ T = S \cup {s}
      /\ \A k \in S : Less(k, s) => Place(k, T) = Place(k, S)
      /\ \A k \in S : Less(s, k) => Place(k, T) = Place(k, S) + 1
  <2>1. S \in SUBSET Keys /\ IsFiniteSet(S) /\ s \notin S /\ T = S \cup {s}
    OBVIOUS
  <2> HIDE DEF S, T
  <2> QED
    BY <2>1, NewKeyPlaces
<1>2. /\ before \in Seq(Entry) /\ Len(before) = n /\ n \in Nat
      /\ \A k \in S : Place(k, S) \in 1..n /\ before[Place(k, S)] = [time |-> k.time, event |-> f[k]]
  BY ListedElements
<1>3. \A k \in T : g[k] \in Nat
  BY <1>1
<1>4. /\ after \in Seq(Entry) /\ Len(after) = n + 1 /\ DOMAIN after = 1..(n + 1)
      /\ \A k \in T : Place(k, T) \in 1..(n + 1) /\ after[Place(k, T)] = [time |-> k.time, event |-> g[k]]
  <2>1. /\ after \in Seq(Entry) /\ Len(after) = Cardinality(T) /\ DOMAIN after = 1..Cardinality(T)
        /\ \A k \in T : Place(k, T) \in 1..Cardinality(T)
                          /\ after[Place(k, T)] = [time |-> k.time, event |-> g[k]]
    BY <1>1, <1>3, ListedElements
  <2> QED
    BY <1>1, <2>1
<1>5. /\ \A k, l \in T : Less(k, l) => Place(k, T) < Place(l, T)
      /\ \A i \in 1..(n + 1) : \E k \in T : Place(k, T) = i
  <2>1. /\ \A k, l \in T : Less(k, l) => Place(k, T) < Place(l, T)
        /\ \A i \in 1..Cardinality(T) : \E k \in T : Place(k, T) = i
    BY <1>1, Places
  <2> QED
    BY <1>1, <2>1
<1>6. p \in 1..(n + 1) /\ after[p] = e
  BY <1>1, <1>4
<1>7. e \in Entry
  BY DEF Entry, Keys
<1>8. s \in T /\ \A k \in S : k \in T /\ k \in Keys /\ g[k] = f[k]
  BY <1>1
<1> HIDE DEF S, T, n, p, e, before, after
<1>9. ASSUME NEW i \in 1..(n + 1)
      PROVE  after[i] = IF i < p THEN before[i] ELSE IF i = p THEN e ELSE before[i - 1]
  <2>1. PICK k \in T : Place(k, T) = i
    BY <1>5
  <2>2. after[i] = [time |-> k.time, event |-> g[k]]
    BY <1>4, <2>1
  <2>3. CASE k = s
    BY <1>2, <1>6, <2>1, <2>3 DEF p
  <2>4. CASE k \in S /\ Less(k, s)
    <3>1. i < p
      BY <1>5, <1>8, <2>1, <2>4 DEF p
    <3>2. before[i] = after[i]
      BY <1>1, <1>2, <1>8, <2>1, <2>2, <2>4
    <3> QED
      BY <3>1, <3>2
  <2>5. CASE k \in S /\ Less(s, k)
    <3>1. p < i
      BY <1>5, <1>8, <2>1, <2>5 DEF p
    <3>2. Place(k, S) \in 1..n /\ i = Place(k, S) + 1
      BY <1>1, <1>2, <2>1, <2>5
    <3>3. i - 1 = Place(k, S)
      BY <1>2, <3>2
    <3>4. before[i - 1] = after[i]
      BY <1>2, <1>8, <2>2, <2>5, <3>3
    <3>5. ~(i < p) /\ i # p
      BY <1>2, <1>6, <3>1
    <3> QED
      BY <3>4, <3>5
  <2>6. k = s \/ (k \in S /\ (Less(k, s) \/ Less(s, k)))
    BY <1>1, LessIsTotal
  <2> QED
    BY <2>3, <2>4, <2>5, <2>6
<1>10. after = InsertAt(before, p, e)
  <2> DEFINE inserted == InsertAt(before, p, e)
  <2>1. /\ inserted \in Seq(Entry) /\ Len(inserted) = n + 1
        /\ \A i \in 1..(n + 1) :
             inserted[i] = IF i < p THEN before[i] ELSE IF i = p THEN e ELSE before[i - 1]
    <3>1. p \in 1..(Len(before) + 1)
      BY <1>2, <1>6
    <3>2. /\ inserted \in Seq(Entry) /\ Len(inserted) = Len(before) + 1
          /\ \A i \in 1..(Len(before) + 1) :
               inserted[i] = IF i < p THEN before[i] ELSE IF i = p THEN e ELSE before[i - 1]
      BY <1>2, <1>7, <3>1, InsertedElements
    <3> HIDE DEF inserted
    <3> QED
      BY <1>2, <3>2
  <2> HIDE DEF inserted
  <2>2. \A i \in 1..Len(after) : after[i] = inserted[i]
    BY <1>4, <1>9, <2>1
  <2>3. after = inserted
    BY <1>4, <2>1, <2>2, SeqEqual
  <2> QED
    BY <2>3 DEF inserted
<1>11. before = RemoveAt(after, p)
  <2> DEFINE removed == RemoveAt(after, p)
  <2>1. Len(after) - 1 = n
    BY <1>2, <1>4
  <2>2. /\ removed \in Seq(Entry) /\ Len(removed) = n
        /\ \A i \in 1..n : removed[i] = IF i < p THEN after[i] ELSE after[i + 1]
    <3>1. /\ removed \in Seq(Entry) /\ Len(removed) = Len(after) - 1
          /\ \A i \in 1..(Len(after) - 1) :
               removed[i] = IF i < p THEN after[i] ELSE after[i + 1]
      BY <1>4, <1>6, RemovedElements
    <3> QED
      BY <2>1, <3>1
  <2> HIDE DEF removed
  <2>3. ASSUME NEW i \in 1..n
        PROVE  before[i] = removed[i]
    <3>1. /\ i \in 1..(n + 1) /\ i + 1 \in 1..(n + 1) /\ (i + 1) - 1 = i
          /\ ~(i < p) => ~(i + 1 < p) /\ i + 1 # p
      BY <1>2, <1>6
    <3>2. CASE i < p
      BY <1>9, <2>2, <3>1, <3>2
    <3>3. CASE ~(i < p)
      <4>1. after[i + 1] = before[i]
        BY <1>9, <3>1, <3>3
      <4> QED
        BY <2>2, <3>3, <4>1
    <3> QED
      BY <3>2, <3>3
  <2>4. before = removed
    BY <1>2, <2>2, <2>3, SeqEqual
  <2> QED
    BY <2>4 DEF removed
<1> QED
  BY <1>2, <1>4, <1>6, <1>10, <1>11 DEF S, T, n, p, e, before, after

\* A key that comes behind all the keys that are not later gets the place behind their events.
LEMMA NotLaterIsInFront ==
  ASSUME NEW f, DOMAIN f \in SUBSET Keys, IsFiniteSet(DOMAIN f), \A k \in DOMAIN f : f[k] \in Nat,
         NEW s \in Keys, s \notin DOMAIN f, \A k \in DOMAIN f : Less(k, s) <=> k.time <= s.time
  PROVE  Cardinality({i \in DOMAIN Listed(f) : Listed(f)[i].time <= s.time}) + 1
           = Place(s, DOMAIN f \cup {s})
<1> DEFINE S == DOMAIN f
           T == DOMAIN f \cup {s}
           n == Cardinality(S)
           p == Place(s, T)
           notLater == {i \in DOMAIN Listed(f) : Listed(f)[i].time <= s.time}
<1>1. /\ T \in SUBSET Keys /\ IsFiniteSet(T) /\ Cardinality(T) = n + 1 /\ T = S \cup {s}
      /\ \A k \in S : Less(k, s) => Place(k, T) = Place(k, S)
      /\ \A k \in S : Less(s, k) => Place(k, T) = Place(k, S) + 1
  <2>1. S \in SUBSET Keys /\ IsFiniteSet(S) /\ s \notin S /\ T = S \cup {s}
    OBVIOUS
  <2> HIDE DEF S, T
  <2> QED
    BY <2>1, NewKeyPlaces
<1>2. /\ n \in Nat /\ DOMAIN Listed(f) = 1..n
      /\ \A k \in S : Place(k, S) \in 1..n
                        /\ Listed(f)[Place(k, S)] = [time |-> k.time, event |-> f[k]]
  BY ListedElements
<1>3. p \in 1..(n + 1) /\ \A k, l \in T : Less(k, l) => Place(k, T) < Place(l, T)
  BY <1>1, Places
<1>4. \A i \in 1..n : \E k \in S : Place(k, S) = i
  BY Places
<1>5. \A k \in S : Less(k, s) <=> k.time <= s.time
  OBVIOUS
<1>6. \A k \in S : k \in T /\ (Less(k, s) \/ Less(s, k)) /\ ~(Less(k, s) /\ Less(s, k))
  BY <1>1, LessIsTotal
<1>7. s \in T
  OBVIOUS
<1>8. notLater = {i \in 1..n : Listed(f)[i].time <= s.time}
  BY <1>2
<1> HIDE DEF S, T, n, p, notLater
<1>9. ASSUME NEW i \in 1..n
      PROVE  Listed(f)[i].time <= s.time <=> i < p
  <2>1. PICK k \in S : Place(k, S) = i
    BY <1>4
  <2>2. Listed(f)[i].time = k.time
    <3>1. Listed(f)[i] = [time |-> k.time, event |-> f[k]]
      BY <1>2, <2>1
    <3> QED
      BY <3>1
  <2>3. CASE Less(k, s)
    <3>1. i < p
      BY <1>1, <1>3, <1>6, <1>7, <2>1, <2>3 DEF p
    <3> QED
      BY <1>5, <2>2, <2>3, <3>1
  <2>4. CASE Less(s, k)
    <3>1. Place(k, T) = i + 1 /\ p < Place(k, T)
      BY <1>1, <1>3, <1>6, <1>7, <2>1, <2>4 DEF p
    <3>2. ~(i < p)
      BY <1>2, <1>3, <3>1
    <3> QED
      BY <1>5, <1>6, <2>2, <2>4, <3>2
  <2> QED
    BY <1>6, <2>3, <2>4
<1>10. notLater = 1..(p - 1)
  BY <1>2, <1>3, <1>8, <1>9
<1>11. Cardinality(1..(p - 1)) = p - 1
  <2>1. 1 \in Int /\ p - 1 \in Int /\ p \in Nat /\ 1 <= p
    BY <1>2, <1>3
  <2>2. Cardinality(1..(p - 1)) = IF 1 > p - 1 THEN 0 ELSE (p - 1) - 1 + 1
    BY <2>1, FS_Interval
  <2> QED
    BY <2>1, <2>2
<1>12. Cardinality(notLater) + 1 = p
  BY <1>2, <1>3, <1>10, <1>11
<1> QED
  BY <1>12 DEF notLater, p, T

\* The first key has the first place, and its event is at the head of the list.
LEMMA FirstIsHead ==
  ASSUME NEW f, DOMAIN f \in SUBSET Keys, IsFiniteSet(DOMAIN f), \A k \in DOMAIN f : f[k] \in Nat,
         NEW s, IsFirst(s, DOMAIN f)
  PROVE  /\ Place(s, DOMAIN f) = 1
         /\ Listed(f) # <<>>
         /\ Head(Listed(f)) = [time |-> s.time, event |-> f[s]]
         /\ Tail(Listed(f)) = RemoveAt(Listed(f), 1)
<1>1. s \in DOMAIN f /\ s \in Keys /\ \A l \in DOMAIN f : l \in Keys /\ (l = s \/ Less(s, l))
  BY DEF IsFirst
<1>2. {l \in DOMAIN f : l = s \/ Less(l, s)} = {s}
  BY <1>1, LessIsTotal
<1>3. Place(s, DOMAIN f) = 1
  BY <1>2, FS_Singleton DEF Place
<1> DEFINE list == Listed(f)
<1>4. /\ list \in Seq(Entry) /\ 1 \in 1..Len(list)
      /\ list[1] = [time |-> s.time, event |-> f[s]]
  BY <1>1, <1>3, ListedElements
<1> HIDE DEF list
<1>5. Len(list) \in Nat /\ list # <<>>
  BY <1>4
<1>6. Head(list) = list[1]
  BY <1>4, <1>5
<1>7. Tail(list) = RemoveAt(list, 1)
  <2>1. /\ RemoveAt(list, 1) \in Seq(Entry) /\ Len(RemoveAt(list, 1)) = Len(list) - 1
        /\ \A i \in 1..(Len(list) - 1) :
             RemoveAt(list, 1)[i] = IF i < 1 THEN list[i] ELSE list[i + 1]
    BY <1>4, RemovedElements
  <2>2. /\ Tail(list) \in Seq(Entry) /\ Len(Tail(list)) = Len(list) - 1
        /\ \A i \in 1..Len(Tail(list)) : Tail(list)[i] = list[i + 1]
    BY <1>4, <1>5, HeadTailProperties
  <2> DEFINE removed == RemoveAt(list, 1)
             tail == Tail(list)
  <2>3. Len(tail) = Len(removed)
    BY <2>1, <2>2
  <2>4. \A i \in 1..Len(tail) : tail[i] = removed[i]
    BY <1>5, <2>1, <2>2
  <2> QED
    BY <2>1, <2>2, <2>3, <2>4, SeqEqual
<1> QED
  BY <1>3, <1>4, <1>5, <1>6, <1>7 DEF list

-----------------------------------------------------------------------------
(* The schedule implements the agenda *)

\* What the list needs of the maps: the invariants above, and finitely many events.
AgendaInv ==
  /\ TypeOK
  /\ KeyInv
  /\ TimeInv
  /\ HandleInv
  /\ IsFiniteSet(DOMAIN schedule)

\* Finitely many events are pending.
LEMMA FiniteStep == IsFiniteSet(DOMAIN schedule) /\ [Next]_vars => IsFiniteSet(DOMAIN schedule')
<1> SUFFICES ASSUME IsFiniteSet(DOMAIN schedule), [Next]_vars
             PROVE  IsFiniteSet(DOMAIN schedule')
  OBVIOUS
<1>1. \/ UNCHANGED schedule
      \/ \E k : schedule' = Without(schedule, k)
      \/ \E k, v : schedule' = Put(schedule, k, v)
  BY DEF Next, vars, ScheduleEvent, ScheduleEventExpireable, Schedules, ExpireEvent, InitReturns,
         InputReturns, HandlerReturns, LoopEnds, PopFirstEvent, NextScheduled, NextInputs
<1>2. ASSUME NEW k, schedule' = Without(schedule, k)
      PROVE  IsFiniteSet(DOMAIN schedule')
  <2>1. DOMAIN schedule' = DOMAIN schedule \ {k}
    BY <1>2 DEF Without
  <2> QED
    BY <2>1, FS_RemoveElement
<1>3. ASSUME NEW k, NEW v, schedule' = Put(schedule, k, v)
      PROVE  IsFiniteSet(DOMAIN schedule')
  <2>1. DOMAIN schedule' = DOMAIN schedule \cup {k}
    BY <1>3 DEF Put
  <2> QED
    BY <2>1, FS_AddElement
<1> QED
  BY <1>1, <1>2, <1>3

\* The invariants hold together.
LEMMA AlwaysAgendaInv == Spec => []AgendaInv
<1>1. Init => IsFiniteSet(DOMAIN schedule)
  <2>1. Init => DOMAIN schedule = {}
    BY DEF Init, NoEntries
  <2> QED
    BY <2>1, FS_EmptySet
<1>2. Init => AgendaInv
  BY <1>1, TypeInit, KeyInit, TimeInit, HandleInit DEF AgendaInv
<1>3. AgendaInv /\ [Next]_vars => AgendaInv'
  <2>1. IsFiniteSet(DOMAIN schedule) /\ [Next]_vars => IsFiniteSet(DOMAIN schedule)'
    BY FiniteStep
  <2> QED
    BY <2>1, TypeStep, KeyStep, TimeStep, HandleStep DEF AgendaInv
<1> QED
  BY <1>2, <1>3, PTL DEF Spec

\* The schedule is a map of the kind the list is made of.
LEMMA ScheduleIsListed ==
  ASSUME AgendaInv
  PROVE  /\ DOMAIN schedule \in SUBSET Keys /\ IsFiniteSet(DOMAIN schedule)
         /\ \A k \in DOMAIN schedule : schedule[k] \in Nat
<1>1. planned \in Nat /\ schedule \in [DOMAIN schedule -> 1..planned]
  BY DEF AgendaInv, TypeOK
<1> QED
  BY <1>1 DEF AgendaInv, TypeOK

\* A key that is taken out takes its event out of the list.
LEMMA ListedWithout ==
  ASSUME NEW f, DOMAIN f \in SUBSET Keys, IsFiniteSet(DOMAIN f), \A k \in DOMAIN f : f[k] \in Nat,
         NEW s \in DOMAIN f
  PROVE  Listed(Without(f, s)) = RemoveAt(Listed(f), Place(s, DOMAIN f))
<1> DEFINE g == Without(f, s)
<1>1. DOMAIN g = DOMAIN f \ {s} /\ \A k \in DOMAIN g : g[k] = f[k]
  BY DEF Without
<1> HIDE DEF g
<1>2. DOMAIN g \in SUBSET Keys /\ IsFiniteSet(DOMAIN g) /\ \A k \in DOMAIN g : g[k] \in Nat
  <2>1. IsFiniteSet(DOMAIN g)
    BY <1>1, FS_RemoveElement
  <2> QED
    BY <1>1, <2>1
<1>3. s \in Keys /\ s \notin DOMAIN g /\ f[s] \in Nat
  BY <1>1
<1>4. DOMAIN f = DOMAIN g \cup {s} /\ \A k \in DOMAIN g : f[k] = g[k]
  BY <1>1
<1>5. Listed(g) = RemoveAt(Listed(f), Place(s, DOMAIN f))
  BY <1>2, <1>3, <1>4, ListedWithOneMore
<1> QED
  BY <1>5 DEF g

\* The list and the handles of the next state, written out.
LEMMA ListedNext ==
  /\ Listed(schedule)' = Listed(schedule')
  /\ HandlerRuns' = (mode' \in {"init", "input", "handler"})
  /\ Range(kept)' = Range(kept')
BY DEF Listed, InOrder, Place, Less, HandlerRuns, Range

\* The sequences of the agenda are those of the list.
LEMMA AgendaOperators ==
  /\ \A seq, i : A!RemoveAt(seq, i) = RemoveAt(seq, i)
  /\ \A seq, i, x : A!InsertAt(seq, i, x) = InsertAt(seq, i, x)
  /\ \A S : A!Cardinality(S) = Cardinality(S)
<1>1. \A seq, i : A!RemoveAt(seq, i) = RemoveAt(seq, i)
  BY DEF A!RemoveAt, RemoveAt
<1>2. \A seq, i, x : A!InsertAt(seq, i, x) = InsertAt(seq, i, x)
  BY DEF A!InsertAt, InsertAt
<1>3. \A S : A!Cardinality(S) = Cardinality(S)
  BY DEF A!Cardinality, Cardinality, A!IsFiniteSet, IsFiniteSet
<1> QED
  BY <1>1, <1>2, <1>3

\* Every call that schedules puts its event into the list behind all that are not later.
LEMMA SchedulesPlan ==
  ASSUME AgendaInv, NEW t \in Times, Schedules(t),
         Range(kept') \in {Range(kept), Range(kept) \cup {planned + 1}}
  PROVE  A!Plan
<1> DEFINE s == Spawn(t)
<1>1. /\ s \in Keys /\ s.time = t
      /\ DOMAIN schedule' = DOMAIN schedule \cup {s}
      /\ schedule'[s] = planned + 1 /\ planned + 1 \in Nat /\ planned' = planned + 1
      /\ \A k \in DOMAIN schedule : k # s => schedule'[k] = schedule[k]
      /\ cx'.time = cx.time
  BY SchedulesTypes DEF AgendaInv, Spawn
<1>2. HandlerRuns /\ mode' = mode /\ t >= cx.time /\ event' = event
  BY DEF Schedules
<1>3. s \notin DOMAIN schedule
  BY NewEventIsNew DEF AgendaInv
<1>4. \A k \in DOMAIN schedule : Less(k, s) <=> k.time <= s.time
  <2> TAKE k \in DOMAIN schedule
  <2>1. \/ k.parent_index < cx.index
        \/ k.parent_index = cx.index /\ k.emission_index < cx.emission
    BY DEF AgendaInv, KeyInv
  <2>2. /\ s.parent_index = cx.index /\ s.emission_index = cx.emission
        /\ k.time \in Nat /\ s.time \in Nat
    BY <1>1 DEF Spawn, Keys, AgendaInv, TypeOK
  <2> HIDE DEF s
  <2> QED
    BY <2>1, <2>2 DEF Less
<1> DEFINE p == Place(s, DOMAIN schedule')
           e == [time |-> t, event |-> planned + 1]
           notLater == {i \in DOMAIN Listed(schedule) : Listed(schedule)[i].time <= t}
<1>5. Listed(schedule') = InsertAt(Listed(schedule), p, e)
  BY <1>1, <1>3, ScheduleIsListed, ListedWithOneMore
<1>6. Cardinality(notLater) + 1 = p
  BY <1>1, <1>3, <1>4, ScheduleIsListed, NotLaterIsInFront
<1>7. Listed(schedule') = A!Planned(t, planned + 1)
  BY <1>5, <1>6, AgendaOperators DEF A!Planned
<1>8. HandlerRuns' = HandlerRuns
  BY <1>2 DEF HandlerRuns
<1> QED
  BY <1>1, <1>2, <1>7, <1>8, ListedNext DEF A!Plan

\* A handle that is given out belongs to the event just scheduled.
LEMMA HandleIsRemembered ==
  ASSUME TypeOK, kept' = Put(kept, next_handle, planned + 1)
  PROVE  Range(kept') = Range(kept) \cup {planned + 1}
<1>1. next_handle \notin DOMAIN kept
  BY DEF TypeOK
<1>2. /\ DOMAIN kept' = DOMAIN kept \cup {next_handle}
      /\ kept'[next_handle] = planned + 1
      /\ \A h \in DOMAIN kept : kept'[h] = kept[h]
  BY <1>1 DEF Put
<1> QED
  BY <1>2 DEF Range

\* An event that is expired leaves the list, and the others keep their order.
LEMMA ExpireCancels ==
  ASSUME AgendaInv, NEW h \in DOMAIN expire_handles_forward, ExpireEvent(h)
  PROVE  A!Cancel
<1> DEFINE k == expire_handles_forward[h]
           p == Place(k, DOMAIN schedule)
<1>1. /\ h \in DOMAIN kept /\ k \in DOMAIN schedule /\ schedule[k] = kept[h]
  <2>1. h \in DOMAIN kept
    BY DEF AgendaInv, TypeOK
  <2> QED
    BY <2>1 DEF AgendaInv, HandleInv, MapsInSync, HandlesNameTheirEvents
<1>2. /\ schedule' = Without(schedule, k)
      /\ UNCHANGED <<kept, cx, mode, event, planned>> /\ HandlerRuns
  BY DEF ExpireEvent, HandlerRuns
<1>3. p \in DOMAIN Listed(schedule) /\ Listed(schedule)[p].event \in Range(kept)
  <2>1. /\ p \in DOMAIN Listed(schedule)
        /\ Listed(schedule)[p] = [time |-> k.time, event |-> schedule[k]]
    BY <1>1, ScheduleIsListed, ListedElements
  <2> QED
    BY <1>1, <2>1 DEF Range
<1>4. Listed(schedule') = RemoveAt(Listed(schedule), p)
  BY <1>1, <1>2, ScheduleIsListed, ListedWithout
<1>5. HandlerRuns' = HandlerRuns
  BY <1>2 DEF HandlerRuns
<1> QED
  BY <1>2, <1>3, <1>4, <1>5, ListedNext, AgendaOperators DEF A!Cancel

\* The event that is popped is at the head of the list.
LEMMA PopRuns ==
  ASSUME AgendaInv, NEW k \in DOMAIN schedule, PopFirstEvent(k)
  PROVE  A!Run
<1>1. /\ mode = "loop" /\ mode' = "handler" /\ IsFirst(k, DOMAIN schedule) /\ k.time = cx.time
      /\ event' = schedule[k] /\ schedule' = Without(schedule, k)
      /\ UNCHANGED <<kept, cx, planned>>
  BY DEF PopFirstEvent
<1>2. /\ Place(k, DOMAIN schedule) = 1 /\ Listed(schedule) # <<>>
      /\ Head(Listed(schedule)) = [time |-> k.time, event |-> schedule[k]]
      /\ Tail(Listed(schedule)) = RemoveAt(Listed(schedule), 1)
  BY <1>1, ScheduleIsListed, FirstIsHead
<1>3. Listed(schedule') = Tail(Listed(schedule))
  BY <1>1, <1>2, ScheduleIsListed, ListedWithout
<1>4. ~HandlerRuns /\ HandlerRuns'
  BY <1>1 DEF HandlerRuns
<1> QED
  BY <1>1, <1>2, <1>3, <1>4, ListedNext DEF A!Run

\* Between the steps all that is pending is later.
LEMMA PendingIsLater ==
  ASSUME AgendaInv, mode = "idle", NEW t \in Nat, \A k \in DOMAIN schedule : t <= k.time
  PROVE  \A i \in DOMAIN Listed(schedule) :
           Listed(schedule)[i].time > cx.time /\ Listed(schedule)[i].time >= t
<1> TAKE i \in DOMAIN Listed(schedule)
<1>1. i \in 1..Cardinality(DOMAIN schedule)
  BY ScheduleIsListed, ListedElements
<1>2. PICK k \in DOMAIN schedule : Place(k, DOMAIN schedule) = i
  BY <1>1, ScheduleIsListed, Places
<1>3. Listed(schedule)[i] = [time |-> k.time, event |-> schedule[k]]
  BY <1>2, ScheduleIsListed, ListedElements
<1>4. k.time > cx.time /\ k.time \in Nat /\ t <= k.time
  BY DEF AgendaInv, TimeInv, NothingOverdue, TypeOK, Keys
<1> QED
  BY <1>3, <1>4

\* The next step is for inputs or for the head of the list, and nothing pending precedes it.
LEMMA NextScheduledSteps ==
  ASSUME AgendaInv, NEW k \in DOMAIN schedule, NextScheduled(k)
  PROVE  A!StepTo
<1>1. /\ mode = "idle" /\ mode' = "loop" /\ IsFirst(k, DOMAIN schedule) /\ cx'.time = k.time
      /\ UNCHANGED <<schedule, kept, event, planned>>
  BY DEF NextScheduled, StartLoop, ContextAt, handles
<1>2. k.time \in Nat /\ \A l \in DOMAIN schedule : k.time <= l.time
  <2>1. \A l \in DOMAIN schedule : k.time \in Nat /\ l.time \in Nat /\ (l = k \/ Less(k, l))
    BY <1>1 DEF IsFirst, AgendaInv, TypeOK, Keys
  <2> QED
    BY <2>1 DEF Less
<1>3. \A i \in DOMAIN Listed(schedule) :
        Listed(schedule)[i].time > cx.time /\ Listed(schedule)[i].time >= cx'.time
  BY <1>1, <1>2, PendingIsLater
<1>4. /\ Listed(schedule) # <<>>
      /\ Head(Listed(schedule)) = [time |-> k.time, event |-> schedule[k]]
  BY <1>1, ScheduleIsListed, FirstIsHead
<1>5. ~HandlerRuns /\ HandlerRuns' = FALSE
  BY <1>1 DEF HandlerRuns
<1>6. Head(Listed(schedule)).time = cx'.time
  BY <1>1, <1>4
<1>7. UNCHANGED <<Listed(schedule), event, planned, Range(kept)>>
  BY <1>1, ListedNext
<1> QED
  BY <1>3, <1>4, <1>5, <1>6, <1>7 DEF A!StepTo

LEMMA NextInputsSteps ==
  ASSUME AgendaInv, NEW t \in Times, NEW n \in 1..MaxInputs, NextInputs(t, n)
  PROVE  A!StepTo
<1>1. /\ mode = "idle" /\ mode' = "input" /\ cx'.time = t
      /\ t > last_updated.time /\ \A k \in DOMAIN schedule : t <= k.time
      /\ UNCHANGED <<schedule, kept, event, planned>>
  BY DEF NextInputs, ContextAt, handles
<1>2. t \in Nat /\ t > cx.time
  BY <1>1, ScheduleAssumption DEF Times, AgendaInv, TimeInv, NothingOverdue
<1>3. \A i \in DOMAIN Listed(schedule) :
        Listed(schedule)[i].time > cx.time /\ Listed(schedule)[i].time >= cx'.time
  BY <1>1, <1>2, PendingIsLater
<1>4. ~HandlerRuns /\ HandlerRuns' = TRUE
  BY <1>1 DEF HandlerRuns
<1>5. cx'.time \in Times /\ cx'.time > cx.time
  BY <1>1, <1>2
<1>6. UNCHANGED <<Listed(schedule), event, planned, Range(kept)>>
  BY <1>1, ListedNext
<1> QED
  BY <1>3, <1>4, <1>5, <1>6 DEF A!StepTo

\* A step that leaves the maps and the time alone either ends a handler or is none of the agenda's.
LEMMA ReturnsOrStutters ==
  ASSUME UNCHANGED <<schedule, kept, event, planned>>, cx'.time = cx.time,
         ~HandlerRuns' \/ HandlerRuns' = HandlerRuns
  PROVE  [A!AgendaNext]_(A!agendaVars)
<1>1. UNCHANGED <<Listed(schedule), cx.time, event, planned, Range(kept)>>
  BY ListedNext
<1>2. HandlerRuns \in BOOLEAN /\ HandlerRuns' \in BOOLEAN
  BY ListedNext DEF HandlerRuns
<1>3. CASE HandlerRuns' = HandlerRuns
  BY <1>1, <1>3 DEF A!agendaVars
<1>4. CASE HandlerRuns /\ HandlerRuns' = FALSE
  BY <1>1, <1>4 DEF A!AgendaNext, A!Return
<1> QED
  BY <1>2, <1>3, <1>4

\* Every step of the handlers and of the loop around them is a step of the agenda or none.
LEMMA AgendaStep ==
  ASSUME AgendaInv, [Next]_vars
  PROVE  [A!AgendaNext]_(A!agendaVars)
<1>1. ASSUME NEW t \in Times, ScheduleEvent(t)
      PROVE  A!AgendaNext
  <2>1. Schedules(t) /\ kept' = kept
    BY <1>1 DEF ScheduleEvent, handles
  <2>2. Range(kept') = Range(kept)
    BY <2>1
  <2> QED
    BY <2>1, <2>2, SchedulesPlan DEF A!AgendaNext
<1>2. ASSUME NEW t \in Times, ScheduleEventExpireable(t)
      PROVE  A!AgendaNext
  <2>1. Schedules(t) /\ kept' = Put(kept, next_handle, planned + 1)
    BY <1>2 DEF ScheduleEventExpireable
  <2>2. Range(kept') = Range(kept) \cup {planned + 1}
    BY <2>1, HandleIsRemembered DEF AgendaInv
  <2> QED
    BY <2>1, <2>2, SchedulesPlan DEF A!AgendaNext
<1>3. ASSUME NEW h \in DOMAIN expire_handles_forward, ExpireEvent(h)
      PROVE  A!AgendaNext
  BY <1>3, ExpireCancels DEF A!AgendaNext
<1>4. ASSUME NEW k \in DOMAIN schedule, PopFirstEvent(k)
      PROVE  A!AgendaNext
  BY <1>4, PopRuns DEF A!AgendaNext
<1>5. ASSUME NEW k \in DOMAIN schedule, NextScheduled(k)
      PROVE  A!AgendaNext
  BY <1>5, NextScheduledSteps DEF A!AgendaNext
<1>6. ASSUME NEW t \in Times, NEW n \in 1..MaxInputs, NextInputs(t, n)
      PROVE  A!AgendaNext
  BY <1>6, NextInputsSteps DEF A!AgendaNext
<1>7. CASE InitReturns \/ InputReturns \/ HandlerReturns \/ LoopEnds \/ UNCHANGED vars
  <2>1. UNCHANGED <<schedule, kept, event, planned>> /\ cx'.time = cx.time
    BY <1>7 DEF InitReturns, InputReturns, HandlerReturns, LoopEnds, StartLoop, ContextAt, vars,
       handles
  <2>2. mode' \in {mode, "loop", "idle"}
    BY <1>7 DEF InitReturns, InputReturns, HandlerReturns, LoopEnds, StartLoop, vars
  <2>3. ~HandlerRuns' \/ HandlerRuns' = HandlerRuns
    BY <2>2 DEF HandlerRuns
  <2> QED
    BY <2>1, <2>3, ReturnsOrStutters
<1> QED
  BY <1>1, <1>2, <1>3, <1>4, <1>5, <1>6, <1>7 DEF Next

\* The three maps implement the agenda: whatever the handlers call, events run at their times and
\* in the order of the calls within one time, and expiring takes out one event and reorders nothing.
THEOREM ScheduleImplementsAgenda == Spec => ImplementsAgenda
<1>1. Init => A!AgendaInit
  <2> SUFFICES ASSUME Init
               PROVE  A!AgendaInit
    OBVIOUS
  <2>1. DOMAIN schedule = {} /\ schedule = NoEntries /\ DOMAIN kept = {}
    BY DEF Init, NoEntries
  <2>2. Listed(schedule) = <<>>
    <3>1. Listed(schedule) \in Seq(Entry) /\ Len(Listed(schedule)) = 0
      BY <2>1, FS_EmptySet, ListedElements
    <3> QED
      BY <3>1, EmptySeq
  <2>3. Range(kept) = {}
    BY <2>1 DEF Range
  <2>4. HandlerRuns = TRUE
    BY DEF Init, HandlerRuns
  <2> QED
    BY <2>2, <2>3, <2>4 DEF A!AgendaInit, Init, ContextAt
<1>2. AgendaInv /\ [Next]_vars => [A!AgendaNext]_(A!agendaVars)
  BY AgendaStep
<1> QED
  BY <1>1, <1>2, AlwaysAgendaInv, PTL DEF Spec, ImplementsAgenda, A!AgendaSpec
=============================================================================
