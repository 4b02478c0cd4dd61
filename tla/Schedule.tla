------------------------------ MODULE Schedule ------------------------------
(***************************************************************************)
(* Inside a step: WrappedTransposer (transposer/src/step) runs the         *)
(* handlers of a user's transposer for one instant and keeps the events    *)
(* they schedule in three maps.  The handlers may call the context in any  *)
(* order, so every call is an action of its own; what they compute beside  *)
(* is theirs.  One behaviour is the life of one transposer from step to    *)
(* step: a clone of it starts from the same maps and goes the same way.    *)
(***************************************************************************)
EXTENDS Naturals, FiniteSets, Functions, SequencesExt

CONSTANTS
  StartTime,   \* the time of the first step
  LastTime,    \* bound: no event and no input is later
  MaxEvents,   \* bound: how many events are ever scheduled
  MaxInputs    \* bound: how many inputs come at one time

ASSUME ScheduleAssumption ==
  /\ StartTime \in Nat /\ LastTime \in Nat /\ StartTime <= LastTime
  /\ MaxEvents \in Nat /\ MaxInputs \in Nat

VARIABLES
  schedule,                  \* ScheduledTime -> payload, which is the number of the call
  expire_handles_forward,    \* handle -> ScheduledTime
  expire_handles_backward,   \* ScheduledTime -> handle
  next_handle,               \* the counter of expire_handle_factory
  last_updated,              \* [index, time] of what was handled last
  cx,        \* the SubStepUpdateContext: time and index of its SubStepTime, emission index
  index,     \* handle_scheduled's own count, the index of what it handles next
  mode,      \* what runs: a handler of the transposer, the loop around it, or nothing
  inputs,    \* the inputs of this step that are not handled yet
  event,     \* the payload that was popped last, 0 at first
  planned,   \* how many events were scheduled
  kept       \* handle -> the payload it was returned for, as its holder remembers

handles == <<expire_handles_forward, expire_handles_backward, next_handle, kept>>
vars == <<schedule, handles, last_updated, cx, index, mode, inputs, event, planned>>

Times == StartTime..LastTime
Keys == [time : Nat, parent_index : Nat, emission_index : Nat]

\* Mutant: of the events of one call, the last comes first.
LastEmissionFirst(k, l) ==
  \/ k.time < l.time
  \/ k.time = l.time /\ k.parent_index < l.parent_index
  \/ k.time = l.time /\ k.parent_index = l.parent_index /\ k.emission_index > l.emission_index

\* The derived order of ScheduledTime.
Less(k, l) ==
  \/ k.time < l.time
  \/ k.time = l.time /\ k.parent_index < l.parent_index
  \/ k.time = l.time /\ k.parent_index = l.parent_index /\ k.emission_index < l.emission_index

IsFirst(k, keys) == k \in keys /\ \A l \in keys : l = k \/ Less(k, l)

NoEntries == [x \in {} |-> 0]
Put(f, x, v) == [y \in DOMAIN f \cup {x} |-> IF y = x THEN v ELSE f[y]]
Without(f, x) == [y \in DOMAIN f \ {x} |-> f[y]]

\* A new context for what happens at time t, after everything that was handled.
ContextAt(t, i) == [time |-> t, index |-> i, emission |-> 0]

Init ==
  /\ schedule = NoEntries
  /\ expire_handles_forward = NoEntries
  /\ expire_handles_backward = NoEntries
  /\ next_handle = 0
  /\ kept = NoEntries
  /\ last_updated = [index |-> 0, time |-> StartTime]
  /\ cx = ContextAt(StartTime, 0)
  /\ index = 0
  /\ mode = "init"
  /\ inputs = 0
  /\ event = 0
  /\ planned = 0

-----------------------------------------------------------------------------
(* The calls of a handler.  A time before the context's, or a handle whose *)
(* event is gone, is answered with an error that changes nothing.          *)

HandlerRuns == mode \in {"init", "input", "handler"}

Spawn(t) == [time |-> t, parent_index |-> cx.index, emission_index |-> cx.emission]

\* Mutant: the time is not compared with the context's.
SchedulesAtAnyTime(t) ==
  /\ HandlerRuns
  /\ planned < MaxEvents
  /\ schedule' = Put(schedule, Spawn(t), planned + 1)
  /\ cx' = [cx EXCEPT !.emission = @ + 1]
  /\ planned' = planned + 1
  /\ UNCHANGED <<last_updated, index, mode, inputs, event>>

\* Mutant: current_emission_index is not counted up.
SchedulesUncounted(t) ==
  /\ HandlerRuns
  /\ planned < MaxEvents
  /\ t >= cx.time
  /\ schedule' = Put(schedule, Spawn(t), planned + 1)
  /\ planned' = planned + 1
  /\ UNCHANGED <<cx, last_updated, index, mode, inputs, event>>

Schedules(t) ==
  /\ HandlerRuns
  /\ planned < MaxEvents
  /\ t >= cx.time
  /\ schedule' = Put(schedule, Spawn(t), planned + 1)
  /\ cx' = [cx EXCEPT !.emission = @ + 1]
  /\ planned' = planned + 1
  /\ UNCHANGED <<last_updated, index, mode, inputs, event>>

ScheduleEvent(t) == Schedules(t) /\ UNCHANGED handles

\* Mutant: the factory gives out the same handle again.
ScheduleEventExpireableAgain(t) ==
  /\ Schedules(t)
  /\ expire_handles_forward' = Put(expire_handles_forward, next_handle, Spawn(t))
  /\ expire_handles_backward' = Put(expire_handles_backward, Spawn(t), next_handle)
  /\ kept' = Put(kept, next_handle, planned + 1)
  /\ UNCHANGED next_handle

ScheduleEventExpireable(t) ==
  /\ Schedules(t)
  /\ expire_handles_forward' = Put(expire_handles_forward, next_handle, Spawn(t))
  /\ expire_handles_backward' = Put(expire_handles_backward, Spawn(t), next_handle)
  /\ next_handle' = next_handle + 1
  /\ kept' = Put(kept, next_handle, planned + 1)

ExpireEvent(h) ==
  /\ mode \in {"input", "handler"}
  /\ h \in DOMAIN expire_handles_forward
  /\ LET time == expire_handles_forward[h]
     IN  /\ schedule' = Without(schedule, time)
         /\ expire_handles_backward' = Without(expire_handles_backward, time)
  /\ expire_handles_forward' = Without(expire_handles_forward, h)
  /\ UNCHANGED <<next_handle, kept, last_updated, cx, index, mode, inputs, event, planned>>

-----------------------------------------------------------------------------
(* The steps and their handlers.                                           *)

\* Mutant: the context starts at the index that was handled last.
StartLoopAtLast(t, last) ==
  /\ cx' = ContextAt(t, last)
  /\ index' = last
  /\ mode' = "loop"

\* handle_scheduled starts, behind the last index that was handled.
StartLoop(t, last) ==
  /\ cx' = ContextAt(t, last + 1)
  /\ index' = last + 1
  /\ mode' = "loop"

InitReturns ==
  /\ mode = "init"
  /\ StartLoop(cx.time, last_updated.index)
  /\ UNCHANGED <<schedule, handles, last_updated, inputs, event, planned>>

\* Between two inputs the index counts on; after the last one it is set back to that of the context.
InputReturns ==
  /\ mode = "input"
  /\ inputs' = inputs - 1
  /\ IF inputs' = 0
     THEN /\ last_updated' = [index |-> cx.index, time |-> cx.time]
          /\ StartLoop(cx.time, cx.index)
     ELSE /\ last_updated' = [index |-> last_updated.index + 1, time |-> cx.time]
          /\ UNCHANGED <<cx, index, mode>>
  /\ UNCHANGED <<schedule, handles, event, planned>>

\* Mutant: an event that is handled keeps its handle.
PopFirstEventOnly(k) ==
  /\ mode = "loop"
  /\ IsFirst(k, DOMAIN schedule)
  /\ k.time = cx.time
  /\ event' = schedule[k]
  /\ schedule' = Without(schedule, k)
  /\ mode' = "handler"
  /\ UNCHANGED <<handles, last_updated, cx, index, inputs, planned>>

PopFirstEvent(k) ==
  /\ mode = "loop"
  /\ IsFirst(k, DOMAIN schedule)
  /\ k.time = cx.time
  /\ event' = schedule[k]
  /\ schedule' = Without(schedule, k)
  /\ IF k \in DOMAIN expire_handles_backward
     THEN /\ expire_handles_backward' = Without(expire_handles_backward, k)
          /\ expire_handles_forward' =
               Without(expire_handles_forward, expire_handles_backward[k])
     ELSE UNCHANGED <<expire_handles_forward, expire_handles_backward>>
  /\ mode' = "handler"
  /\ UNCHANGED <<next_handle, kept, last_updated, cx, index, inputs, planned>>

HandlerReturns ==
  /\ mode = "handler"
  /\ last_updated' = [index |-> index, time |-> cx.time]
  /\ index' = index + 1
  /\ mode' = "loop"
  /\ UNCHANGED <<schedule, handles, cx, inputs, event, planned>>

\* The step is saturated.
LoopEnds ==
  /\ mode = "loop"
  /\ \A k \in DOMAIN schedule : IsFirst(k, DOMAIN schedule) => k.time # cx.time
  /\ mode' = "idle"
  /\ UNCHANGED <<schedule, handles, last_updated, cx, index, inputs, event, planned>>

\* next_unsaturated takes the first scheduled event, and saturate starts its step.
NextScheduled(k) ==
  /\ mode = "idle"
  /\ IsFirst(k, DOMAIN schedule)
  /\ StartLoop(k.time, last_updated.index)
  /\ UNCHANGED <<schedule, handles, last_updated, inputs, event, planned>>

\* Inputs go first, unless an event is scheduled before them.  They may not be past or present: the
\* error for that is declared but the caller has to see to it.
NextInputs(t, n) ==
  /\ mode = "idle"
  /\ t > last_updated.time
  /\ \A k \in DOMAIN schedule : t <= k.time
  /\ cx' = ContextAt(t, last_updated.index + 1)
  /\ mode' = "input"
  /\ inputs' = n
  /\ UNCHANGED <<schedule, handles, last_updated, index, event, planned>>

Next ==
  \/ \E t \in Times : ScheduleEvent(t) \/ ScheduleEventExpireable(t)
  \/ \E h \in DOMAIN expire_handles_forward : ExpireEvent(h)
  \/ InitReturns \/ InputReturns \/ HandlerReturns \/ LoopEnds
  \/ \E k \in DOMAIN schedule : PopFirstEvent(k) \/ NextScheduled(k)
  \/ \E t \in Times, n \in 1..MaxInputs : NextInputs(t, n)

Spec == Init /\ [][Next]_vars

-----------------------------------------------------------------------------
(* The list of the pending events: each key at its place among the keys.   *)

Place(k, keys) == Cardinality({l \in keys : l = k \/ Less(l, k)})

InOrder(keys) == [i \in 1..Cardinality(keys) |-> CHOOSE k \in keys : Place(k, keys) = i]

Listed(events) ==
  LET keys == InOrder(DOMAIN events)
  IN  [i \in DOMAIN keys |-> [time |-> keys[i].time, event |-> events[keys[i]]]]

-----------------------------------------------------------------------------
(* Properties.                                                             *)

\* Every variable has its type; the payloads are the numbers of the calls.
TypeOK ==
  /\ DOMAIN schedule \subseteq Keys
  /\ schedule \in [DOMAIN schedule -> 1..planned]
  /\ DOMAIN expire_handles_forward \subseteq 0..(next_handle - 1)
  /\ expire_handles_forward \in [DOMAIN expire_handles_forward -> Keys]
  /\ DOMAIN expire_handles_backward \subseteq Keys
  /\ expire_handles_backward \in [DOMAIN expire_handles_backward -> 0..(next_handle - 1)]
  /\ next_handle \in Nat
  /\ kept \in [0..(next_handle - 1) -> 1..planned]
  /\ last_updated \in [index : Nat, time : Nat]
  /\ cx \in [time : Nat, index : Nat, emission : Nat]
  /\ index \in Nat
  /\ mode \in {"init", "input", "handler", "loop", "idle"}
  /\ inputs \in Nat /\ event \in Nat /\ planned \in Nat
  /\ mode = "input" => inputs > 0

\* The key that the next call of schedule_event makes is not taken, whatever its time: insert
\* never replaces an event (SubStepTime::spawn_scheduled, OrdMapStorage::insert).
KeysAreFresh == HandlerRuns => \A k \in DOMAIN schedule :
                  k.parent_index = cx.index => k.emission_index < cx.emission

\* The maps of the handles are inverse to each other and speak of scheduled events only: the
\* unwrap in expire_event ("maps are kept in sync") cannot fail.
MapsInSync ==
  /\ \A h \in DOMAIN expire_handles_forward :
       LET k == expire_handles_forward[h]
       IN  k \in DOMAIN schedule /\ k \in DOMAIN expire_handles_backward
             /\ expire_handles_backward[k] = h
  /\ \A k \in DOMAIN expire_handles_backward :
       LET h == expire_handles_backward[k]
       IN  h \in DOMAIN expire_handles_forward /\ expire_handles_forward[h] = k

\* A handle works exactly as long as the event it was returned for is pending, and expires that
\* event: after the event was handled or expired, expire_event answers InvalidOrUsedHandle.
HandlesNameTheirEvents ==
  \A h \in DOMAIN kept :
    IF h \in DOMAIN expire_handles_forward
    THEN expire_handles_forward[h] \in DOMAIN schedule
           /\ schedule[expire_handles_forward[h]] = kept[h]
    ELSE \A k \in DOMAIN schedule : schedule[k] # kept[h]

\* No event is left behind: what is pending is not before the time of the handlers, and once a
\* step is done it is later than the step, whose time is what last_updated_time says.  So the times
\* of the steps of a chain increase, as the searches in sources/transposer/steps.rs need it.
NothingOverdue ==
  /\ \A k \in DOMAIN schedule : k.time >= cx.time
  /\ mode = "idle" => last_updated.time = cx.time /\ \A k \in DOMAIN schedule : k.time > cx.time

\* The maps implement the agenda: first come, first served within one time, and expiring takes
\* out one event and reorders nothing.
A == INSTANCE Agenda WITH
       agenda <- Listed(schedule),
       now <- cx.time,
       busy <- HandlerRuns,
       ran <- event,
       cancellable <- Range(kept)

ImplementsAgenda == A!AgendaSpec
=============================================================================
