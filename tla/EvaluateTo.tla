----------------------------- MODULE EvaluateTo -----------------------------
(***************************************************************************)
(* evaluate_to: all inputs of a transposer are known, and a future drives  *)
(* it step by step up to a time and interpolates its state there.  It also *)
(* provides the input state that the handlers ask for, through the         *)
(* SingleInputState of each step.  A handler is a program, see Programs;   *)
(* any future in it, and any future of an input state, is pending or not.  *)
(***************************************************************************)
EXTENDS Naturals, Sequences, FiniteSets, SequencesExt

CONSTANTS
  LastTime,    \* bound: the times of inputs, from 0 where the transposer starts, and `until`
  MaxInputs,   \* bound: how many inputs are given
  Programs     \* the transposers: for each handler, "init", "input", "scheduled", "interpolate",
               \* a sequence of "wait" (await something), "ask" (get_input_state), "count" (what
               \* is handled), "emit" (the count) and "plan" (schedule_event for the next instant)

Handlers == {"init", "input", "scheduled", "interpolate"}

ASSUME EvaluateToAssumption ==
  /\ LastTime \in Nat /\ MaxInputs \in Nat
  /\ Programs \subseteq [Handlers -> Seq({"wait", "ask", "count", "emit", "plan"})]
  /\ \A p \in Programs : p["interpolate"] \in Seq({"wait", "ask"})  \* which takes &self

Times == 0..LastTime

VARIABLES
  program, given, until,   \* the arguments: the transposer, the times of the inputs, the time
  events,                  \* the groups of inputs that are left
  frame,                   \* the step: its time, its inputs and which it is
  running,                 \* the future of the frame, or the interpolation: what it has to do
                           \* yet, and its SingleInputState
  interpolating,           \* whether there is an interpolation
  schedule,                \* time -> how many events are scheduled for it
  seen,                    \* the state of the transposer: what it was given, 0 for an event
  state_fut,               \* whether a state is being fetched
  polled,                  \* "running", "pending", or "woken" when what was pending is ready
  outputs,
  asked,                   \* history: the frame (0 the interpolation) and time of states fetched
  result                   \* "none", "ready" or "panic"

args == <<program, given, until>>
vars == <<args, events, frame, running, interpolating, schedule, seen, state_fut, polled,
          outputs, asked, result>>

-----------------------------------------------------------------------------
(* evaluate_to: the inputs are sorted and grouped by their times.          *)

Sorted(S) == CHOOSE s \in [1..Cardinality(S) -> S] : \A i, j \in DOMAIN s : i < j => s[i] < s[j]

InputsAt(arrivals, t) == Sorted({i \in DOMAIN arrivals : arrivals[i] = t})
Occurring == {given[i] : i \in DOMAIN given}

GroupsOf(S) ==
  [n \in DOMAIN Sorted(S) |-> [time |-> Sorted(S)[n], inputs |-> InputsAt(given, Sorted(S)[n])]]

\* Mutant: the loop ends at an input at `until`.
GroupsBefore == GroupsOf({t \in Occurring : t < until})

Groups == GroupsOf({t \in Occurring : t <= until})

\* The SingleInputState of a new step is empty.
Starts(work) == [work |-> work, input_state |-> "empty"]

Init ==
  /\ program \in Programs
  /\ given \in SeqOf(Times, MaxInputs)
  /\ until \in Times
  /\ events = Groups
  /\ frame = [time |-> 0, inputs |-> <<>>, number |-> 1]
  /\ running = Starts(program["init"])
  /\ interpolating = FALSE
  /\ schedule = [t \in 0..(LastTime + 1) |-> 0]
  /\ seen = <<>>
  /\ state_fut = FALSE
  /\ polled = "running"
  /\ outputs = <<>>
  /\ asked = <<>>
  /\ result = "none"

-----------------------------------------------------------------------------
(* The future is polled: first the state that is being fetched, then the   *)
(* interpolation, if there is one, or the frame.                           *)

Polls     == result = "none" /\ polled # "pending"
Runs(op)  == Polls /\ ~state_fut /\ running.work # <<>> /\ Head(running.work) = op
Goes      == running' = [running EXCEPT !.work = Tail(@)]
Pends     == polled = "running" /\ polled' = "pending"
StillRuns == UNCHANGED <<args, events, frame, interpolating, result>>

\* SingleInputState::set_state, which answers all requests; a second state is refused.
StateArrives ==
  /\ Polls /\ state_fut
  /\ state_fut' = FALSE
  /\ polled' = "running"
  /\ IF running.input_state = "full"
     THEN result' = "panic" /\ UNCHANGED running
     ELSE running' = [running EXCEPT !.input_state = "full"] /\ UNCHANGED result
  /\ UNCHANGED <<args, events, frame, interpolating, schedule, seen, outputs, asked>>

StatePends ==
  /\ Polls /\ state_fut /\ Pends
  /\ StillRuns /\ UNCHANGED <<running, schedule, seen, state_fut, outputs, asked>>

\* What was pending is ready, and wakes the executor, which polls again.
Wakes ==
  /\ polled = "pending"
  /\ polled' = "woken"
  /\ StillRuns /\ UNCHANGED <<running, schedule, seen, state_fut, outputs, asked>>

Waits ==
  /\ Runs("wait") /\ Pends
  /\ StillRuns /\ UNCHANGED <<running, schedule, seen, state_fut, outputs, asked>>

WaitIsOver ==
  /\ Runs("wait") /\ Goes
  /\ polled' = "running"
  /\ StillRuns /\ UNCHANGED <<schedule, seen, state_fut, outputs, asked>>

\* SingleInputState::get_input_state, of an empty state and of one that is full.
Requests ==
  /\ Runs("ask") /\ running.input_state = "empty"
  /\ running' = [running EXCEPT !.input_state = "requested"]
  /\ StillRuns /\ UNCHANGED <<schedule, seen, state_fut, polled, outputs, asked>>

IsAnswered ==
  /\ Runs("ask") /\ running.input_state = "full" /\ Goes
  /\ StillRuns /\ UNCHANGED <<schedule, seen, state_fut, polled, outputs, asked>>

\* Mutant: an interpolation that is pending is not asked whether it needs a state.
FetchesForFrame ==
  /\ Runs("ask") /\ running.input_state = "requested" /\ ~interpolating
  /\ state_fut' = TRUE
  /\ asked' = Append(asked, [frame |-> frame.number, time |-> frame.time])
  /\ StillRuns /\ UNCHANGED <<running, schedule, seen, polled, outputs>>

\* Mutant: the state for the interpolation is that of the last frame.
FetchesAtFrame ==
  /\ Runs("ask") /\ running.input_state = "requested"
  /\ state_fut' = TRUE
  /\ asked' = Append(asked, [frame |-> IF interpolating THEN 0 ELSE frame.number,
                             time |-> frame.time])
  /\ StillRuns /\ UNCHANGED <<running, schedule, seen, polled, outputs>>

\* The frame, or the interpolation, is pending and needs a state.
Fetches ==
  /\ Runs("ask") /\ running.input_state = "requested"
  /\ state_fut' = TRUE
  /\ asked' = Append(asked, IF interpolating THEN [frame |-> 0, time |-> until]
                            ELSE [frame |-> frame.number, time |-> frame.time])
  /\ StillRuns /\ UNCHANGED <<running, schedule, seen, polled, outputs>>

Handled == IF frame.inputs = <<>> THEN <<0>> ELSE frame.inputs

Counts ==
  /\ Runs("count") /\ Goes
  /\ seen' = seen \o Handled
  /\ StillRuns /\ UNCHANGED <<schedule, state_fut, polled, outputs, asked>>

Emits ==
  /\ Runs("emit") /\ Goes
  /\ outputs' = Append(outputs, [time |-> frame.time, value |-> Len(seen)])
  /\ StillRuns /\ UNCHANGED <<schedule, seen, state_fut, polled, asked>>

Plans ==
  /\ Runs("plan") /\ Goes
  /\ schedule' = [schedule EXCEPT ![frame.time + 1] = @ + 1]
  /\ StillRuns /\ UNCHANGED <<seen, state_fut, polled, outputs, asked>>

-----------------------------------------------------------------------------
(* A handler is done: the events of the same time follow in the same step, *)
(* then the next step, as Step::next_unsaturated tells, or the end.        *)

Done == Polls /\ ~state_fut /\ running.work = <<>>

HandleScheduled ==
  /\ Done /\ ~interpolating
  /\ schedule[frame.time] > 0
  /\ schedule' = [schedule EXCEPT ![frame.time] = @ - 1]
  /\ running' = [running EXCEPT !.work = program["scheduled"]]
  /\ frame' = [frame EXCEPT !.inputs = <<>>]
  /\ UNCHANGED <<args, events, interpolating, seen, state_fut, polled, outputs, asked, result>>

Due == {t \in DOMAIN schedule : schedule[t] > 0}

\* Mutant: an input that comes with a scheduled event waits for it.
InputIsNextAfter == events # <<>> /\ \A t \in Due : events[1].time < t

\* An input comes before what is scheduled for the same time.
InputIsNext == events # <<>> /\ \A t \in Due : events[1].time <= t

NextFrame(time, inputs, work) ==
  /\ frame' = [time |-> time, inputs |-> inputs, number |-> frame.number + 1]
  /\ running' = Starts(work)
  /\ UNCHANGED <<args, interpolating, seen, state_fut, polled, outputs, asked, result>>

Saturated == Done /\ ~interpolating /\ schedule[frame.time] = 0

TakeInput ==
  /\ Saturated /\ InputIsNext
  /\ events' = Tail(events)
  /\ NextFrame(events[1].time, events[1].inputs, program["input"])
  /\ UNCHANGED schedule

TakeScheduled ==
  /\ Saturated /\ ~InputIsNext
  /\ \E t \in Due :
       /\ t <= until /\ \A u \in Due : t <= u
       /\ NextFrame(t, <<>>, <<>>)
  /\ UNCHANGED <<events, schedule>>

\* There is no next frame, or it is later than `until`.
Interpolate ==
  /\ Saturated /\ ~InputIsNext
  /\ \A t \in Due : t > until
  /\ interpolating' = TRUE
  /\ running' = Starts(program["interpolate"])
  /\ UNCHANGED <<args, events, frame, schedule, seen, state_fut, polled, outputs, asked, result>>

Return ==
  /\ Done /\ interpolating
  /\ result' = "ready"
  /\ UNCHANGED <<args, events, frame, running, interpolating, schedule, seen, state_fut, polled,
                 outputs, asked>>

Next ==
  \/ StateArrives \/ StatePends \/ Wakes
  \/ Waits \/ WaitIsOver \/ Requests \/ IsAnswered \/ Fetches
  \/ Counts \/ Emits \/ Plans
  \/ HandleScheduled \/ TakeInput \/ TakeScheduled \/ Interpolate \/ Return

\* The executor polls on, and what is awaited is ready some time and wakes it.
Spec == Init /\ [][Next]_vars /\ WF_vars(Next)

-----------------------------------------------------------------------------
(* Properties.                                                             *)

\* What a transposer does, instant by instant: `seen` by it, `due` events for the next instant, the
\* outputs.  At each instant comes what it is given, all at once, and then what is scheduled.
Nothing == [seen |-> <<>>, due |-> 0, outputs |-> <<>>]

Does(s, op, t, what) ==
  CASE op = "count" -> [s EXCEPT !.seen = @ \o what]
    [] op = "emit"  -> [s EXCEPT !.outputs = Append(@, [time |-> t, value |-> Len(s.seen)])]
    [] op = "plan"  -> [s EXCEPT !.due = @ + 1]
    [] OTHER        -> s

\* A handler, up to each of the operations in it; all of it.
InHandler(s, work, t, what) ==
  LET After[n \in Nat] == IF n = 0 THEN s ELSE Does(After[n - 1], work[n], t, what) IN After

Handler(s, work, t, what) == InHandler(s, work, t, what)[Len(work)]

\* The handler of scheduled events, any number of times.
Repeated(s, work, t) ==
  LET After[n \in Nat] == IF n = 0 THEN s ELSE Handler(After[n - 1], work, t, <<0>>) IN After

WithInputs(s, p, arrivals, t) ==
  IF InputsAt(arrivals, t) = <<>> THEN s
  ELSE Handler(s, p["input"], t, InputsAt(arrivals, t))

Instant(s, p, arrivals, t) ==
  Repeated(WithInputs([s EXCEPT !.due = 0], p, arrivals, t), p["scheduled"], t)[s.due]

Instants(p, arrivals) ==
  LET first == WithInputs(Handler(Nothing, p["init"], 0, <<0>>), p, arrivals, 0)
      After[t \in Nat] == IF t = 0 THEN first ELSE Instant(After[t - 1], p, arrivals, t)
  IN  After

Evaluated == Instants(program, given)[until]

\* However inputs are ordered when they are given, and whatever is pending for a while, the result is
\* that of the transposer: its outputs in order, and its state at `until`, to which each input up
\* to `until` has come once (evaluate_to.rs).
ResultIsTheTransposers ==
  result = "ready" => outputs = Evaluated.outputs /\ seen = Evaluated.seen

\* A step, or the interpolation, has one input state, of its own time: it is fetched once however
\* often a handler asks, and never given twice, which would panic (single_input_state.rs).
StatesAreFetchedOnce ==
  /\ result # "panic"
  /\ \A i, j \in DOMAIN asked : i < j => asked[i].frame # asked[j].frame
  /\ \A i \in DOMAIN asked :
       /\ asked[i].frame = 0 => asked[i].time = until
       /\ \A j \in DOMAIN asked : i < j => asked[i].time <= asked[j].time

\* The evaluation ends: nobody is left waiting for a state that was asked for.
EvaluationEnds == <>(result = "ready")
=============================================================================
