----------------------------- MODULE StepFuture -----------------------------
(***************************************************************************)
(* How the events of one step leave it: the future of the step runs the    *)
(* handlers of the transposer, emit_event puts events into a channel, and  *)
(* Step::poll (transposer/src/step/mod.rs) takes them out, one per poll,   *)
(* whenever the future is pending.  A step may be desaturated and computed *)
(* anew at any time, and then swallows what it has delivered.              *)
(*                                                                         *)
(* The handlers of a step, one after the other, are a program: "await"     *)
(* emits an event and awaits its delivery, "send" emits one and drops the  *)
(* future it gets, "wait" awaits anything else.  Being a transposer, the   *)
(* program is the same on every computation, but how long a wait takes is  *)
(* not.                                                                    *)
(***************************************************************************)
EXTENDS Naturals, Sequences, FiniteSets, SequencesExt

CONSTANT MaxLength   \* bound: the instructions of a program

ASSUME MaxLengthAssumption == MaxLength \in Nat

VARIABLES
  program,
  status,               \* the StepStatus, or "panicked"
  at,                   \* the instruction the future runs next
  outputs_to_swallow,   \* of the SubStepUpdateContext
  channel,              \* the events sent and not yet received
  awaiting,             \* the event whose delivery the future awaits, 0 for none
  polling,              \* whether Step::poll is running
  event_count,
  can_produce_events,
  delivered             \* what the polls have returned as Emitted

vars == <<program, status, at, outputs_to_swallow, channel, awaiting, polling,
          event_count, can_produce_events, delivered>>

\* The n-th emission of the program is event n.
Emits(i) == program[i] \in {"await", "send"}
Event(i) == Cardinality({j \in 1..i : Emits(j)})

\* Mutant: mpsc::channel(0).
OnePlace == 1

\* mpsc::channel(1): one place and one more for the only sender.
Capacity == 2

\* new_init: the step is born with its future.
Init ==
  /\ program \in SeqOf({"await", "send", "wait"}, MaxLength)
  /\ status = "saturating"
  /\ at = 1
  /\ outputs_to_swallow = 0
  /\ channel = <<>>
  /\ awaiting = 0
  /\ polling = FALSE
  /\ event_count = 0
  /\ can_produce_events = TRUE
  /\ delivered = <<>>

\* Mutant: the new future is not told what was delivered.
SaturateFromScratch ==
  /\ status = "unsaturated"
  /\ status' = "saturating"
  /\ at' = 1
  /\ outputs_to_swallow' = 0
  /\ channel' = <<>>
  /\ awaiting' = 0
  /\ UNCHANGED <<program, polling, event_count, can_produce_events, delivered>>

\* saturate_take and saturate_clone: a new future and a new channel.
Saturate ==
  /\ status = "unsaturated"
  /\ status' = "saturating"
  /\ at' = 1
  /\ outputs_to_swallow' = event_count
  /\ channel' = <<>>
  /\ awaiting' = 0
  /\ UNCHANGED <<program, polling, event_count, can_produce_events, delivered>>

\* desaturate, or the next step's saturate_take: the future and what is in the channel are dropped.
Desaturate ==
  /\ status \in {"saturating", "saturated"}
  /\ ~polling
  /\ status' = "unsaturated"
  /\ channel' = <<>>
  /\ awaiting' = 0
  /\ UNCHANGED <<program, at, outputs_to_swallow, polling, event_count, can_produce_events,
                 delivered>>

Poll ==
  /\ status = "saturating"
  /\ ~polling
  /\ polling' = TRUE
  /\ UNCHANGED <<program, status, at, outputs_to_swallow, channel, awaiting, event_count,
                 can_produce_events, delivered>>

-----------------------------------------------------------------------------
(* The future runs as far as it gets.                                      *)

Runs == polling /\ awaiting = 0 /\ at <= Len(program)

\* Mutant: events are swallowed whether they were delivered or not.
EmitAlwaysSwallowed ==
  /\ Runs /\ Emits(at)
  /\ outputs_to_swallow' = outputs_to_swallow - 1
  /\ at' = at + 1
  /\ UNCHANGED <<program, status, channel, awaiting, polling, event_count, can_produce_events,
                 delivered>>

EmitSwallowed ==
  /\ Runs /\ Emits(at)
  /\ outputs_to_swallow > 0
  /\ outputs_to_swallow' = outputs_to_swallow - 1
  /\ at' = at + 1
  /\ UNCHANGED <<program, status, channel, awaiting, polling, event_count, can_produce_events,
                 delivered>>

\* Mutant: the future that emit_event returns is ready at once.
EmitWithoutReceipt ==
  /\ Runs /\ Emits(at)
  /\ outputs_to_swallow = 0
  /\ Len(channel) < Capacity
  /\ channel' = Append(channel, Event(at))
  /\ at' = at + 1
  /\ UNCHANGED <<program, status, outputs_to_swallow, awaiting, polling, event_count,
                 can_produce_events, delivered>>

Emit ==
  /\ Runs /\ Emits(at)
  /\ outputs_to_swallow = 0
  /\ Len(channel) < Capacity
  /\ channel' = Append(channel, Event(at))
  /\ awaiting' = IF program[at] = "await" THEN Event(at) ELSE 0
  /\ at' = at + 1
  /\ UNCHANGED <<program, status, outputs_to_swallow, polling, event_count, can_produce_events,
                 delivered>>

\* try_send fails and emit_event unwraps.
EmitPanics ==
  /\ Runs /\ Emits(at)
  /\ outputs_to_swallow = 0
  /\ Len(channel) >= Capacity
  /\ status' = "panicked"
  /\ polling' = FALSE
  /\ UNCHANGED <<program, at, outputs_to_swallow, channel, awaiting, event_count,
                 can_produce_events, delivered>>

WaitIsOver ==
  /\ Runs
  /\ program[at] = "wait"
  /\ at' = at + 1
  /\ UNCHANGED <<program, status, outputs_to_swallow, channel, awaiting, polling, event_count,
                 can_produce_events, delivered>>

-----------------------------------------------------------------------------
(* What Step::poll makes of it.                                            *)

Suspended == polling /\ (awaiting # 0 \/ (at <= Len(program) /\ program[at] = "wait"))

\* StepPoll::Emitted: the future is told of the delivery and goes on at the next poll.
PollEmitted ==
  /\ Suspended
  /\ channel # <<>>
  /\ channel' = Tail(channel)
  /\ delivered' = Append(delivered, Head(channel))
  /\ awaiting' = IF awaiting = Head(channel) THEN 0 ELSE awaiting
  /\ event_count' = event_count + 1
  /\ polling' = FALSE
  /\ UNCHANGED <<program, status, at, outputs_to_swallow, can_produce_events>>

PollPending ==
  /\ Suspended
  /\ channel = <<>>
  /\ polling' = FALSE
  /\ UNCHANGED <<program, status, at, outputs_to_swallow, channel, awaiting, event_count,
                 can_produce_events, delivered>>

\* StepPoll::Ready: the receiver is dropped with what it has not received.
PollReady ==
  /\ polling /\ awaiting = 0 /\ at > Len(program)
  /\ status' = "saturated"
  /\ can_produce_events' = FALSE
  /\ channel' = <<>>
  /\ polling' = FALSE
  /\ UNCHANGED <<program, at, outputs_to_swallow, awaiting, event_count, delivered>>

Next ==
  \/ Saturate \/ Desaturate \/ Poll
  \/ EmitSwallowed \/ Emit \/ EmitPanics \/ WaitIsOver
  \/ PollEmitted \/ PollPending \/ PollReady

Spec == Init /\ [][Next]_vars

-----------------------------------------------------------------------------
(* Properties.                                                             *)

\* Every variable has its type; outputs_to_swallow never underflows.
TypeOK ==
  /\ status \in {"unsaturated", "saturating", "saturated", "panicked"}
  /\ at \in 1..(Len(program) + 1)
  /\ outputs_to_swallow \in Nat
  /\ channel \in Seq(Nat)
  /\ awaiting \in Nat
  /\ polling \in BOOLEAN /\ can_produce_events \in BOOLEAN
  /\ event_count \in Nat
  /\ delivered \in Seq(Nat)

\* However often the step is given up and computed anew, also half-way, its events come out in
\* the order of the emissions, each one once (event_count and outputs_to_swallow).
DeliveredOnceInOrder == delivered = [n \in 1..event_count |-> n]

\* A handler goes on behind an awaited emission only after the poll has returned it, so a step
\* that is saturated has delivered all of these (the oneshot of emit_event).
AwaitedIsDelivered ==
  \A i \in 1..(at - 1) :
    program[i] = "await" /\ Event(i) # awaiting /\ status # "unsaturated" =>
      Event(i) <= event_count

\* A step that was saturated once delivers nothing any more, which can_produce_events says and
\* RepeatStepFuture::poll panics without; so it is for a transposer that awaits what it emits.
AwaitsAll == \A i \in DOMAIN program : program[i] # "send"

SilentOnceSaturated ==
  [][AwaitsAll /\ ~can_produce_events => event_count' = event_count]_vars

\* The unwrap of try_send fails only for a transposer that left two emissions unawaited.
PanicsOnlyUnawaited ==
  status = "panicked" => Cardinality({i \in 1..(at - 1) : program[i] = "send"}) >= 2
=============================================================================
