------------------------------- MODULE Agenda -------------------------------
(***************************************************************************)
(* What a transposer may rely on when it schedules events: the contract    *)
(* of transposer/src/context.rs, without keys, indexes or handle maps.     *)
(* The agenda is the list of pending events in the order in which they     *)
(* will be handled: by time, and in the order of the calls that scheduled  *)
(* them within one time.  An event is known by the number of its call.     *)
(***************************************************************************)
EXTENDS Naturals, FiniteSets, Sequences, SequencesExt

CONSTANTS Times, StartTime

VARIABLES
  agenda,       \* the pending events in order: [time, event]
  now,          \* the time every handler sees
  busy,         \* whether a handler of the transposer is running
  ran,          \* the event that was handed to a handler last, 0 at first
  planned,      \* how many events were ever scheduled
  cancellable   \* the events that were scheduled with a handle

agendaVars == <<agenda, now, busy, ran, planned, cancellable>>

AgendaInit ==
  /\ agenda = <<>>
  /\ now = StartTime
  /\ busy = TRUE
  /\ ran = 0
  /\ planned = 0
  /\ cancellable = {}

\* The agenda with an event at t behind all the events that are not later.
Planned(t, event) ==
  LET notLater == {i \in DOMAIN agenda : agenda[i].time <= t}
  IN  InsertAt(agenda, Cardinality(notLater) + 1, [time |-> t, event |-> event])

\* A handler schedules an event, with a handle or without, but never in the past.
Plan ==
  /\ busy
  /\ \E t \in Times :
       /\ t >= now
       /\ agenda' = Planned(t, planned + 1)
  /\ planned' = planned + 1
  /\ cancellable' \in {cancellable, cancellable \cup {planned + 1}}
  /\ UNCHANGED <<now, busy, ran>>

\* A handler expires a pending event: this one leaves the agenda, the others stay in order.
Cancel ==
  /\ busy
  /\ \E i \in DOMAIN agenda :
       /\ agenda[i].event \in cancellable
       /\ agenda' = RemoveAt(agenda, i)
  /\ UNCHANGED <<now, busy, ran, planned, cancellable>>

Return ==
  /\ busy
  /\ busy' = FALSE
  /\ UNCHANGED <<agenda, now, ran, planned, cancellable>>

\* The head of the agenda is handled as soon as its time has come.
Run ==
  /\ ~busy
  /\ agenda # <<>>
  /\ Head(agenda).time = now
  /\ ran' = Head(agenda).event
  /\ agenda' = Tail(agenda)
  /\ busy' = TRUE
  /\ UNCHANGED <<now, planned, cancellable>>

\* The next step, at a later time that no pending event precedes: it either handles inputs, or is
\* there for the head of the agenda.
StepTo ==
  /\ ~busy
  /\ \A i \in DOMAIN agenda : agenda[i].time > now /\ agenda[i].time >= now'
  /\ \/ /\ agenda # <<>>
        /\ now' = Head(agenda).time
        /\ busy' = FALSE
     \/ /\ now' \in Times /\ now' > now
        /\ busy' = TRUE
  /\ UNCHANGED <<agenda, ran, planned, cancellable>>

AgendaNext == Plan \/ Cancel \/ Return \/ Run \/ StepTo

AgendaSpec == AgendaInit /\ [][AgendaNext]_agendaVars
=============================================================================
