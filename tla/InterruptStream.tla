--------------------------- MODULE InterruptStream ---------------------------
(***************************************************************************)
(* InterruptStream (adapters/interrupt_stream.rs) over a                   *)
(* NoInputTransposerSource: the adapter that plays the events of a source  *)
(* in real time.  Each poll_next reads the clock, advances the source to   *)
(* it, asks for the events up to it, and, when there are none, sleeps      *)
(* until the time announced for the next one.                              *)
(*                                                                         *)
(* The clock runs on its own, so the time a poll_next works with grows     *)
(* older while it runs.  The stream is the only user of the source.        *)
(***************************************************************************)
EXTENDS TransposerSource

CONSTANT MaxTime   (* bound: the clock stops there *)

ASSUME MaxTimeAssumption == MaxTime \in Nat

\* The times the stream uses are those its clock can show.
ASSUME ClockAssumption == 0 .. MaxTime \subseteq EventTimes \cap AdvanceTimes

VARIABLES
  now,       (* Instant::now()                                             *)
  stage,     (* where the task of the stream is                            *)
  pollTime,  (* poll_time of the last or current poll_next                 *)
  wait       (* the time current_wait ends at, Never for None and once it  *)
             (* has woken the task                                         *)

clockVars  == <<now, stage, pollTime, wait>>
streamVars == <<vars, clockVars>>

Stages == {"woken", "advanced", "asking", "asleep"}

\* The stream may be made, and polled, before the simulation starts.
StreamInit ==
  /\ Init
  /\ now \in 0 .. MaxTime
  /\ stage = "woken"
  /\ pollTime = Never
  /\ wait = Never

Tick ==
  /\ now < MaxTime
  /\ now' = now + 1
  /\ UNCHANGED <<vars, stage, pollTime, wait>>

\* poll_next: read the clock and advance the source to it.  Before the first
\* step of the source there is nothing to advance to, and advance panics.
PollNext ==
  /\ stage = "woken"
  /\ IF now <= steps.deletedBefore
     THEN UNCHANGED vars
     ELSE Advance(now) \/ AdvanceBeforeFirstStep(now)
  /\ pollTime' = now
  /\ stage' = "advanced"
  /\ UNCHANGED <<now, wait>>

AsksForEvents ==
  /\ stage = "advanced"
  /\ CallPollEvents(pollTime)
  /\ stage' = "asking"
  /\ UNCHANGED <<now, pollTime, wait>>

SourceAnswers ==
  /\ EventsTurns
  /\ UNCHANGED clockVars

Answered(kind) == stage = "asking" /\ Turn("idle") /\ reply.kind = kind

\* The stream yields the event; its consumer polls it again.
Yields ==
  /\ Answered("interrupt")
  /\ stage' = "woken"
  /\ UNCHANGED <<vars, now, pollTime, wait>>

\* The future of the last step is not done; current_wait is left as it is.
SourcePends ==
  /\ Answered("pending")
  /\ stage' = "asleep"
  /\ UNCHANGED <<vars, now, pollTime, wait>>

NothingScheduled ==
  /\ Answered("events")
  /\ reply.next = Never
  /\ wait' = Never
  /\ stage' = "asleep"
  /\ UNCHANGED <<vars, now, pollTime>>

\* Mutant: the future of the wait is polled once and dropped.
WaitIsDropped ==
  /\ Answered("events")
  /\ reply.next > now
  /\ wait' = Never
  /\ stage' = "asleep"
  /\ UNCHANGED <<vars, now, pollTime>>

WaitsForNext ==
  /\ Answered("events")
  /\ reply.next > now
  /\ wait' = reply.next
  /\ stage' = "asleep"
  /\ UNCHANGED <<vars, now, pollTime>>

\* The clock has passed the announced time already: poll_next calls itself.
WaitIsOver ==
  /\ Answered("events")
  /\ reply.next # Never
  /\ reply.next <= now
  /\ wait' = Never
  /\ stage' = "woken"
  /\ UNCHANGED <<vars, now, pollTime>>

TimerFired == wait # Never /\ wait <= now

\* The task is woken, once, by the source's waker or by the timer.
StreamWakes ==
  /\ stage = "asleep"
  /\ TimerFired \/ (reply.kind = "pending" /\ EventsCaller \notin waiting)
  /\ stage' = "woken"
  /\ wait' = IF TimerFired THEN Never ELSE wait
  /\ UNCHANGED <<vars, now, pollTime>>

FutureWakes ==
  /\ \E k \in AllSteps : WakeStep(k)
  /\ UNCHANGED clockVars

Reads ==
  Yields \/ SourcePends \/ NothingScheduled \/ WaitsForNext \/ WaitIsOver

StreamNext ==
  \/ Tick \/ PollNext \/ AsksForEvents \/ SourceAnswers \/ Reads
  \/ StreamWakes \/ FutureWakes

\* The executor runs woken tasks, the clock runs, and a user future polled
\* again and again wakes its waker and gets further.
FutureAdvances == (EventsEmits \/ EventsStepReady) /\ UNCHANGED clockVars

StreamSpec ==
  /\ StreamInit
  /\ [][StreamNext]_streamVars
  /\ WF_streamVars(Tick)
  /\ WF_streamVars(PollNext \/ AsksForEvents \/ SourceAnswers \/ Reads)
  /\ WF_streamVars(StreamWakes)
  /\ WF_streamVars(FutureWakes)
  /\ SF_streamVars(FutureAdvances)

-----------------------------------------------------------------------------
(* Properties *)

\* Sleeping is safe: while the stream sleeps with no wake-up due, every event
\* still to come is later than the poll_time it last asked about, and some
\* wake-up is certain, by the timer no later than the next event, or by the
\* future that has to emit it.
SleepsNoLongerThanTheNextEvent ==
  stage = "asleep" =>
    \A v \in Contract!Undelivered :
      \/ wait # Never /\ wait <= StepTime[v.step]
      \/ EventsCaller \notin waiting /\ reply.kind = "pending"
      \/ held[steps.last] = "all" /\ steps.last <= v.step

\* Playing forward needs one state only: the step being computed takes the
\* state of the one before, so memory does not grow with the checkpoints.
StreamHoldsOneState == Cardinality(steps.notUnsat) = 1

\* Only a stream polled before the simulation starts panics, in its first
\* call: later it never asks for what it advanced past.
PanicsOnlyBeforeTheStart ==
  fault # "none" =>
    /\ fault = "before_first_step"
    /\ pollTime < StepTime[0]
    /\ log = <<>>

\* An event is never yielded before its time has come.
NeverEarly == reply.kind = "interrupt" => reply.at <= now

\* Every event within the horizon of the clock is yielded in the end, unless
\* the stream was polled before the simulation started.
EventsArePlayed ==
  <>(\/ fault # "none"
     \/ \A v \in Contract!Events :
          StepTime[v.step] <= MaxTime => v \in Contract!Delivered)
=============================================================================
