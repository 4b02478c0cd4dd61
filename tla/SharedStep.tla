----------------------------- MODULE SharedStep -----------------------------
(***************************************************************************)
(* A step that was saturated once and given up is computed again for all   *)
(* callers that need its state.  They poll its one future by turns         *)
(* (RepeatStepFuture), through a StackWaker that keeps their wakers: only  *)
(* the first one polls, the others rely on being woken with it.  What the  *)
(* future awaits gets ready on another thread and calls StackWaker::wake   *)
(* there, while the callers go on polling.                                 *)
(***************************************************************************)
EXTENDS StepFuture

CONSTANTS
  Channels,   \* the channels that callers poll on
  MaxWakes    \* bound: the calls of StackWaker::wake under way at a time

ASSUME SharedStepAssumption ==
  MaxWakes \in Nat /\ Channels \cap {"none", "original", "panicked"} = {}

VARIABLES
  blocked,    \* the channels blocked on this step, which its entry counts
  weak,       \* the StackWaker of the entry, 0 for a Weak that is new_empty
  wakers,     \* StackWakerInner::wakers of each StackWaker
  poller,     \* who polls the step
  awaited,    \* what the future awaits: whether it is pending or ready, and the waker it has
  waking,     \* the calls of StackWaker::wake under way
  woken,      \* the channels that were woken since they last polled
  pins,       \* the channels that were blocked since this computation began: their time pins the step
  left        \* history: the channels left behind, which were still blocked when this computation
              \* began or were told to wait for a step that is done

kept       == <<pins, left>>
shared     == <<blocked, weak, wakers, poller, awaited, waking, woken, kept>>
sharedVars == <<vars, shared>>

Arcs     == 1..(MaxWakes + 2)
Calls    == 1..MaxWakes
NoOne    == [is |-> "none", waker |-> 0]
Panicked == [is |-> "panicked", waker |-> 0]    \* a poll unwinds, and nobody polls any more
Nothing  == [is |-> "none", waker |-> 0]
NoCall   == [arc |-> 0, drained |-> FALSE, calls |-> {}]

SharedInit ==
  /\ Init
  /\ blocked = {} /\ weak = 0 /\ wakers = [a \in Arcs |-> {}]
  /\ poller = NoOne /\ awaited = Nothing
  /\ waking = [n \in Calls |-> NoCall] /\ woken = {}
  /\ pins = {} /\ left = {}

\* An Arc is held by what the future awaits, by a call of wake, and while the step is polled.
\* The last one to drop it drops the wakers with it.
Lives(a) == a \in {awaited.waker, poller.waker} \cup {waking[n].arc : n \in Calls}

Drop == wakers' = [a \in Arcs |-> IF Lives(a)' THEN wakers[a] ELSE {}]

-----------------------------------------------------------------------------
(* Polling.                                                                *)

\* The first computation is polled by one caller, with a waker of its own.
PollOriginal ==
  /\ can_produce_events
  /\ Poll
  /\ poller' = [is |-> "original", waker |-> 0]
  /\ UNCHANGED <<blocked, weak, wakers, awaited, waking, woken, kept>>

\* StackWaker::register: the Weak is upgraded, or there is a new StackWaker.
Upgrades   == weak # 0 /\ Lives(weak)
Upgraded   == IF Upgrades THEN weak ELSE CHOOSE a \in Arcs : ~Lives(a)
Registered == IF Upgrades THEN wakers[weak] ELSE {}

\* Mutant: the waker that is registered already is not looked for, so everybody has a new one.
RegisterAnew(c) ==
  LET a == CHOOSE b \in Arcs : ~Lives(b)
  IN  /\ weak' = a
      /\ wakers' = [wakers EXCEPT ![a] = {c}]
      /\ poller' = [is |-> c, waker |-> a]

\* The caller polls the step if there was no waker but its own.
Register(c) ==
  /\ weak' = Upgraded
  /\ wakers' = [wakers EXCEPT ![Upgraded] = Registered \cup {c}]
  /\ poller' = IF Registered # {} THEN NoOne ELSE [is |-> c, waker |-> Upgraded]

\* RepeatStepFuture::poll, of a channel that is blocked or gets blocked.
PollRepeat(c) ==
  /\ status = "saturating" /\ poller = NoOne /\ ~can_produce_events
  /\ Register(c)
  /\ polling' = (poller' # NoOne)
  /\ blocked' = blocked \cup {c}
  /\ woken' = woken \ {c}
  /\ pins' = pins \cup ({c} \ blocked)
  /\ UNCHANGED <<left, program, status, at, outputs_to_swallow, channel, awaiting, event_count,
                 can_produce_events, delivered, awaited, waking>>

\* A channel is still blocked on a step that another one saturated, or that was given up since.
Gone(c) == status \in {"saturated", "unsaturated"} /\ c \in blocked /\ poller = NoOne

\* Step::poll has no future to run, and the unwrap of its error panics.
PollGone(c) ==
  /\ Gone(c) /\ Registered = {}
  /\ poller' = Panicked
  /\ UNCHANGED <<vars, blocked, weak, wakers, awaited, waking, woken, kept>>

\* Or the step is not polled, and the channel is told to wait with those that are registered.
PollGonePends(c) ==
  /\ Gone(c) /\ Registered # {}
  /\ Register(c)
  /\ woken' = woken \ {c}
  /\ left' = left \cup {c}
  /\ UNCHANGED <<vars, blocked, awaited, waking, pins>>

-----------------------------------------------------------------------------
(* The future runs.                                                        *)

RunsOn == (EmitSwallowed \/ Emit) /\ UNCHANGED shared

\* What is awaited is ready when the future meets it first, or when it has woken the future.
WaitEnds ==
  /\ WaitIsOver
  /\ awaited.is # "pending"
  /\ awaited' = Nothing
  /\ UNCHANGED <<blocked, weak, wakers, poller, waking, woken, kept>>

Returns      == poller' = NoOne /\ UNCHANGED <<waking, woken>> /\ Drop
StaysBlocked == UNCHANGED <<blocked, weak, kept>>

Awaits == awaited' = IF awaiting # 0 THEN awaited ELSE [is |-> "pending", waker |-> poller.waker]
Parked == awaiting # 0 \/ awaited.is # "ready"

ReturnsPending  == Parked /\ PollPending /\ Awaits /\ Returns /\ StaysBlocked
ReturnsEmitted  == poller.is = "original" /\ Parked /\ PollEmitted /\ Awaits /\ Returns /\ StaysBlocked
Panics          == EmitPanics /\ UNCHANGED awaited /\ Returns /\ StaysBlocked

\* RepeatStepFuture panics on an event, which only an emission that was not awaited leaves.
RepeatPanics ==
  /\ poller.is \in Channels /\ Parked
  /\ PollEmitted
  /\ poller' = Panicked
  /\ UNCHANGED <<blocked, weak, wakers, awaited, waking, woken, kept>>

\* A channel that is done leaves the entry, and the last one removes it.
Leaves(c) ==
  /\ blocked' = blocked \ {c}
  /\ weak' = IF blocked \subseteq {c} THEN 0 ELSE weak

\* The pins move on to the steps that are computed from this one.
ReturnsReady ==
  /\ PollReady
  /\ Leaves(poller.is)
  /\ pins' = {}
  /\ UNCHANGED <<awaited, left>>
  /\ Returns

\* RepeatStepFuture::abandon: the waker stays registered.
Abandon(c) ==
  /\ poller = NoOne /\ c \in blocked
  /\ Leaves(c)
  /\ woken' = woken \ {c}
  /\ pins' = pins \ {c}
  /\ UNCHANGED <<vars, wakers, poller, awaited, waking, left>>

\* Channels may be blocked still from before the step was given up.
SaturateAgain ==
  /\ poller = NoOne
  /\ Saturate
  /\ left' = blocked
  /\ UNCHANGED <<blocked, weak, wakers, poller, awaited, waking, woken, pins>>

\* sequence_number_to_delete keeps the checkpoint before the time of each blocked channel.  That is
\* this step while it is computed for the channel; once it is saturated it may be a later one, or
\* the state is taken for the next step.  With the future goes what it awaits.
GiveUp ==
  /\ poller = NoOne /\ pins = {}
  /\ Desaturate
  /\ awaited' = Nothing
  /\ UNCHANGED <<blocked, weak, poller, waking, woken, kept>>
  /\ Drop

-----------------------------------------------------------------------------
(* StackWaker::wake, on the thread of what was awaited.                    *)

Completes ==
  /\ awaited.is = "pending"
  /\ awaited' = [is |-> "ready", waker |-> 0]
  /\ \E n \in Calls :
       /\ waking[n] = NoCall
       /\ waking' = [waking EXCEPT ![n].arc = awaited.waker]
  /\ UNCHANGED <<vars, blocked, weak, wakers, poller, woken, kept>>

\* Mutant: only the first of the wakers is called.
DrainOne(n) ==
  /\ waking[n].arc # 0 /\ ~waking[n].drained
  /\ wakers' = [wakers EXCEPT ![waking[n].arc] = {}]
  /\ \E c \in Channels :
       waking' = [waking EXCEPT ![n].drained = TRUE, ![n].calls = wakers[waking[n].arc] \cap {c}]
  /\ UNCHANGED <<vars, blocked, weak, poller, awaited, woken, kept>>

\* The wakers are drained under the lock, and called after it.
Drain(n) ==
  /\ waking[n].arc # 0 /\ ~waking[n].drained
  /\ wakers' = [wakers EXCEPT ![waking[n].arc] = {}]
  /\ waking' = [waking EXCEPT ![n].drained = TRUE, ![n].calls = wakers[waking[n].arc]]
  /\ UNCHANGED <<vars, blocked, weak, poller, awaited, woken, kept>>

Call(n) ==
  /\ \E c \in waking[n].calls :
       /\ woken' = woken \cup ({c} \cap blocked)
       /\ waking' = [waking EXCEPT ![n].calls = @ \ {c}]
  /\ UNCHANGED <<vars, blocked, weak, wakers, poller, awaited, kept>>

\* The Arc is dropped when wake returns.
WakeReturns(n) ==
  /\ waking[n].drained /\ waking[n].calls = {}
  /\ waking' = [waking EXCEPT ![n] = NoCall]
  /\ UNCHANGED <<vars, blocked, weak, poller, awaited, woken, kept>>
  /\ Drop

-----------------------------------------------------------------------------
FutureRuns == RunsOn \/ WaitEnds \/ ReturnsPending \/ ReturnsEmitted \/ ReturnsReady
Wakes      == \E n \in Calls : Drain(n) \/ Call(n) \/ WakeReturns(n)

SharedNext ==
  \/ PollOriginal \/ FutureRuns \/ Panics \/ RepeatPanics
  \/ SaturateAgain \/ GiveUp \/ Completes \/ Wakes
  \/ \E c \in Channels : PollRepeat(c) \/ PollGone(c) \/ PollGonePends(c) \/ Abandon(c)

\* A poll runs to its end, a user future gets ready and wakes, and who is woken polls again.
SharedSpec ==
  /\ SharedInit
  /\ [][SharedNext]_sharedVars
  /\ WF_sharedVars(FutureRuns)
  /\ WF_sharedVars(Completes)
  /\ WF_sharedVars(Wakes)
  /\ \A c \in Channels : WF_sharedVars(c \in woken /\ PollRepeat(c))

-----------------------------------------------------------------------------
(* Properties.                                                             *)

BeingWoken(c) ==
  \/ c \in woken
  \/ \E n \in Calls : c \in waking[n].calls
  \/ \E n \in Calls : waking[n].arc # 0 /\ ~waking[n].drained /\ c \in wakers[waking[n].arc]

WillBeWoken(c) ==
  \/ BeingWoken(c)
  \/ awaited.is = "pending" /\ awaited.waker # 0 /\ c \in wakers[awaited.waker]

Undisturbed == poller = NoOne /\ status # "panicked"

\* A caller told Pending is woken when calling again makes progress (source.rs:55).
EveryCallerIsWoken == Undisturbed => \A c \in blocked : WillBeWoken(c)

\* As long as no channel was left behind on the step, its callers are told the truth: however polls
\* on one thread and the wake on another interleave, each one is woken, about to be woken, or
\* registered with the waker the future holds (register asks under the lock whether it is the
\* first), also when another one saturates the step or it is given up.
NoOneForgotten == left = {} => EveryCallerIsWoken

\* So a computation that begins with nobody left behind comes to its end, somebody among its callers
\* polls it until then, and each caller is woken after it, unless it left or polled before that.
CallersAreWoken ==
  \A c \in Channels :
    status = "saturating" /\ left = {} /\ c \in blocked
      ~> \/ status # "saturating" /\ c \in woken
         \/ c \notin blocked \/ c \in left \/ poller = Panicked
=============================================================================
