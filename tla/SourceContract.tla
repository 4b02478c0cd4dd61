--------------------------- MODULE SourceContract ---------------------------
(***************************************************************************)
(* What a Source promises its caller (traits/source.rs, source_poll.rs),   *)
(* for a source that only ever emits finalized events: the caller sees one *)
(* fixed, ordered list of timestamped events, and a state that is a        *)
(* function of time alone.  How the source computes them is not visible.   *)
(***************************************************************************)
EXTENDS Integers, Sequences

CONSTANTS
  LastStep,  (* the instants of the simulation are 0..LastStep            *)
  StepTime,  (* when each instant is                                      *)
  Emits,     (* how many events each instant emits                        *)
  Times      (* the times callers ask about                               *)

VARIABLES
  log,     (* the events delivered so far                            *)
  reply    (* the answer to the last call, NoReply while a call runs *)

contractVars == <<log, reply>>

Instants == 0..LastStep

\* Every event the source will ever emit: the e-th event of instant k.
Events == UNION {{[step |-> k, event |-> e] : e \in 1..Emits[k]} : k \in Instants}

Precedes(v, w) ==
  v.step < w.step \/ (v.step = w.step /\ v.event < w.event)

Delivered   == {log[i] : i \in DOMAIN log}
Undelivered == Events \ Delivered

\* None as the value of an optional time.
None == -1

\* k is the last instant at or before t: the state at t is interpolated from
\* the state after k.
IsLatestInstant(k, t) ==
  /\ StepTime[k] <= t
  /\ \A j \in Instants : StepTime[j] <= t => j <= k

NoReply      == [kind |-> "none"]
PendingReply == [kind |-> "pending"]

InterruptReply(t, at)    == [kind |-> "interrupt", time |-> t, at |-> at]
StateReply(t, base, hint) == [kind |-> "state", time |-> t, base |-> base, next |-> hint]
EventsReply(t, hint)     == [kind |-> "events", time |-> t, next |-> hint]

ContractInit ==
  /\ log = <<>>
  /\ reply = NoReply

\* A call begins; the caller has taken the previous answer.
Call ==
  /\ reply' = NoReply
  /\ UNCHANGED log

\* ev is the earliest undelivered event, and is handed to a caller who asked
\* about t.
HandsOut(ev, t) ==
  /\ ev \in Undelivered
  /\ \A v \in Undelivered : v = ev \/ Precedes(ev, v)
  /\ log' = Append(log, ev)
  /\ reply' = InterruptReply(t, StepTime[ev.step])

\* Interrupt: an event that must be handled before the state at t.
Interrupt(t) == \E ev \in Undelivered : StepTime[ev.step] <= t /\ HandsOut(ev, t)

\* Not promised: an event from after the time asked, which the state at t
\* does not depend on.
InterruptAhead(t) == \E ev \in Undelivered : StepTime[ev.step] > t /\ HandsOut(ev, t)

Pending ==
  /\ reply' = PendingReply
  /\ UNCHANGED log

\* All events at or before t are out, and nothing is left before the time
\* announced for the next one.
EverythingOut(t, hint) ==
  /\ \A v \in Undelivered : StepTime[v.step] > t
  /\ IF hint = None THEN Undelivered = {}
                    ELSE hint > t /\ \A v \in Undelivered : StepTime[v.step] >= hint

\* Ready, from poll: with the state at t.
ReadyWithState(t) ==
  \E k \in Instants, hint \in {StepTime[j] : j \in Instants} \cup {None} :
    /\ IsLatestInstant(k, t)
    /\ EverythingOut(t, hint)
    /\ reply' = StateReply(t, k, hint)
    /\ UNCHANGED log

\* Ready, from poll_events: without a state.
ReadyWithoutState(t) ==
  \E hint \in {StepTime[j] : j \in Instants} \cup {None} :
    /\ EverythingOut(t, hint)
    /\ reply' = EventsReply(t, hint)
    /\ UNCHANGED log

ContractNext ==
  \/ Call
  \/ Pending
  \/ \E t \in Times : Interrupt(t) \/ ReadyWithState(t) \/ ReadyWithoutState(t)

ContractSpec == ContractInit /\ [][ContractNext]_contractVars

\* The part of the contract that is left when an event may come early.
SharedContractNext == ContractNext \/ \E t \in Times : InterruptAhead(t)

SharedContractSpec == ContractInit /\ [][SharedContractNext]_contractVars
=============================================================================
