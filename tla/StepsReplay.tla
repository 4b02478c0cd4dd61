----------------------------- MODULE StepsReplay -----------------------------
(***************************************************************************)
(* polling_after_advance_same_time_test of sources/transposer/steps.rs,    *)
(* replayed on the model with the constants of the test.  A behaviour is   *)
(* deterministic, and each state is the struct between two calls of the    *)
(* test.                                                                   *)
(***************************************************************************)
EXTENDS Steps

\* The bound of the loop of the test.
Iterations == 200

VARIABLES
  st,        (* the struct Steps                              *)
  time,      (* the loop's t                                  *)
  stage,     (* the call that comes next: "delete", "poll"    *)
  panicked   (* a call of the test panicked                   *)

replayVars == <<st, time, stage, panicked>>

Init ==
  /\ st = NewSteps
  /\ time = 0
  /\ stage = "delete"
  /\ panicked = FALSE

\* A user future of the tests is Ready as soon as its event is out.
PollStep(s, k) == IF StepEmits(s, k) THEN StepEmitted(s, k) ELSE StepReady(s, k)

\* Saturate step k of s where it is only a plan.
Saturating(s, k) == IF s.status[k] = "unsaturated" THEN Saturate(s, k, {}) ELSE s

AdvanceTo ==
  /\ stage = "delete"
  /\ time < Iterations
  /\ st' = DeleteBefore(st, time)
  /\ stage' = "poll"
  /\ UNCHANGED <<time, panicked>>

\* get_before_or_at: the step is looked up again by its index from before
\* saturate, which may have popped the front.
StatePoll ==
  /\ stage = "poll"
  /\ LET planned == TryNextScheduled(st)
         target  == LatestAt(planned, time)
         after   == Saturating(planned, target)
         found   == target - planned.numDeleted + after.numDeleted
     IN  \/ /\ planned.status[target] = "saturated"
            /\ st' = planned /\ stage' = "delete" /\ time' = time + 1
            /\ UNCHANGED panicked
         \/ /\ planned.status[target] # "saturated"
            /\ found \in Window(after)
            /\ st' = PollStep(after, found)
            /\ UNCHANGED <<stage, time, panicked>>
         \/ /\ planned.status[target] # "saturated"
            /\ found \notin Window(after)
            /\ panicked' = TRUE /\ stage' = "panicked"
            /\ UNCHANGED <<st, time>>

StateSpec == Init /\ [][AdvanceTo \/ StatePoll]_replayVars

-----------------------------------------------------------------------------
(* What the test asserts *)

\* The seven asserts at a time t: only its own step is kept, with its state,
\* and the plan of the next one.
OnlyKeeps(t) ==
  /\ st.numDeleted = t
  /\ st.last = t + 1
  /\ st.status[t] = "saturated"
  /\ st.status[t + 1] = "unsaturated"
  /\ st.notUnsat = {t}

\* No call panics, and once the loop at a time is done only its step is kept,
\* with its state, and the plan of the next one.
AdvanceTestPasses ==
  /\ ~panicked
  /\ stage = "delete" /\ time > 0 => OnlyKeeps(time - 1)
=============================================================================
