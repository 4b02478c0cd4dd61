------------------------------- MODULE Steps -------------------------------
(***************************************************************************)
(* The chain of steps of a NoInputTransposerSource: `Steps` of             *)
(* sources/transposer/steps.rs together with the part of `Step`            *)
(* (transposer/src/step/mod.rs) it drives.                                 *)
(*                                                                         *)
(* A step stands for one instant of the simulation.  It is Unsaturated (a  *)
(* plan only), Saturating (a user future computes the state after the      *)
(* instant) or Saturated (the state is known).  States are expensive, so   *)
(* only some steps, the checkpoints, keep theirs; the others are           *)
(* desaturated and recomputed from the step before them when needed.       *)
(*                                                                         *)
(* The module is pure: `st` is a value of the struct `Steps`, an operator  *)
(* is a method and returns the struct the method leaves behind.  A step is *)
(* named by its sequence number; the VecDeque index i of the code is the   *)
(* sequence number st.numDeleted + i.                                      *)
(***************************************************************************)
EXTENDS Integers, FiniteSets, FiniteSetsExt

CONSTANTS
  LastStep,         (* number of the last step the transposer ever schedules *)
  StepTime,         (* StepTime[k]: the time of step k                       *)
  Emits,            (* Emits[k]: how many events the future of step k emits  *)
  NumCheckpoints    (* number_of_checkpoints, 30 in the code                 *)

AllSteps == 0..LastStep

ASSUME LastStepAssumption == LastStep \in Nat

\* Everything scheduled at the instant of a step is handled by that step, so
\* the next step is strictly later.
ASSUME StepTimeAssumption ==
  /\ StepTime \in [AllSteps -> Nat]
  /\ \A j, k \in AllSteps : j < k => StepTime[j] < StepTime[k]

ASSUME EmitsAssumption == Emits \in [AllSteps -> Nat]

ASSUME NumCheckpointsAssumption == NumCheckpoints \in Nat \ {0}

Statuses == {"absent", "unsaturated", "saturating", "saturated"}

\* deleted_before = None.  It is below every time, so `t < deletedBefore` is
\* false of it, as the `if let Some(..)` around each comparison requires.
Never == -1

StepsType ==
  [ numDeleted    : AllSteps,              (* num_deleted_steps             *)
    last          : AllSteps,              (* number of the back step       *)
    status        : [AllSteps -> Statuses],
    notUnsat      : SUBSET AllSteps,       (* not_unsaturated               *)
    deletedBefore : Nat \cup {Never},
    eventCount    : [AllSteps -> Nat],     (* Step::event_count             *)
    produced      : [AllSteps -> Nat],     (* events the running future has *)
                                           (* gone past, swallowed or not   *)
    canProduce    : [AllSteps -> BOOLEAN] ] (* Step::can_produce_events     *)

\* Steps::new: the init step is created saturating.
NewSteps ==
  [ numDeleted    |-> 0,
    last          |-> 0,
    status        |-> [k \in AllSteps |-> IF k = 0 THEN "saturating" ELSE "absent"],
    notUnsat      |-> {0},
    deletedBefore |-> Never,
    eventCount    |-> [k \in AllSteps |-> 0],
    produced      |-> [k \in AllSteps |-> 0],
    canProduce    |-> [k \in AllSteps |-> TRUE] ]

-----------------------------------------------------------------------------
(* Looking steps up *)

\* The steps the VecDeque holds.
Window(st) == st.numDeleted .. st.last

\* The binary search by time would land in front of the first retained step.
BeforeFirst(st, t) == t < StepTime[st.numDeleted]

\* The latest retained step at or before t.
LatestAt(st, t) == Max({k \in Window(st) : StepTime[k] <= t})

\* get_not_unsaturated_before_or_at_time
NotUnsatAt(st, t) == Max({k \in st.notUnsat : k <= LatestAt(st, t)})

\* get_scheduled_time; Never stands for None.
ScheduledTime(st) ==
  IF st.status[st.last] = "saturated" THEN Never ELSE StepTime[st.last]

-----------------------------------------------------------------------------
(* Choosing the checkpoint to give up *)

\* usize::trailing_zeros, 64 when no bit is set.
TrailingZeros(i) ==
  LET LowestBit(z) == i % (2^(z+1)) = 2^z
  IN  IF i # 0 /\ \E z \in 0..63 : LowestBit(z)
      THEN CHOOSE z \in 0..63 : LowestBit(z)
      ELSE 64

\* The order of candidates.min_by_key(|i| (i.trailing_zeros(), *i)).
GivenUpBefore(i, j) ==
  \/ TrailingZeros(i) < TrailingZeros(j)
  \/ TrailingZeros(i) = TrailingZeros(j) /\ i <= j

\* Mutant: the first step is never taken, only cloned.
FirstIsNeverObsolete(st, new) == FALSE

\* The caller has advanced past the first step and the next one is about to
\* be saturated from it.
FirstIsObsolete(st, new) ==
  /\ StepTime[st.numDeleted] < st.deletedBefore
  /\ Min(st.notUnsat) + 1 = new

\* Mutant: the checkpoint the next step is computed from may be given up.
NeededStepsButLast(st, pins, new) ==
  {Min(st.notUnsat)} \cup {NotUnsatAt(st, t) : t \in pins}

\* Mutant: the last checkpoint is kept even when the new step succeeds it.
NeededStepsAndLast(st, pins, new) ==
  {Min(st.notUnsat), Max(st.notUnsat)} \cup {NotUnsatAt(st, t) : t \in pins}

OverBudget(st) == NumCheckpoints <= Cardinality(st.notUnsat)

NeededSteps(st, pins, new) ==
  {Min(st.notUnsat)}
    \cup ({Max(st.notUnsat)} \ {new - 1})
    \cup {NotUnsatAt(st, t) : t \in pins}

\* sequence_number_to_delete: the empty set for None.
SequenceNumberToDelete(st, pins, new) ==
  IF FirstIsObsolete(st, new)
  THEN {Min(st.notUnsat)}
  ELSE IF ~OverBudget(st)
  THEN {}
  ELSE LET candidates == st.notUnsat \ NeededSteps(st, pins, new)
       IN  {i \in candidates : \A j \in candidates : GivenUpBefore(i, j)}

\* A pinned time lies before the first retained step, and the search for its
\* checkpoint subtracts one from the index 0.
PinUnderflows(st, pins, new) ==
  /\ ~FirstIsObsolete(st, new)
  /\ OverBudget(st)
  /\ \E t \in pins : BeforeFirst(st, t)

-----------------------------------------------------------------------------
(* Changing the chain *)

\* try_next_scheduled: once the last step is saturated, plan the next one.
TryNextScheduled(st) ==
  IF st.status[st.last] = "saturated" /\ st.last < LastStep
  THEN [st EXCEPT !.last = @ + 1,
                  !.status = [@ EXCEPT ![st.last + 1] = "unsaturated"]]
  ELSE st

\* ensure_first_step_is_not_unsaturated: pop unsaturated steps off the front.
EnsureFirstStepIsNotUnsaturated(st) ==
  LET first == Min({k \in Window(st) : st.status[k] # "unsaturated"})
  IN  [st EXCEPT !.numDeleted = first,
                 !.status = [k \in AllSteps |-> IF k < first THEN "absent" ELSE st.status[k]]]

\* Mutant: the restarted future is not told what to swallow.
SaturateFromScratch(st, new, pins) ==
  LET gone == SequenceNumberToDelete(st, pins, new)
  IN  EnsureFirstStepIsNotUnsaturated(
        [st EXCEPT
           !.status = [k \in AllSteps |-> IF k = new THEN "saturating"
                                          ELSE IF k \in gone THEN "unsaturated"
                                          ELSE st.status[k]],
           !.notUnsat = (st.notUnsat \ gone) \cup {new},
           !.produced = [k \in AllSteps |-> IF k \in gone \cup {new} THEN 0
                                            ELSE st.produced[k]]])

\* saturate: give up a checkpoint, then start the future of step `new` from
\* the state of the step before it, taken if that is the one given up and
\* cloned if not.  The future is told to swallow the event_count events the
\* caller has already seen.
Saturate(st, new, pins) ==
  LET gone == SequenceNumberToDelete(st, pins, new)
  IN  EnsureFirstStepIsNotUnsaturated(
        [st EXCEPT
           !.status = [k \in AllSteps |-> IF k = new THEN "saturating"
                                          ELSE IF k \in gone THEN "unsaturated"
                                          ELSE st.status[k]],
           !.notUnsat = (st.notUnsat \ gone) \cup {new},
           !.produced = [k \in AllSteps |-> IF k = new THEN st.eventCount[new]
                                            ELSE IF k \in gone THEN 0
                                            ELSE st.produced[k]]])

\* What the unwraps along `saturate` ask for.
CanSaturate(st, new, pins) ==
  /\ new - 1 \in Window(st)
  /\ st.status[new - 1] = "saturated"
  /\ ~PinUnderflows(st, pins, new)

\* Mutant: the set of checkpoints is not split with the steps.
DeleteBeforeKeepsTheSet(st, t) ==
  LET first == NotUnsatAt(st, t)
  IN  IF t <= st.deletedBefore
      THEN st
      ELSE [st EXCEPT
              !.deletedBefore = t,
              !.numDeleted = first,
              !.status = [k \in AllSteps |-> IF k < first THEN "absent" ELSE st.status[k]]]

\* Mutant: keeps from the step at t on, checkpoint or not.
DeleteBeforeStep(st, t) ==
  LET first == LatestAt(st, t)
  IN  IF t <= st.deletedBefore
      THEN st
      ELSE [st EXCEPT
              !.deletedBefore = t,
              !.numDeleted = first,
              !.notUnsat = {k \in st.notUnsat : k >= first},
              !.status = [k \in AllSteps |-> IF k < first THEN "absent" ELSE st.status[k]]]

\* delete_before
DeleteBefore(st, t) ==
  LET first == NotUnsatAt(st, t)
  IN  IF t <= st.deletedBefore
      THEN st
      ELSE [st EXCEPT
              !.deletedBefore = t,
              !.numDeleted = first,
              !.notUnsat = {k \in st.notUnsat : k >= first},
              !.status = [k \in AllSteps |-> IF k < first THEN "absent" ELSE st.status[k]]]

-----------------------------------------------------------------------------
(* Step::poll: the outcomes of polling the future of step k *)

StepEmits(st, k) == st.produced[k] < Emits[k]

\* StepPoll::Emitted
StepEmitted(st, k) ==
  [st EXCEPT !.eventCount = [st.eventCount EXCEPT ![k] = @ + 1],
             !.produced = [st.produced EXCEPT ![k] = @ + 1]]

\* StepPoll::Ready
StepReady(st, k) ==
  [st EXCEPT !.status = [@ EXCEPT ![k] = "saturated"],
             !.produced = [@ EXCEPT ![k] = 0],
             !.canProduce = [@ EXCEPT ![k] = FALSE]]
=============================================================================
