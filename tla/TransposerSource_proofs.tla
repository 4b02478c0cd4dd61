----------------------- MODULE TransposerSource_proofs -----------------------
(***************************************************************************)
(* Proofs about NoInputTransposerSource for any number of channels, steps, *)
(* checkpoints and events, and any times.                                  *)
(***************************************************************************)
EXTENDS TransposerSource, FiniteSetTheorems, WellFoundedInduction, TLAPS

-----------------------------------------------------------------------------
(* The chain: what every method of Steps preserves, for every length of    *)
(* the chain, every budget of checkpoints and every times of the steps.    *)

\* The chain is in order: each step of the window and no other is present,
\* the set of checkpoints is the steps that hold or compute a state, the
\* first step is one of them, and the last, while it is a plan, has its
\* predecessor's state to start from.
StepsInv(st) ==
  /\ st \in StepsType
  /\ st.numDeleted <= st.last
  /\ \A k \in AllSteps : st.status[k] = "absent" <=> k \notin Window(st)
  /\ st.notUnsat = {k \in Window(st) : st.status[k] \in {"saturating", "saturated"}}
  /\ st.numDeleted \in st.notUnsat
  /\ st.status[st.last] = "unsaturated" =>
       /\ st.last > st.numDeleted
       /\ st.status[st.last - 1] = "saturated"

\* The invariant of the chain leads to the type of its struct.
LEMMA StepsTyped ==
  ASSUME NEW st, StepsInv(st)
  PROVE  st \in StepsType /\ st.last \in AllSteps /\ st.status \in [AllSteps -> Statuses]
  BY DEF StepsInv, StepsType

-----------------------------------------------------------------------------
(* Minimum and maximum *)

\* A non-empty set of naturals has a least element.
LEMMA LeastNatural ==
  ASSUME NEW S \in SUBSET Nat, S # {}
  PROVE  \E x \in S : \A y \in S : x <= y
<1> DEFINE R == OpToRel(<, Nat)
<1>1. \E x \in S : \A y \in S : ~ (<<y, x>> \in R)
  BY WFMin, NatLessThanWellFounded
<1>2. ASSUME NEW x \in S, NEW y \in S, ~ (<<y, x>> \in R)
      PROVE  x <= y
  BY <1>2, SMT DEF OpToRel
<1> QED
  BY <1>1, <1>2

\* Min is that element.
LEMMA MinOfNaturals ==
  ASSUME NEW S \in SUBSET Nat, S # {}
  PROVE  /\ Min(S) \in S
         /\ \A y \in S : Min(S) <= y
  BY LeastNatural DEF Min

\* A non-empty set of step numbers has a greatest element, and Max is it.
LEMMA MaxOfSteps ==
  ASSUME NEW S \in SUBSET AllSteps, S # {}
  PROVE  /\ Max(S) \in S
         /\ \A y \in S : y <= Max(S)
<1> DEFINE T == {x \in AllSteps : LastStep - x \in S}
<1> USE LastStepAssumption DEF AllSteps
<1>1. T \in SUBSET Nat
  OBVIOUS
<1>2. T # {}
  <2>1. PICK y \in S : TRUE
    OBVIOUS
  <2>2. LastStep - y \in AllSteps /\ LastStep - (LastStep - y) = y
    OBVIOUS
  <2> QED
    BY <2>1, <2>2
<1>3. PICK x \in T : \A y \in T : x <= y
  BY <1>1, <1>2, LeastNatural
<1>4. \A y \in S : LastStep - x >= y
  <2> TAKE y \in S
  <2>1. LastStep - y \in AllSteps /\ LastStep - (LastStep - y) = y
    OBVIOUS
  <2>2. LastStep - y \in T
    BY <2>1
  <2> QED
    BY <2>2, <1>3
<1>5. \E m \in S : \A y \in S : m >= y
  BY <1>3, <1>4
<1> QED
  BY <1>5 DEF Max

-----------------------------------------------------------------------------
(* Looking steps up *)

\* The window lies within the steps there are.
LEMMA WindowSteps ==
  ASSUME NEW st \in StepsType
  PROVE  /\ Window(st) \subseteq AllSteps
         /\ AllSteps \subseteq Nat
  BY LastStepAssumption DEF StepsType, Window, AllSteps

\* A search at or after the first retained step finds a retained step.
LEMMA LatestAtIsRetained ==
  ASSUME NEW st, StepsInv(st), NEW t \in Nat, ~BeforeFirst(st, t)
  PROVE  LatestAt(st, t) \in Window(st) /\ StepTime[LatestAt(st, t)] <= t
<1> DEFINE S == {k \in Window(st) : StepTime[k] <= t}
<1>1. st.numDeleted \in S
  BY StepTimeAssumption DEF StepsInv, StepsType, Window, BeforeFirst, AllSteps
<1>2. S \in SUBSET AllSteps
  BY WindowSteps DEF StepsInv
<1> QED
  BY <1>1, <1>2, MaxOfSteps DEF LatestAt

\* ... and then there is a checkpoint at or before it.
LEMMA NotUnsatAtIsCheckpoint ==
  ASSUME NEW st, StepsInv(st), NEW t \in Nat, ~BeforeFirst(st, t)
  PROVE  NotUnsatAt(st, t) \in st.notUnsat
<1> DEFINE S == {k \in st.notUnsat : k <= LatestAt(st, t)}
<1>1. st.numDeleted \in S
  BY LatestAtIsRetained, WindowSteps DEF StepsInv, Window
<1>2. S \in SUBSET AllSteps
  BY WindowSteps DEF StepsInv
<1> QED
  BY <1>1, <1>2, MaxOfSteps DEF NotUnsatAt

\* The first checkpoint is the first retained step.
LEMMA FirstCheckpoint ==
  ASSUME NEW st, StepsInv(st)
  PROVE  Min(st.notUnsat) = st.numDeleted
<1>1. st.notUnsat \in SUBSET Nat /\ st.numDeleted \in st.notUnsat
  BY WindowSteps DEF StepsInv
<1>2. \A k \in st.notUnsat : st.numDeleted <= k
  BY DEF StepsInv, Window
<1>3. Min(st.notUnsat) \in st.notUnsat /\ Min(st.notUnsat) <= st.numDeleted
  BY <1>1, MinOfNaturals
<1> QED
  BY <1>1, <1>2, <1>3

-----------------------------------------------------------------------------
(* The methods *)

\* Steps::new establishes the invariant.
LEMMA NewStepsInv == StepsInv(NewSteps)
<1> USE LastStepAssumption DEF AllSteps
<1>1. NewSteps \in StepsType
  BY DEF NewSteps, StepsType, Statuses, Never
<1>2. /\ NewSteps.numDeleted = 0
      /\ NewSteps.last = 0
      /\ NewSteps.notUnsat = {0}
      /\ NewSteps.status = [k \in AllSteps |-> IF k = 0 THEN "saturating" ELSE "absent"]
  BY DEF NewSteps
<1>3. Window(NewSteps) = {0}
  BY <1>2 DEF Window
<1> HIDE DEF NewSteps
<1>4. /\ \A k \in AllSteps : NewSteps.status[k] = "absent" <=> k \notin {0}
      /\ NewSteps.notUnsat = {k \in {0} : NewSteps.status[k] \in {"saturating", "saturated"}}
      /\ NewSteps.status[NewSteps.last] # "unsaturated"
  BY <1>2
<1> QED
  BY <1>1, <1>2, <1>3, <1>4 DEF StepsInv

\* try_next_scheduled preserves it.
LEMMA TryNextScheduledInv ==
  ASSUME NEW st, StepsInv(st)
  PROVE  StepsInv(TryNextScheduled(st))
<1> CASE ~(st.status[st.last] = "saturated" /\ st.last < LastStep)
  BY DEF TryNextScheduled
<1> CASE st.status[st.last] = "saturated" /\ st.last < LastStep
  <2> DEFINE s == TryNextScheduled(st)
  <2> SUFFICES StepsInv(s)
    OBVIOUS
  <2> USE LastStepAssumption DEF AllSteps
  <2>0. st \in StepsType
    BY DEF StepsInv
  <2>1. s = [st EXCEPT !.last = st.last + 1,
                       !.status = [st.status EXCEPT ![st.last + 1] = "unsaturated"]]
    BY DEF TryNextScheduled
  <2>2. /\ s.last = st.last + 1
        /\ s.status = [st.status EXCEPT ![st.last + 1] = "unsaturated"]
        /\ s.numDeleted = st.numDeleted
        /\ s.notUnsat = st.notUnsat
    BY <2>0, <2>1 DEF StepsType
  <2>a. /\ st.last \in AllSteps /\ st.numDeleted \in AllSteps
        /\ st.status \in [AllSteps -> Statuses]
        /\ st.last + 1 \in AllSteps
        /\ st.numDeleted <= st.last /\ st.numDeleted \in st.notUnsat
    <3>1. /\ st.last \in AllSteps /\ st.numDeleted \in AllSteps
          /\ st.status \in [AllSteps -> Statuses]
      BY <2>0 DEF StepsType
    <3>2. st.last + 1 \in AllSteps
      BY <3>1
    <3>3. st.numDeleted <= st.last /\ st.numDeleted \in st.notUnsat
      BY DEF StepsInv
    <3> QED
      BY <3>1, <3>2, <3>3
  <2>b. "unsaturated" \in Statuses
    BY DEF Statuses
  <2>3. s \in StepsType
    <3>1. [st.status EXCEPT ![st.last + 1] = "unsaturated"] \in [AllSteps -> Statuses]
      BY <2>a, <2>b
    <3> QED
      BY <2>0, <2>1, <2>a, <3>1 DEF StepsType
  <2>4. Window(s) = Window(st) \cup {st.last + 1} /\ st.last + 1 \notin Window(st)
    <3>1. /\ st.last \in Int /\ st.numDeleted \in Int /\ st.numDeleted <= st.last
          /\ s.last = st.last + 1 /\ s.numDeleted = st.numDeleted
      BY <2>0, <2>2 DEF StepsInv, StepsType
    <3> HIDE DEF s
    <3> QED
      BY <3>1 DEF Window
  <2>5. \A k \in AllSteps : s.status[k] = "absent" <=> k \notin Window(s)
    BY <2>0, <2>2, <2>4 DEF StepsInv, StepsType
  <2>6. s.notUnsat = {k \in Window(s) : s.status[k] \in {"saturating", "saturated"}}
    <3>1. \A k \in Window(st) : s.status[k] = st.status[k]
      BY <2>0, <2>2, <2>4, WindowSteps DEF StepsType
    <3>2. s.status[st.last + 1] = "unsaturated"
      BY <2>0, <2>2 DEF StepsType
    <3> QED
      BY <2>2, <2>4, <3>1, <3>2 DEF StepsInv
  <2> HIDE DEF s
  <2>7. s.last > s.numDeleted /\ s.status[s.last - 1] = "saturated"
    BY <2>2, <2>a
  <2>8. s.numDeleted <= s.last /\ s.numDeleted \in s.notUnsat
    BY <2>2, <2>a
  <2> QED
    BY <2>3, <2>5, <2>6, <2>7, <2>8 DEF StepsInv
<1> QED
  OBVIOUS

\* The checkpoint given up is either the first one, which the step after it
\* is about to succeed, or one that is neither the first nor the one the next
\* plan depends on.
LEMMA GivenUp ==
  ASSUME NEW st, StepsInv(st), NEW pins,
         NEW new \in Window(st), st.status[new] = "unsaturated"
  PROVE  LET gone == SequenceNumberToDelete(st, pins, new)
         IN  \/ gone = {st.numDeleted} /\ new = st.numDeleted + 1
             \/ /\ gone \subseteq st.notUnsat
                /\ st.numDeleted \notin gone
                /\ st.last \notin gone
                /\ st.status[st.last] = "unsaturated" /\ new # st.last
                     => st.last - 1 \notin gone
<1> DEFINE gone == SequenceNumberToDelete(st, pins, new)
<1>1. Min(st.notUnsat) = st.numDeleted
  BY FirstCheckpoint
<1>2. CASE FirstIsObsolete(st, new)
  <2>1. gone = {st.numDeleted}
    BY <1>1, <1>2 DEF SequenceNumberToDelete
  <2>2. new = st.numDeleted + 1
    BY <1>1, <1>2 DEF FirstIsObsolete
  <2> QED
    BY <2>1, <2>2
<1>3. CASE ~FirstIsObsolete(st, new)
  <2>1. gone \subseteq st.notUnsat \ NeededSteps(st, pins, new)
    BY <1>3 DEF SequenceNumberToDelete
  <2>2. st.numDeleted \in NeededSteps(st, pins, new)
    BY <1>1 DEF NeededSteps
  <2>3. ASSUME st.status[st.last] = "unsaturated", new # st.last
        PROVE  st.last - 1 \in NeededSteps(st, pins, new)
    <3>1. /\ st.last \in Nat
          /\ st.last - 1 \in st.notUnsat
          /\ \A k \in st.notUnsat : k \in Nat /\ k <= st.last - 1
      BY <2>3, WindowSteps DEF StepsInv, StepsType, Window, AllSteps
    <3>2. Max(st.notUnsat) \in st.notUnsat /\ st.last - 1 <= Max(st.notUnsat)
      BY <3>1, MaxOfSteps, WindowSteps DEF StepsInv
    <3>3. Max(st.notUnsat) = st.last - 1
      BY <3>1, <3>2
    <3>4. new \in Nat /\ st.last - 1 # new - 1
      BY <2>3, <3>1, WindowSteps DEF StepsInv
    <3> QED
      BY <3>3, <3>4 DEF NeededSteps
  <2>4. st.last \notin gone
    <3>1. CASE st.last \notin st.notUnsat
      BY <2>1, <3>1
    <3>2. CASE st.last \in st.notUnsat
      <4>1. /\ st.last \in Nat /\ new \in Nat /\ new <= st.last
            /\ \A k \in st.notUnsat : k \in Nat /\ k <= st.last
        BY WindowSteps DEF StepsInv, StepsType, Window, AllSteps
      <4>2. Max(st.notUnsat) \in st.notUnsat /\ st.last <= Max(st.notUnsat)
        BY <3>2, MaxOfSteps, WindowSteps DEF StepsInv
      <4>3. Max(st.notUnsat) = st.last /\ st.last # new - 1
        BY <4>1, <4>2
      <4> QED
        BY <2>1, <4>3 DEF NeededSteps
    <3> QED
      BY <3>1, <3>2
  <2> QED
    BY <2>1, <2>2, <2>3, <2>4
<1> QED
  BY <1>2, <1>3

\* Steps::saturate preserves the invariant, whatever times are pinned, and
\* leaves the step saturating.
LEMMA SaturateInv ==
  ASSUME NEW st, StepsInv(st), NEW pins,
         NEW new \in Window(st), st.status[new] = "unsaturated",
         CanSaturate(st, new, pins)
  PROVE  /\ StepsInv(Saturate(st, new, pins))
         /\ Saturate(st, new, pins).status[new] = "saturating"
<1> DEFINE gone == SequenceNumberToDelete(st, pins, new)
           f == [k \in AllSteps |-> IF k = new THEN "saturating"
                                    ELSE IF k \in gone THEN "unsaturated"
                                    ELSE st.status[k]]
           C == (st.notUnsat \ gone) \cup {new}
           p == [k \in AllSteps |-> IF k = new THEN st.eventCount[new]
                                    ELSE IF k \in gone THEN 0
                                    ELSE st.produced[k]]
           s0 == [st EXCEPT !.status = f, !.notUnsat = C, !.produced = p]
           started == {k \in Window(s0) : s0.status[k] # "unsaturated"}
           first == Min(started)
           g == [k \in AllSteps |-> IF k < first THEN "absent" ELSE s0.status[k]]
           s == [s0 EXCEPT !.numDeleted = first, !.status = g]
<1>1. Saturate(st, new, pins) = s
  BY DEF Saturate, EnsureFirstStepIsNotUnsaturated
<1>2. /\ st \in StepsType
      /\ Window(st) \subseteq AllSteps
      /\ AllSteps \subseteq Nat
      /\ new \in AllSteps /\ new - 1 \in Window(st)
      /\ new > st.numDeleted /\ new <= st.last
      /\ st.status[new - 1] = "saturated"
  BY WindowSteps DEF StepsInv, CanSaturate, Window
<1>3. \/ gone = {st.numDeleted} /\ new = st.numDeleted + 1
      \/ /\ gone \subseteq st.notUnsat
         /\ st.numDeleted \notin gone
         /\ st.last \notin gone
         /\ st.status[st.last] = "unsaturated" /\ new # st.last
              => st.last - 1 \notin gone
  BY GivenUp
<1>4. gone \subseteq st.notUnsat /\ new \notin st.notUnsat
  BY <1>3 DEF StepsInv
<1>5. /\ f \in [AllSteps -> Statuses]
      /\ C \in SUBSET AllSteps
      /\ p \in [AllSteps -> Nat]
  BY <1>2, <1>4 DEF StepsType, Statuses
<1> HIDE DEF gone, f, C, p
<1>6. /\ s0 \in StepsType
      /\ s0.status = f /\ s0.notUnsat = C
      /\ s0.numDeleted = st.numDeleted /\ s0.last = st.last
      /\ Window(s0) = Window(st)
  BY <1>2, <1>5 DEF StepsType, Window
<1> HIDE DEF s0
<1>7. /\ f[new] = "saturating"
      /\ \A k \in AllSteps \ {new} :
           f[k] = IF k \in gone THEN "unsaturated" ELSE st.status[k]
  BY <1>2 DEF f
<1>8. /\ first = IF st.numDeleted \in gone THEN new ELSE st.numDeleted
      /\ first \in started
  <2>1. started \in SUBSET Nat /\ new \in started
    BY <1>2, <1>6, <1>7
  <2>2. first \in started /\ \A k \in started : first <= k
    BY <2>1, MinOfNaturals
  <2>3. \A k \in started : st.numDeleted <= k
    BY <1>6 DEF Window
  <2>4. st.numDeleted \in AllSteps /\ st.numDeleted # new
        /\ st.numDeleted \in Window(st)
    BY <1>2 DEF StepsInv, StepsType
  <2>5. CASE st.numDeleted \in gone
    <3>1. new = st.numDeleted + 1 /\ st.numDeleted \notin started
      BY <1>3, <1>6, <1>7, <2>4, <2>5
    <3>2. ASSUME NEW k \in started
          PROVE  new <= k
      <4>1. k \in Nat /\ st.numDeleted \in Nat /\ st.numDeleted <= k
            /\ k # st.numDeleted
        BY <1>2, <2>1, <2>3, <2>4, <3>1
      <4> QED
        BY <3>1, <4>1
    <3>3. first \in Nat /\ new \in Nat /\ first <= new /\ new <= first
      BY <2>1, <2>2, <3>2
    <3> QED
      BY <2>2, <2>5, <3>3
  <2>6. CASE st.numDeleted \notin gone
    <3>1. st.numDeleted \in started
      BY <1>6, <1>7, <2>4, <2>6 DEF StepsInv
    <3>2. first \in Nat /\ st.numDeleted \in Nat
          /\ first <= st.numDeleted /\ st.numDeleted <= first
      BY <1>2, <2>1, <2>2, <2>3, <2>4, <3>1
    <3> QED
      BY <2>2, <2>6, <3>2
  <2> QED
    BY <2>5, <2>6
<1>9. /\ first \in AllSteps /\ first \in Nat /\ first \in Window(st)
      /\ first <= st.last /\ st.numDeleted <= first /\ first <= new
      /\ f[first] # "unsaturated"
  BY <1>2, <1>6, <1>8 DEF Window, StepsInv
<1>10. g \in [AllSteps -> Statuses]
  BY <1>5, <1>6 DEF Statuses
<1> HIDE DEF g, first, started
<1>11. /\ s \in StepsType
       /\ s.numDeleted = first /\ s.last = st.last
       /\ s.notUnsat = C /\ s.status = g
  BY <1>6, <1>9, <1>10 DEF StepsType
<1> HIDE DEF s
<1>12. Window(s) = {k \in Window(st) : k >= first}
  <2>1. first \in Nat /\ st.last \in Nat /\ st.numDeleted \in Nat
        /\ st.numDeleted <= first
    BY <1>2, <1>9 DEF StepsType
  <2> QED
    BY <1>11, <2>1 DEF Window
<1>13. /\ \A k \in AllSteps : k < first => g[k] = "absent"
       /\ \A k \in AllSteps : k >= first => g[k] = f[k]
  BY <1>2, <1>6, <1>9 DEF g
<1>14. \A k \in AllSteps : s.status[k] = "absent" <=> k \notin Window(s)
  <2> TAKE k \in AllSteps
  <2>1. CASE k < first
    BY <2>1, <1>2, <1>9, <1>11, <1>12, <1>13
  <2>2. CASE k >= first
    <3>1. f[k] = "absent" <=> k \notin Window(st)
      BY <1>2, <1>4, <1>7 DEF StepsInv
    <3> QED
      BY <2>2, <3>1, <1>11, <1>12, <1>13
  <2> QED
    BY <2>1, <2>2, <1>2, <1>9
<1>15. s.notUnsat = {k \in Window(s) : s.status[k] \in {"saturating", "saturated"}}
  <2>1. \A k \in C : k \in AllSteps /\ k >= first
    <3>1. \A k \in st.notUnsat : k \in AllSteps /\ k >= st.numDeleted
      BY <1>2 DEF StepsInv, Window
    <3>2. ASSUME NEW k \in st.notUnsat \ gone
          PROVE  k >= first
      <4>1. CASE st.numDeleted \in gone
        <5>1. k # st.numDeleted /\ k >= st.numDeleted /\ k \in Nat
              /\ st.numDeleted \in Nat
          BY <1>2, <3>1, <4>1 DEF StepsType
        <5>2. first = st.numDeleted + 1
          BY <1>3, <1>8, <4>1
        <5> QED
          BY <5>1, <5>2
      <4>2. CASE st.numDeleted \notin gone
        BY <1>8, <3>1, <4>2
      <4> QED
        BY <4>1, <4>2
    <3> QED
      BY <1>2, <1>9, <3>1, <3>2 DEF C
  <2>2. \A k \in Window(st) : k \in C <=> f[k] \in {"saturating", "saturated"}
    BY <1>2, <1>4, <1>7 DEF C, StepsInv
  <2>3. C \subseteq Window(st)
    BY <1>2 DEF C, StepsInv
  <2> QED
    BY <2>1, <2>2, <2>3, <1>2, <1>11, <1>12, <1>13
<1>16. s.numDeleted \in s.notUnsat
  BY <1>8, <1>11 DEF C, StepsInv
<1>17. s.status[s.last] = "unsaturated" =>
         s.last > s.numDeleted /\ s.status[s.last - 1] = "saturated"
  <2> HAVE s.status[s.last] = "unsaturated"
  <2>1. st.last \in AllSteps /\ st.last >= first /\ f[st.last] = "unsaturated"
    BY <1>2, <1>9, <1>11, <1>13 DEF StepsType
  <2>2. first # st.last /\ new # st.last
    BY <1>7, <1>9, <2>1
  <2>3. st.last \notin gone
    <3>1. new \in Nat /\ st.last \in Nat /\ st.numDeleted \in Nat
      BY <1>2, <2>1 DEF StepsType
    <3>2. CASE gone = {st.numDeleted} /\ new = st.numDeleted + 1
      BY <1>2, <3>1, <3>2
    <3> QED
      BY <1>3, <3>2
  <2>4. st.status[st.last] = "unsaturated" /\ st.status[st.last - 1] = "saturated"
    BY <1>7, <2>1, <2>2, <2>3 DEF StepsInv
  <2>5. /\ st.last - 1 \in AllSteps /\ st.last - 1 \in Nat
        /\ st.last - 1 >= first /\ st.last > first
    <3>1. /\ first \in Nat /\ st.last \in Nat /\ st.last <= LastStep
          /\ first <= st.last /\ first # st.last
      BY LastStepAssumption, <1>2, <1>9, <2>1, <2>2 DEF AllSteps
    <3> QED
      BY LastStepAssumption, <3>1 DEF AllSteps
  <2>6. st.last - 1 # new
    BY <2>4
  <2>7. st.last - 1 \notin gone
    <3>1. CASE gone = {st.numDeleted} /\ new = st.numDeleted + 1
      <4>1. st.last \in Nat /\ st.numDeleted \in Nat
        BY <1>2, <2>1 DEF StepsType
      <4> QED
        BY <2>2, <3>1, <4>1
    <3> QED
      BY <1>3, <2>2, <2>4, <3>1
  <2>8. f[st.last - 1] = "saturated"
    BY <1>7, <2>4, <2>5, <2>6, <2>7
  <2> QED
    BY <1>11, <1>13, <2>5, <2>8
<1>18. s.status[new] = "saturating"
  BY <1>2, <1>7, <1>9, <1>11, <1>13
<1> QED
  BY <1>1, <1>9, <1>11, <1>14, <1>15, <1>16, <1>17, <1>18 DEF StepsInv

\* delete_before preserves it, for a time not before the first step.
LEMMA DeleteBeforeInv ==
  ASSUME NEW st, StepsInv(st), NEW t \in Nat, ~BeforeFirst(st, t)
  PROVE  StepsInv(DeleteBefore(st, t))
<1> DEFINE first == NotUnsatAt(st, t)
           g == [k \in AllSteps |-> IF k < first THEN "absent" ELSE st.status[k]]
           C == {k \in st.notUnsat : k >= first}
           s == [st EXCEPT !.deletedBefore = t, !.numDeleted = first,
                           !.notUnsat = C, !.status = g]
<1>1. CASE t <= st.deletedBefore
  BY <1>1 DEF DeleteBefore
<1>2. CASE ~(t <= st.deletedBefore)
  <2>1. DeleteBefore(st, t) = s
    BY <1>2 DEF DeleteBefore
  <2>2. /\ st \in StepsType
        /\ Window(st) \subseteq AllSteps
        /\ AllSteps \subseteq Nat
        /\ st.last \in AllSteps /\ st.numDeleted \in AllSteps
    BY WindowSteps DEF StepsInv, StepsType
  <2>3. first \in st.notUnsat
    BY NotUnsatAtIsCheckpoint
  <2>4. /\ first \in Window(st) /\ first \in AllSteps /\ first \in Nat
        /\ st.numDeleted <= first /\ first <= st.last
        /\ st.status[first] # "unsaturated"
    BY <2>2, <2>3 DEF StepsInv, Window
  <2> HIDE DEF first
  <2>5. /\ g \in [AllSteps -> Statuses]
        /\ C \in SUBSET AllSteps
    BY <2>2 DEF StepsType, Statuses
  <2>6. /\ \A k \in AllSteps : k < first => g[k] = "absent"
        /\ \A k \in AllSteps : k >= first => g[k] = st.status[k]
    BY <2>2, <2>4
  <2> HIDE DEF g
  <2>7. /\ s \in StepsType
        /\ s.numDeleted = first /\ s.last = st.last
        /\ s.notUnsat = C /\ s.status = g
    BY <2>2, <2>4, <2>5 DEF StepsType
  <2> HIDE DEF s
  <2>8. Window(s) = {k \in Window(st) : k >= first}
    <3>1. st.last \in Nat /\ st.numDeleted \in Nat
      BY <2>2
    <3> QED
      BY <2>4, <2>7, <3>1 DEF Window
  <2>9. \A k \in AllSteps : s.status[k] = "absent" <=> k \notin Window(s)
    <3> TAKE k \in AllSteps
    <3>1. CASE k < first
      BY <3>1, <2>2, <2>4, <2>6, <2>7, <2>8
    <3>2. CASE k >= first
      BY <3>2, <2>6, <2>7, <2>8 DEF StepsInv
    <3> QED
      BY <3>1, <3>2, <2>2, <2>4
  <2>10. s.notUnsat = {k \in Window(s) : s.status[k] \in {"saturating", "saturated"}}
    BY <2>2, <2>6, <2>7, <2>8 DEF StepsInv
  <2>11. s.numDeleted \in s.notUnsat
    BY <2>3, <2>4, <2>7
  <2>12. s.status[s.last] = "unsaturated" =>
           s.last > s.numDeleted /\ s.status[s.last - 1] = "saturated"
    <3> HAVE s.status[s.last] = "unsaturated"
    <3>1. st.status[st.last] = "unsaturated" /\ first # st.last
      BY <2>2, <2>4, <2>6, <2>7
    <3>2. st.last \in Nat /\ st.last <= LastStep
      BY LastStepAssumption, <2>2 DEF AllSteps
    <3>3. /\ st.last - 1 \in AllSteps /\ st.last - 1 >= first
          /\ st.last > first
      BY LastStepAssumption, <2>4, <3>1, <3>2 DEF AllSteps
    <3> QED
      BY <2>6, <2>7, <3>1, <3>3 DEF StepsInv
  <2> QED
    BY <2>1, <2>4, <2>7, <2>9, <2>10, <2>11, <2>12 DEF StepsInv
<1> QED
  BY <1>1, <1>2

\* A poll of the future of a step that emits changes only the counts.
LEMMA StepEmittedInv ==
  ASSUME NEW st, StepsInv(st), NEW k \in AllSteps
  PROVE  StepsInv(StepEmitted(st, k))
<1> DEFINE e == [st.eventCount EXCEPT ![k] = @ + 1]
           p == [st.produced EXCEPT ![k] = @ + 1]
           s == [st EXCEPT !.eventCount = e, !.produced = p]
<1>1. StepEmitted(st, k) = s
  BY DEF StepEmitted
<1>2. st \in StepsType
  BY DEF StepsInv
<1>3. e \in [AllSteps -> Nat] /\ p \in [AllSteps -> Nat]
  BY <1>2 DEF StepsType
<1> HIDE DEF e, p
<1>4. /\ s \in StepsType
      /\ s.numDeleted = st.numDeleted /\ s.last = st.last
      /\ s.notUnsat = st.notUnsat /\ s.status = st.status
  BY <1>2, <1>3 DEF StepsType
<1> HIDE DEF s
<1>5. Window(s) = Window(st)
  BY <1>4 DEF Window
<1> QED
  BY <1>1, <1>4, <1>5 DEF StepsInv

\* A poll that finishes the future of a saturating step saturates it.
LEMMA StepReadyInv ==
  ASSUME NEW st, StepsInv(st), NEW k \in AllSteps, st.status[k] = "saturating"
  PROVE  StepsInv(StepReady(st, k))
<1> DEFINE f == [st.status EXCEPT ![k] = "saturated"]
           p == [st.produced EXCEPT ![k] = 0]
           c == [st.canProduce EXCEPT ![k] = FALSE]
           s == [st EXCEPT !.status = f, !.produced = p, !.canProduce = c]
<1>1. StepReady(st, k) = s
  BY DEF StepReady
<1>2. st \in StepsType
  BY DEF StepsInv
<1>3. /\ f \in [AllSteps -> Statuses]
      /\ p \in [AllSteps -> Nat]
      /\ c \in [AllSteps -> BOOLEAN]
  BY <1>2 DEF StepsType, Statuses
<1>4. f[k] = "saturated" /\ \A j \in AllSteps \ {k} : f[j] = st.status[j]
  BY <1>2 DEF StepsType
<1> HIDE DEF f, p, c
<1>5. /\ s \in StepsType
      /\ s.numDeleted = st.numDeleted /\ s.last = st.last
      /\ s.notUnsat = st.notUnsat /\ s.status = f
  BY <1>2, <1>3 DEF StepsType
<1> HIDE DEF s
<1>6. Window(s) = Window(st) /\ Window(st) \subseteq AllSteps
  BY <1>2, <1>5, WindowSteps DEF Window
<1>7. \A j \in AllSteps : s.status[j] = "absent" <=> j \notin Window(s)
  BY <1>4, <1>5, <1>6 DEF StepsInv
<1>8. s.notUnsat = {j \in Window(s) : s.status[j] \in {"saturating", "saturated"}}
  BY <1>4, <1>5, <1>6 DEF StepsInv
<1>9. s.status[s.last] = "unsaturated" =>
        s.last > s.numDeleted /\ s.status[s.last - 1] = "saturated"
  <2> HAVE s.status[s.last] = "unsaturated"
  <2>1. st.last \in AllSteps /\ st.last # k /\ st.status[st.last] = "unsaturated"
    BY <1>2, <1>4, <1>5 DEF StepsType
  <2>2. st.numDeleted \in AllSteps /\ st.last > st.numDeleted
        /\ st.status[st.last - 1] = "saturated"
    BY <1>2, <2>1 DEF StepsInv, StepsType
  <2>3. st.last - 1 \in AllSteps
    BY LastStepAssumption, <2>1, <2>2 DEF AllSteps
  <2> QED
    BY <1>4, <1>5, <2>2, <2>3
<1> QED
  BY <1>1, <1>5, <1>7, <1>8, <1>9 DEF StepsInv
-----------------------------------------------------------------------------
(* What the methods change beside *)

\* After try_next_scheduled the last step is done only if it is the last one ever scheduled.
LEMMA TryNextScheduledPlans ==
  ASSUME NEW st, StepsInv(st)
  PROVE  LET s == TryNextScheduled(st)
         IN  /\ s.status[s.last] = "saturated" => s.last = LastStep
             /\ s.last >= st.last
             /\ s.eventCount = st.eventCount /\ s.canProduce = st.canProduce
             /\ s.numDeleted = st.numDeleted /\ s.notUnsat = st.notUnsat
             /\ s.deletedBefore = st.deletedBefore
<1>1. /\ st.last \in Nat /\ st.last <= LastStep /\ LastStep \in Nat
      /\ st \in StepsType /\ st.status \in [AllSteps -> Statuses]
  BY LastStepAssumption, StepsTyped DEF AllSteps
<1>2. CASE st.status[st.last] = "saturated" /\ st.last < LastStep
  BY <1>1, <1>2 DEF TryNextScheduled, StepsType, AllSteps
<1>3. CASE ~(st.status[st.last] = "saturated" /\ st.last < LastStep)
  BY <1>1, <1>3 DEF TryNextScheduled
<1> QED
  BY <1>2, <1>3

\* What saturate leaves alone, and what it does to the steps.
LEMMA SaturateEffect ==
  ASSUME NEW st, StepsInv(st), NEW pins,
         NEW new \in Window(st), st.status[new] = "unsaturated",
         CanSaturate(st, new, pins)
  PROVE  LET s    == Saturate(st, new, pins)
             gone == SequenceNumberToDelete(st, pins, new)
         IN  /\ s.last = st.last /\ s.deletedBefore = st.deletedBefore
             /\ s.eventCount = st.eventCount /\ s.canProduce = st.canProduce
             /\ s.notUnsat = (st.notUnsat \ gone) \cup {new}
             /\ \A k \in AllSteps :
                  /\ s.status[k] = "saturating" /\ k # new =>
                       st.status[k] = "saturating" /\ s.produced[k] = st.produced[k]
                  /\ s.status[k] = "saturated" => st.status[k] = "saturated"
             /\ s.produced[new] = st.eventCount[new]
             /\ st.status[st.last] = "saturated" => s.status[st.last] = "saturated"
<1> DEFINE gone == SequenceNumberToDelete(st, pins, new)
           f == [k \in AllSteps |-> IF k = new THEN "saturating"
                                    ELSE IF k \in gone THEN "unsaturated"
                                    ELSE st.status[k]]
           C == (st.notUnsat \ gone) \cup {new}
           p == [k \in AllSteps |-> IF k = new THEN st.eventCount[new]
                                    ELSE IF k \in gone THEN 0
                                    ELSE st.produced[k]]
           s0 == [st EXCEPT !.status = f, !.notUnsat = C, !.produced = p]
           first == Min({k \in Window(s0) : s0.status[k] # "unsaturated"})
           g == [k \in AllSteps |-> IF k < first THEN "absent" ELSE s0.status[k]]
           s == [s0 EXCEPT !.numDeleted = first, !.status = g]
<1>1. Saturate(st, new, pins) = s
  BY DEF Saturate, EnsureFirstStepIsNotUnsaturated
<1>2. /\ st \in StepsType /\ new \in AllSteps /\ st.last \in AllSteps
      /\ st.last \in Window(st)
  <2>1. st \in StepsType /\ new \in AllSteps /\ st.last \in AllSteps
    BY WindowSteps, StepsTyped
  <2> QED
    BY <2>1, WindowSteps DEF StepsInv, Window, StepsType, AllSteps
<1>3. /\ s.last = st.last /\ s.deletedBefore = st.deletedBefore
      /\ s.eventCount = st.eventCount /\ s.canProduce = st.canProduce
      /\ s.notUnsat = C /\ s.produced = p /\ s.status = g
      /\ s0.status = f
  BY <1>2 DEF StepsType
<1> HIDE DEF s, s0, first
<1>4. \A k \in AllSteps :
        s.status[k] = "absent" \/ s.status[k] = f[k]
  BY <1>3 DEF g
<1>5. /\ s.produced[new] = st.eventCount[new]
      /\ \A k \in AllSteps \ (gone \cup {new}) : s.produced[k] = st.produced[k]
  BY <1>2, <1>3 DEF p
<1>6. ASSUME NEW k \in AllSteps
      PROVE  /\ s.status[k] = "saturating" /\ k # new =>
                  st.status[k] = "saturating" /\ s.produced[k] = st.produced[k]
             /\ s.status[k] = "saturated" => st.status[k] = "saturated"
  BY <1>4, <1>5 DEF f
<1>7. ASSUME st.status[st.last] = "saturated"
      PROVE  s.status[st.last] = "saturated"
  <2>1. s.status[st.last] # "absent"
    <3>1. StepsInv(s)
      BY <1>1, SaturateInv
    <3>2. st.last \in Window(s)
      BY <3>1, <1>3, WindowSteps DEF StepsInv, Window, StepsType, AllSteps
    <3> QED
      BY <3>1, <3>2, <1>2 DEF StepsInv
  <2>2. st.last \notin gone /\ st.last # new
    <3>1. st.last # new
      BY <1>7
    <3>2. \/ gone = {st.numDeleted} /\ new = st.numDeleted + 1
          \/ st.last \notin gone
      BY GivenUp
    <3>3. st.numDeleted + 1 = new => st.numDeleted # st.last
      BY <1>2, WindowSteps DEF Window, StepsType, AllSteps
    <3> QED
      BY <3>1, <3>2, <3>3
  <2> QED
    BY <1>2, <1>4, <1>7, <2>1, <2>2 DEF f
<1> QED
  BY <1>1, <1>3, <1>5, <1>6, <1>7 DEF C

-----------------------------------------------------------------------------
(* The number of checkpoints *)

\* Trailing zeros are counted by a natural number.
LEMMA TrailingZerosType ==
  ASSUME NEW i \in Nat
  PROVE  TrailingZeros(i) \in Nat
<1> DEFINE LowestBit(z) == i % (2^(z+1)) = 2^z
<1>1. CASE i # 0 /\ \E z \in 0..63 : LowestBit(z)
  <2> DEFINE c == CHOOSE z \in 0..63 : LowestBit(z)
  <2>1. c \in 0..63
    BY <1>1
  <2>2. TrailingZeros(i) = c
    BY <1>1 DEF TrailingZeros
  <2> HIDE DEF c, LowestBit
  <2> QED
    BY <2>1, <2>2
<1>2. CASE ~(i # 0 /\ \E z \in 0..63 : LowestBit(z))
  BY <1>2 DEF TrailingZeros
<1> QED
  BY <1>1, <1>2

\* A non-empty set of candidates has one that goes first.
LEMMA OneGoesFirst ==
  ASSUME NEW S \in SUBSET Nat, S # {}
  PROVE  \E i \in S : \A j \in S : GivenUpBefore(i, j)
<1> DEFINE Z == {TrailingZeros(i) : i \in S}
<1>1. \A i \in S : TrailingZeros(i) \in Nat
  BY TrailingZerosType
<1>2. PICK z \in Z : \A y \in Z : z <= y
  <2>1. Z \in SUBSET Nat /\ Z # {}
    BY <1>1
  <2> HIDE DEF Z
  <2>2. \E z \in Z : \A y \in Z : z <= y
    BY <2>1, LeastNatural
  <2> QED
    BY <2>2
<1> DEFINE T == {i \in S : TrailingZeros(i) = z}
<1>3. PICK i \in T : \A j \in T : i <= j
  <2>1. T \in SUBSET Nat /\ T # {}
    BY <1>2
  <2> HIDE DEF T
  <2>2. \E i \in T : \A j \in T : i <= j
    BY <2>1, LeastNatural
  <2> QED
    BY <2>2
<1>4. ASSUME NEW j \in S
      PROVE  GivenUpBefore(i, j)
  <2>1. /\ TrailingZeros(i) = z /\ z <= TrailingZeros(j)
        /\ z \in Nat /\ TrailingZeros(j) \in Nat
    BY <1>1, <1>2
  <2>2. z < TrailingZeros(j) \/ z = TrailingZeros(j)
    BY <2>1
  <2>3. z = TrailingZeros(j) => i <= j
    BY <1>3
  <2> QED
    BY <2>1, <2>2, <2>3 DEF GivenUpBefore
<1> QED
  BY <1>4

\* Nothing is given up only within the budget, or when everything is needed.
LEMMA NothingGivenUp ==
  ASSUME NEW st, StepsInv(st), NEW pins, NEW new,
         SequenceNumberToDelete(st, pins, new) = {}
  PROVE  ~OverBudget(st) \/ st.notUnsat \subseteq NeededSteps(st, pins, new)
<1> DEFINE candidates == st.notUnsat \ NeededSteps(st, pins, new)
<1> SUFFICES ASSUME OverBudget(st), candidates # {}
             PROVE  FALSE
  OBVIOUS
<1>1. SequenceNumberToDelete(st, pins, new)
        = {i \in candidates : \A j \in candidates : GivenUpBefore(i, j)}
  BY DEF SequenceNumberToDelete
<1>2. candidates \in SUBSET Nat
  BY WindowSteps DEF StepsInv
<1> HIDE DEF candidates
<1> QED
  BY <1>1, <1>2, OneGoesFirst

\* The steps that are needed: the first, the last unless the new step is its
\* successor, and those of the pinned times.
LEMMA NeededCount ==
  ASSUME NEW st, NEW pins, NEW new, NEW n \in Nat,
         IsFiniteSet({NotUnsatAt(st, t) : t \in pins}),
         Cardinality({NotUnsatAt(st, t) : t \in pins}) <= n
  PROVE  LET needed == NeededSteps(st, pins, new)
         IN  /\ IsFiniteSet(needed) /\ Cardinality(needed) \in Nat
             /\ Cardinality(needed) <= n + 2
             /\ Max(st.notUnsat) = new - 1 => Cardinality(needed) <= n + 1
<1> DEFINE needed == NeededSteps(st, pins, new)
           P == {NotUnsatAt(st, t) : t \in pins}
           A == P \cup {Min(st.notUnsat)}
           B == A \cup {Max(st.notUnsat)}
<1>1. /\ IsFiniteSet(P) /\ IsFiniteSet(A) /\ IsFiniteSet(B)
      /\ Cardinality(P) \in Nat /\ Cardinality(P) <= n
      /\ Cardinality(A) <= Cardinality(P) + 1
      /\ Cardinality(B) <= Cardinality(A) + 1
      /\ Cardinality(A) \in Nat /\ Cardinality(B) \in Nat
  <2> HIDE DEF P
  <2>1. IsFiniteSet(P) /\ Cardinality(P) <= n
    BY DEF P
  <2>2. /\ IsFiniteSet(A)
        /\ Cardinality(A) = IF Min(st.notUnsat) \in P THEN Cardinality(P)
                                                      ELSE Cardinality(P) + 1
    BY <2>1, FS_AddElement
  <2> HIDE DEF A
  <2>3. /\ IsFiniteSet(B)
        /\ Cardinality(B) = IF Max(st.notUnsat) \in A THEN Cardinality(A)
                                                      ELSE Cardinality(A) + 1
    BY <2>2, FS_AddElement
  <2> HIDE DEF B
  <2>4. Cardinality(P) \in Nat /\ Cardinality(A) \in Nat /\ Cardinality(B) \in Nat
    BY <2>1, <2>2, <2>3, FS_CardinalityType
  <2> QED
    BY <2>1, <2>2, <2>3, <2>4
<1>2. needed \in SUBSET B
  BY DEF NeededSteps
<1>3. Max(st.notUnsat) = new - 1 => needed \in SUBSET A
  BY DEF NeededSteps
<1> HIDE DEF needed, P, A, B
<1>4. IsFiniteSet(needed) /\ Cardinality(needed) \in Nat
      /\ Cardinality(needed) <= Cardinality(B)
  BY <1>1, <1>2, FS_Subset, FS_CardinalityType
<1>5. Max(st.notUnsat) = new - 1 => Cardinality(needed) <= Cardinality(A)
  BY <1>1, <1>3, FS_Subset
<1> QED
  BY <1>1, <1>4, <1>5 DEF needed

\* saturate keeps within a limit that has room for the budget, the new step
\* and the needed ones.
LEMMA SaturateCount ==
  ASSUME NEW st, StepsInv(st), NEW pins,
         NEW new \in Window(st), st.status[new] = "unsaturated",
         CanSaturate(st, new, pins),
         NEW n \in Nat,
         IsFiniteSet({NotUnsatAt(st, t) : t \in pins}),
         Cardinality({NotUnsatAt(st, t) : t \in pins}) <= n,
         NEW limit \in Nat, NumCheckpoints <= limit,
         n + 3 <= limit \/ (new = st.last /\ n + 2 <= limit),
         Cardinality(st.notUnsat) <= limit
  PROVE  Cardinality(Saturate(st, new, pins).notUnsat) <= limit
<1> DEFINE gone == SequenceNumberToDelete(st, pins, new)
           needed == NeededSteps(st, pins, new)
           kept == st.notUnsat \ gone
<1>1. Saturate(st, new, pins).notUnsat = kept \cup {new}
  BY SaturateEffect
<1>2. /\ st.notUnsat \in SUBSET AllSteps /\ new \in AllSteps /\ AllSteps \subseteq Nat
      /\ IsFiniteSet(AllSteps)
  <2>1. st \in StepsType /\ new \in AllSteps /\ AllSteps \subseteq Nat
    BY StepsTyped, WindowSteps
  <2>2. IsFiniteSet(AllSteps)
    <3>1. 0 \in Int /\ LastStep \in Int
      BY LastStepAssumption
    <3> QED
      BY <3>1, FS_Interval DEF AllSteps
  <2> QED
    BY <2>1, <2>2 DEF StepsType
<1>3. /\ IsFiniteSet(st.notUnsat) /\ Cardinality(st.notUnsat) \in Nat
      /\ IsFiniteSet(kept) /\ Cardinality(kept) \in Nat
      /\ IsFiniteSet(kept \cup {new})
      /\ Cardinality(kept \cup {new}) <= Cardinality(kept) + 1
      /\ Cardinality(kept \cup {new}) \in Nat
  <2>1. IsFiniteSet(st.notUnsat)
    BY <1>2, FS_Subset
  <2>2. IsFiniteSet(kept)
    BY <2>1, FS_Subset
  <2> HIDE DEF kept
  <2>3. /\ IsFiniteSet(kept \cup {new})
        /\ Cardinality(kept \cup {new}) = IF new \in kept THEN Cardinality(kept)
                                                           ELSE Cardinality(kept) + 1
    BY <2>2, FS_AddElement
  <2>4. /\ Cardinality(st.notUnsat) \in Nat /\ Cardinality(kept) \in Nat
        /\ Cardinality(kept \cup {new}) \in Nat
    BY <2>1, <2>2, <2>3, FS_CardinalityType
  <2> QED
    BY <2>1, <2>2, <2>3, <2>4
<1>4. CASE gone # {}
  <2>1. PICK g \in gone : g \in st.notUnsat
    BY <1>4, GivenUp DEF StepsInv
  <2>2. kept \in SUBSET (st.notUnsat \ {g})
    BY <2>1
  <2>3. /\ IsFiniteSet(st.notUnsat \ {g})
        /\ Cardinality(st.notUnsat \ {g}) = Cardinality(st.notUnsat) - 1
    BY <1>3, <2>1, FS_RemoveElement
  <2>4. Cardinality(kept) <= Cardinality(st.notUnsat) - 1
    BY <2>2, <2>3, FS_Subset
  <2> HIDE DEF kept
  <2> QED
    BY <1>1, <1>3, <2>4
<1>5. CASE gone = {}
  <2>1. kept = st.notUnsat
    BY <1>5
  <2>2. CASE ~OverBudget(st)
    <3>1. ~(NumCheckpoints <= Cardinality(st.notUnsat))
      BY <2>2 DEF OverBudget
    <3> HIDE DEF kept
    <3> QED
      BY <1>1, <1>3, <2>1, <3>1, NumCheckpointsAssumption
  <2>3. CASE st.notUnsat \subseteq needed
    <3>1. /\ IsFiniteSet(needed) /\ Cardinality(needed) \in Nat
          /\ Cardinality(needed) <= n + 2
          /\ Max(st.notUnsat) = new - 1 => Cardinality(needed) <= n + 1
      BY NeededCount
    <3>2. Cardinality(st.notUnsat) <= Cardinality(needed)
      BY <2>3, <3>1, FS_Subset
    <3>3. new = st.last => Max(st.notUnsat) = new - 1
      <4> SUFFICES ASSUME new = st.last
                   PROVE  Max(st.notUnsat) = new - 1
        OBVIOUS
      <4>1. /\ new - 1 \in st.notUnsat /\ new \notin st.notUnsat
            /\ \A k \in st.notUnsat : k \in Nat /\ k <= new
            /\ new \in Nat
        BY <1>2 DEF CanSaturate, StepsInv, Window
      <4>2. Max(st.notUnsat) \in st.notUnsat /\ new - 1 <= Max(st.notUnsat)
        BY <1>2, <4>1, MaxOfSteps
      <4>3. /\ Max(st.notUnsat) \in Nat /\ Max(st.notUnsat) <= new
            /\ Max(st.notUnsat) # new
        BY <4>1, <4>2
      <4> QED
        BY <4>1, <4>2, <4>3
    <3> HIDE DEF kept, needed
    <3> QED
      BY <1>1, <1>3, <2>1, <3>1, <3>2, <3>3
  <2> QED
    BY <1>5, <2>2, <2>3, NothingGivenUp
<1> QED
  BY <1>4, <1>5

-----------------------------------------------------------------------------
(* The progress of a pinned time *)

\* The checkpoint of a time is at or before it.
LEMMA NotUnsatAtIsInTime ==
  ASSUME NEW st, StepsInv(st), NEW t \in Nat, ~BeforeFirst(st, t)
  PROVE  /\ NotUnsatAt(st, t) \in st.notUnsat
         /\ StepTime[NotUnsatAt(st, t)] <= t
<1> DEFINE S == {k \in Window(st) : StepTime[k] <= t}
           N == {k \in st.notUnsat : k <= LatestAt(st, t)}
<1>1. st.numDeleted \in S
  BY StepTimeAssumption DEF StepsInv, StepsType, Window, BeforeFirst, AllSteps
<1>2. S \in SUBSET AllSteps /\ N \in SUBSET AllSteps
  BY WindowSteps DEF StepsInv
<1>3. LatestAt(st, t) \in S
  BY <1>1, <1>2, MaxOfSteps DEF LatestAt
<1>4. st.numDeleted \in N
  BY <1>3, WindowSteps DEF StepsInv, Window
<1>5. NotUnsatAt(st, t) \in N
  BY <1>2, <1>4, MaxOfSteps DEF NotUnsatAt
<1> DEFINE n == NotUnsatAt(st, t)
           m == LatestAt(st, t)
<1>6. n \in AllSteps /\ m \in AllSteps /\ n <= m /\ StepTime[m] <= t
  BY <1>2, <1>3, <1>5
<1>7. n \in Nat /\ m \in Nat /\ StepTime[n] \in Nat /\ StepTime[m] \in Nat
  BY <1>6, StepTimeAssumption DEF AllSteps
<1> HIDE DEF n, m
<1>8. StepTime[n] <= StepTime[m]
  <2>1. CASE n = m
    BY <1>7, <2>1
  <2>2. CASE n < m
    BY <1>6, <1>7, <2>2, StepTimeAssumption
  <2> QED
    BY <1>6, <1>7, <2>1, <2>2
<1>9. StepTime[n] <= t
  BY <1>6, <1>7, <1>8
<1> QED
  BY <1>5, <1>9 DEF n

\* A checkpoint in time, or a step gone by, is not beyond the checkpoint of the time.
LEMMA NotUnsatAtIsLatest ==
  ASSUME NEW st, StepsInv(st), NEW t \in Nat, ~BeforeFirst(st, t),
         NEW k \in AllSteps, StepTime[k] <= t,
         k \in st.notUnsat \/ k <= st.numDeleted
  PROVE  k <= NotUnsatAt(st, t)
<1> DEFINE S == {j \in Window(st) : StepTime[j] <= t}
           N == {j \in st.notUnsat : j <= LatestAt(st, t)}
<1>1. st.numDeleted \in S /\ st.numDeleted \in st.notUnsat
  BY StepTimeAssumption DEF StepsInv, StepsType, Window, BeforeFirst, AllSteps
<1>2. S \in SUBSET AllSteps /\ N \in SUBSET AllSteps /\ st.numDeleted \in AllSteps
  BY <1>1, WindowSteps DEF StepsInv
<1>3. \A j \in S : j <= LatestAt(st, t)
  BY <1>1, <1>2, MaxOfSteps DEF LatestAt
<1>4. ASSUME NEW j \in st.notUnsat, StepTime[j] <= t
      PROVE  j <= NotUnsatAt(st, t)
  <2>1. j \in S
    BY <1>4 DEF StepsInv
  <2>2. j \in N
    BY <1>3, <2>1
  <2> QED
    BY <1>2, <2>2, MaxOfSteps DEF NotUnsatAt
<1>5. CASE k \in st.notUnsat
  BY <1>4, <1>5
<1>6. CASE k <= st.numDeleted
  <2>1. st.numDeleted <= NotUnsatAt(st, t)
    BY <1>1, <1>4
  <2>2. NotUnsatAt(st, t) \in AllSteps
    BY NotUnsatAtIsInTime, StepsTyped DEF StepsType
  <2> QED
    BY <1>2, <1>6, <2>1, <2>2, LastStepAssumption DEF AllSteps
<1> QED
  BY <1>5, <1>6

\* saturate gives up no needed checkpoint that the first retained step has not passed.
LEMMA SaturateKeepsNeeded ==
  ASSUME NEW st, StepsInv(st), NEW pins,
         NEW new \in Window(st), st.status[new] = "unsaturated",
         CanSaturate(st, new, pins),
         NEW k \in st.notUnsat, k \in NeededSteps(st, pins, new)
  PROVE  \/ k \in Saturate(st, new, pins).notUnsat
         \/ k <= Saturate(st, new, pins).numDeleted
<1> DEFINE s    == Saturate(st, new, pins)
           gone == SequenceNumberToDelete(st, pins, new)
<1>1. StepsInv(s) /\ s.notUnsat = (st.notUnsat \ gone) \cup {new}
  BY SaturateInv, SaturateEffect
<1> SUFFICES ASSUME k \in gone
             PROVE  k <= s.numDeleted
  BY <1>1
<1>2. gone = {st.numDeleted}
  <2>1. FirstIsObsolete(st, new)
    BY DEF SequenceNumberToDelete
  <2> QED
    BY <2>1, FirstCheckpoint DEF SequenceNumberToDelete
<1> HIDE DEF s, gone
<1>3. s.numDeleted \in s.notUnsat
  BY <1>1 DEF StepsInv
<1>4. s.numDeleted \in Window(st)
  BY <1>1, <1>3 DEF StepsInv
<1> QED
  BY <1>2, <1>4 DEF Window

\* At most one checkpoint is given up at a time.
LEMMA OneAtMostGoes ==
  ASSUME NEW st, StepsInv(st), NEW pins, NEW new,
         NEW i \in SequenceNumberToDelete(st, pins, new),
         NEW j \in SequenceNumberToDelete(st, pins, new)
  PROVE  i = j
<1>1. CASE FirstIsObsolete(st, new)
  BY <1>1 DEF SequenceNumberToDelete
<1>2. CASE ~FirstIsObsolete(st, new)
  <2>1. i \in st.notUnsat /\ j \in st.notUnsat /\ GivenUpBefore(i, j) /\ GivenUpBefore(j, i)
    BY <1>2 DEF SequenceNumberToDelete
  <2>2. i \in Nat /\ j \in Nat
    BY <2>1, StepsTyped, WindowSteps DEF StepsType
  <2>3. TrailingZeros(i) \in Nat /\ TrailingZeros(j) \in Nat
    BY <2>2, TrailingZerosType
  <2> QED
    BY <2>1, <2>2, <2>3 DEF GivenUpBefore
<1> QED
  BY <1>1, <1>2

\* A saturation replaces at most one checkpoint: their number never falls.
LEMMA SaturateKeepsCount ==
  ASSUME NEW st, StepsInv(st), NEW pins,
         NEW new \in Window(st), st.status[new] = "unsaturated",
         CanSaturate(st, new, pins)
  PROVE  /\ IsFiniteSet(st.notUnsat)
         /\ Cardinality(st.notUnsat) \in Nat
         /\ Cardinality(Saturate(st, new, pins).notUnsat) \in Nat
         /\ Cardinality(st.notUnsat) <= Cardinality(Saturate(st, new, pins).notUnsat)
<1> DEFINE gone == SequenceNumberToDelete(st, pins, new)
           kept == st.notUnsat \ gone
<1>1. /\ Saturate(st, new, pins).notUnsat = kept \cup {new}
      /\ new \notin st.notUnsat
  BY SaturateEffect DEF StepsInv
<1>2. IsFiniteSet(st.notUnsat)
  <2>1. 0 \in Int /\ LastStep \in Int /\ st.notUnsat \in SUBSET AllSteps
    BY LastStepAssumption, StepsTyped DEF StepsType
  <2>2. IsFiniteSet(AllSteps)
    BY <2>1, FS_Interval DEF AllSteps
  <2> QED
    BY <2>1, <2>2, FS_Subset
<1>3. IsFiniteSet(kept) /\ Cardinality(kept) >= Cardinality(st.notUnsat) - 1
  <2>1. CASE \E g : g \in gone
    <3>1. PICK g : g \in gone
      BY <2>1
    <3>2. kept = st.notUnsat \ {g}
      BY <3>1, OneAtMostGoes
    <3> HIDE DEF kept
    <3>3. /\ IsFiniteSet(st.notUnsat \ {g}) /\ Cardinality(st.notUnsat) \in Nat
          /\ Cardinality(st.notUnsat \ {g}) = IF g \in st.notUnsat
                                              THEN Cardinality(st.notUnsat) - 1
                                              ELSE Cardinality(st.notUnsat)
      BY <1>2, FS_RemoveElement, FS_CardinalityType
    <3> QED
      BY <3>2, <3>3
  <2>2. CASE ~\E g : g \in gone
    <3>1. kept = st.notUnsat
      BY <2>2
    <3> HIDE DEF kept
    <3>2. Cardinality(st.notUnsat) \in Nat
      BY <1>2, FS_CardinalityType
    <3> QED
      BY <1>2, <3>1, <3>2
  <2> QED
    BY <2>1, <2>2
<1>4. new \notin kept
  BY <1>1
<1> HIDE DEF kept
<1>5. /\ Cardinality(kept \cup {new}) = Cardinality(kept) + 1
      /\ Cardinality(kept) \in Nat /\ Cardinality(st.notUnsat) \in Nat
  BY <1>2, <1>3, <1>4, FS_AddElement, FS_CardinalityType
<1> QED
  BY <1>1, <1>2, <1>3, <1>5

\* As long as nothing was deleted before a time, the first checkpoint stays.
LEMMA FirstIsKept ==
  ASSUME NEW st, StepsInv(st), NEW pins,
         NEW new \in Window(st), st.status[new] = "unsaturated",
         CanSaturate(st, new, pins), st.deletedBefore = Never
  PROVE  Saturate(st, new, pins).numDeleted = st.numDeleted
<1> DEFINE gone == SequenceNumberToDelete(st, pins, new)
           s    == Saturate(st, new, pins)
<1>1. /\ st \in StepsType /\ st.numDeleted \in AllSteps /\ AllSteps \subseteq Nat
      /\ StepTime[st.numDeleted] \in Nat /\ st.numDeleted \in st.notUnsat
  BY StepsTyped, WindowSteps, StepTimeAssumption DEF StepsType, StepsInv
<1>2. ~FirstIsObsolete(st, new)
  BY <1>1 DEF FirstIsObsolete, Never
<1>3. gone \cap NeededSteps(st, pins, new) = {}
  BY <1>2 DEF SequenceNumberToDelete
<1>4. st.numDeleted \notin gone
  BY <1>3, FirstCheckpoint DEF NeededSteps
<1>5. StepsInv(s) /\ s.notUnsat = (st.notUnsat \ gone) \cup {new}
  BY SaturateInv, SaturateEffect
<1>6. st.numDeleted \in s.notUnsat /\ s.numDeleted \in s.notUnsat
  BY <1>1, <1>4, <1>5 DEF StepsInv
<1>7. s.last \in AllSteps /\ s.numDeleted \in AllSteps
  BY <1>5, StepsTyped DEF StepsType
<1>8. st.numDeleted \in Window(s) /\ s.numDeleted \in Window(st)
  <2>1. s.numDeleted \in st.notUnsat \cup {new}
    BY <1>5, <1>6
  <2> HIDE DEF s, gone
  <2> QED
    BY <1>5, <1>6, <2>1 DEF StepsInv
<1>9. ASSUME NEW x \in Nat, NEW y \in Nat, NEW i \in Nat, NEW j \in Nat,
             x \in y..i, y \in x..j
      PROVE  x = y
  BY <1>9
<1>10. /\ st.numDeleted \in Nat /\ s.numDeleted \in Nat /\ s.last \in Nat /\ st.last \in Nat
       /\ st.numDeleted \in s.numDeleted .. s.last /\ s.numDeleted \in st.numDeleted .. st.last
  <2> HIDE DEF s
  <2> QED
    BY <1>1, <1>7, <1>8, StepsTyped DEF Window
<1> QED
  BY <1>9, <1>10

-----------------------------------------------------------------------------
(* The source *)

LogEntry == [step : AllSteps, event : Nat \ {0}]

\* The types of the variables, with the chain in order.  A count of the map
\* of repeat wakers is an integer here, CountsInv says which.
Typed ==
  /\ StepsInv(steps)
  /\ blocked \in [Channels -> BlockedType]
  /\ repeat \in [AllSteps -> [count : Int, registered : SUBSET Channels]]
  /\ held \in [AllSteps -> {"none", "all", "stack"}]
  /\ waiting \subseteq Channels \cup {EventsCaller}
  /\ call \in CallType
  /\ fault \in Faults
  /\ log \in Seq(LogEntry)

-----------------------------------------------------------------------------
(* Reading the variables *)

\* A call to poll names a channel and a time.
LEMMA PollCallFields ==
  ASSUME call \in CallType, call.op = "poll"
  PROVE  call.channel \in Channels /\ call.time \in PollTimes /\ call.time \in Nat
<1>1. PICK c \in Channels, t \in PollTimes : call = PollCall(c, t)
  BY DEF CallType, Idle, PollCall, EventsCall
<1> QED
  BY <1>1, TimesAssumption DEF PollCall

\* A call to poll_events names a time.
LEMMA EventsCallFields ==
  ASSUME call \in CallType, call.op = "events"
  PROVE  call.time \in EventTimes /\ call.time \in Nat
<1>1. PICK t \in EventTimes : call = EventsCall(t)
  BY DEF CallType, Idle, PollCall, EventsCall
<1> QED
  BY <1>1, TimesAssumption DEF EventsCall

\* The reason of a blocked channel.
LEMMA BlockedFields ==
  ASSUME NEW b \in BlockedType
  PROVE  /\ b.on \in {"nothing", "original", "repeat", "interpolation"}
         /\ b.on # "nothing" => b.time \in PollTimes
         /\ b.on = "repeat" => b.step \in AllSteps
         /\ b.on = "interpolation" => b.base \in AllSteps
         /\ b.on = "nothing" => b = NotBlocked
  BY DEF BlockedType, NotBlocked, OnOriginal, OnRepeat, OnInterpolation

\* The chain a search works on is in order, and the step it finds retained.
LEMMA PlannedInv ==
  ASSUME Typed
  PROVE  /\ StepsInv(Planned)
         /\ Planned.last \in Window(Planned)
         /\ Window(Planned) \subseteq AllSteps
<1>1. StepsInv(Planned)
  BY TryNextScheduledInv DEF Planned, Typed
<1>2. Planned.numDeleted <= Planned.last /\ Planned \in StepsType
  BY <1>1 DEF StepsInv
<1>3. Planned.last \in Nat /\ Planned.numDeleted \in Nat
  BY <1>2, LastStepAssumption DEF StepsType, AllSteps
<1> QED
  BY <1>1, <1>2, <1>3, WindowSteps DEF Window

\* The search of a poll in a retained step finds a retained step.
LEMMA TargetRetained ==
  ASSUME Typed, FreeTurn
  PROVE  /\ Target \in Window(Planned)
         /\ StepTime[Target] <= call.time
         /\ call.channel \in Channels
         /\ call.time \in PollTimes
<1>1. call.channel \in Channels /\ call.time \in PollTimes /\ call.time \in Nat
  BY PollCallFields DEF FreeTurn, PollTurn, Turn, Typed
<1> QED
  BY <1>1, PlannedInv, LatestAtIsRetained DEF FreeTurn, Target

-----------------------------------------------------------------------------
(* What each action preserves *)

\* Wakers dropped with the futures that held them.
LEMMA DropWakersTyped ==
  ASSUME Typed, NEW st, DropWakers(st)
  PROVE  /\ held' \in [AllSteps -> {"none", "all", "stack"}]
         /\ repeat' \in [AllSteps -> [count : Int, registered : SUBSET Channels]]
<1>1. held' \in [AllSteps -> {"none", "all", "stack"}]
  BY DEF Typed, DropWakers
<1>2. ASSUME NEW k \in AllSteps
      PROVE  [repeat[k] EXCEPT !.registered = {}]
               \in [count : Int, registered : SUBSET Channels]
  BY DEF Typed
<1>3. repeat' \in [AllSteps -> [count : Int, registered : SUBSET Channels]]
  BY <1>2 DEF Typed, DropWakers
<1> QED
  BY <1>1, <1>3

\* A channel that leaves its entry.
LEMMA WithoutEntryTyped ==
  ASSUME Typed, NEW c \in Channels
  PROVE  WithoutEntry(c) \in [AllSteps -> [count : Int, registered : SUBSET Channels]]
<1>1. ASSUME NEW e \in [count : Int, registered : SUBSET Channels]
      PROVE  LeftEntry(e) \in [count : Int, registered : SUBSET Channels]
  BY DEF LeftEntry, NoEntry
<1>2. CASE blocked[c].on # "repeat"
  BY <1>2 DEF WithoutEntry, Typed
<1>3. CASE blocked[c].on = "repeat"
  <2>1. blocked[c].step \in AllSteps
    BY <1>3, BlockedFields DEF Typed
  <2> QED
    BY <1>1, <1>3, <2>1 DEF WithoutEntry, Typed
<1> QED
  BY <1>2, <1>3

\* A caller blocked on a step of a chain in order.
LEMMA BlockOnTyped ==
  ASSUME Typed, NEW st, StepsInv(st), NEW k \in AllSteps,
         call.channel \in Channels, call.time \in PollTimes, BlockOn(st, k)
  PROVE  Typed'
<1>1. UNCHANGED <<waiting, call, reply, log, fault>> /\ StepsInv(steps')
  BY DEF BlockOn
<1>2. CASE st.canProduce[k]
  <2>1. OnOriginal(call.time) \in BlockedType
    BY DEF BlockedType
  <2>2. blocked' = [blocked EXCEPT ![call.channel] = OnOriginal(call.time)]
        /\ DropWakers(st)
    BY <1>2 DEF BlockOn
  <2>3. blocked' \in [Channels -> BlockedType]
    BY <2>1, <2>2 DEF Typed
  <2> QED
    BY <1>1, <2>2, <2>3, DropWakersTyped DEF Typed
<1>3. CASE ~st.canProduce[k]
  <2>1. OnRepeat(k, call.time) \in BlockedType
    BY DEF BlockedType
  <2>2. blocked' \in [Channels -> BlockedType]
    BY <1>3, <2>1 DEF BlockOn, Typed
  <2>3. held' \in [AllSteps -> {"none", "all", "stack"}]
    BY <1>3 DEF BlockOn, Typed
  <2>4. repeat' \in [AllSteps -> [count : Int, registered : SUBSET Channels]]
    <3>1. ASSUME NEW j \in AllSteps
          PROVE  /\ repeat[j].count \in Int
                 /\ repeat[j].registered \in SUBSET Channels
      BY DEF Typed
    <3> QED
      BY <1>3, <3>1 DEF BlockOn
  <2> QED
    BY <1>1, <2>2, <2>3, <2>4 DEF Typed
<1> QED
  BY <1>2, <1>3

\* An event delivered from a step of a chain in order.
LEMMA DeliverTyped ==
  ASSUME Typed, NEW st, StepsInv(st), NEW k \in AllSteps, NEW t, Deliver(st, k, t)
  PROVE  /\ StepsInv(steps')
         /\ log' \in Seq(LogEntry)
         /\ call' \in CallType
<1>1. StepsInv(steps')
  BY StepEmittedInv DEF Deliver
<1>2. st.produced[k] \in Nat
  BY StepsTyped DEF StepsType
<1>3. [step |-> k, event |-> st.produced[k] + 1] \in LogEntry
  BY <1>2 DEF LogEntry
<1>4. log' \in Seq(LogEntry)
  BY <1>3 DEF Deliver, Typed
<1>5. call' \in CallType
  BY DEF Deliver, Answer, CallType
<1> QED
  BY <1>1, <1>4, <1>5

\* A panic leaves everything but the fault.
LEMMA PanicTyped ==
  ASSUME Typed, NEW why \in Faults, Panic(why)
  PROVE  Typed'
  BY DEF Panic, Typed

\* The turns of a call to poll on a channel that waits for nothing.
LEMMA FreeTurnsTyped ==
  ASSUME Typed,
         \/ PollFindsSaturated \/ PollFindsSaturating \/ PollFindsPreviousSaturating
         \/ PollSaturates
         \/ PollIndexIsStale \/ PollPinUnderflows \/ PollLoopsForever
         \/ PollBeforeFirstStep
  PROVE  Typed'
<1>1. CASE PollFindsSaturated
  <2>1. Target \in AllSteps /\ call.channel \in Channels /\ call.time \in PollTimes
    BY <1>1, TargetRetained, PlannedInv DEF PollFindsSaturated
  <2>2. OnInterpolation(Target, call.time) \in BlockedType
    BY <2>1 DEF BlockedType
  <2>3. blocked' \in [Channels -> BlockedType]
    BY <1>1, <2>2 DEF PollFindsSaturated, Typed
  <2> QED
    BY <1>1, <2>3, PlannedInv DEF PollFindsSaturated, Typed
<1>2. CASE PollFindsSaturating
  BY <1>2, TargetRetained, PlannedInv, BlockOnTyped DEF PollFindsSaturating
<1>3. CASE PollFindsPreviousSaturating
  <2>1. /\ Target \in Window(Planned) /\ Planned.status[Target] = "unsaturated"
        /\ call.channel \in Channels /\ call.time \in PollTimes
        /\ BlockOn(Planned, Target - 1)
    BY <1>3, TargetRetained DEF PollFindsPreviousSaturating
  <2>2. Target # Planned.numDeleted
    BY <2>1, PlannedInv DEF StepsInv
  <2>3. Target - 1 \in AllSteps
    BY <2>1, <2>2, PlannedInv, StepsTyped, LastStepAssumption
       DEF Window, StepsType, AllSteps
  <2> QED
    BY <2>1, <2>3, PlannedInv, BlockOnTyped
<1>4. CASE PollSaturates
  <2>1. /\ Target \in Window(Planned) /\ Planned.status[Target] = "unsaturated"
        /\ call.channel \in Channels /\ call.time \in PollTimes
        /\ CanSaturate(Planned, Target, PinnedTimes)
        /\ StaleTarget \in Window(Saturated)
        /\ BlockOn(Saturated, StaleTarget)
    BY <1>4, TargetRetained DEF PollSaturates
  <2>2. StepsInv(Saturated)
    BY <2>1, PlannedInv, SaturateInv DEF Saturated
  <2>3. StaleTarget \in AllSteps
    BY <2>1, <2>2, WindowSteps DEF StepsInv
  <2> QED
    BY <2>1, <2>2, <2>3, BlockOnTyped
<1>5. CASE PollIndexIsStale
  BY <1>5, PanicTyped DEF PollIndexIsStale, Faults
<1>6. CASE PollPinUnderflows
  BY <1>6, PanicTyped DEF PollPinUnderflows, Faults
<1>7. CASE PollLoopsForever
  BY <1>7, PanicTyped DEF PollLoopsForever, Faults
<1>8. CASE PollBeforeFirstStep
  BY <1>8, PanicTyped DEF PollBeforeFirstStep, Faults
<1> QED
  BY <1>1, <1>2, <1>3, <1>4, <1>5, <1>6, <1>7, <1>8

\* What every turn on a blocked channel knows.
LEMMA BlockedTurn ==
  ASSUME Typed, Turn("poll")
  PROVE  /\ call.channel \in Channels
         /\ Mine \in BlockedType
         /\ Mine.on = "repeat" => Mine.step \in AllSteps
         /\ steps.last \in AllSteps
         /\ Idle \in CallType
         /\ NotBlocked \in BlockedType
<1>1. call.channel \in Channels
  BY PollCallFields DEF Typed, Turn
<1>2. Mine \in BlockedType
  BY <1>1 DEF Mine, Typed
<1>3. steps.last \in AllSteps
  BY StepsTyped DEF Typed
<1> QED
  BY <1>1, <1>2, <1>3, BlockedFields DEF CallType, BlockedType

\* The turns of a call to poll on a channel that waits for something.
LEMMA BlockedTurnsTyped ==
  ASSUME Typed,
         \/ PollAbandons
         \/ PollInterpolationPends \/ PollInterpolationReady
         \/ PollOriginalEmits \/ PollOriginalPends \/ PollOriginalReady
         \/ PollOriginalGone
         \/ PollRepeatRegisters \/ PollRepeatPends \/ PollRepeatReady
         \/ PollRepeatGone
  PROVE  Typed'
<1>1. Turn("poll")
  BY DEF PollAbandons, PollInterpolationPends, PollInterpolationReady,
         PollOriginalEmits, PollOriginalPends, PollOriginalReady, PollOriginalGone,
         PollRepeatRegisters, PollRepeatPends, PollRepeatReady, PollRepeatGone,
         OriginalTurn, RepeatTurn, PollTurn
<1>2. /\ call.channel \in Channels
      /\ Mine \in BlockedType
      /\ Mine.on = "repeat" => Mine.step \in AllSteps
      /\ steps.last \in AllSteps
      /\ Idle \in CallType
      /\ NotBlocked \in BlockedType
  BY <1>1, BlockedTurn
<1>3. WithoutEntry(call.channel)
        \in [AllSteps -> [count : Int, registered : SUBSET Channels]]
  BY <1>2, WithoutEntryTyped
<1>4. CASE PollAbandons
  BY <1>2, <1>3, <1>4 DEF PollAbandons, Typed
<1>5. CASE PollInterpolationPends
  BY <1>2, <1>5 DEF PollInterpolationPends, Answer, Typed
<1>6. CASE PollInterpolationReady
  BY <1>2, <1>6 DEF PollInterpolationReady, Answer, Typed
<1>7. CASE PollOriginalEmits
  <2>1. StepsInv(steps)
    BY DEF Typed
  <2>2. /\ Deliver(steps, steps.last, call.time)
        /\ UNCHANGED <<blocked, repeat, held, waiting, fault>>
    BY <1>7 DEF PollOriginalEmits
  <2>3. StepsInv(steps') /\ log' \in Seq(LogEntry) /\ call' \in CallType
    BY <1>2, <2>1, <2>2, DeliverTyped
  <2> QED
    BY <2>2, <2>3 DEF Typed
<1>8. CASE PollOriginalPends
  <2>1. held' \in [AllSteps -> {"none", "all", "stack"}]
    BY <1>2, <1>8 DEF PollOriginalPends, Typed
  <2> QED
    BY <1>2, <1>8, <2>1 DEF PollOriginalPends, Answer, Typed
<1>9. CASE PollOriginalReady
  <2>1. StepsInv(steps')
    BY <1>2, <1>9, StepReadyInv DEF PollOriginalReady, OriginalTurn, Typed
  <2>2. /\ held' \in [AllSteps -> {"none", "all", "stack"}]
        /\ repeat' \in [AllSteps -> [count : Int, registered : SUBSET Channels]]
    BY <1>9, DropWakersTyped DEF PollOriginalReady
  <2> QED
    BY <1>2, <1>9, <2>1, <2>2 DEF PollOriginalReady, Typed
<1>10. CASE PollOriginalGone
  BY <1>10, PanicTyped DEF PollOriginalGone, Faults
<1>11. CASE PollRepeatRegisters
  <2>1. Mine.step \in AllSteps
    BY <1>2, <1>11 DEF PollRepeatRegisters, PollTurn
  <2>2. repeat' \in [AllSteps -> [count : Int, registered : SUBSET Channels]]
    BY <1>2, <1>11, <2>1 DEF PollRepeatRegisters, Typed
  <2> QED
    BY <1>2, <1>11, <2>2 DEF PollRepeatRegisters, Answer, Typed
<1>12. CASE PollRepeatPends
  <2>1. Mine.step \in AllSteps
    BY <1>2, <1>12 DEF PollRepeatPends, RepeatTurn, PollTurn
  <2>2. repeat' \in [AllSteps -> [count : Int, registered : SUBSET Channels]]
    BY <1>2, <1>12, <2>1 DEF PollRepeatPends, Typed
  <2>3. held' \in [AllSteps -> {"none", "all", "stack"}]
    BY <1>12, <2>1 DEF PollRepeatPends, Typed
  <2> QED
    BY <1>2, <1>12, <2>2, <2>3 DEF PollRepeatPends, Answer, Typed
<1>13. CASE PollRepeatReady
  <2>1. Mine.step \in AllSteps /\ steps.status[Mine.step] = "saturating"
    BY <1>2, <1>13 DEF PollRepeatReady, RepeatTurn, PollTurn
  <2>2. StepsInv(steps')
    BY <1>13, <2>1, StepReadyInv DEF PollRepeatReady, Typed
  <2>3. held' \in [AllSteps -> {"none", "all", "stack"}]
    BY <1>13, <2>1 DEF PollRepeatReady, Typed
  <2> QED
    BY <1>2, <1>3, <1>13, <2>2, <2>3 DEF PollRepeatReady, Typed
<1>14. CASE PollRepeatGone
  BY <1>14, PanicTyped DEF PollRepeatGone, Faults
<1> QED
  BY <1>4, <1>5, <1>6, <1>7, <1>8, <1>9, <1>10, <1>11, <1>12, <1>13, <1>14

\* The chain with its last step saturating is in order too.
LEMMA LastSaturatingInv ==
  ASSUME Typed, EventsTurn
  PROVE  /\ StepsInv(LastSaturating)
         /\ LastSaturating.status[Planned.last] = "saturating"
         /\ Planned.last \in AllSteps
<1>1. StepsInv(Planned) /\ Planned.last \in Window(Planned) /\ Planned.last \in AllSteps
  BY PlannedInv
<1>2. CASE Planned.status[Planned.last] = "unsaturated"
  <2>1. CanSaturate(Planned, Planned.last, PinnedTimes)
    BY <1>2 DEF EventsTurn
  <2> QED
    BY <1>1, <1>2, <2>1, SaturateInv DEF LastSaturating
<1>3. CASE Planned.status[Planned.last] = "saturating"
  BY <1>1, <1>3 DEF LastSaturating
<1> QED
  BY <1>2, <1>3 DEF EventsTurn

\* The turns of a call to poll_events.
LEMMA EventsTurnsTyped ==
  ASSUME Typed, EventsTurns
  PROVE  Typed'
<1>1. Idle \in CallType
  BY DEF CallType
<1>2. CASE EventsReady
  BY <1>1, <1>2, PlannedInv DEF EventsReady, Answer, Typed
<1>3. CASE EventsEmits
  <2>1. /\ Deliver(LastSaturating, Planned.last, call.time)
        /\ DropWakers(steps')
        /\ UNCHANGED <<blocked, waiting, fault>>
    BY <1>3 DEF EventsEmits
  <2>2. StepsInv(LastSaturating) /\ Planned.last \in AllSteps
    BY <1>3, LastSaturatingInv DEF EventsEmits
  <2>3. StepsInv(steps') /\ log' \in Seq(LogEntry) /\ call' \in CallType
    BY <2>1, <2>2, DeliverTyped
  <2>4. /\ held' \in [AllSteps -> {"none", "all", "stack"}]
        /\ repeat' \in [AllSteps -> [count : Int, registered : SUBSET Channels]]
    BY <2>1, DropWakersTyped
  <2> QED
    BY <2>1, <2>3, <2>4 DEF Typed
<1>4. CASE EventsPends
  <2>1. StepsInv(steps')
    BY <1>4, LastSaturatingInv DEF EventsPends
  <2>2. held' \in [AllSteps -> {"none", "all", "stack"}]
    BY <1>4 DEF EventsPends, Typed
  <2>3. ASSUME NEW k \in AllSteps
        PROVE  /\ repeat[k] \in [count : Int, registered : SUBSET Channels]
               /\ [repeat[k] EXCEPT !.registered = {}]
                    \in [count : Int, registered : SUBSET Channels]
    BY DEF Typed
  <2>4. repeat' \in [AllSteps -> [count : Int, registered : SUBSET Channels]]
    BY <1>4, <2>3 DEF EventsPends
  <2> QED
    BY <1>1, <1>4, <2>1, <2>2, <2>4 DEF EventsPends, Answer, Typed
<1>5. CASE EventsStepReady
  <2>1. StepsInv(steps')
    BY <1>5, LastSaturatingInv, StepReadyInv DEF EventsStepReady
  <2>2. /\ held' \in [AllSteps -> {"none", "all", "stack"}]
        /\ repeat' \in [AllSteps -> [count : Int, registered : SUBSET Channels]]
    BY <1>5, DropWakersTyped DEF EventsStepReady
  <2> QED
    BY <1>5, <2>1, <2>2 DEF EventsStepReady, Typed
<1>6. CASE EventsPanics
  <2>1. PICK why \in {"pin_before_first_step", "step_gone"} : Panic(why)
    BY <1>6 DEF EventsPanics
  <2> QED
    BY <2>1, PanicTyped DEF Faults
<1> QED
  BY <1>2, <1>3, <1>4, <1>5, <1>6 DEF EventsTurns

\* Every step of the source keeps the chain in order and the types.
LEMMA TypedStep ==
  ASSUME Typed, [Next]_vars
  PROVE  Typed'
<1>1. ASSUME NEW c \in Channels, NEW t \in PollTimes, CallPoll(c, t)
      PROVE  Typed'
  <2>1. call' \in CallType
    BY <1>1 DEF CallPoll, CallType
  <2> QED
    BY <1>1, <2>1 DEF CallPoll, Typed
<1>2. CASE PollTurns
  BY <1>2, FreeTurnsTyped, BlockedTurnsTyped DEF PollTurns
<1>3. ASSUME NEW t \in EventTimes, CallPollEvents(t)
      PROVE  Typed'
  <2>1. call' \in CallType
    BY <1>3 DEF CallPollEvents, CallType
  <2> QED
    BY <1>3, <2>1 DEF CallPollEvents, Typed
<1>4. CASE EventsTurns
  BY <1>4, EventsTurnsTyped
<1>5. ASSUME NEW c \in Channels, ReleaseChannel(c)
      PROVE  Typed'
  <2>1. blocked' \in [Channels -> BlockedType]
    BY <1>5 DEF ReleaseChannel, Typed, BlockedType
  <2> QED
    BY <1>5, <2>1, WithoutEntryTyped DEF ReleaseChannel, Typed
<1>6. ASSUME NEW c \in Channels, WakeInterpolation(c)
      PROVE  Typed'
  BY <1>6 DEF WakeInterpolation, Typed
<1>7. ASSUME NEW t \in AdvanceTimes, Advance(t)
      PROVE  Typed'
  <2>1. StepsInv(steps')
    BY <1>7, TimesAssumption, DeleteBeforeInv DEF Advance, Typed
  <2>2. /\ held' \in [AllSteps -> {"none", "all", "stack"}]
        /\ repeat' \in [AllSteps -> [count : Int, registered : SUBSET Channels]]
    BY <1>7, DropWakersTyped DEF Advance
  <2> QED
    BY <1>7, <2>1, <2>2 DEF Advance, Typed
<1>8. ASSUME NEW t \in AdvanceTimes, AdvanceBeforeFirstStep(t)
      PROVE  Typed'
  BY <1>8, PanicTyped DEF AdvanceBeforeFirstStep, Faults
<1>9. ASSUME NEW k \in AllSteps, WakeStep(k)
      PROVE  Typed'
  <2>1. waiting' \subseteq Channels \cup {EventsCaller}
    BY <1>9 DEF WakeStep, Typed
  <2>2. held' \in [AllSteps -> {"none", "all", "stack"}]
    BY <1>9 DEF WakeStep, Typed
  <2>3. repeat' \in [AllSteps -> [count : Int, registered : SUBSET Channels]]
    BY <1>9 DEF WakeStep, Typed
  <2> QED
    BY <1>9, <2>1, <2>2, <2>3 DEF WakeStep, Typed
<1>10. CASE UNCHANGED vars
  BY <1>10 DEF vars, Typed
<1> QED
  BY <1>1, <1>2, <1>3, <1>4, <1>5, <1>6, <1>7, <1>8, <1>9, <1>10 DEF Next

\* The source starts in order.
LEMMA TypedInit ==
  ASSUME Init
  PROVE  Typed
<1>1. blocked \in [Channels -> BlockedType]
  BY DEF Init, BlockedType
<1>2. repeat \in [AllSteps -> [count : Int, registered : SUBSET Channels]]
  BY DEF Init, NoEntry
<1> QED
  BY <1>1, <1>2, NewStepsInv DEF Init, Typed, CallType, Faults

\* The chain stays in order and every variable in its type, through every
\* interleaving of polls, event polls, releases, advances and wake-ups.
THEOREM AlwaysTyped == Spec => []Typed
<1>1. Init => Typed
  BY TypedInit
<1>2. Typed /\ [Next]_vars => Typed'
  BY TypedStep
<1> QED
  BY <1>1, <1>2, PTL DEF Spec

-----------------------------------------------------------------------------
(* The set of checkpoints agrees with the steps *)

\* However polls, recomputations and deletions are interleaved, the set
\* not_unsaturated is the retained steps that hold or compute a state, and
\* the first retained step is one of them.
THEOREM CheckpointsAlwaysMatchSteps == Spec => []CheckpointsMatchSteps
<1>1. Typed => CheckpointsMatchSteps
  BY DEF Typed, StepsInv, CheckpointsMatchSteps
<1> QED
  BY <1>1, AlwaysTyped, PTL

\* Whatever checkpoints are given up, the next step to be computed has the
\* state of the one before it to start from.
THEOREM FrontierAlwaysRecoverable == Spec => []FrontierIsRecoverable
<1>1. Typed => FrontierIsRecoverable
  BY DEF Typed, StepsInv, FrontierIsRecoverable
<1> QED
  BY <1>1, AlwaysTyped, PTL

-----------------------------------------------------------------------------
(* The counts of the map of repeat wakers *)

\* A channel that moves between reasons other than a repeat, or none that
\* moves at all, leaves the counts right.
LEMMA CountsKept ==
  ASSUME Typed, RepeatCountsExact,
         \A c \in Channels : \/ blocked'[c] = blocked[c]
                              \/ /\ blocked[c].on # "repeat"
                                 /\ blocked'[c].on # "repeat",
         \A k \in AllSteps : repeat'[k].count = repeat[k].count
  PROVE  RepeatCountsExact'
<1> SUFFICES ASSUME NEW k \in AllSteps
             PROVE  RepeatWaiters(k)' = RepeatWaiters(k)
  BY DEF RepeatCountsExact
<1> QED
  BY DEF RepeatWaiters

\* A future that goes away takes registrations with it and no counts.
LEMMA DropWakersKeepsCounts ==
  ASSUME Typed, NEW st, DropWakers(st)
  PROVE  \A k \in AllSteps : repeat'[k].count = repeat[k].count
  BY DEF DropWakers, Typed

\* The channels blocked on a step are finitely many.
LEMMA WaitersFinite ==
  ASSUME NEW k
  PROVE  /\ IsFiniteSet(RepeatWaiters(k))
         /\ Cardinality(RepeatWaiters(k)) \in Nat
         /\ Cardinality(RepeatWaiters(k)) <= Cardinality(Channels)
  BY ChannelsAssumption, FS_Subset, FS_CardinalityType DEF RepeatWaiters

\* A channel that starts to wait for a repeat adds one.
LEMMA EnterCounts ==
  ASSUME Typed, RepeatCountsExact, NEW st, NEW k \in AllSteps,
         call.channel \in Channels, Mine.on # "repeat",
         BlockOn(st, k), ~st.canProduce[k]
  PROVE  RepeatCountsExact'
<1> DEFINE c == call.channel
<1>1. /\ blocked' = [blocked EXCEPT ![c] = OnRepeat(k, call.time)]
      /\ \A j \in AllSteps :
           repeat'[j].count = IF j = k THEN repeat[j].count + 1 ELSE repeat[j].count
  BY DEF BlockOn
<1>2. OnRepeat(k, call.time).on = "repeat" /\ OnRepeat(k, call.time).step = k
  BY DEF OnRepeat
<1>3. RepeatWaiters(k)' = RepeatWaiters(k) \cup {c} /\ c \notin RepeatWaiters(k)
  BY <1>1, <1>2 DEF RepeatWaiters, Mine, Typed
<1>4. \A j \in AllSteps \ {k} : RepeatWaiters(j)' = RepeatWaiters(j)
  BY <1>1, <1>2 DEF RepeatWaiters, Mine, Typed
<1>5. Cardinality(RepeatWaiters(k)') = Cardinality(RepeatWaiters(k)) + 1
  BY <1>3, WaitersFinite, FS_AddElement
<1> QED
  BY <1>1, <1>3, <1>4, <1>5 DEF RepeatCountsExact

\* A channel that leaves subtracts one where it waited for a repeat.
LEMMA LeaveCounts ==
  ASSUME Typed, RepeatCountsExact, NEW c \in Channels,
         blocked' = [blocked EXCEPT ![c] = NotBlocked], repeat' = WithoutEntry(c)
  PROVE  RepeatCountsExact'
<1>1. \A d \in Channels : blocked'[d] = IF d = c THEN NotBlocked ELSE blocked[d]
  BY DEF Typed
<1>2. NotBlocked.on # "repeat"
  BY DEF NotBlocked
<1>3. CASE blocked[c].on # "repeat"
  <2>1. repeat' = repeat
    BY <1>3 DEF WithoutEntry
  <2>2. \A d \in Channels : \/ blocked'[d] = blocked[d]
                            \/ /\ blocked[d].on # "repeat"
                               /\ blocked'[d].on # "repeat"
    BY <1>1, <1>2, <1>3
  <2>3. \A k \in AllSteps : repeat'[k].count = repeat[k].count
    BY <2>1
  <2> QED
    BY <2>2, <2>3, CountsKept
<1>4. CASE blocked[c].on = "repeat"
  <2>1. PICK k \in AllSteps : k = blocked[c].step
    BY <1>4, BlockedFields DEF Typed
  <2>2. repeat' = [repeat EXCEPT ![k] = LeftEntry(repeat[k])]
    BY <1>4, <2>1 DEF WithoutEntry
  <2>3. LeftEntry(repeat[k]).count = repeat[k].count - 1
    <3>1. repeat[k] \in [count : Int, registered : SUBSET Channels]
      BY <2>1 DEF Typed
    <3> QED
      BY <3>1 DEF LeftEntry, NoEntry
  <2>4. /\ repeat'[k].count = repeat[k].count - 1
        /\ \A j \in AllSteps \ {k} : repeat'[j].count = repeat[j].count
    BY <2>1, <2>2, <2>3 DEF Typed
  <2>5. RepeatWaiters(k)' = RepeatWaiters(k) \ {c} /\ c \in RepeatWaiters(k)
    <3>1. c \in RepeatWaiters(k)
      BY <1>4, <2>1 DEF RepeatWaiters
    <3>2. RepeatWaiters(k)' = {d \in Channels : blocked'[d].on = "repeat"
                                                /\ blocked'[d].step = k}
      BY DEF RepeatWaiters
    <3>3. ASSUME NEW d \in Channels
          PROVE  d \in RepeatWaiters(k)' <=> d \in RepeatWaiters(k) \ {c}
      <4>1. CASE d = c
        BY <1>1, <1>2, <3>2, <4>1
      <4>2. CASE d # c
        <5>1. blocked'[d] = blocked[d]
          BY <1>1, <4>2
        <5> QED
          BY <3>2, <4>2, <5>1 DEF RepeatWaiters
      <4> QED
        BY <4>1, <4>2
    <3>4. RepeatWaiters(k) \subseteq Channels /\ RepeatWaiters(k)' \subseteq Channels
      BY <3>2 DEF RepeatWaiters
    <3> QED
      BY <3>1, <3>3, <3>4
  <2>6. \A j \in AllSteps \ {k} : RepeatWaiters(j)' = RepeatWaiters(j)
    BY <1>1, <1>2, <1>4, <2>1 DEF RepeatWaiters
  <2>7. Cardinality(RepeatWaiters(k)') = Cardinality(RepeatWaiters(k)) - 1
    BY <2>5, WaitersFinite, FS_RemoveElement
  <2>8. ASSUME NEW j \in AllSteps
        PROVE  repeat'[j].count = Cardinality(RepeatWaiters(j)')
    <3>1. CASE j = k
      BY <2>1, <2>4, <2>7, <3>1 DEF RepeatCountsExact
    <3>2. CASE j # k
      BY <2>4, <2>6, <3>2 DEF RepeatCountsExact
    <3> QED
      BY <3>1, <3>2
  <2> QED
    BY <2>8 DEF RepeatCountsExact
<1> QED
  BY <1>3, <1>4

\* Blocking a caller that waited for nothing, on events or on a repeat.
LEMMA BlockOnCounts ==
  ASSUME Typed, RepeatCountsExact, NEW st, NEW k \in AllSteps,
         call.channel \in Channels, Mine.on # "repeat", BlockOn(st, k)
  PROVE  RepeatCountsExact'
<1>1. CASE st.canProduce[k]
  <2>1. /\ blocked' = [blocked EXCEPT ![call.channel] = OnOriginal(call.time)]
        /\ DropWakers(st)
    BY <1>1 DEF BlockOn
  <2>2. OnOriginal(call.time).on # "repeat"
    BY DEF OnOriginal
  <2>3. \A c \in Channels : \/ blocked'[c] = blocked[c]
                            \/ /\ blocked[c].on # "repeat"
                               /\ blocked'[c].on # "repeat"
    BY <2>1, <2>2 DEF Mine, Typed
  <2> QED
    BY <2>1, <2>3, DropWakersKeepsCounts, CountsKept
<1>2. CASE ~st.canProduce[k]
  BY <1>2, EnterCounts
<1> QED
  BY <1>1, <1>2

\* The turns of poll on a free channel.
LEMMA FreeTurnsCount ==
  ASSUME Typed, RepeatCountsExact,
         \/ PollFindsSaturated \/ PollFindsSaturating \/ PollFindsPreviousSaturating
         \/ PollSaturates
  PROVE  RepeatCountsExact'
<1>1. FreeTurn
  BY DEF PollFindsSaturated, PollFindsSaturating, PollFindsPreviousSaturating,
         PollSaturates
<1>2. /\ call.channel \in Channels /\ Mine.on # "repeat"
      /\ Target \in Window(Planned) /\ StepsInv(Planned)
  BY <1>1, TargetRetained, PlannedInv DEF FreeTurn, PollTurn
<1>3. CASE PollFindsSaturated
  <2>1. OnInterpolation(Target, call.time).on # "repeat"
    BY DEF OnInterpolation
  <2>2. \A c \in Channels : \/ blocked'[c] = blocked[c]
                            \/ /\ blocked[c].on # "repeat"
                               /\ blocked'[c].on # "repeat"
    BY <1>2, <1>3, <2>1 DEF PollFindsSaturated, Mine, Typed
  <2>3. repeat' = repeat
    BY <1>3 DEF PollFindsSaturated
  <2> QED
    BY <2>2, <2>3, CountsKept
<1>4. CASE PollFindsSaturating
  BY <1>2, <1>4, PlannedInv, BlockOnCounts DEF PollFindsSaturating
<1>5. CASE PollFindsPreviousSaturating
  <2>1. /\ Planned.status[Target] = "unsaturated"
        /\ BlockOn(Planned, Target - 1)
    BY <1>5 DEF PollFindsPreviousSaturating
  <2>2. Target # Planned.numDeleted
    BY <2>1, PlannedInv DEF StepsInv
  <2>3. Target - 1 \in AllSteps
    BY <1>2, <2>2, StepsTyped, LastStepAssumption DEF Window, StepsType, AllSteps
  <2> QED
    BY <1>2, <2>1, <2>3, BlockOnCounts
<1>6. CASE PollSaturates
  <2>1. /\ Planned.status[Target] = "unsaturated"
        /\ CanSaturate(Planned, Target, PinnedTimes)
        /\ StaleTarget \in Window(Saturated)
        /\ BlockOn(Saturated, StaleTarget)
    BY <1>6 DEF PollSaturates
  <2>2. StepsInv(Saturated)
    BY <1>2, <2>1, SaturateInv DEF Saturated
  <2>3. StaleTarget \in AllSteps
    BY <2>1, <2>2, WindowSteps DEF StepsInv
  <2> QED
    BY <1>2, <2>1, <2>3, BlockOnCounts
<1> QED
  BY <1>3, <1>4, <1>5, <1>6

\* The turns of poll that vacate the channel.
LEMMA LeavingTurnsCount ==
  ASSUME Typed, RepeatCountsExact,
         \/ PollAbandons \/ PollInterpolationReady \/ PollOriginalReady
         \/ PollRepeatReady
  PROVE  RepeatCountsExact'
<1>1. call.channel \in Channels
  BY BlockedTurn DEF PollAbandons, PollInterpolationReady, PollOriginalReady,
     PollRepeatReady, OriginalTurn, RepeatTurn, PollTurn
<1>2. CASE PollAbandons \/ PollRepeatReady
  BY <1>1, <1>2, LeaveCounts DEF PollAbandons, PollRepeatReady
<1>3. CASE PollInterpolationReady \/ PollOriginalReady
  <2>1. /\ blocked' = [blocked EXCEPT ![call.channel] = NotBlocked]
        /\ Mine.on # "repeat"
    BY <1>3 DEF PollInterpolationReady, PollOriginalReady, OriginalTurn, PollTurn
  <2>2. NotBlocked.on # "repeat"
    BY DEF NotBlocked
  <2>3. \A c \in Channels : \/ blocked'[c] = blocked[c]
                            \/ /\ blocked[c].on # "repeat"
                               /\ blocked'[c].on # "repeat"
    BY <1>1, <2>1, <2>2 DEF Mine, Typed
  <2>4. \A k \in AllSteps : repeat'[k].count = repeat[k].count
    BY <1>3, DropWakersKeepsCounts DEF PollInterpolationReady, PollOriginalReady
  <2> QED
    BY <2>3, <2>4, CountsKept
<1> QED
  BY <1>2, <1>3

\* A step that moves no channel and no count.
LEMMA StillCounts ==
  ASSUME Typed, RepeatCountsExact, blocked' = blocked,
         \A k \in AllSteps : repeat'[k].count = repeat[k].count
  PROVE  RepeatCountsExact'
  BY CountsKept

\* The other turns: each changes at most who is registered.
LEMMA OtherTurnsCount ==
  ASSUME Typed, RepeatCountsExact,
         \/ PollIndexIsStale \/ PollPinUnderflows \/ PollLoopsForever
         \/ PollBeforeFirstStep
         \/ PollInterpolationPends
         \/ PollOriginalEmits \/ PollOriginalPends \/ PollOriginalGone
         \/ PollRepeatRegisters \/ PollRepeatPends \/ PollRepeatGone
         \/ EventsTurns
  PROVE  RepeatCountsExact'
<1>1. CASE \/ PollIndexIsStale \/ PollPinUnderflows \/ PollLoopsForever
           \/ PollBeforeFirstStep \/ PollOriginalGone \/ PollRepeatGone
           \/ EventsPanics \/ EventsReady
           \/ PollInterpolationPends \/ PollOriginalEmits \/ PollOriginalPends
  <2>1. blocked' = blocked /\ repeat' = repeat
    BY <1>1 DEF PollIndexIsStale, PollPinUnderflows, PollLoopsForever,
       PollBeforeFirstStep, PollOriginalGone, PollRepeatGone, EventsPanics, Panic,
       EventsReady, PollInterpolationPends, PollOriginalEmits, PollOriginalPends
  <2> QED
    BY <2>1, StillCounts
<1>2. CASE PollRepeatRegisters \/ PollRepeatPends
  <2>1. Mine.step \in AllSteps
    BY <1>2, BlockedTurn DEF PollRepeatRegisters, PollRepeatPends, RepeatTurn, PollTurn
  <2>2. blocked' = blocked /\ \A k \in AllSteps : repeat'[k].count = repeat[k].count
    BY <1>2, <2>1 DEF PollRepeatRegisters, PollRepeatPends, Typed
  <2> QED
    BY <2>2, StillCounts
<1>3. CASE EventsEmits \/ EventsStepReady
  <2>1. blocked' = blocked /\ DropWakers(steps')
    BY <1>3 DEF EventsEmits, EventsStepReady
  <2>2. \A k \in AllSteps : repeat'[k].count = repeat[k].count
    BY <2>1, DropWakersKeepsCounts
  <2> QED
    BY <2>1, <2>2, StillCounts
<1>4. CASE EventsPends
  <2>1. blocked' = blocked /\ \A k \in AllSteps : repeat'[k].count = repeat[k].count
    BY <1>4 DEF EventsPends, Typed
  <2> QED
    BY <2>1, StillCounts
<1> QED
  BY <1>1, <1>2, <1>3, <1>4 DEF EventsTurns

\* Every step of the source keeps the counts right.
LEMMA CountsStep ==
  ASSUME Typed, RepeatCountsExact, [Next]_vars
  PROVE  RepeatCountsExact'
<1>1. CASE PollTurns \/ EventsTurns
  BY <1>1, FreeTurnsCount, LeavingTurnsCount, OtherTurnsCount DEF PollTurns
<1>2. ASSUME NEW c \in Channels, ReleaseChannel(c)
      PROVE  RepeatCountsExact'
  BY <1>2, LeaveCounts DEF ReleaseChannel
<1>3. ASSUME NEW t \in AdvanceTimes, Advance(t)
      PROVE  RepeatCountsExact'
  <2>1. \A k \in AllSteps : repeat'[k].count = repeat[k].count
    BY <1>3, DropWakersKeepsCounts DEF Advance
  <2> QED
    BY <1>3, <2>1, StillCounts DEF Advance
<1>4. ASSUME NEW k \in AllSteps, WakeStep(k)
      PROVE  RepeatCountsExact'
  <2>1. blocked' = blocked /\ \A j \in AllSteps : repeat'[j].count = repeat[j].count
    BY <1>4 DEF WakeStep, Typed
  <2> QED
    BY <2>1, StillCounts
<1>5. CASE \/ UNCHANGED vars
           \/ \E c \in Channels, t \in PollTimes : CallPoll(c, t)
           \/ \E t \in EventTimes : CallPollEvents(t)
           \/ \E c \in Channels : WakeInterpolation(c)
           \/ \E t \in AdvanceTimes : AdvanceBeforeFirstStep(t)
  <2>1. blocked' = blocked /\ repeat' = repeat
    BY <1>5 DEF vars, CallPoll, CallPollEvents, WakeInterpolation,
       AdvanceBeforeFirstStep, Panic
  <2> QED
    BY <2>1, StillCounts
<1> QED
  BY <1>1, <1>2, <1>3, <1>4, <1>5 DEF Next

\* No channel waits at the start, and there is no entry.
LEMMA CountsInit ==
  ASSUME Init
  PROVE  RepeatCountsExact
<1>1. \A k \in AllSteps : RepeatWaiters(k) = {} /\ repeat[k].count = 0
  BY DEF Init, RepeatWaiters, NotBlocked, NoEntry
<1> QED
  BY <1>1, FS_EmptySet DEF RepeatCountsExact

\* Every entry of blocked_repeat_step_wakers counts exactly the channels that
\* wait for its step, through every poll, abandonment and release.
THEOREM RepeatCountsAlwaysExact == Spec => []RepeatCountsExact
<1>1. Init => Typed /\ RepeatCountsExact
  BY TypedInit, CountsInit
<1>2. Typed /\ RepeatCountsExact /\ [Next]_vars => (Typed /\ RepeatCountsExact)'
  BY TypedStep, CountsStep
<1> QED
  BY <1>1, <1>2, PTL DEF Spec

\* Every variable has its type, the counts bounded by the number of channels.
THEOREM AlwaysTypeOK == Spec => []TypeOK
<1>1. Typed /\ RepeatCountsExact => TypeOK
  <2> SUFFICES ASSUME Typed, RepeatCountsExact
               PROVE  TypeOK
    OBVIOUS
  <2>1. Cardinality(Channels) \in Nat
    BY ChannelsAssumption, FS_CardinalityType
  <2>2. ASSUME NEW k \in AllSteps
        PROVE  /\ repeat[k].count \in 0..Cardinality(Channels)
               /\ repeat[k] \in [count : Int, registered : SUBSET Channels]
    BY <2>1, WaitersFinite DEF RepeatCountsExact, Typed
  <2>3. ASSUME NEW k \in AllSteps
        PROVE  repeat[k] \in EntryType
    BY <2>2 DEF EntryType
  <2>4. repeat \in [AllSteps -> EntryType]
    BY <2>3 DEF Typed
  <2>5. steps \in StepsType
    BY StepsTyped DEF Typed
  <2> QED
    BY <2>4, <2>5 DEF Typed, TypeOK, LogEntry
<1> QED
  BY <1>1, AlwaysTyped, RepeatCountsAlwaysExact, PTL

-----------------------------------------------------------------------------
(* The number of checkpoints *)

Limit == Max({NumCheckpoints, 2 + Cardinality(Channels)})

\* The limit has room for the budget, and for one checkpoint per channel beside two.
LEMMA LimitHasRoom ==
  /\ Cardinality(Channels) \in Nat
  /\ Limit \in Nat /\ NumCheckpoints <= Limit /\ 2 + Cardinality(Channels) <= Limit
<1> DEFINE n == Cardinality(Channels)
           S == {NumCheckpoints, 2 + n}
<1>1. n \in Nat
  BY ChannelsAssumption, FS_CardinalityType
<1> HIDE DEF n
<1>2. \E x \in S : \A y \in S : x >= y
  BY <1>1, NumCheckpointsAssumption
<1>3. Max(S) \in S /\ \A y \in S : Max(S) >= y
  BY <1>2 DEF Max
<1>4. Max(S) \in Nat /\ NumCheckpoints <= Max(S) /\ 2 + n <= Max(S)
  BY <1>1, <1>3, NumCheckpointsAssumption
<1> QED
  BY <1>1, <1>4 DEF Limit, n

\* There are no more pinned checkpoints than blocked channels.
LEMMA PinnedCount ==
  ASSUME Typed, NEW st
  PROVE  LET pinned == {NotUnsatAt(st, t) : t \in PinnedTimes}
         IN  /\ IsFiniteSet(pinned)
             /\ Cardinality(pinned) <= Cardinality(Channels)
             /\ \A c \in Channels : blocked[c].on = "nothing" =>
                  Cardinality(pinned) <= Cardinality(Channels) - 1
<1> DEFINE pinned == {NotUnsatAt(st, t) : t \in PinnedTimes}
           D == {d \in Channels : blocked[d].on \in {"original", "repeat"}}
           f == [d \in D |-> NotUnsatAt(st, blocked[d].time)]
<1>1. f \in Surjection(D, pinned)
  BY DEF PinnedTimes, Surjection
<1>2. IsFiniteSet(D) /\ Cardinality(D) <= Cardinality(Channels)
  BY ChannelsAssumption, FS_Subset
<1>3. /\ Cardinality(D) \in Nat /\ Cardinality(Channels) \in Nat
  BY <1>2, ChannelsAssumption, FS_CardinalityType
<1>4. ASSUME NEW c \in Channels, blocked[c].on = "nothing"
      PROVE  Cardinality(D) <= Cardinality(Channels) - 1
  <2>1. D \in SUBSET (Channels \ {c})
    BY <1>4
  <2>2. /\ IsFiniteSet(Channels \ {c})
        /\ Cardinality(Channels \ {c}) = Cardinality(Channels) - 1
    BY ChannelsAssumption, FS_RemoveElement
  <2> HIDE DEF D
  <2>3. Cardinality(D) <= Cardinality(Channels \ {c})
    BY <2>1, <2>2, FS_Subset
  <2> QED
    BY <2>2, <2>3
<1> HIDE DEF D, f, pinned
<1>5. IsFiniteSet(pinned) /\ Cardinality(pinned) <= Cardinality(D)
  BY <1>1, <1>2, FS_Surjection
<1>6. Cardinality(pinned) \in Nat
  BY <1>5, FS_CardinalityType
<1>7. /\ Cardinality(pinned) <= Cardinality(Channels)
      /\ \A c \in Channels : blocked[c].on = "nothing" =>
           Cardinality(pinned) <= Cardinality(Channels) - 1
  BY <1>2, <1>3, <1>4, <1>5, <1>6
<1> QED
  BY <1>5, <1>7 DEF pinned

\* A search that saturates its target keeps within the limit: its channel pins nothing.
LEMMA SaturatedCount ==
  ASSUME Typed, FreeTurn, Planned.status[Target] = "unsaturated",
         CanSaturate(Planned, Target, PinnedTimes),
         Cardinality(Planned.notUnsat) <= Limit
  PROVE  Cardinality(Saturated.notUnsat) <= Limit
<1>1. /\ StepsInv(Planned) /\ Target \in Window(Planned)
      /\ call.channel \in Channels /\ blocked[call.channel].on = "nothing"
  BY PlannedInv, TargetRetained DEF FreeTurn, PollTurn, Mine
<1> DEFINE pinned == {NotUnsatAt(Planned, t) : t \in PinnedTimes}
           n == Cardinality(Channels) - 1
<1>2. IsFiniteSet(pinned) /\ Cardinality(pinned) <= n
  BY <1>1, PinnedCount
<1>3. Cardinality(pinned) \in Nat
  BY <1>2, FS_CardinalityType
<1> HIDE DEF pinned
<1>4. n \in Nat /\ n + 3 <= Limit /\ Limit \in Nat /\ NumCheckpoints <= Limit
  BY <1>2, <1>3, LimitHasRoom
<1> HIDE DEF n
<1> QED
  BY <1>1, <1>2, <1>4, SaturateCount DEF Saturated, pinned

\* poll_events saturates the last step, which the last checkpoint is taken from.
LEMMA LastSaturatingCount ==
  ASSUME Typed, EventsTurn, Cardinality(Planned.notUnsat) <= Limit
  PROVE  Cardinality(LastSaturating.notUnsat) <= Limit
<1>1. StepsInv(Planned) /\ Planned.last \in Window(Planned)
  BY PlannedInv
<1>2. CASE Planned.status[Planned.last] = "unsaturated"
  <2> DEFINE pinned == {NotUnsatAt(Planned, t) : t \in PinnedTimes}
             n == Cardinality(Channels)
  <2>1. CanSaturate(Planned, Planned.last, PinnedTimes)
    BY <1>2 DEF EventsTurn
  <2>2. IsFiniteSet(pinned) /\ Cardinality(pinned) <= n
    BY PinnedCount
  <2>3. n \in Nat /\ n + 2 <= Limit /\ Limit \in Nat /\ NumCheckpoints <= Limit
    BY LimitHasRoom
  <2> HIDE DEF n, pinned
  <2> QED
    BY <1>1, <1>2, <2>1, <2>2, <2>3, SaturateCount DEF LastSaturating, pinned
<1>3. CASE Planned.status[Planned.last] # "unsaturated"
  BY <1>3 DEF LastSaturating
<1> QED
  BY <1>2, <1>3

\* Planning, deleting, emitting and completing add no checkpoint.
LEMMA ChainKeepsCheckpoints ==
  ASSUME NEW st, StepsInv(st)
  PROVE  /\ TryNextScheduled(st).notUnsat = st.notUnsat
         /\ \A k : StepEmitted(st, k).notUnsat = st.notUnsat
         /\ \A k : StepReady(st, k).notUnsat = st.notUnsat
         /\ \A t : DeleteBefore(st, t).notUnsat \subseteq st.notUnsat
<1>1. st \in StepsType
  BY StepsTyped
<1> QED
  BY <1>1 DEF TryNextScheduled, StepEmitted, StepReady, DeleteBefore, StepsType

\* How the turns of a poll change the chain.
LEMMA PollMoves ==
  ASSUME Typed, PollTurns
  PROVE  \/ steps' = steps
         \/ steps' = Planned
         \/ /\ FreeTurn /\ Planned.status[Target] = "unsaturated"
            /\ CanSaturate(Planned, Target, PinnedTimes)
            /\ steps' = Saturated
         \/ \E k \in AllSteps : steps' = StepEmitted(steps, k)
         \/ \E k \in AllSteps : steps.status[k] = "saturating" /\ steps' = StepReady(steps, k)
<1>1. CASE \/ PollFindsSaturated \/ PollFindsSaturating \/ PollFindsPreviousSaturating
           \/ PollSaturates
  BY <1>1 DEF PollFindsSaturated, PollFindsSaturating, PollFindsPreviousSaturating,
     PollSaturates, BlockOn
<1>2. CASE \/ PollAbandons
           \/ PollIndexIsStale \/ PollPinUnderflows \/ PollLoopsForever \/ PollBeforeFirstStep
           \/ PollInterpolationPends \/ PollInterpolationReady
           \/ PollOriginalPends \/ PollOriginalGone
           \/ PollRepeatRegisters \/ PollRepeatPends \/ PollRepeatGone
  BY <1>2 DEF PollAbandons, PollIndexIsStale, PollPinUnderflows, PollLoopsForever,
     PollBeforeFirstStep, PollInterpolationPends, PollInterpolationReady, PollOriginalPends,
     PollOriginalGone, PollRepeatRegisters, PollRepeatPends, PollRepeatGone, Panic
<1>3. CASE PollOriginalEmits \/ PollOriginalReady
  BY <1>3, StepsTyped DEF PollOriginalEmits, PollOriginalReady, OriginalTurn, Deliver, Typed
<1>4. CASE PollRepeatReady
  <2>1. Mine.step \in AllSteps
    BY <1>4, BlockedTurn DEF PollRepeatReady, RepeatTurn, PollTurn
  <2> QED
    BY <1>4, <2>1 DEF PollRepeatReady, RepeatTurn
<1> QED
  BY <1>1, <1>2, <1>3, <1>4 DEF PollTurns

\* How every step of the source changes it.
LEMMA ChainMoves ==
  ASSUME Typed, [Next]_vars
  PROVE  \/ steps' = steps
         \/ steps' = Planned
         \/ /\ FreeTurn /\ Planned.status[Target] = "unsaturated"
            /\ CanSaturate(Planned, Target, PinnedTimes)
            /\ steps' = Saturated
         \/ /\ EventsTurn
            /\ \/ steps' = LastSaturating
               \/ steps' = StepEmitted(LastSaturating, Planned.last)
               \/ steps' = StepReady(LastSaturating, Planned.last)
         \/ \E k \in AllSteps : steps' = StepEmitted(steps, k)
         \/ \E k \in AllSteps : steps.status[k] = "saturating" /\ steps' = StepReady(steps, k)
         \/ \E t \in AdvanceTimes : ~BeforeFirst(steps, t) /\ steps' = DeleteBefore(steps, t)
<1>1. CASE EventsTurns
  BY <1>1 DEF EventsTurns, EventsReady, EventsEmits, EventsPends, EventsStepReady,
     EventsPanics, Deliver, Panic
<1>2. CASE \E t \in AdvanceTimes : Advance(t)
  BY <1>2 DEF Advance
<1>3. CASE \/ \E c \in Channels, t \in PollTimes : CallPoll(c, t)
           \/ \E t \in EventTimes : CallPollEvents(t)
           \/ \E c \in Channels : ReleaseChannel(c) \/ WakeInterpolation(c)
           \/ \E t \in AdvanceTimes : AdvanceBeforeFirstStep(t)
           \/ \E k \in AllSteps : WakeStep(k)
           \/ UNCHANGED vars
  BY <1>3 DEF CallPoll, CallPollEvents, ReleaseChannel, WakeInterpolation,
     AdvanceBeforeFirstStep, WakeStep, vars, Panic
<1> QED
  BY <1>1, <1>2, <1>3, PollMoves DEF Next

\* Every step of the source keeps within the limit.
LEMMA BoundedStep ==
  ASSUME Typed, CheckpointsBounded, [Next]_vars
  PROVE  CheckpointsBounded'
<1>1. /\ Cardinality(steps.notUnsat) <= Limit
      /\ StepsInv(steps) /\ StepsInv(Planned)
      /\ Planned.notUnsat = steps.notUnsat
  BY PlannedInv, ChainKeepsCheckpoints DEF CheckpointsBounded, Limit, Typed, Planned
<1>2. Cardinality(steps'.notUnsat) <= Limit
  <2>1. CASE /\ FreeTurn /\ Planned.status[Target] = "unsaturated"
             /\ CanSaturate(Planned, Target, PinnedTimes)
             /\ steps' = Saturated
    BY <1>1, <2>1, SaturatedCount
  <2>2. CASE /\ EventsTurn
             /\ \/ steps' = LastSaturating
                \/ steps' = StepEmitted(LastSaturating, Planned.last)
                \/ steps' = StepReady(LastSaturating, Planned.last)
    BY <1>1, <2>2, LastSaturatingCount, LastSaturatingInv, ChainKeepsCheckpoints
  <2>3. CASE \E t \in AdvanceTimes : steps' = DeleteBefore(steps, t)
    <3>1. steps'.notUnsat \in SUBSET steps.notUnsat
      BY <1>1, <2>3, ChainKeepsCheckpoints
    <3>2. IsFiniteSet(steps.notUnsat)
      <4>1. 0 \in Int /\ LastStep \in Int
        BY LastStepAssumption
      <4>2. IsFiniteSet(AllSteps) /\ steps.notUnsat \in SUBSET AllSteps
        BY <1>1, <4>1, FS_Interval, StepsTyped DEF AllSteps, StepsType
      <4> QED
        BY <4>2, FS_Subset
    <3>3. IsFiniteSet(steps'.notUnsat)
          /\ Cardinality(steps'.notUnsat) <= Cardinality(steps.notUnsat)
      BY <3>1, <3>2, FS_Subset
    <3>4. Cardinality(steps'.notUnsat) \in Nat /\ Cardinality(steps.notUnsat) \in Nat
      BY <3>2, <3>3, FS_CardinalityType
    <3> QED
      BY <1>1, <3>3, <3>4, LimitHasRoom
  <2> QED
    BY <1>1, <2>1, <2>2, <2>3, ChainMoves, ChainKeepsCheckpoints
<1> QED
  BY <1>2 DEF CheckpointsBounded, Limit

\* Whatever is polled, recomputed and given up, the states kept never outnumber
\* the budget or, where that is more, one per channel, the first and the last.
THEOREM CheckpointsAlwaysBounded == Spec => []CheckpointsBounded
<1>1. Init => CheckpointsBounded
  <2> SUFFICES ASSUME Init
               PROVE  CheckpointsBounded
    OBVIOUS
  <2>1. steps.notUnsat = {0}
    BY DEF Init, NewSteps
  <2>2. Cardinality(steps.notUnsat) = 1
    BY <2>1, FS_Singleton
  <2> QED
    BY <2>2, LimitHasRoom DEF CheckpointsBounded, Limit
<1>2. Typed /\ CheckpointsBounded /\ [Next]_vars => CheckpointsBounded'
  BY BoundedStep
<1> QED
  BY <1>1, <1>2, AlwaysTyped, PTL DEF Spec

-----------------------------------------------------------------------------
(* The progress of the blocked channels *)

\* The step has its checkpoint still, or is no later than the first retained one.
Passed(st, k) == k \in st.notUnsat \/ k <= st.numDeleted

\* Only saturate gives a checkpoint up, and not the one of a pinned time.
LEMMA PinnedCheckpointKept ==
  ASSUME Typed, [Next]_vars, NEW t \in PinnedTimes, t \in Nat, ~BeforeFirst(steps, t)
  PROVE  Passed(steps', NotUnsatAt(Planned, t))
<1> DEFINE k == NotUnsatAt(Planned, t)
<1> SUFFICES Passed(steps', k)
  OBVIOUS
<1>1. /\ StepsInv(steps) /\ StepsInv(Planned)
      /\ Planned.notUnsat = steps.notUnsat /\ Planned.numDeleted = steps.numDeleted
  BY PlannedInv, TryNextScheduledPlans DEF Planned, Typed
<1>2. k \in Planned.notUnsat
  BY <1>1, NotUnsatAtIsCheckpoint DEF BeforeFirst
<1>3. \A new : k \in NeededSteps(Planned, PinnedTimes, new)
  BY DEF NeededSteps
<1>4. /\ steps \in StepsType /\ k \in AllSteps
  BY <1>1, <1>2, StepsTyped DEF StepsType
<1>5. \A st, j : st \in StepsType =>
        /\ Passed(st, k) => Passed(StepEmitted(st, j), k)
        /\ Passed(st, k) => Passed(StepReady(st, j), k)
  BY DEF Passed, StepEmitted, StepReady, StepsType
<1>6. Passed(steps, k) /\ Passed(Planned, k)
  BY <1>1, <1>2 DEF Passed
<1> HIDE DEF k
<1>7. CASE /\ FreeTurn /\ Planned.status[Target] = "unsaturated"
           /\ CanSaturate(Planned, Target, PinnedTimes)
           /\ steps' = Saturated
  <2>1. Target \in Window(Planned)
    BY <1>7, TargetRetained
  <2> QED
    BY <1>1, <1>2, <1>3, <1>7, <2>1, SaturateKeepsNeeded DEF Saturated, Passed
<1>8. CASE /\ EventsTurn
           /\ \/ steps' = LastSaturating
              \/ steps' = StepEmitted(LastSaturating, Planned.last)
              \/ steps' = StepReady(LastSaturating, Planned.last)
  <2>1. Passed(LastSaturating, k)
    <3>1. CASE Planned.status[Planned.last] = "unsaturated"
      <4>1. /\ Planned.last \in Window(Planned)
            /\ CanSaturate(Planned, Planned.last, PinnedTimes)
        BY <1>8, <3>1, PlannedInv DEF EventsTurn
      <4> QED
        BY <1>1, <1>2, <1>3, <3>1, <4>1, SaturateKeepsNeeded DEF LastSaturating, Passed
    <3>2. CASE Planned.status[Planned.last] # "unsaturated"
      BY <1>6, <3>2 DEF LastSaturating
    <3> QED
      BY <3>1, <3>2
  <2>2. LastSaturating \in StepsType
    BY <1>8, LastSaturatingInv, StepsTyped
  <2> QED
    BY <1>5, <1>8, <2>1, <2>2
<1>9. CASE \E u \in AdvanceTimes : steps' = DeleteBefore(steps, u)
  <2>1. PICK u \in AdvanceTimes : steps' = DeleteBefore(steps, u)
    BY <1>9
  <2> DEFINE first == NotUnsatAt(steps, u)
  <2>2. CASE u <= steps.deletedBefore
    BY <1>6, <2>1, <2>2 DEF DeleteBefore
  <2>3. CASE ~(u <= steps.deletedBefore)
    <3>1. /\ steps'.notUnsat = {j \in steps.notUnsat : j >= first}
          /\ steps'.numDeleted = first
      BY <1>4, <2>1, <2>3 DEF DeleteBefore, StepsType
    <3>2. first \in AllSteps
      <4>1. StepsInv(steps')
        BY TypedStep DEF Typed
      <4> QED
        BY <3>1, <4>1 DEF StepsInv, StepsType
    <3>3. first \in Nat /\ k \in Nat
      BY <1>4, <3>2 DEF AllSteps
    <3> HIDE DEF first
    <3>4. k >= first \/ k <= first
      BY <3>3
    <3> QED
      BY <1>1, <1>2, <3>1, <3>4 DEF Passed
  <2> QED
    BY <2>2, <2>3
<1> QED
  BY <1>4, <1>5, <1>6, <1>7, <1>8, <1>9, ChainMoves

\* While a channel waits, whatever is given up, deleted and recomputed for the
\* others, the checkpoint its answer is computed from never moves back.
THEOREM PinnedProgressAlwaysKept == Spec => PinnedProgressKept
<1> DEFINE Kept(c) ==
       /\ blocked[c].on \in {"original", "repeat"}
       /\ blocked'[c] = blocked[c]
       /\ ~BeforeFirst(steps, blocked[c].time)
       /\ ~BeforeFirst(steps', blocked[c].time)
       => NotUnsatAt(steps, blocked[c].time) <= NotUnsatAt(steps', blocked[c].time)
<1>1. ASSUME Typed, Typed', [Next]_vars, NEW c \in Channels
      PROVE  Kept(c)
  <2> SUFFICES ASSUME blocked[c].on \in {"original", "repeat"},
                      ~BeforeFirst(steps, blocked[c].time),
                      ~BeforeFirst(steps', blocked[c].time)
               PROVE  NotUnsatAt(steps, blocked[c].time)
                        <= NotUnsatAt(steps', blocked[c].time)
    OBVIOUS
  <2> DEFINE t  == blocked[c].time
             k0 == NotUnsatAt(steps, t)
             k1 == NotUnsatAt(Planned, t)
             k2 == NotUnsatAt(steps', t)
  <2>1. blocked[c] \in BlockedType
    BY <1>1 DEF Typed
  <2>2. t \in PinnedTimes /\ t \in PollTimes
    BY <2>1, BlockedFields DEF PinnedTimes
  <2>3. t \in Nat
    BY <2>2, TimesAssumption
  <2>4. /\ StepsInv(steps) /\ StepsInv(Planned) /\ StepsInv(steps')
        /\ Planned.notUnsat = steps.notUnsat /\ Planned.numDeleted = steps.numDeleted
    BY <1>1, PlannedInv, TryNextScheduledPlans DEF Planned, Typed
  <2>5. Passed(steps', k1)
    BY <1>1, <2>2, <2>3, PinnedCheckpointKept
  <2> HIDE DEF t
  <2>6. ~BeforeFirst(steps, t) /\ ~BeforeFirst(Planned, t) /\ ~BeforeFirst(steps', t)
    BY <2>4 DEF BeforeFirst, t
  <2>7. /\ k0 \in steps.notUnsat /\ StepTime[k0] <= t
        /\ k1 \in steps.notUnsat /\ StepTime[k1] <= t
        /\ k2 \in steps'.notUnsat
    BY <2>3, <2>4, <2>6, NotUnsatAtIsInTime
  <2>8. k0 \in AllSteps /\ k1 \in AllSteps /\ k2 \in AllSteps
    BY <2>4, <2>7, StepsTyped DEF StepsType
  <2>9. k0 <= k1
    BY <2>3, <2>4, <2>6, <2>7, <2>8, NotUnsatAtIsLatest
  <2>10. k1 <= k2
    BY <2>3, <2>4, <2>5, <2>6, <2>7, <2>8, NotUnsatAtIsLatest DEF Passed
  <2> HIDE DEF k0, k1, k2
  <2>11. k0 <= k2
    BY <2>8, <2>9, <2>10, LastStepAssumption DEF AllSteps
  <2> QED
    BY <2>11 DEF k0, k2, t
<1>2. Typed /\ Typed' /\ [Next]_vars => [\A c \in Channels : Kept(c)]_vars
  BY <1>1
<1> QED
  BY <1>2, AlwaysTyped, PTL DEF Spec, PinnedProgressKept
=============================================================================
