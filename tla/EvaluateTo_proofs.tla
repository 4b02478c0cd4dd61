------------------------- MODULE EvaluateTo_proofs -------------------------
(***************************************************************************)
(* evaluate_to returns what the transposer does, for any transposer, any   *)
(* inputs and any time: the recursive functions that define what it does   *)
(* are unfolded, the inputs are sorted and grouped, and an inductive       *)
(* invariant relates the frame that runs to the instant it is at.          *)
(***************************************************************************)
EXTENDS EvaluateTo, FiniteSetTheorems, WellFoundedInduction, TLAPS

-----------------------------------------------------------------------------
(* Iteration: a recursive function is a choice among the solutions of its  *)
(* equation, so it satisfies the equation once there is a solution.        *)

\* A non-empty set of naturals has a least element.
LEMMA LeastNatural ==
  ASSUME NEW S \in SUBSET Nat, S # {}
  PROVE  \E x \in S : \A y \in S : x <= y
<1> DEFINE R == OpToRel(<, Nat)
<1>1. \E x \in S : \A y \in S : ~ (<<y, x>> \in R)
  BY WFMin, NatLessThanWellFounded
<1>2. ASSUME NEW x \in S, NEW y \in S, ~ (<<y, x>> \in R)
      PROVE  x <= y
  BY <1>2, SMT DEF OpToRel
<1> QED  BY <1>1, <1>2

\* Induction, over a set instead of a predicate.
LEMMA ByInduction ==
  ASSUME NEW T, 0 \in T, \A n \in Nat : n \in T => n + 1 \in T
  PROVE  \A n \in Nat : n \in T
<1> SUFFICES ASSUME NEW k \in Nat, k \notin T PROVE FALSE
  OBVIOUS
<1>1. PICK m \in Nat \ T : \A y \in Nat \ T : m <= y
  <2>1. Nat \ T \in SUBSET Nat /\ Nat \ T # {}
    OBVIOUS
  <2> QED  BY <2>1, LeastNatural
<1>2. m # 0 /\ m - 1 \in Nat /\ (m - 1) + 1 = m
  BY <1>1
<1>3. m - 1 \in T
  BY <1>1, <1>2
<1> QED  BY <1>1, <1>2, <1>3

\* What goes on from s by `step` for n steps.
Paths(S, s, step, n) ==
  {h \in [0..n -> S] : h[0] = s /\ \A i \in 1..n : h[i] = step[<<h[i - 1], i>>]}

\* Two paths agree as far as both go.
LEMMA PathsAgree ==
  ASSUME NEW S, NEW s, NEW step, NEW m \in Nat, NEW n \in Nat,
         NEW h \in Paths(S, s, step, m), NEW k \in Paths(S, s, step, n)
  PROVE  \A i \in Nat : i <= m /\ i <= n => h[i] = k[i]
<1> DEFINE T == {i \in Nat : i <= m /\ i <= n => h[i] = k[i]}
<1>1. 0 \in T
  BY DEF Paths
<1>2. ASSUME NEW i \in Nat, i \in T PROVE i + 1 \in T
  <2> SUFFICES ASSUME i + 1 <= m, i + 1 <= n PROVE h[i + 1] = k[i + 1]
    OBVIOUS
  <2>1. h[i] = k[i]
    BY <1>2
  <2>2. i + 1 \in 1..m /\ i + 1 \in 1..n /\ (i + 1) - 1 = i
    OBVIOUS
  <2> QED  BY <2>1, <2>2 DEF Paths
<1> HIDE DEF T
<1>3. \A i \in Nat : i \in T
  BY <1>1, <1>2, ByInduction
<1> QED  BY <1>3 DEF T

\* There is a path of any length.
LEMMA PathsExist ==
  ASSUME NEW S, NEW s \in S, NEW step \in [S \X Nat -> S]
  PROVE  \A n \in Nat : Paths(S, s, step, n) # {}
<1> DEFINE T == {n \in Nat : Paths(S, s, step, n) # {}}
<1>1. 0 \in T
  <2>1. [i \in 0..0 |-> s] \in Paths(S, s, step, 0)
    BY DEF Paths
  <2> QED  BY <2>1
<1>2. ASSUME NEW n \in Nat, n \in T PROVE n + 1 \in T
  <2>1. PICK h \in Paths(S, s, step, n) : TRUE
    BY <1>2
  <2>2. h \in [0..n -> S] /\ h[0] = s /\ \A i \in 1..n : h[i] = step[<<h[i - 1], i>>]
    BY <2>1 DEF Paths
  <2> DEFINE k == [i \in 0..(n + 1) |-> IF i = n + 1 THEN step[<<h[n], n + 1>>] ELSE h[i]]
  <2>3. \A i \in 0..n : k[i] = h[i] /\ h[i] \in S
    BY <2>2
  <2>4. k[n + 1] = step[<<h[n], n + 1>>] /\ step[<<h[n], n + 1>>] \in S
    BY <2>2
  <2>5. k \in [0..(n + 1) -> S]
    <3>1. ASSUME NEW i \in 0..(n + 1) PROVE k[i] \in S
      <4>1. i = n + 1 \/ i \in 0..n
        OBVIOUS
      <4> QED  BY <2>3, <2>4, <4>1
    <3> QED  BY <3>1
  <2> HIDE DEF k
  <2>6. \A i \in 1..(n + 1) : k[i] = step[<<k[i - 1], i>>]
    <3> TAKE i \in 1..(n + 1)
    <3>1. CASE i = n + 1
      <4>1. i - 1 = n /\ n \in 0..n
        BY <3>1
      <4> QED  BY <2>3, <2>4, <3>1, <4>1
    <3>2. CASE i \in 1..n
      <4>1. i \in 0..n /\ i - 1 \in 0..n
        BY <3>2
      <4> QED  BY <2>2, <2>3, <3>2, <4>1
    <3> QED  BY <3>1, <3>2
  <2>7. k[0] = s
    BY <2>2, <2>3
  <2>8. k \in Paths(S, s, step, n + 1)
    BY <2>5, <2>6, <2>7 DEF Paths
  <2> QED  BY <2>8
<1> HIDE DEF T
<1>3. \A n \in Nat : n \in T
  BY <1>1, <1>2, ByInduction
<1> QED  BY <1>3 DEF T

\* f goes on from s by `step`.
Iterates(f, s, step) == \A n \in Nat : f[n] = IF n = 0 THEN s ELSE step[<<f[n - 1], n>>]

\* The steps can be taken for ever: the equation of the iteration has a solution.
LEMMA IterationExists ==
  ASSUME NEW S, NEW s \in S, NEW step \in [S \X Nat -> S]
  PROVE  \E f \in [Nat -> S] : Iterates(f, s, step)
<1> DEFINE P(n) == CHOOSE h : h \in Paths(S, s, step, n)
           f    == [n \in Nat |-> P(n)[n]]
<1>1. \A n \in Nat : P(n) \in Paths(S, s, step, n)
  BY PathsExist
<1> HIDE DEF P
<1>2. \A n \in Nat : f[n] = P(n)[n] /\ P(n)[n] \in S
  <2> TAKE n \in Nat
  <2>1. P(n) \in [0..n -> S] /\ n \in 0..n
    BY <1>1 DEF Paths
  <2> QED  BY <2>1
<1>3. f \in [Nat -> S]
  BY <1>2
<1> HIDE DEF f
<1>4. \A n \in Nat : f[n] = IF n = 0 THEN s ELSE step[<<f[n - 1], n>>]
  <2> TAKE n \in Nat
  <2>1. CASE n = 0
    BY <1>1, <1>2, <2>1 DEF Paths
  <2>2. CASE n # 0
    <3>1. n - 1 \in Nat /\ n \in 1..n /\ n - 1 <= n /\ n - 1 <= n - 1
      BY <2>2
    <3>2. P(n)[n] = step[<<P(n)[n - 1], n>>]
      BY <1>1, <3>1 DEF Paths
    <3>3. P(n)[n - 1] = P(n - 1)[n - 1]
      BY <1>1, <3>1, PathsAgree
    <3> QED  BY <1>2, <2>2, <3>1, <3>2, <3>3
  <2> QED  BY <2>1, <2>2
<1> QED  BY <1>3, <1>4 DEF Iterates

-----------------------------------------------------------------------------
(* Sorting                                                                 *)

\* q holds the numbers of S, from the least to the greatest.
InOrder(q, S) == q \in [1..Cardinality(S) -> S] /\ \A i, j \in DOMAIN q : i < j => q[i] < q[j]

\* The least number comes first, and behind it the others, sorted.
LEMMA SortedExists ==
  ASSUME NEW S \in SUBSET Nat, IsFiniteSet(S)
  PROVE  \E q : InOrder(q, S)
<1> DEFINE T == {n \in Nat : \A U \in SUBSET Nat :
                   IsFiniteSet(U) /\ Cardinality(U) = n => \E q : InOrder(q, U)}
<1>1. 0 \in T
  <2> SUFFICES ASSUME NEW U \in SUBSET Nat, IsFiniteSet(U), Cardinality(U) = 0
               PROVE  \E q : InOrder(q, U)
    OBVIOUS
  <2>1. InOrder([i \in 1..0 |-> 0], U)
    BY DEF InOrder
  <2> QED  BY <2>1
<1>2. ASSUME NEW n \in Nat, n \in T PROVE n + 1 \in T
  <2> SUFFICES ASSUME NEW U \in SUBSET Nat, IsFiniteSet(U), Cardinality(U) = n + 1
               PROVE  \E q : InOrder(q, U)
    OBVIOUS
  <2>1. PICK m \in U : \A y \in U : m <= y
    <3>1. U # {}
      BY FS_EmptySet
    <3> QED  BY <3>1, LeastNatural
  <2>2. IsFiniteSet(U \ {m}) /\ Cardinality(U \ {m}) = n
    <3>1. IsFiniteSet(U \ {m}) /\ Cardinality(U \ {m}) = Cardinality(U) - 1
      BY <2>1, FS_RemoveElement
    <3> QED  BY <3>1
  <2>3. PICK q : InOrder(q, U \ {m})
    BY <1>2, <2>2
  <2>4. /\ q \in [1..n -> U \ {m}] /\ \A i, j \in 1..n : i < j => q[i] < q[j]
    BY <2>2, <2>3 DEF InOrder
  <2> DEFINE r == [i \in 1..(n + 1) |-> IF i = 1 THEN m ELSE q[i - 1]]
  <2>5. \A i \in 1..(n + 1) : i # 1 => i - 1 \in 1..n /\ r[i] = q[i - 1] /\ q[i - 1] \in U \ {m}
    BY <2>4
  <2>6. r[1] = m /\ r \in [1..(n + 1) -> U]
    BY <2>1, <2>5
  <2> HIDE DEF r
  <2>7. \A i, j \in 1..(n + 1) : i < j => r[i] < r[j]
    <3> SUFFICES ASSUME NEW i \in 1..(n + 1), NEW j \in 1..(n + 1), i < j PROVE r[i] < r[j]
      OBVIOUS
    <3>1. j # 1
      OBVIOUS
    <3>2. CASE i = 1
      <4>1. r[j] \in U \ {m}
        BY <2>5, <3>1
      <4>2. m <= r[j] /\ m # r[j] /\ m \in Nat /\ r[j] \in Nat
        BY <2>1, <4>1
      <4> QED  BY <2>6, <3>2, <4>2
    <3>3. CASE i # 1
      BY <2>4, <2>5, <3>1, <3>3
    <3> QED  BY <3>2, <3>3
  <2>8. InOrder(r, U)
    BY <2>6, <2>7 DEF InOrder
  <2> QED  BY <2>8
<1> HIDE DEF T
<1>3. Cardinality(S) \in T
  BY <1>1, <1>2, ByInduction, FS_CardinalityType
<1> QED  BY <1>3 DEF T

\* A set of numbers is sorted into a sequence, from the least to the greatest.
LEMMA SortedIs ==
  ASSUME NEW S \in SUBSET Nat, IsFiniteSet(S)
  PROVE  /\ Cardinality(S) \in Nat /\ Sorted(S) \in [1..Cardinality(S) -> S]
         /\ \A i, j \in 1..Cardinality(S) : i < j => Sorted(S)[i] < Sorted(S)[j]
         /\ \A x \in S : \E i \in 1..Cardinality(S) : Sorted(S)[i] = x
<1> DEFINE n == Cardinality(S)
           q == Sorted(S)
<1>1. InOrder(q, S)
  BY SortedExists DEF InOrder, Sorted
<1>2. n \in Nat
  BY FS_CardinalityType
<1>3. q \in [1..n -> S] /\ \A i, j \in 1..n : i < j => q[i] < q[j]
  BY <1>1 DEF InOrder
<1> HIDE DEF n, q
<1>4. ASSUME NEW x \in S, \A i \in 1..n : q[i] # x PROVE FALSE
  <2>1. q \in [1..n -> S \ {x}]
    BY <1>3, <1>4
  <2>2. IsFiniteSet(S \ {x}) /\ Cardinality(S \ {x}) = n - 1
    BY FS_RemoveElement DEF n
  <2>3. IsFiniteSet(1..n) /\ Cardinality(1..n) = n
    BY <1>2, FS_Interval
  <2>4. Cardinality(S \ {x}) < Cardinality(1..n)
    BY <1>2, <2>2, <2>3
  <2>5. PICK i, j \in 1..n : i # j /\ q[i] = q[j]
    <3>1. \E i, j \in 1..n : i # j /\ q[i] = q[j]
      <4> DEFINE A == 1..n
                 B == S \ {x}
      <4>1. IsFiniteSet(A) /\ IsFiniteSet(B) /\ Cardinality(B) < Cardinality(A) /\ q \in [A -> B]
        BY <2>1, <2>2, <2>3, <2>4
      <4> HIDE DEF A, B
      <4>2. \E i, j \in A : i # j /\ q[i] = q[j]
        BY <4>1, FS_PigeonHole
      <4> QED  BY <4>2 DEF A
    <3> QED  BY <3>1
  <2>6. q[i] \in Nat /\ q[j] \in Nat /\ (i < j \/ j < i)
    <3>1. q[i] \in S /\ q[j] \in S
      BY <1>3
    <3>2. i \in Nat /\ j \in Nat
      BY <1>2
    <3>3. q[i] \in Nat /\ q[j] \in Nat
      BY <3>1
    <3>4. i < j \/ j < i
      BY <2>5, <3>2
    <3> QED  BY <3>3, <3>4
  <2> QED  BY <1>3, <2>5, <2>6
<1> QED  BY <1>2, <1>3, <1>4 DEF n, q

-----------------------------------------------------------------------------
(* What a transposer does                                                  *)

Works  == Seq({"wait", "ask", "count", "emit", "plan"})
States == [seen : Seq(Nat), due : Nat, outputs : Seq([time : Nat, value : Nat])]

\* Operations, handlers and instants keep the type of the transposer.
LEMMA DoesType ==
  ASSUME NEW s \in States, NEW op, NEW t \in Nat, NEW what \in Seq(Nat)
  PROVE  Does(s, op, t, what) \in States
<1>1. s = [seen |-> s.seen, due |-> s.due, outputs |-> s.outputs]
      /\ s.seen \in Seq(Nat) /\ s.due \in Nat /\ s.outputs \in Seq([time : Nat, value : Nat])
  BY DEF States
<1>2. CASE op = "count"
  <2>1. Does(s, op, t, what) = [s EXCEPT !.seen = s.seen \o what] /\ s.seen \o what \in Seq(Nat)
    BY <1>1, <1>2 DEF Does
  <2> QED  BY <1>1, <2>1 DEF States
<1>3. CASE op = "emit"
  <2>1. [time |-> t, value |-> Len(s.seen)] \in [time : Nat, value : Nat]
    BY <1>1
  <2>2. /\ Does(s, op, t, what)
             = [s EXCEPT !.outputs = Append(s.outputs, [time |-> t, value |-> Len(s.seen)])]
        /\ Append(s.outputs, [time |-> t, value |-> Len(s.seen)]) \in Seq([time : Nat, value : Nat])
    BY <1>1, <1>3, <2>1 DEF Does
  <2> QED  BY <1>1, <2>2 DEF States
<1>4. CASE op = "plan"
  <2>1. Does(s, op, t, what) = [s EXCEPT !.due = s.due + 1] /\ s.due + 1 \in Nat
    BY <1>1, <1>4 DEF Does
  <2> QED  BY <1>1, <2>1 DEF States
<1>5. CASE op \notin {"count", "emit", "plan"}
  BY <1>5 DEF Does
<1> QED  BY <1>2, <1>3, <1>4, <1>5

\* A handler does one operation after the other.
LEMMA InHandlerIs ==
  ASSUME NEW s \in States, NEW work, NEW t \in Nat, NEW what \in Seq(Nat)
  PROVE  LET f == InHandler(s, work, t, what)
         IN  /\ f \in [Nat -> States] /\ f[0] = s
             /\ \A n \in Nat : f[n + 1] = Does(f[n], work[n + 1], t, what)
<1> DEFINE Eq(f) == f = [n \in Nat |-> IF n = 0 THEN s ELSE Does(f[n - 1], work[n], t, what)]
           step  == [x \in States \X Nat |-> Does(x[1], work[x[2]], t, what)]
           F     == InHandler(s, work, t, what)
<1>1. step \in [States \X Nat -> States]
  BY DoesType
<1>2. PICK g \in [Nat -> States] : Iterates(g, s, step)
  <2> HIDE DEF step
  <2> QED  BY <1>1, IterationExists
<1>3. Eq(g)
  <2>1. \A n \in Nat : n # 0 => step[<<g[n - 1], n>>] = Does(g[n - 1], work[n], t, what)
    <3> SUFFICES ASSUME NEW n \in Nat, n # 0
                 PROVE  step[<<g[n - 1], n>>] = Does(g[n - 1], work[n], t, what)
      OBVIOUS
    <3>1. n - 1 \in Nat
      OBVIOUS
    <3>2. g[n - 1] \in States
      <4> HIDE DEF step
      <4> QED  BY <1>2, <3>1
    <3> QED  BY <3>2
  <2> HIDE DEF step
  <2> QED  BY <1>2, <2>1 DEF Iterates
<1>4. F = CHOOSE f : Eq(f)
  BY DEF InHandler
<1>5. Eq(F)
  BY <1>3, <1>4
<1> HIDE DEF F
<1>6. F[0] = s /\ \A n \in Nat : F[n + 1] = Does(F[n], work[n + 1], t, what)
  <2>1. F[0] = s
    BY <1>5
  <2>2. ASSUME NEW n \in Nat PROVE F[n + 1] = Does(F[n], work[n + 1], t, what)
    <3>1. n + 1 \in Nat /\ n + 1 # 0 /\ (n + 1) - 1 = n
      OBVIOUS
    <3> QED  BY <1>5, <3>1
  <2> QED  BY <2>1, <2>2
<1>7. \A n \in Nat : F[n] \in States
  <2> DEFINE T == {n \in Nat : F[n] \in States}
  <2>1. 0 \in T
    BY <1>6
  <2>2. \A n \in Nat : n \in T => n + 1 \in T
    <3> SUFFICES ASSUME NEW n \in Nat, F[n] \in States PROVE F[n + 1] \in States
      OBVIOUS
    <3>1. F[n + 1] = Does(F[n], work[n + 1], t, what)
      BY <1>6
    <3> QED  BY <3>1, DoesType
  <2> HIDE DEF T
  <2>3. \A n \in Nat : n \in T
    BY <2>1, <2>2, ByInduction
  <2> QED  BY <2>3 DEF T
<1>8. F \in [Nat -> States]
  BY <1>5, <1>7
<1> QED  BY <1>6, <1>8 DEF F

\* A handler begins where the transposer is.
LEMMA InHandlerStarts ==
  ASSUME NEW s \in States, NEW work, NEW t \in Nat, NEW what \in Seq(Nat)
  PROVE  InHandler(s, work, t, what)[0] = s
  BY InHandlerIs

\* A handler, from one state of a transposer to another.
LEMMA HandlerType ==
  ASSUME NEW s \in States, NEW work \in Works, NEW t \in Nat, NEW what \in Seq(Nat)
  PROVE  Handler(s, work, t, what) \in States
<1>1. Len(work) \in Nat
  BY DEF Works
<1>2. InHandler(s, work, t, what) \in [Nat -> States]
  BY InHandlerIs
<1> QED  BY <1>1, <1>2 DEF Handler

\* Scheduled events are handled one after the other.
LEMMA RepeatedIs ==
  ASSUME NEW s \in States, NEW work \in Works, NEW t \in Nat
  PROVE  LET f == Repeated(s, work, t)
         IN  /\ f \in [Nat -> States] /\ f[0] = s
             /\ \A n \in Nat : f[n + 1] = Handler(f[n], work, t, <<0>>)
<1> DEFINE Eq(f) == f = [n \in Nat |-> IF n = 0 THEN s ELSE Handler(f[n - 1], work, t, <<0>>)]
           step  == [x \in States \X Nat |-> Handler(x[1], work, t, <<0>>)]
           F     == Repeated(s, work, t)
<1>0. s \in States
  OBVIOUS
<1>1. step \in [States \X Nat -> States]
  BY HandlerType, <<0>> \in Seq(Nat)
<1>2. PICK g \in [Nat -> States] : Iterates(g, s, step)
  <2> HIDE DEF step
  <2> QED  BY <1>0, <1>1, IterationExists
<1>3. Eq(g)
  <2>1. \A n \in Nat : n # 0 => step[<<g[n - 1], n>>] = Handler(g[n - 1], work, t, <<0>>)
    <3> SUFFICES ASSUME NEW n \in Nat, n # 0
                 PROVE  step[<<g[n - 1], n>>] = Handler(g[n - 1], work, t, <<0>>)
      OBVIOUS
    <3>1. n - 1 \in Nat
      OBVIOUS
    <3>2. g[n - 1] \in States
      <4> HIDE DEF step
      <4> QED  BY <1>2, <3>1
    <3> QED  BY <3>2
  <2> HIDE DEF step
  <2> QED  BY <1>2, <2>1 DEF Iterates
<1>4. F = CHOOSE f : Eq(f)
  BY DEF Repeated
<1>5. Eq(F)
  BY <1>3, <1>4
<1> HIDE DEF F
<1>6. F[0] = s /\ \A n \in Nat : F[n + 1] = Handler(F[n], work, t, <<0>>)
  <2>1. F[0] = s
    BY <1>5
  <2>2. ASSUME NEW n \in Nat PROVE F[n + 1] = Handler(F[n], work, t, <<0>>)
    <3>1. n + 1 \in Nat /\ n + 1 # 0 /\ (n + 1) - 1 = n
      OBVIOUS
    <3> QED  BY <1>5, <3>1
  <2> QED  BY <2>1, <2>2
<1>7. \A n \in Nat : F[n] \in States
  <2> DEFINE T == {n \in Nat : F[n] \in States}
  <2>1. 0 \in T
    BY <1>0, <1>6
  <2>2. \A n \in Nat : n \in T => n + 1 \in T
    <3> SUFFICES ASSUME NEW n \in Nat, F[n] \in States PROVE F[n + 1] \in States
      OBVIOUS
    <3>1. F[n + 1] = Handler(F[n], work, t, <<0>>)
      BY <1>6
    <3> QED  BY <3>1, HandlerType, <<0>> \in Seq(Nat)
  <2> HIDE DEF T
  <2>3. \A n \in Nat : n \in T
    BY <2>1, <2>2, ByInduction
  <2> QED  BY <2>3 DEF T
<1>8. F \in [Nat -> States]
  BY <1>5, <1>7
<1> QED  BY <1>6, <1>8 DEF F

\* The inputs of a time are those that arrive at it.
LEMMA InputsAtIs ==
  ASSUME NEW n \in Nat, NEW arrivals \in [1..n -> Nat], NEW t \in Nat
  PROVE  /\ InputsAt(arrivals, t) \in Seq(Nat)
         /\ InputsAt(arrivals, t) = <<>> <=> \A i \in 1..n : arrivals[i] # t
<1> DEFINE S == {i \in DOMAIN arrivals : arrivals[i] = t}
           m == Cardinality(S)
<1>1. S \in SUBSET Nat /\ \A i \in S : i <= n
  OBVIOUS
<1>2. S = {} <=> \A i \in 1..n : arrivals[i] # t
  OBVIOUS
<1>3. InputsAt(arrivals, t) = Sorted(S)
  BY DEF InputsAt
<1> HIDE DEF S
<1>4. IsFiniteSet(S)
  BY <1>1, FS_BoundedSetOfNaturals
<1>5. m \in Nat /\ Sorted(S) \in [1..m -> S] /\ (m = 0 <=> S = {})
  BY <1>1, <1>4, SortedIs, FS_EmptySet
<1> HIDE DEF m
<1>6. Sorted(S) \in [1..m -> Nat]
  BY <1>1, <1>5
<1>7. Sorted(S) \in Seq(Nat) /\ Len(Sorted(S)) = m
  BY <1>5, <1>6
<1>8. Sorted(S) = <<>> <=> m = 0
  BY <1>5, <1>7
<1> QED  BY <1>2, <1>3, <1>5, <1>7, <1>8

\* The inputs of each time are a sequence.
Arrivals(arrivals) == \A t \in Nat : InputsAt(arrivals, t) \in Seq(Nat)

\* The inputs of an instant, if there are any.
LEMMA WithInputsType ==
  ASSUME NEW s \in States, NEW p \in [Handlers -> Works], NEW arrivals, Arrivals(arrivals),
         NEW t \in Nat
  PROVE  WithInputs(s, p, arrivals, t) \in States
<1>1. p["input"] \in Works /\ InputsAt(arrivals, t) \in Seq(Nat)
  BY DEF Handlers, Arrivals
<1> QED  BY <1>1, HandlerType DEF WithInputs

\* An instant, which begins with nothing due.
LEMMA InstantType ==
  ASSUME NEW s \in States, NEW p \in [Handlers -> Works], NEW arrivals, Arrivals(arrivals),
         NEW t \in Nat
  PROVE  /\ [s EXCEPT !.due = 0] \in States /\ s.due \in Nat
         /\ Instant(s, p, arrivals, t) \in States
<1>1. [s EXCEPT !.due = 0] \in States /\ s.due \in Nat
  BY DEF States
<1>2. p["scheduled"] \in Works
  BY DEF Handlers
<1>3. WithInputs([s EXCEPT !.due = 0], p, arrivals, t) \in States
  BY <1>1, WithInputsType
<1>4. Repeated(WithInputs([s EXCEPT !.due = 0], p, arrivals, t), p["scheduled"], t) \in [Nat -> States]
  BY <1>2, <1>3, RepeatedIs
<1> QED  BY <1>1, <1>4 DEF Instant

\* The first instant: init, and the inputs of the start.
First(p, arrivals) == WithInputs(Handler(Nothing, p["init"], 0, <<0>>), p, arrivals, 0)

\* The instants follow each other.
LEMMA InstantsIs ==
  ASSUME NEW p \in [Handlers -> Works], NEW arrivals, Arrivals(arrivals)
  PROVE  LET f == Instants(p, arrivals)
         IN  /\ f \in [Nat -> States] /\ f[0] = First(p, arrivals)
             /\ \A t \in Nat : f[t + 1] = Instant(f[t], p, arrivals, t + 1)
<1> DEFINE Eq(f) == f = [n \in Nat |-> IF n = 0 THEN First(p, arrivals)
                                     ELSE Instant(f[n - 1], p, arrivals, n)]
           step  == [x \in States \X Nat |-> Instant(x[1], p, arrivals, x[2])]
           F     == Instants(p, arrivals)
<1>0. First(p, arrivals) \in States
  <2>1. Nothing \in States /\ <<0>> \in Seq(Nat)
    BY DEF Nothing, States
  <2>2. Handler(Nothing, p["init"], 0, <<0>>) \in States
    BY <2>1, HandlerType DEF Handlers
  <2> QED  BY <2>2, WithInputsType DEF First
<1>1. step \in [States \X Nat -> States]
  BY InstantType
<1>2. PICK g \in [Nat -> States] : Iterates(g, First(p, arrivals), step)
  <2> HIDE DEF step
  <2> QED  BY <1>0, <1>1, IterationExists
<1>3. Eq(g)
  <2>1. \A n \in Nat : n # 0 => step[<<g[n - 1], n>>] = Instant(g[n - 1], p, arrivals, n)
    <3> SUFFICES ASSUME NEW n \in Nat, n # 0
                 PROVE  step[<<g[n - 1], n>>] = Instant(g[n - 1], p, arrivals, n)
      OBVIOUS
    <3>1. n - 1 \in Nat
      OBVIOUS
    <3>2. g[n - 1] \in States
      <4> HIDE DEF step
      <4> QED  BY <1>2, <3>1
    <3> QED  BY <3>2
  <2> HIDE DEF step
  <2> QED  BY <1>2, <2>1 DEF Iterates
<1>4. F = CHOOSE f : Eq(f)
  BY DEF Instants, First
<1>5. Eq(F)
  BY <1>3, <1>4
<1> HIDE DEF F
<1>6. F[0] = First(p, arrivals) /\ \A n \in Nat : F[n + 1] = Instant(F[n], p, arrivals, n + 1)
  <2>1. F[0] = First(p, arrivals)
    BY <1>5
  <2>2. ASSUME NEW n \in Nat PROVE F[n + 1] = Instant(F[n], p, arrivals, n + 1)
    <3>1. n + 1 \in Nat /\ n + 1 # 0 /\ (n + 1) - 1 = n
      OBVIOUS
    <3> QED  BY <1>5, <3>1
  <2> QED  BY <2>1, <2>2
<1>7. \A n \in Nat : F[n] \in States
  <2> DEFINE T == {n \in Nat : F[n] \in States}
  <2>1. 0 \in T
    BY <1>0, <1>6
  <2>2. \A n \in Nat : n \in T => n + 1 \in T
    <3> SUFFICES ASSUME NEW n \in Nat, F[n] \in States PROVE F[n + 1] \in States
      OBVIOUS
    <3>1. F[n + 1] = Instant(F[n], p, arrivals, n + 1)
      BY <1>6
    <3>2. n + 1 \in Nat
      OBVIOUS
    <3>3. Instant(F[n], p, arrivals, n + 1) \in States
      BY <3>2, InstantType
    <3> QED  BY <3>1, <3>3
  <2> HIDE DEF T
  <2>3. \A n \in Nat : n \in T
    BY <2>1, <2>2, ByInduction
  <2> QED  BY <2>3 DEF T
<1>8. F \in [Nat -> States]
  BY <1>5, <1>7
<1> QED  BY <1>6, <1>8 DEF F

\* Nothing is done at instants for which nothing is scheduled and at which nothing arrives.
LEMMA QuietInstants ==
  ASSUME NEW p \in [Handlers -> Works], NEW arrivals, Arrivals(arrivals),
         NEW t \in Nat, NEW u \in Nat, t <= u, Instants(p, arrivals)[t].due = 0,
         \A v \in Nat : t < v /\ v <= u => InputsAt(arrivals, v) = <<>>
  PROVE  Instants(p, arrivals)[u] = Instants(p, arrivals)[t]
<1> DEFINE F == Instants(p, arrivals)
           T == {n \in Nat : t <= n /\ n <= u => F[n] = F[t]}
<1>1. F \in [Nat -> States] /\ \A n \in Nat : F[n + 1] = Instant(F[n], p, arrivals, n + 1)
  BY InstantsIs
<1> HIDE DEF F
<1>2. F[t].due = 0
  BY DEF F
<1>3. 0 \in T
  OBVIOUS
<1>4. ASSUME NEW n \in Nat, n \in T PROVE n + 1 \in T
  <2> SUFFICES ASSUME t <= n + 1, n + 1 <= u PROVE F[n + 1] = F[t]
    OBVIOUS
  <2>1. CASE t = n + 1
    BY <2>1
  <2>2. CASE t <= n
    <3> DEFINE s == F[t]
    <3>1. F[n] = s /\ s \in States /\ s.due = 0
      BY <1>1, <1>2, <1>4, <2>2
    <3>2. InputsAt(arrivals, n + 1) = <<>>
      BY <2>2
    <3> HIDE DEF s
    <3>3. [s EXCEPT !.due = 0] = s
      BY <3>1 DEF States
    <3>4. Instant(s, p, arrivals, n + 1) = Repeated(s, p["scheduled"], n + 1)[0]
      BY <3>1, <3>2, <3>3 DEF Instant, WithInputs
    <3>5. p["scheduled"] \in Works /\ n + 1 \in Nat
      BY DEF Handlers
    <3>6. Repeated(s, p["scheduled"], n + 1)[0] = s
      BY <3>1, <3>5, RepeatedIs
    <3> QED  BY <1>1, <3>1, <3>4, <3>6 DEF s
  <2> QED  BY <2>1, <2>2
<1> HIDE DEF T
<1>5. \A n \in Nat : n \in T
  BY <1>3, <1>4, ByInduction
<1> QED  BY <1>5 DEF T, F

-----------------------------------------------------------------------------
(* What holds of an evaluation                                             *)

\* The transposer, as it is now; as it is when the instant t begins, and when its inputs are handled,
\* how many events are scheduled for it, and as it is after each of these.
Now        == [seen |-> seen, due |-> schedule[frame.time + 1], outputs |-> outputs]
Until(t)   == Instants(program, given)[t]
Begun(t)   == IF t = 0 THEN Handler(Nothing, program["init"], 0, <<0>>)
              ELSE [Until(t - 1) EXCEPT !.due = 0]
Pending(t) == IF t = 0 THEN 0 ELSE Until(t - 1).due
Handling(t) == Repeated(WithInputs(Begun(t), program, given, t), program["scheduled"], t)

\* `work` is what is left of w after n operations.
Left(work, w, n) ==
  Len(work) = Len(w) - n /\ \A i \in 1..Len(work) : work[i] = w[n + i]

\* The future of the frame is in a handler that began with the transposer as `start`.
InWork(start, w) ==
  \E n \in 0..Len(w) : /\ Left(running.work, w, n)
                       /\ Now = InHandler(start, w, frame.time, Handled)[n]

\* When that handler is done, so is init, or one more of the scheduled events.
Leads(start, w) ==
  IF frame.number = 1
  THEN schedule[0] = 0 /\ Handler(start, w, 0, Handled) = Begun(0)
  ELSE /\ schedule[frame.time] <= Pending(frame.time)
       /\ Handler(start, w, frame.time, Handled)
            = Handling(frame.time)[Pending(frame.time) - schedule[frame.time]]

WorkInv == ~interpolating => \E start \in States, w \in Works : InWork(start, w) /\ Leads(start, w)

ArgsInv ==
  /\ program \in Programs /\ until \in Times
  /\ \E n \in Nat : given \in [1..n -> Times]

Futures == [work : Works, input_state : {"empty", "requested", "full"}]

FrameInv ==
  /\ frame \in [time : Nat, inputs : Seq(Nat), number : Nat \ {0}]
  /\ frame.time <= until /\ (frame.number = 1 => frame.time = 0)
  /\ schedule \in [0..(LastTime + 1) -> Nat]
  /\ \A t \in DOMAIN schedule : schedule[t] > 0 => t \in {frame.time, frame.time + 1}
  /\ running \in Futures
  /\ interpolating \in BOOLEAN

\* The times whose inputs the events hold.
Late == {t \in Occurring : t <= until /\ (frame.number = 1 \/ frame.time < t)}

EventsInv ==
  /\ Len(events) \in Nat /\ events \in Seq([time : Times, inputs : Seq(Nat)])
  /\ \A i \in 1..Len(events) :
       events[i].time \in Late /\ events[i].inputs = InputsAt(given, events[i].time)
  /\ \A i, j \in 1..Len(events) : i < j => events[i].time < events[j].time
  /\ \A t \in Late : \E i \in 1..Len(events) : events[i].time = t

\* An interpolation has all that was done up to `until`, and changes nothing.
OutcomeInv ==
  /\ interpolating => /\ running.work \in Seq({"wait", "ask"})
                      /\ seen = Evaluated.seen /\ outputs = Evaluated.outputs
  /\ result = "ready" => interpolating

Inv == ArgsInv /\ FrameInv /\ EventsInv /\ WorkInv /\ OutcomeInv

\* A state is fetched for the frame at most once, at its time; then it has it, or is getting it.
AskedInv ==
  /\ asked \in Seq([frame : Nat, time : Nat])
  /\ result # "panic"
  /\ running.input_state \in {"empty", "requested", "full"}
  /\ state_fut => running.input_state = "requested"
  /\ \A i, j \in 1..Len(asked) : 
       i < j => asked[i].frame # asked[j].frame /\ asked[i].time <= asked[j].time
  /\ \A i \in 1..Len(asked) :
       IF asked[i].frame = 0 THEN interpolating /\ asked[i].time = until
       ELSE asked[i].frame <= frame.number /\ asked[i].time <= frame.time
  /\ ~state_fut /\ running.input_state # "full" =>
       \A i \in 1..Len(asked) : asked[i].frame # IF interpolating THEN 0 ELSE frame.number

\* What is given does not change, and has these types.
LEMMA ArgsFacts ==
  ASSUME ArgsInv
  PROVE  /\ program \in [Handlers -> Works] /\ Arrivals(given)
         /\ program["interpolate"] \in Seq({"wait", "ask"})
         /\ LastTime \in Nat /\ until \in Nat /\ until <= LastTime
         /\ Occurring \in SUBSET Times /\ Times \in SUBSET Nat
         /\ \A t \in Nat : InputsAt(given, t) \in Seq(Nat)
         /\ \A t \in Nat : InputsAt(given, t) = <<>> <=> t \notin Occurring
<1>1. PICK n \in Nat : given \in [1..n -> Times]
  BY DEF ArgsInv
<1>2. LastTime \in Nat /\ Times \in SUBSET Nat /\ until \in Nat /\ until <= LastTime
  BY EvaluateToAssumption DEF ArgsInv, Times
<1>3. program \in [Handlers -> Works] /\ program["interpolate"] \in Seq({"wait", "ask"})
  BY EvaluateToAssumption DEF ArgsInv, Works
<1>4. given \in [1..n -> Nat]
  BY <1>1, <1>2
<1>5. Occurring \in SUBSET Times /\ \A t : t \in Occurring <=> \E i \in 1..n : given[i] = t
  BY <1>1 DEF Occurring
<1>6. \A t \in Nat : /\ InputsAt(given, t) \in Seq(Nat)
                     /\ InputsAt(given, t) = <<>> <=> \A i \in 1..n : given[i] # t
  BY <1>4, InputsAtIs
<1> QED  BY <1>2, <1>3, <1>5, <1>6 DEF Arrivals

\* An instant is its inputs, and then what is scheduled.
LEMMA InstantFacts ==
  ASSUME ArgsInv, NEW t \in Nat
  PROVE  /\ Until(t) \in States /\ Begun(t) \in States /\ Pending(t) \in Nat
         /\ Handling(t) \in [Nat -> States]
         /\ Handling(t)[0] = WithInputs(Begun(t), program, given, t)
         /\ \A n \in Nat : Handling(t)[n + 1] = Handler(Handling(t)[n], program["scheduled"], t, <<0>>)
         /\ Until(t) = Handling(t)[Pending(t)]
<1>1. program \in [Handlers -> Works] /\ Arrivals(given)
  BY ArgsFacts
<1>2. /\ \A u \in Nat : Until(u) \in States
      /\ Until(0) = First(program, given)
      /\ \A u \in Nat : Until(u + 1) = Instant(Until(u), program, given, u + 1)
  <2> DEFINE F == Instants(program, given)
  <2>1. F \in [Nat -> States] /\ F[0] = First(program, given)
        /\ \A u \in Nat : F[u + 1] = Instant(F[u], program, given, u + 1)
    BY <1>1, InstantsIs
  <2> HIDE DEF F
  <2>2. \A u : Until(u) = F[u]
    BY DEF Until, F
  <2> QED  BY <2>1, <2>2
<1>3. Begun(t) \in States /\ Pending(t) \in Nat
  <2>1. CASE t = 0
    <3>1. Nothing \in States /\ <<0>> \in Seq(Nat) /\ program["init"] \in Works
      BY <1>1 DEF Nothing, States, Handlers
    <3>2. Handler(Nothing, program["init"], 0, <<0>>) \in States
      BY <3>1, HandlerType
    <3> QED  BY <2>1, <3>2 DEF Begun, Pending
  <2>2. CASE t # 0
    <3>1. t - 1 \in Nat
      BY <2>2
    <3>2. Until(t - 1) \in States
      BY <1>2, <3>1
    <3>3. Until(t - 1).due \in Nat /\ [Until(t - 1) EXCEPT !.due = 0] \in States
      BY <3>2 DEF States
    <3> QED  BY <2>2, <3>3 DEF Begun, Pending
  <2> QED  BY <2>1, <2>2
<1>4. program["scheduled"] \in Works
  BY <1>1 DEF Handlers
<1>5. WithInputs(Begun(t), program, given, t) \in States
  BY <1>1, <1>3, WithInputsType
<1>6. /\ Handling(t) \in [Nat -> States]
      /\ Handling(t)[0] = WithInputs(Begun(t), program, given, t)
      /\ \A n \in Nat : Handling(t)[n + 1] = Handler(Handling(t)[n], program["scheduled"], t, <<0>>)
  BY <1>4, <1>5, RepeatedIs DEF Handling
<1>7. Until(t) = Handling(t)[Pending(t)]
  <2>1. CASE t = 0
    <3>1. Until(0) = WithInputs(Begun(0), program, given, 0) /\ Pending(0) = 0
      BY <1>2 DEF First, Begun, Pending
    <3> QED  BY <1>6, <2>1, <3>1
  <2>2. CASE t # 0
    <3>1. t - 1 \in Nat /\ (t - 1) + 1 = t
      BY <2>2
    <3>2. Until(t) = Instant(Until(t - 1), program, given, t)
      BY <1>2, <3>1
    <3> QED  BY <2>2, <3>2 DEF Instant, Handling, Begun, Pending
  <2> QED  BY <2>1, <2>2
<1> QED  BY <1>2, <1>3, <1>6, <1>7

\* As the arguments stay, so does all that is defined by them.
LEMMA ArgsStay ==
  ASSUME ArgsInv, UNCHANGED args
  PROVE  /\ ArgsInv' /\ Occurring' = Occurring
         /\ \A t : Until(t)' = Until(t) /\ Begun(t)' = Begun(t) /\ Pending(t)' = Pending(t)
                   /\ Handling(t)' = Handling(t)
<1>1. program' = program /\ given' = given /\ until' = until
  BY DEF args
<1>2. ArgsInv' /\ Occurring' = Occurring
  BY <1>1 DEF ArgsInv, Occurring
<1>3. \A t : Until(t)' = Until(t)
  BY <1>1 DEF Until
<1>4. \A t : Begun(t)' = Begun(t) /\ Pending(t)' = Pending(t)
  BY <1>1, <1>3 DEF Begun, Pending
<1>5. \A t : Handling(t)' = Handling(t)
  BY <1>1, <1>4 DEF Handling
<1> QED  BY <1>2, <1>3, <1>4, <1>5

\* The frame is at a time up to `until`, which the schedule covers, and the one after.
LEMMA NowFacts ==
  ASSUME ArgsInv, FrameInv
  PROVE  /\ frame.time \in Nat /\ frame.time <= until /\ frame.number \in Nat \ {0}
         /\ frame.time \in DOMAIN schedule /\ frame.time + 1 \in DOMAIN schedule
         /\ schedule[frame.time] \in Nat /\ schedule[frame.time + 1] \in Nat
         /\ Handled \in Seq(Nat)
<1>1. frame.time \in Nat /\ frame.inputs \in Seq(Nat) /\ frame.number \in Nat \ {0}
      /\ frame.time <= until
  BY DEF FrameInv
<1>2. LastTime \in Nat /\ until \in Nat /\ until <= LastTime
  BY ArgsFacts
<1>3. schedule \in [0..(LastTime + 1) -> Nat]
  BY DEF FrameInv
<1>4. frame.time \in 0..(LastTime + 1) /\ frame.time + 1 \in 0..(LastTime + 1)
  BY <1>1, <1>2
<1>5. Handled \in Seq(Nat)
  BY <1>1 DEF Handled
<1> QED  BY <1>1, <1>3, <1>4, <1>5

-----------------------------------------------------------------------------
(* In a handler                                                            *)

\* Nothing happens to the transposer.
LEMMA WorkStays ==
  ASSUME ArgsInv, UNCHANGED args, frame' = frame, schedule' = schedule, seen' = seen,
         outputs' = outputs, running'.work = running.work, interpolating' = interpolating,
         WorkInv
  PROVE  WorkInv'
<1> SUFFICES ASSUME ~interpolating PROVE WorkInv'
  BY DEF WorkInv
<1>1. PICK start \in States, w \in Works : InWork(start, w) /\ Leads(start, w)
  BY DEF WorkInv
<1>2. Handled' = Handled /\ Now' = Now
  BY DEF Handled, Now
<1>3. InWork(start, w)'
  BY <1>1, <1>2 DEF InWork
<1>4. Leads(start, w)'
  BY <1>1, <1>2, ArgsStay DEF Leads
<1> QED  BY <1>3, <1>4 DEF WorkInv

\* The handler does its next operation.
LEMMA WorkGoes ==
  ASSUME ArgsInv, FrameInv, UNCHANGED args, frame' = frame,
         schedule'[frame.time] = schedule[frame.time], schedule'[0] = schedule[0],
         interpolating' = interpolating, running.work # <<>>, Goes,
         Now' = Does(Now, Head(running.work), frame.time, Handled), WorkInv
  PROVE  WorkInv'
<1> SUFFICES ASSUME ~interpolating PROVE WorkInv'
  BY DEF WorkInv
<1>1. PICK start \in States, w \in Works : InWork(start, w) /\ Leads(start, w)
  BY DEF WorkInv
<1>2. Handled' = Handled
  BY DEF Handled
<1>3. PICK n \in 0..Len(w) : /\ Left(running.work, w, n)
                             /\ Now = InHandler(start, w, frame.time, Handled)[n]
  BY <1>1 DEF InWork
<1>4. running.work \in Works /\ running'.work = Tail(running.work) /\ Len(w) \in Nat
  BY DEF FrameInv, Goes, Works, Futures
<1>5. /\ Len(running.work) = Len(w) - n /\ \A i \in 1..Len(running.work) : running.work[i] = w[n + i]
      /\ Len(running.work) # 0
  BY <1>3, <1>4 DEF Left, Works
<1>6. n \in Nat /\ n + 1 \in 0..Len(w) /\ Head(running.work) = w[n + 1]
  BY <1>4, <1>5 DEF Works
<1>7. Left(running'.work, w, n + 1)
  <2>1. Len(running'.work) = Len(w) - (n + 1)
    BY <1>4, <1>5, <1>6 DEF Works
  <2>2. ASSUME NEW i \in 1..Len(running'.work) PROVE running'.work[i] = w[(n + 1) + i]
    <3>1. running'.work[i] = running.work[i + 1] /\ i + 1 \in 1..Len(running.work) /\ i \in Nat
      BY <1>4, <1>5 DEF Works
    <3>2. n + (i + 1) = (n + 1) + i
      BY <1>6, <3>1
    <3> QED  BY <1>5, <3>1, <3>2
  <2> QED  BY <2>1, <2>2 DEF Left
<1>8. Now' = InHandler(start, w, frame.time, Handled)[n + 1]
  <2>1. frame.time \in Nat /\ Handled \in Seq(Nat)
    BY NowFacts
  <2>2. InHandler(start, w, frame.time, Handled)[n + 1]
          = Does(InHandler(start, w, frame.time, Handled)[n], w[n + 1], frame.time, Handled)
    <3> DEFINE t == frame.time
               h == Handled
    <3>1. t \in Nat /\ h \in Seq(Nat)
      BY <2>1
    <3> HIDE DEF t, h
    <3>2. \A k \in Nat : InHandler(start, w, t, h)[k + 1]
                           = Does(InHandler(start, w, t, h)[k], w[k + 1], t, h)
      BY <3>1, InHandlerIs
    <3> QED  BY <1>6, <3>2 DEF t, h
  <2> QED  BY <1>3, <1>6, <2>2
<1>9. InWork(start, w)'
  BY <1>2, <1>6, <1>7, <1>8 DEF InWork
<1>10. Leads(start, w)'
  BY <1>1, <1>2, ArgsStay DEF Leads
<1> QED  BY <1>9, <1>10 DEF WorkInv

\* The events that are left, while the frame is at the same time.
LEMMA EventsStay ==
  ASSUME ArgsInv, UNCHANGED <<args, events>>, frame'.number = frame.number, frame'.time = frame.time,
         EventsInv
  PROVE  EventsInv'
<1>1. Late' = Late /\ given' = given
  BY ArgsStay DEF Late, args
<1> QED  BY <1>1 DEF EventsInv

\* The outcome, while the transposer does nothing.
LEMMA OutcomeStays ==
  ASSUME ArgsInv, UNCHANGED <<args, seen, outputs, interpolating>>,
         interpolating => running'.work \in Seq({"wait", "ask"}),
         result' = "ready" => result = "ready" \/ interpolating, OutcomeInv
  PROVE  OutcomeInv'
<1>1. Evaluated' = Evaluated
  BY DEF Evaluated, args
<1> QED  BY <1>1 DEF OutcomeInv

\* Futures pend and are woken, and states are fetched: nothing else happens meanwhile.
LEMMA InvWhilePending ==
  ASSUME Inv, UNCHANGED <<args, events, frame, interpolating, schedule, seen, outputs>>,
         running' \in Futures, running'.work = running.work, result' = "ready" => result = "ready"
  PROVE  Inv'
<1>1. ArgsInv' /\ WorkInv' /\ EventsInv'
  BY ArgsStay, WorkStays, EventsStay DEF Inv
<1>2. FrameInv'
  BY DEF Inv, FrameInv, args
<1>3. OutcomeInv'
  BY OutcomeStays DEF Inv, OutcomeInv
<1> QED  BY <1>1, <1>2, <1>3 DEF Inv

\* In a handler.
LEMMA InvOperation ==
  ASSUME Inv, UNCHANGED <<args, events, frame, interpolating, result>>, running.work # <<>>, Goes,
         Now' = Does(Now, Head(running.work), frame.time, Handled),
         schedule' \in [0..(LastTime + 1) -> Nat],
         \A t \in 0..(LastTime + 1) : t # frame.time + 1 => schedule'[t] = schedule[t],
         interpolating => UNCHANGED <<seen, outputs>>
  PROVE  Inv'
<1>1. /\ frame.time \in Nat /\ frame.time \in 0..(LastTime + 1) /\ frame.time # frame.time + 1
      /\ 0 \in 0..(LastTime + 1) /\ 0 # frame.time + 1
  <2>1. frame.time \in Nat /\ frame.time \in DOMAIN schedule /\ LastTime \in Nat
    BY NowFacts, ArgsFacts DEF Inv
  <2>2. DOMAIN schedule = 0..(LastTime + 1)
    BY DEF Inv, FrameInv
  <2> QED  BY <2>1, <2>2
<1>2. running.work \in Works /\ running'.work = Tail(running.work) /\ running' \in Futures
  <2>1. running \in Futures /\ running.work \in Works
    BY DEF Inv, FrameInv, Futures
  <2>2. Tail(running.work) \in Works
    BY <2>1 DEF Works
  <2> QED  BY <2>1, <2>2 DEF Goes, Futures
<1>3. ArgsInv' /\ EventsInv'
  BY ArgsStay, EventsStay DEF Inv
<1>4. WorkInv'
  BY <1>1, WorkGoes DEF Inv
<1>5. FrameInv'
  BY <1>1, <1>2 DEF Inv, FrameInv, args
<1>6. OutcomeInv'
  <2>1. Evaluated' = Evaluated
    BY DEF Evaluated, args
  <2>2. interpolating => running'.work \in Seq({"wait", "ask"})
    BY <1>2 DEF Inv, OutcomeInv
  <2> QED  BY <2>1, <2>2 DEF Inv, OutcomeInv
<1> QED  BY <1>3, <1>4, <1>5, <1>6 DEF Inv

\* What is handled is counted.
LEMMA InvCounts ==
  ASSUME Inv, Counts
  PROVE  Inv'
<1>1. /\ UNCHANGED <<args, events, frame, interpolating, result>> /\ running.work # <<>> /\ Goes
      /\ Head(running.work) = "count" /\ schedule' = schedule /\ seen' = seen \o Handled
      /\ outputs' = outputs
  BY DEF Counts, Runs, StillRuns
<1>2. Now' = Does(Now, Head(running.work), frame.time, Handled)
  BY <1>1 DEF Now, Does
<1>3. schedule \in [0..(LastTime + 1) -> Nat]
  BY DEF Inv, FrameInv
<1>4. ~interpolating
  BY <1>1 DEF Inv, OutcomeInv
<1> QED  BY <1>1, <1>2, <1>3, <1>4, InvOperation

\* The count is emitted.
LEMMA InvEmits ==
  ASSUME Inv, Emits
  PROVE  Inv'
<1>1. /\ UNCHANGED <<args, events, frame, interpolating, result>> /\ running.work # <<>> /\ Goes
      /\ Head(running.work) = "emit" /\ schedule' = schedule /\ seen' = seen
      /\ outputs' = Append(outputs, [time |-> frame.time, value |-> Len(seen)])
  BY DEF Emits, Runs, StillRuns
<1>2. Now' = Does(Now, Head(running.work), frame.time, Handled)
  BY <1>1 DEF Now, Does
<1>3. schedule \in [0..(LastTime + 1) -> Nat]
  BY DEF Inv, FrameInv
<1>4. ~interpolating
  BY <1>1 DEF Inv, OutcomeInv
<1> QED  BY <1>1, <1>2, <1>3, <1>4, InvOperation

\* An event is scheduled.
LEMMA InvPlans ==
  ASSUME Inv, Plans
  PROVE  Inv'
<1>1. /\ UNCHANGED <<args, events, frame, interpolating, result>> /\ running.work # <<>> /\ Goes
      /\ Head(running.work) = "plan" /\ seen' = seen /\ outputs' = outputs
      /\ schedule' = [schedule EXCEPT ![frame.time + 1] = @ + 1]
  BY DEF Plans, Runs, StillRuns
<1>2. /\ schedule \in [0..(LastTime + 1) -> Nat] /\ frame.time + 1 \in DOMAIN schedule
      /\ schedule[frame.time + 1] \in Nat
  BY NowFacts DEF Inv, FrameInv
<1>3. /\ schedule' \in [0..(LastTime + 1) -> Nat]
      /\ schedule'[frame.time + 1] = schedule[frame.time + 1] + 1
      /\ \A t \in 0..(LastTime + 1) : t # frame.time + 1 => schedule'[t] = schedule[t]
  BY <1>1, <1>2
<1>4. Now' = Does(Now, Head(running.work), frame.time, Handled)
  BY <1>1, <1>3 DEF Now, Does
<1>5. ~interpolating
  BY <1>1 DEF Inv, OutcomeInv
<1> QED  BY <1>1, <1>3, <1>4, <1>5, InvOperation

\* What is awaited does nothing to the transposer.
LEMMA InvAwaited ==
  ASSUME Inv, WaitIsOver \/ IsAnswered
  PROVE  Inv'
<1>1. /\ UNCHANGED <<args, events, frame, interpolating, result>> /\ running.work # <<>> /\ Goes
      /\ Head(running.work) \in {"wait", "ask"} /\ UNCHANGED <<schedule, seen, outputs>>
  BY DEF WaitIsOver, IsAnswered, Runs, StillRuns
<1>2. Now' = Does(Now, Head(running.work), frame.time, Handled)
  BY <1>1 DEF Now, Does
<1>3. schedule \in [0..(LastTime + 1) -> Nat]
  BY DEF Inv, FrameInv
<1> QED  BY <1>1, <1>2, <1>3, InvOperation

-----------------------------------------------------------------------------
(* A handler is done                                                       *)

\* While there is no interpolation the transposer is in the middle of a handler.
LEMMA NowType ==
  ASSUME Inv, ~interpolating
  PROVE  Now \in States
<1>1. PICK start \in States, w \in Works : InWork(start, w)
  BY DEF Inv, WorkInv
<1>2. PICK n \in 0..Len(w) : Now = InHandler(start, w, frame.time, Handled)[n]
  BY <1>1 DEF InWork
<1>3. n \in Nat /\ frame.time \in Nat /\ Handled \in Seq(Nat)
  BY NowFacts DEF Inv, Works
<1>4. InHandler(start, w, frame.time, Handled) \in [Nat -> States]
  BY <1>3, InHandlerIs
<1> QED  BY <1>2, <1>3, <1>4

\* The handler of the frame has led to where the reference is after it.
LEMMA HandlerDone ==
  ASSUME Inv, ~interpolating, running.work = <<>>
  PROVE  IF frame.number = 1 THEN schedule[0] = 0 /\ Now = Begun(0)
         ELSE /\ schedule[frame.time] <= Pending(frame.time)
              /\ Now = Handling(frame.time)[Pending(frame.time) - schedule[frame.time]]
<1>1. PICK start \in States, w \in Works : InWork(start, w) /\ Leads(start, w)
  BY DEF Inv, WorkInv
<1>2. PICK n \in 0..Len(w) : /\ Left(running.work, w, n)
                             /\ Now = InHandler(start, w, frame.time, Handled)[n]
  BY <1>1 DEF InWork
<1>3. n = Len(w)
  <2>1. Len(w) \in Nat /\ Len(running.work) = 0
    BY DEF Works
  <2>2. Len(running.work) = Len(w) - n
    BY <1>2 DEF Left
  <2> QED  BY <2>1, <2>2
<1>4. Now = Handler(start, w, frame.time, Handled)
  BY <1>2, <1>3 DEF Handler
<1>5. frame.number = 1 => frame.time = 0
  BY DEF Inv, FrameInv
<1> QED  BY <1>1, <1>4, <1>5 DEF Leads

\* A handler begins.
LEMMA HandlerBegins ==
  ASSUME NEW start \in States, NEW w \in Works, running'.work = w, Now' = start,
         frame'.time \in Nat, Handled' \in Seq(Nat), Leads(start, w)'
  PROVE  WorkInv'
<1>1. PICK t \in Nat, h \in Seq(Nat) : t = frame'.time /\ h = Handled'
  OBVIOUS
<1>2. InHandler(start, w, t, h)[0] = start
  BY InHandlerStarts
<1>3. Left(w, w, 0) /\ 0 \in 0..Len(w)
  <2>1. Len(w) \in Nat
    BY DEF Works
  <2> QED  BY <2>1 DEF Left
<1>4. InWork(start, w)'
  BY <1>1, <1>2, <1>3 DEF InWork
<1> QED  BY <1>4 DEF WorkInv

\* The next event that is scheduled for the time of the frame.
LEMMA InvHandleScheduled ==
  ASSUME Inv, HandleScheduled
  PROVE  Inv'
<1>0. PICK t \in Nat, k \in Nat : t = frame.time /\ k = schedule[t]
  BY NowFacts DEF Inv
<1>a. PICK w \in Works : w = program["scheduled"]
  BY ArgsFacts DEF Inv, Handlers
<1>b. PICK start \in States : start = Now
  BY NowType DEF HandleScheduled, Done
<1>1. /\ ~interpolating /\ running.work = <<>> /\ k > 0
      /\ schedule' = [schedule EXCEPT ![t] = @ - 1] /\ running'.work = w
      /\ frame' = [frame EXCEPT !.inputs = <<>>]
      /\ UNCHANGED <<args, events, interpolating, seen, outputs, result>>
  <2>1. running' = [running EXCEPT !.work = w] /\ running.work = <<>>
    BY <1>a DEF HandleScheduled, Done
  <2>2. running'.work = w
    BY <2>1 DEF Inv, FrameInv, Futures
  <2> QED  BY <1>0, <2>1, <2>2 DEF HandleScheduled, Done
<1>2. /\ t \in Nat /\ t \in 0..(LastTime + 1) /\ t + 1 \in 0..(LastTime + 1) /\ k \in Nat
      /\ schedule \in [0..(LastTime + 1) -> Nat] /\ t + 1 # t
  BY <1>0, NowFacts DEF Inv, FrameInv
<1>3. frame \in [time : Nat, inputs : Seq(Nat), number : Nat \ {0}]
  BY DEF Inv, FrameInv
<1>4. frame'.time = t /\ frame'.number = frame.number /\ frame'.inputs = <<>> /\ Handled' = <<0>>
  BY <1>0, <1>1, <1>3 DEF Handled
<1>5. frame.number # 1
  BY <1>0, <1>1, HandlerDone DEF Inv, FrameInv
<1>6. k <= Pending(t) /\ Now = Handling(t)[Pending(t) - k]
  BY <1>0, <1>1, <1>5, HandlerDone
<1>7. /\ schedule' \in [0..(LastTime + 1) -> Nat] /\ schedule'[t] = k - 1
      /\ \A u \in 0..(LastTime + 1) : u # t => schedule'[u] = schedule[u]
  BY <1>0, <1>1, <1>2
<1>8. Now' = start
  BY <1>b, <1>0, <1>1, <1>2, <1>4, <1>7 DEF Now
<1>10. ArgsInv' /\ EventsInv'
  BY <1>0, <1>1, <1>4, ArgsStay, EventsStay DEF Inv
<1>11. FrameInv'
  <2>1. \A u \in DOMAIN schedule' : schedule'[u] > 0 => u \in {t, t + 1}
    BY <1>0, <1>2, <1>7 DEF Inv, FrameInv
  <2>2. frame' \in [time : Nat, inputs : Seq(Nat), number : Nat \ {0}]
    <3>1. <<>> \in Seq(Nat)
      OBVIOUS
    <3> QED  BY <1>1, <1>3, <3>1
  <2>3. running' \in Futures
    <3>1. running' = [running EXCEPT !.work = w] /\ running \in Futures
      BY <1>a DEF HandleScheduled, Inv, FrameInv
    <3> QED  BY <3>1 DEF Futures
  <2>4. /\ frame'.time = frame.time /\ frame'.number = frame.number /\ until' = until
        /\ interpolating' = interpolating
    BY <1>0, <1>1, <1>4 DEF args
  <2> QED  BY <1>0, <1>7, <2>1, <2>2, <2>3, <2>4 DEF Inv, FrameInv
<1>12. OutcomeInv'
  BY <1>1, OutcomeStays DEF Inv
<1>9. Leads(start, w)'
  <2>1. Pending(t) \in Nat /\ \A n \in Nat : Handling(t)[n + 1] = Handler(Handling(t)[n], w, t, <<0>>)
    BY <1>a, InstantFacts DEF Inv
  <2>2. Pending(t) - k \in Nat /\ (Pending(t) - k) + 1 = Pending(t) - (k - 1) /\ k - 1 <= Pending(t)
    <3> DEFINE m == Pending(t)
    <3>1. m \in Nat /\ k <= m /\ k > 0
      BY <1>0, <1>1, <1>6, <2>1
    <3> HIDE DEF m
    <3> QED  BY <3>1 DEF m
  <2>3. Handler(start, w, t, <<0>>) = Handling(t)[Pending(t) - (k - 1)]
    BY <1>b, <1>6, <2>1, <2>2
  <2>4. Pending(t)' = Pending(t) /\ Handling(t)' = Handling(t)
    BY <1>1, ArgsStay DEF Inv
  <2>5. schedule'[t] = k - 1 /\ frame'.number # 1 /\ frame'.time = t /\ Handled' = <<0>>
    BY <1>4, <1>5, <1>7
  <2> QED  BY <2>2, <2>3, <2>4, <2>5 DEF Leads
<1>13. WorkInv'
  <2>1. <<0>> \in Seq(Nat)
    OBVIOUS
  <2>2. frame'.time \in Nat /\ Handled' \in Seq(Nat) /\ running'.work = w
    BY <1>1, <1>4, <2>1
  <2> QED  BY <1>8, <1>9, <2>2, HandlerBegins
<1> QED  BY <1>10, <1>11, <1>12, <1>13 DEF Inv

-----------------------------------------------------------------------------
(* A frame is done                                                         *)

\* The first event is the next of those that are late.
LEMMA FirstEvent ==
  ASSUME Inv
  PROVE  /\ events # <<>> =>
              events[1].time \in Late /\ events[1].inputs = InputsAt(given, events[1].time)
         /\ \A t \in Late : events # <<>> /\ events[1].time <= t
         /\ Late \in SUBSET Nat
<1>1. /\ Len(events) \in Nat /\ events # <<>> => 1 \in 1..Len(events)
      /\ \A i \in 1..Len(events) : i \in Nat /\ Len(events) # 0 /\ events # <<>>
  BY DEF Inv, EventsInv
<1>2. events # <<>> => events[1].time \in Late /\ events[1].inputs = InputsAt(given, events[1].time)
  BY <1>1 DEF Inv, EventsInv
<1>3. Late \in SUBSET Nat
  BY ArgsFacts DEF Inv, Late
<1>4. ASSUME NEW t \in Late PROVE events # <<>> /\ events[1].time <= t
  <2>1. PICK i \in 1..Len(events) : events[i].time = t
    BY DEF Inv, EventsInv
  <2>2. CASE i = 1
    BY <1>1, <1>3, <2>1, <2>2
  <2>3. CASE i # 1
    <3>1. 1 \in 1..Len(events) /\ 1 < i /\ events # <<>>
      BY <1>1, <2>3
    <3>2. events[1].time < t
      BY <2>1, <3>1 DEF Inv, EventsInv
    <3>3. events[1].time \in Nat /\ t \in Nat
      BY <1>2, <1>3, <3>1
    <3> QED  BY <3>1, <3>2, <3>3
  <2> QED  BY <2>2, <2>3
<1> QED  BY <1>2, <1>3, <1>4

\* The instant is over, unless it is that of the start and its inputs are to come yet.
LEMMA InstantIsOver ==
  ASSUME Inv, Saturated
  PROVE  /\ Now \in States
         /\ frame.number = 1 => Now = Begun(0)
         /\ frame.number # 1 \/ 0 \notin Occurring => Now = Until(frame.time)
<1>1. ~interpolating /\ running.work = <<>> /\ schedule[frame.time] = 0
  BY DEF Saturated, Done
<1>2. Now \in States
  BY <1>1, NowType
<1>3. CASE frame.number = 1
  <2>1. Now = Begun(0) /\ frame.time = 0
    BY <1>1, <1>3, HandlerDone DEF Inv, FrameInv
  <2>2. ASSUME 0 \notin Occurring PROVE Until(0) = Begun(0)
    <3>1. InputsAt(given, 0) = <<>>
      BY <2>2, ArgsFacts DEF Inv
    <3>2. Handling(0)[0] = Begun(0)
      BY <3>1, InstantFacts DEF Inv, WithInputs
    <3>3. Pending(0) = 0
      BY DEF Pending
    <3> QED  BY <3>2, <3>3, InstantFacts DEF Inv
  <2> QED  BY <1>2, <1>3, <2>1, <2>2
<1>4. CASE frame.number # 1
  <2>1. PICK t \in Nat : t = frame.time
    BY NowFacts DEF Inv
  <2>2. Now = Handling(t)[Pending(t) - 0]
    BY <1>1, <1>4, <2>1, HandlerDone
  <2>3. Pending(t) \in Nat /\ Until(t) = Handling(t)[Pending(t)]
    BY InstantFacts DEF Inv
  <2>4. Pending(t) - 0 = Pending(t)
    <3> DEFINE m == Pending(t)
    <3>1. m \in Nat
      BY <2>3
    <3> HIDE DEF m
    <3> QED  BY <3>1 DEF m
  <2> QED  BY <1>2, <1>4, <2>1, <2>2, <2>3, <2>4
<1> QED  BY <1>3, <1>4

\* Nothing happens before the instant u.
Skips(u) ==
  /\ u \in Nat /\ frame.time < u
  /\ frame.number # 1 \/ 0 \notin Occurring
  /\ \A v \in Nat : frame.time < v /\ v < u => v \notin Occurring /\ v \notin Due

\* The reference does nothing at the instants that the evaluation skips.
LEMMA TimesSkipped ==
  ASSUME Inv, Saturated, NEW u, Skips(u), u <= LastTime + 1
  PROVE  /\ Until(u - 1) = [Now EXCEPT !.due = schedule[u]]
         /\ Pending(u) = schedule[u] /\ Begun(u) = [Now EXCEPT !.due = 0]
<1>1. PICK t \in Nat : t = frame.time
  BY NowFacts DEF Inv
<1>2. Until(t) = Now /\ Now \in States
  BY <1>1, InstantIsOver DEF Skips
<1>3. PICK now \in States : now = Now
  BY <1>2
<1>4. now.due = schedule[t + 1] /\ u \in Nat /\ t < u /\ u - 1 \in Nat /\ u # 0
  BY <1>1, <1>3 DEF Skips, Now
<1>5. /\ LastTime \in Nat /\ schedule \in [0..(LastTime + 1) -> Nat]
      /\ \A v \in 0..(LastTime + 1) : schedule[v] > 0 => v \in {t, t + 1}
  BY <1>1, ArgsFacts DEF Inv, FrameInv
<1>6. Until(u - 1) = [now EXCEPT !.due = schedule[u]]
  <2>1. CASE u = t + 1
    <3>1. u - 1 = t
      BY <1>4, <2>1
    <3>2. now = [now EXCEPT !.due = schedule[u]]
      BY <1>4, <2>1 DEF States
    <3> QED  BY <1>2, <1>3, <3>1, <3>2
  <2>2. CASE u # t + 1
    <3>1. t + 1 < u /\ t + 1 \in 0..(LastTime + 1) /\ u \in 0..(LastTime + 1)
      BY <1>1, <1>4, <1>5, <2>2
    <3>2. t + 1 \notin Due
      BY <1>1, <1>4, <3>1 DEF Skips
    <3>3. schedule[t + 1] = 0 /\ schedule[u] = 0
      <4>1. ~(schedule[t + 1] > 0) /\ schedule[t + 1] \in Nat /\ schedule[u] \in Nat
        BY <1>5, <3>1, <3>2 DEF Due
      <4>2. ~(schedule[u] > 0)
        BY <1>4, <1>5, <3>1, <2>2
      <4> QED  BY <4>1, <4>2
    <3>4. \A v \in Nat : t < v /\ v <= u - 1 => InputsAt(given, v) = <<>>
      <4> SUFFICES ASSUME NEW v \in Nat, t < v, v <= u - 1 PROVE InputsAt(given, v) = <<>>
        OBVIOUS
      <4>1. v < u
        BY <1>4
      <4>2. v \notin Occurring
        BY <1>1, <4>1 DEF Skips
      <4> QED  BY <4>2, ArgsFacts DEF Inv
    <3>5. program \in [Handlers -> Works] /\ Arrivals(given)
      BY ArgsFacts DEF Inv
    <3>6. Instants(program, given)[t].due = 0
      BY <1>2, <1>3, <1>4, <3>3 DEF Until
    <3>7. t <= u - 1
      BY <1>4, <3>1
    <3>8. Instants(program, given)[u - 1] = Instants(program, given)[t]
      BY <1>4, <3>4, <3>5, <3>6, <3>7, QuietInstants
    <3>9. now = [now EXCEPT !.due = schedule[u]]
      BY <1>4, <3>3 DEF States
    <3> QED  BY <1>2, <1>3, <3>8, <3>9 DEF Until
  <2> QED  BY <2>1, <2>2
<1>7. Pending(u) = schedule[u] /\ Begun(u) = [now EXCEPT !.due = 0]
  <2>1. Pending(u) = [now EXCEPT !.due = schedule[u]].due
        /\ Begun(u) = [[now EXCEPT !.due = schedule[u]] EXCEPT !.due = 0]
    BY <1>4, <1>6 DEF Pending, Begun
  <2> QED  BY <2>1 DEF States
<1> QED  BY <1>3, <1>6, <1>7

\* What the handler of a new frame is given, 0 for an event.
Comes(inputs) == IF inputs = <<>> THEN <<0>> ELSE inputs

\* A new frame begins, at a time to which the evaluation skips, or at the start.
LEMMA InvNextFrame ==
  ASSUME Inv, Saturated, NEW u \in Nat, NEW inputs \in Seq(Nat), NEW work \in Works,
         NextFrame(u, inputs, work), schedule' = schedule, u <= until,
         Skips(u) \/ (frame.number = 1 /\ u = 0),
         Handler(Begun(u), work, u, Comes(inputs)) = WithInputs(Begun(u), program, given, u),
         EventsInv'
  PROVE  Inv'
<1>1. /\ frame' = [time |-> u, inputs |-> inputs, number |-> frame.number + 1]
      /\ running' = [work |-> work, input_state |-> "empty"]
      /\ UNCHANGED <<args, interpolating, seen, outputs, result>> /\ ~interpolating
  BY DEF NextFrame, Starts, Saturated, Done
<1>2. PICK t \in Nat : t = frame.time
  BY NowFacts DEF Inv
<1>3. /\ LastTime \in Nat /\ u \in 0..(LastTime + 1) /\ u + 1 \in 0..(LastTime + 1)
      /\ u <= LastTime + 1
  <2>1. LastTime \in Nat /\ until \in Nat /\ until <= LastTime
    BY ArgsFacts DEF Inv
  <2> QED  BY <2>1
<1>4. /\ schedule \in [0..(LastTime + 1) -> Nat] /\ schedule[t] = 0
      /\ \A v \in 0..(LastTime + 1) : schedule[v] > 0 => v = t + 1
      /\ frame.number \in Nat \ {0} /\ (frame.number = 1 => t = 0)
  <2>1. schedule[t] = 0
    BY <1>2 DEF Saturated
  <2>2. /\ schedule \in [0..(LastTime + 1) -> Nat]
        /\ \A v \in 0..(LastTime + 1) : schedule[v] > 0 => v \in {t, t + 1}
    BY <1>2 DEF Inv, FrameInv
  <2> QED  BY <1>2, <2>1, <2>2 DEF Inv, FrameInv
<1>5. /\ t <= u
      /\ \A v \in 0..(LastTime + 1) : schedule[v] > 0 => v \in {u, u + 1}
      /\ Pending(u) = schedule[u] /\ Now' = Begun(u) /\ Begun(u) \in States
  <2>1. Begun(u) \in States
    BY InstantFacts DEF Inv
  <2>2. Now' = [seen |-> seen, due |-> schedule[u + 1], outputs |-> outputs]
    BY <1>1 DEF Now
  <2>3. CASE Skips(u)
    <3>1. t < u
      BY <1>2, <2>3 DEF Skips
    <3>2. ASSUME NEW v \in 0..(LastTime + 1), schedule[v] > 0 PROVE v = u
      <4>1. v = t + 1 /\ v \in Due /\ v \in Nat
        BY <1>4, <3>2 DEF Due
      <4>2. ~(v < u)
        BY <1>2, <2>3, <4>1 DEF Skips
      <4> QED  BY <3>1, <4>1, <4>2
    <3>3. schedule[u + 1] = 0
      <4>1. schedule[u + 1] \in Nat /\ ~(schedule[u + 1] > 0)
        BY <1>3, <1>4, <3>2
      <4> QED  BY <4>1
    <3>4. Pending(u) = schedule[u] /\ Begun(u) = [Now EXCEPT !.due = 0]
      BY <1>3, <2>3, TimesSkipped
    <3>5. Begun(u) = [seen |-> seen, due |-> 0, outputs |-> outputs]
      BY <3>4 DEF Now
    <3>6. Now' = Begun(u)
      BY <2>2, <3>3, <3>5
    <3>7. t <= u
      BY <3>1
    <3>8. \A v \in 0..(LastTime + 1) : schedule[v] > 0 => v \in {u, u + 1}
      BY <3>2
    <3> QED  BY <2>1, <3>4, <3>6, <3>7, <3>8
  <2>4. CASE frame.number = 1 /\ u = 0
    <3>1. t = 0 /\ schedule[0] = 0
      BY <1>4, <2>4
    <3>2. Now = Begun(0)
      BY <2>4, InstantIsOver
    <3>3. Now' = Now
      BY <1>2, <2>2, <2>4, <3>1 DEF Now
    <3>4. Pending(u) = schedule[u]
      BY <2>4, <3>1 DEF Pending
    <3>5. \A v \in 0..(LastTime + 1) : schedule[v] > 0 => v \in {u, u + 1}
      BY <1>4, <2>4, <3>1
    <3> QED  BY <2>1, <2>4, <3>1, <3>2, <3>3, <3>4, <3>5
  <2> QED  BY <2>3, <2>4
<1>6. ArgsInv'
  BY <1>1, ArgsStay DEF Inv
<1>7. FrameInv'
  <2>1. frame' \in [time : Nat, inputs : Seq(Nat), number : Nat \ {0}]
        /\ frame'.time = u /\ frame'.number # 1
    BY <1>1, <1>4
  <2>2. running' \in Futures
    BY <1>1 DEF Futures
  <2>3. until' = until /\ interpolating' \in BOOLEAN
    BY <1>1 DEF args, Inv, FrameInv
  <2> QED  BY <1>4, <1>5, <2>1, <2>2, <2>3 DEF FrameInv
<1>8. OutcomeInv'
  BY <1>1, OutcomeStays DEF Inv
<1>9. WorkInv'
  <2>1. PICK start \in States : start = Begun(u)
    BY <1>5
  <2>2. Handled' = Comes(inputs)
    BY <1>1 DEF Handled, Comes
  <2>3. Handled' \in Seq(Nat)
    BY <2>2 DEF Comes
  <2>4. Handling(u)[0] = WithInputs(Begun(u), program, given, u) /\ Pending(u) \in Nat
    BY InstantFacts DEF Inv
  <2>5. Pending(u) <= Pending(u) /\ Pending(u) - Pending(u) = 0
    <3> DEFINE m == Pending(u)
    <3>1. m \in Nat
      BY <2>4
    <3> HIDE DEF m
    <3> QED  BY <3>1 DEF m
  <2>6. Pending(u)' = Pending(u) /\ Handling(u)' = Handling(u)
    BY <1>1, ArgsStay DEF Inv
  <2>7. frame'.number # 1 /\ frame'.time = u /\ schedule'[u] = Pending(u)
    BY <1>1, <1>4, <1>5
  <2>8. Handler(start, work, u, Handled') = Handling(u)[0]
    BY <2>1, <2>2, <2>4
  <2>9. Leads(start, work)'
    BY <2>5, <2>6, <2>7, <2>8 DEF Leads
  <2>10. running'.work = work /\ Now' = start
    BY <1>1, <1>5, <2>1
  <2> QED  BY <2>3, <2>7, <2>9, <2>10, HandlerBegins
<1> QED  BY <1>6, <1>7, <1>8, <1>9 DEF Inv

\* The next frame has the inputs of the first event.
LEMMA InvTakeInput ==
  ASSUME Inv, TakeInput
  PROVE  Inv'
<1>1. /\ Saturated /\ events # <<>> /\ \A d \in Due : events[1].time <= d
      /\ events' = Tail(events) /\ schedule' = schedule
      /\ NextFrame(events[1].time, events[1].inputs, program["input"]) /\ UNCHANGED args
  BY DEF TakeInput, InputIsNext, NextFrame
<1>2. events[1].time \in Late /\ events[1].inputs = InputsAt(given, events[1].time)
  BY <1>1, FirstEvent
<1>3. PICK u \in Nat : u = events[1].time
  BY <1>2, FirstEvent
<1>4. /\ u \in Occurring /\ u <= until /\ (frame.number = 1 \/ frame.time < u)
      /\ until \in Nat /\ LastTime \in Nat /\ until <= LastTime /\ frame.time \in Nat
      /\ frame.number \in Nat \ {0} /\ (frame.number = 1 => frame.time = 0)
  BY <1>2, <1>3, ArgsFacts DEF Late, Inv, FrameInv
<1>5. PICK inputs \in Seq(Nat) : inputs = InputsAt(given, u) /\ inputs # <<>>
  BY <1>4, ArgsFacts DEF Inv
<1>6. PICK work \in Works : work = program["input"]
  BY ArgsFacts DEF Inv, Handlers
<1>7. NextFrame(u, inputs, work)
  BY <1>1, <1>2, <1>3, <1>5, <1>6 DEF NextFrame
<1>8. \A v \in Late : u <= v
  BY <1>3, FirstEvent
<1>9. Skips(u) \/ (frame.number = 1 /\ u = 0)
  <2> SUFFICES ASSUME frame.number # 1 \/ u # 0 PROVE Skips(u)
    OBVIOUS
  <2>1. frame.time < u
    BY <1>4
  <2>2. frame.number # 1 \/ 0 \notin Occurring
    <3> SUFFICES ASSUME frame.number = 1, 0 \in Occurring PROVE FALSE
      OBVIOUS
    <3>1. 0 \in Late
      BY <1>4 DEF Late
    <3>2. u <= 0
      BY <1>8, <3>1
    <3> QED  BY <2>1, <1>4, <3>2
  <2>3. ASSUME NEW v \in Nat, frame.time < v, v < u PROVE v \notin Occurring /\ v \notin Due
    <3>1. v \notin Due
      BY <1>1, <1>3, <2>3
    <3>2. v \in Occurring => v \in Late
      BY <1>4, <2>3 DEF Late
    <3> QED  BY <1>8, <2>3, <3>1, <3>2
  <2> QED  BY <2>1, <2>2, <2>3 DEF Skips
<1>10. Handler(Begun(u), work, u, Comes(inputs)) = WithInputs(Begun(u), program, given, u)
  BY <1>5, <1>6 DEF WithInputs, Comes
<1>11. EventsInv'
  <2>1. /\ Len(events) \in Nat /\ Len(events) # 0
        /\ events \in Seq([time : Times, inputs : Seq(Nat)])
    BY <1>1 DEF Inv, EventsInv
  <2>2. /\ events' \in Seq([time : Times, inputs : Seq(Nat)]) /\ Len(events') = Len(events) - 1
        /\ \A i \in 1..Len(events') : events'[i] = events[i + 1] /\ i + 1 \in 1..Len(events)
    BY <1>1, <2>1
  <2>3. Occurring' = Occurring /\ until' = until /\ given' = given /\ frame'.time = u
        /\ frame'.number = frame.number + 1 /\ frame.number + 1 # 1
    BY <1>1, <1>4, <1>7, ArgsStay DEF NextFrame, args, Inv
  <2>4. \A v : v \in Late' <=> v \in Late /\ u < v
    <3>1. \A v : v \in Late' <=> v \in Occurring /\ v <= until /\ u < v
      BY <2>3 DEF Late
    <3>2. \A v \in Occurring : v \in Nat
      BY ArgsFacts DEF Inv
    <3>3. \A v \in Nat : u < v => frame.number = 1 \/ frame.time < v
      BY <1>4
    <3> QED  BY <3>1, <3>2, <3>3 DEF Late
  <2>5. \A i, j \in 1..Len(events) : i < j => events[i].time < events[j].time
    BY DEF Inv, EventsInv
  <2>6. ASSUME NEW i \in 1..Len(events')
        PROVE  events'[i].time \in Late' /\ events'[i].inputs = InputsAt(given', events'[i].time)
    <3>1. i + 1 \in 1..Len(events) /\ 1 \in 1..Len(events) /\ 1 < i + 1 /\ events'[i] = events[i + 1]
      BY <2>1, <2>2
    <3>2. u < events[i + 1].time
      BY <1>3, <2>5, <3>1
    <3>3. events[i + 1].time \in Late /\ events[i + 1].inputs = InputsAt(given, events[i + 1].time)
      BY <3>1 DEF Inv, EventsInv
    <3> QED  BY <2>3, <2>4, <3>1, <3>2, <3>3
  <2>7. ASSUME NEW i \in 1..Len(events'), NEW j \in 1..Len(events'), i < j
        PROVE  events'[i].time < events'[j].time
    <3>1. i + 1 < j + 1 /\ i + 1 \in 1..Len(events) /\ j + 1 \in 1..Len(events)
      BY <2>1, <2>2, <2>7
    <3> QED  BY <2>2, <2>5, <3>1
  <2>8. ASSUME NEW v \in Late' PROVE \E i \in 1..Len(events') : events'[i].time = v
    <3>1. v \in Late /\ u < v
      BY <2>4
    <3>2. PICK k \in 1..Len(events) : events[k].time = v
      BY <3>1 DEF Inv, EventsInv
    <3>3. k # 1
      BY <1>3, <3>1, <3>2
    <3>4. k - 1 \in 1..Len(events') /\ (k - 1) + 1 = k
      BY <2>1, <2>2, <3>3
    <3>5. events'[k - 1] = events[k]
      BY <2>2, <3>4
    <3> QED  BY <3>2, <3>4, <3>5
  <2>9. Len(events') \in Nat /\ Times' = Times
    BY <2>1, <2>2 DEF Times
  <2> QED  BY <2>2, <2>6, <2>7, <2>8, <2>9 DEF EventsInv
<1> QED  BY <1>1, <1>4, <1>7, <1>9, <1>10, <1>11, InvNextFrame

\* When no input is next, all that are left are later than what is scheduled.
LEMMA NoInputIsNext ==
  ASSUME Inv, Saturated, ~InputIsNext, NEW u \in Nat, \A d \in Due : u <= d
  PROVE  \A v \in Late : u < v
<1> SUFFICES ASSUME NEW v \in Late PROVE u < v
  OBVIOUS
<1>1. events # <<>> /\ events[1].time <= v /\ events[1].time \in Nat /\ v \in Nat
  BY FirstEvent
<1>2. PICK d \in Due : ~(events[1].time <= d)
  BY <1>1 DEF InputIsNext
<1>3. d \in Nat
  BY ArgsFacts DEF Inv, FrameInv, Due
<1> QED  BY <1>1, <1>2, <1>3

\* The next frame has what is scheduled.
LEMMA InvTakeScheduled ==
  ASSUME Inv, TakeScheduled
  PROVE  Inv'
<1>1. Saturated /\ ~InputIsNext /\ UNCHANGED <<events, schedule, args>>
  BY DEF TakeScheduled, NextFrame
<1>2. PICK u \in Due : u <= until /\ (\A d \in Due : u <= d) /\ NextFrame(u, <<>>, <<>>)
  BY DEF TakeScheduled
<1>3. /\ LastTime \in Nat /\ until \in Nat /\ until <= LastTime /\ frame.time \in Nat
      /\ frame.number \in Nat \ {0} /\ (frame.number = 1 => frame.time = 0)
      /\ u \in Nat /\ u = frame.time + 1
  <2>1. LastTime \in Nat /\ until \in Nat /\ until <= LastTime /\ frame.time \in Nat
        /\ frame.number \in Nat \ {0} /\ (frame.number = 1 => frame.time = 0)
    BY ArgsFacts DEF Inv, FrameInv
  <2>2. schedule[u] > 0 /\ u \in 0..(LastTime + 1) /\ u \in {frame.time, frame.time + 1}
    BY DEF Due, Inv, FrameInv
  <2>3. schedule[frame.time] = 0
    BY <1>1 DEF Saturated
  <2> QED  BY <2>1, <2>2, <2>3
<1>4. \A v \in Late : u < v
  BY <1>1, <1>2, <1>3, NoInputIsNext
<1>5. u \notin Occurring
  <2>1. u \in Occurring => u \in Late
    BY <1>2, <1>3 DEF Late
  <2> QED  BY <1>3, <1>4, <2>1
<1>6. Skips(u)
  <2>1. frame.number # 1 \/ 0 \notin Occurring
    <3> SUFFICES ASSUME frame.number = 1, 0 \in Occurring PROVE FALSE
      OBVIOUS
    <3>1. 0 \in Late
      BY <1>3 DEF Late
    <3>2. u < 0
      BY <1>4, <3>1
    <3> QED  BY <1>3, <3>2
  <2>2. \A v \in Nat : ~(frame.time < v /\ v < u)
    BY <1>3
  <2> QED  BY <1>3, <2>1, <2>2 DEF Skips
<1>7. PICK inputs \in Seq(Nat), work \in Works : inputs = <<>> /\ work = <<>>
  <2>1. <<>> \in Seq(Nat) /\ <<>> \in Works
    BY DEF Works
  <2> QED  BY <2>1
<1>8. Handler(Begun(u), work, u, Comes(inputs)) = WithInputs(Begun(u), program, given, u)
  <2>1. PICK start \in States : start = Begun(u)
    BY <1>3, InstantFacts DEF Inv
  <2>2. InHandler(start, work, u, <<0>>)[0] = start
    <3>1. u \in Nat /\ <<0>> \in Seq(Nat)
      BY <1>3
    <3> QED  BY <3>1, InHandlerStarts
  <2>3. InputsAt(given, u) = <<>>
    BY <1>3, <1>5, ArgsFacts DEF Inv
  <2>4. Len(work) = 0
    BY <1>7
  <2> QED  BY <1>7, <2>1, <2>2, <2>3, <2>4 DEF Handler, WithInputs, Comes
<1>a. NextFrame(u, inputs, work)
  BY <1>2, <1>7
<1>9. EventsInv'
  <2>1. Occurring' = Occurring /\ until' = until /\ given' = given /\ frame'.time = u
        /\ frame'.number = frame.number + 1 /\ frame.number + 1 # 1 /\ events' = events
    BY <1>1, <1>2, <1>3, ArgsStay DEF NextFrame, args, Inv
  <2>2. Late' = Late
    <3>1. \A v : v \in Late' <=> v \in Occurring /\ v <= until /\ u < v
      BY <2>1 DEF Late
    <3>2. \A v \in Occurring : v \in Nat
      BY ArgsFacts DEF Inv
    <3>3. \A v \in Nat : u < v => frame.number = 1 \/ frame.time < v
      BY <1>3
    <3>4. \A v : v \in Late' <=> v \in Late
      BY <1>4, <3>1, <3>2, <3>3 DEF Late
    <3> QED  BY <3>4
  <2> QED  BY <2>1, <2>2 DEF Inv, EventsInv, Times
<1> QED  BY <1>1, <1>2, <1>3, <1>6, <1>a, <1>8, <1>9, InvNextFrame

\* Nothing is left that is not later than `until`.
LEMMA InvInterpolate ==
  ASSUME Inv, Interpolate
  PROVE  Inv'
<1>1. /\ Saturated /\ ~InputIsNext /\ (\A d \in Due : until < d) /\ interpolating' = TRUE
      /\ running' = [work |-> program["interpolate"], input_state |-> "empty"]
      /\ UNCHANGED <<args, events, frame, schedule, seen, outputs, result>>
  <2>1. until \in Nat /\ \A d \in Due : d \in Nat
    BY ArgsFacts DEF Inv, FrameInv, Due
  <2> QED  BY <2>1 DEF Interpolate, Starts
<1>2. /\ LastTime \in Nat /\ until \in Nat /\ until <= LastTime /\ frame.time \in Nat
      /\ frame.time <= until /\ frame.number \in Nat \ {0}
      /\ (frame.number = 1 => frame.time = 0)
  BY ArgsFacts DEF Inv, FrameInv
<1>3. Late = {}
  <2> SUFFICES ASSUME NEW v \in Late PROVE FALSE
    OBVIOUS
  <2>1. \A d \in Due : until <= d
    BY <1>1, <1>2 DEF Due, Inv, FrameInv
  <2>2. until < v
    BY <1>1, <1>2, <2>1, NoInputIsNext
  <2>3. v <= until /\ v \in Nat
    BY FirstEvent DEF Late
  <2> QED  BY <1>2, <2>2, <2>3
<1>4. \A v \in Nat : frame.time < v /\ v < until + 1 => v \notin Occurring /\ v \notin Due
  <2> SUFFICES ASSUME NEW v \in Nat, frame.time < v, v < until + 1
               PROVE  v \notin Occurring /\ v \notin Due
    OBVIOUS
  <2>1. v <= until
    BY <1>2
  <2>2. v \notin Due
    BY <1>1, <1>2, <2>1
  <2> QED  BY <1>3, <2>1, <2>2 DEF Late
<1>5. frame.number # 1 \/ 0 \notin Occurring
  BY <1>2, <1>3 DEF Late
<1>6. Until(until).seen = seen /\ Until(until).outputs = outputs
  <2>1. PICK u \in Nat : u = until + 1
    BY <1>2
  <2>2. Skips(u) /\ u <= LastTime + 1 /\ u - 1 = until
    BY <1>2, <1>4, <1>5, <2>1 DEF Skips
  <2>3. Until(u - 1) = [Now EXCEPT !.due = schedule[u]]
    BY <1>1, <2>2, TimesSkipped
  <2> QED  BY <2>2, <2>3 DEF Now
<1>7. Evaluated' = Until(until)
  BY <1>1 DEF Evaluated, Until, args
<1>8. OutcomeInv'
  <2>1. program["interpolate"] \in Seq({"wait", "ask"})
    BY ArgsFacts DEF Inv
  <2> QED  BY <1>1, <1>6, <1>7, <2>1 DEF OutcomeInv
<1>9. FrameInv'
  <2>1. running' \in Futures
    <3>1. program["interpolate"] \in Works
      BY ArgsFacts DEF Inv, Handlers
    <3> QED  BY <1>1, <3>1 DEF Futures
  <2> QED  BY <1>1, <2>1 DEF Inv, FrameInv, args
<1>10. ArgsInv' /\ EventsInv'
  BY <1>1, ArgsStay, EventsStay DEF Inv
<1>11. WorkInv'
  BY <1>1 DEF WorkInv
<1> QED  BY <1>8, <1>9, <1>10, <1>11 DEF Inv

\* The interpolation is done.
LEMMA InvReturn ==
  ASSUME Inv, Return
  PROVE  Inv'
<1>1. /\ interpolating
      /\ UNCHANGED <<args, events, frame, interpolating, running, schedule, seen, outputs>>
  BY DEF Return
<1>2. ArgsInv' /\ WorkInv' /\ EventsInv'
  BY <1>1, ArgsStay, WorkStays, EventsStay DEF Inv
<1>3. FrameInv'
  BY <1>1 DEF Inv, FrameInv, args
<1>4. OutcomeInv'
  BY <1>1, OutcomeStays DEF Inv, OutcomeInv
<1> QED  BY <1>2, <1>3, <1>4 DEF Inv

-----------------------------------------------------------------------------
(* The beginning                                                           *)

\* What is given is grouped by its times, in their order.
LEMMA GroupsAre ==
  ASSUME ArgsInv, NEW S, S \in SUBSET Times
  PROVE  /\ Len(GroupsOf(S)) \in Nat
         /\ GroupsOf(S) \in Seq([time : Times, inputs : Seq(Nat)])
         /\ \A i \in 1..Len(GroupsOf(S)) :
              /\ GroupsOf(S)[i].time \in S
              /\ GroupsOf(S)[i].inputs = InputsAt(given, GroupsOf(S)[i].time)
         /\ \A i, j \in 1..Len(GroupsOf(S)) : i < j => GroupsOf(S)[i].time < GroupsOf(S)[j].time
         /\ \A t \in S : \E i \in 1..Len(GroupsOf(S)) : GroupsOf(S)[i].time = t
<1> DEFINE m == Cardinality(S)
           q == Sorted(S)
           G == GroupsOf(S)
<1>1. S \in SUBSET Nat /\ LastTime \in Nat /\ (\A t \in S : t <= LastTime)
      /\ \A t \in Nat : InputsAt(given, t) \in Seq(Nat)
  <2>1. LastTime \in Nat /\ \A t \in Nat : InputsAt(given, t) \in Seq(Nat)
    BY ArgsFacts
  <2>2. \A t \in Times : t \in Nat /\ t <= LastTime
    BY <2>1 DEF Times
  <2> QED  BY <2>1, <2>2
<1>2. IsFiniteSet(S)
  BY <1>1, FS_BoundedSetOfNaturals
<1>3. /\ m \in Nat /\ q \in [1..m -> S] /\ (\A i, j \in 1..m : i < j => q[i] < q[j])
      /\ \A x \in S : \E i \in 1..m : q[i] = x
  BY <1>1, <1>2, SortedIs
<1>4. G = [n \in 1..m |-> [time |-> q[n], inputs |-> InputsAt(given, q[n])]]
  <2>1. DOMAIN q = 1..m
    BY <1>3
  <2>2. G = [n \in DOMAIN q |-> [time |-> q[n], inputs |-> InputsAt(given, q[n])]]
    BY DEF GroupsOf
  <2> HIDE DEF G, q, m
  <2> QED  BY <2>1, <2>2
<1> HIDE DEF G, q, m
<1>5. \A n \in 1..m : q[n] \in S /\ q[n] \in Times /\ InputsAt(given, q[n]) \in Seq(Nat)
  BY <1>1, <1>3
<1>6. \A n \in 1..m : /\ G[n] \in [time : Times, inputs : Seq(Nat)]
                       /\ G[n].time = q[n] /\ G[n].inputs = InputsAt(given, q[n])
  BY <1>4, <1>5
<1>7. G \in [1..m -> [time : Times, inputs : Seq(Nat)]]
  BY <1>4, <1>5
<1>8. G \in Seq([time : Times, inputs : Seq(Nat)]) /\ Len(G) = m
  <2> DEFINE R == [time : Times, inputs : Seq(Nat)]
  <2>1. G \in [1..m -> R]
    BY <1>7
  <2> HIDE DEF R
  <2>2. G \in Seq(R) /\ Len(G) = m
    BY <1>3, <2>1
  <2> QED  BY <2>2 DEF R
<1>9. Len(G) \in Nat /\ \A i \in 1..Len(G) : G[i].time \in S /\ G[i].inputs = InputsAt(given, G[i].time)
  BY <1>3, <1>5, <1>6, <1>8
<1>10. \A i, j \in 1..Len(G) : i < j => G[i].time < G[j].time
  BY <1>3, <1>6, <1>8
<1>11. \A t \in S : \E i \in 1..Len(G) : G[i].time = t
  BY <1>3, <1>6, <1>8
<1> QED  BY <1>8, <1>9, <1>10, <1>11 DEF G

\* At the start the handler of init runs, and all groups are left.
LEMMA InvInit ==
  ASSUME Init
  PROVE  Inv
<1>1. LastTime \in Nat /\ MaxInputs \in Nat /\ Times \in SUBSET Nat /\ until \in Times /\ until \in Nat
  BY EvaluateToAssumption DEF Init, Times
<1>2. ArgsInv
  <2>1. \E n \in Nat : given \in [1..n -> Times]
    BY <1>1 DEF Init, SeqOf
  <2> QED  BY <2>1 DEF Init, ArgsInv
<1>3. program \in [Handlers -> Works] /\ program["init"] \in Works
  BY <1>2, ArgsFacts DEF Handlers
<1>4. /\ frame = [time |-> 0, inputs |-> <<>>, number |-> 1] /\ ~interpolating
      /\ interpolating = FALSE
      /\ running = [work |-> program["init"], input_state |-> "empty"]
      /\ schedule = [t \in 0..(LastTime + 1) |-> 0] /\ seen = <<>> /\ outputs = <<>>
      /\ events = Groups /\ result = "none"
  BY DEF Init, Starts
<1>5. FrameInv
  <2>1. frame \in [time : Nat, inputs : Seq(Nat), number : Nat \ {0}]
    <3>1. <<>> \in Seq(Nat)
      OBVIOUS
    <3> QED  BY <1>4, <3>1
  <2>2. running \in Futures
    BY <1>3, <1>4 DEF Futures
  <2> QED  BY <1>1, <1>4, <2>1, <2>2 DEF FrameInv
<1>6. EventsInv
  <2>1. Late = {t \in Occurring : t <= until} /\ Late \in SUBSET Times
    BY <1>2, <1>4, ArgsFacts DEF Late
  <2>2. events = GroupsOf(Late)
    BY <1>4, <2>1 DEF Groups
  <2> QED  BY <1>2, <2>1, <2>2, GroupsAre DEF EventsInv
<1>7. WorkInv
  <2>1. PICK w \in Works : w = program["init"]
    BY <1>3
  <2>2. Nothing \in States /\ <<0>> \in Seq(Nat) /\ 0 \in Nat
    BY DEF Nothing, States
  <2>3. PICK start \in States : start = Nothing
    BY <2>2
  <2>4. InHandler(start, w, 0, <<0>>)[0] = start
    BY <2>2, InHandlerStarts
  <2>5. Handled = <<0>> /\ frame.time = 0 /\ frame.number = 1 /\ schedule[0] = 0
    BY <1>1, <1>4 DEF Handled
  <2>6. Now = start
    BY <1>1, <1>4, <2>3 DEF Now, Nothing
  <2>7. Left(w, w, 0) /\ 0 \in 0..Len(w)
    <3>1. Len(w) \in Nat
      BY DEF Works
    <3> QED  BY <3>1 DEF Left
  <2>8. InWork(start, w)
    BY <1>4, <2>1, <2>4, <2>5, <2>6, <2>7 DEF InWork
  <2>9. Leads(start, w)
    BY <2>1, <2>3, <2>5 DEF Leads, Begun
  <2> QED  BY <2>8, <2>9 DEF WorkInv
<1>8. OutcomeInv
  BY <1>4 DEF OutcomeInv
<1> QED  BY <1>2, <1>5, <1>6, <1>7, <1>8 DEF Inv

-----------------------------------------------------------------------------
(* States that are fetched                                                 *)

\* The states that were fetched, while neither the frame nor its input state changes.
LEMMA AskedStays ==
  ASSUME AskedInv, UNCHANGED <<args, asked, interpolating, state_fut>>,
         frame'.time = frame.time, frame'.number = frame.number,
         running'.input_state = running.input_state, result' # "panic"
  PROVE  AskedInv'
  BY DEF AskedInv, args

\* Each state was fetched for a frame and a time.
LEMMA AskedTypes ==
  ASSUME AskedInv
  PROVE  /\ Len(asked) \in Nat /\ DOMAIN asked = 1..Len(asked)
         /\ \A i \in 1..Len(asked) : asked[i].frame \in Nat /\ asked[i].time \in Nat
<1> DEFINE R == [frame : Nat, time : Nat]
<1>1. asked \in Seq(R)
  BY DEF AskedInv
<1> HIDE DEF R
<1>2. Len(asked) \in Nat /\ DOMAIN asked = 1..Len(asked) /\ \A i \in 1..Len(asked) : asked[i] \in R
  BY <1>1
<1> QED  BY <1>2 DEF R

\* A frame, or the interpolation, begins with an empty input state.
LEMMA AskedBefore ==
  ASSUME Inv, AskedInv, UNCHANGED <<args, asked>>, ~state_fut', running'.input_state = "empty",
         result' # "panic", ~interpolating, NEW t \in Nat, frame'.time = t, frame.time <= t,
         \/ interpolating' /\ frame'.number = frame.number
         \/ ~interpolating' /\ frame'.number = frame.number + 1
  PROVE  AskedInv'
<1>1. frame.number \in Nat \ {0} /\ frame.time \in Nat
  BY NowFacts DEF Inv
<1>2. \A i \in 1..Len(asked) : /\ asked[i].frame \in Nat /\ asked[i].time \in Nat
                               /\ asked[i].frame # 0 /\ asked[i].frame <= frame.number
                               /\ asked[i].time <= frame.time
  <2> SUFFICES ASSUME NEW i \in 1..Len(asked)
               PROVE  /\ asked[i].frame \in Nat /\ asked[i].time \in Nat
                      /\ asked[i].frame # 0 /\ asked[i].frame <= frame.number
                      /\ asked[i].time <= frame.time
    OBVIOUS
  <2>1. asked[i].frame \in Nat /\ asked[i].time \in Nat
    BY AskedTypes
  <2> QED  BY <2>1 DEF AskedInv
<1>3. \A i \in 1..Len(asked) : asked[i].time <= t
  BY <1>1, <1>2
<1>4. \A i \in 1..Len(asked) : asked[i].frame <= frame.number + 1 /\ asked[i].frame # frame.number + 1
  BY <1>1, <1>2
<1>5. asked' = asked /\ until' = until
  BY DEF args
<1>6. CASE interpolating' /\ frame'.number = frame.number
  BY <1>2, <1>3, <1>5, <1>6 DEF AskedInv
<1>7. CASE ~interpolating' /\ frame'.number = frame.number + 1
  BY <1>2, <1>3, <1>4, <1>5, <1>7 DEF AskedInv
<1> QED  BY <1>6, <1>7

\* A state is fetched for a frame that has none, and is not later than its time.
LEMMA AskedFetches ==
  ASSUME Inv, AskedInv, Fetches
  PROVE  AskedInv'
<1>1. /\ UNCHANGED <<args, frame, interpolating, running, result>> /\ ~state_fut /\ state_fut' = TRUE
      /\ running.input_state = "requested"
  BY DEF Fetches, Runs, StillRuns
<1>2. PICK f \in Nat, t \in Nat : /\ f = IF interpolating THEN 0 ELSE frame.number
                                 /\ t = IF interpolating THEN until ELSE frame.time
  BY NowFacts, ArgsFacts DEF Inv
<1>3. asked' = Append(asked, [frame |-> f, time |-> t])
  BY <1>2 DEF Fetches
<1>4. asked \in Seq([frame : Nat, time : Nat]) /\ Len(asked) \in Nat
  BY DEF AskedInv
<1>5. /\ asked' \in Seq([frame : Nat, time : Nat]) /\ Len(asked') = Len(asked) + 1
      /\ asked'[Len(asked) + 1] = [frame |-> f, time |-> t]
      /\ \A i \in 1..Len(asked) : asked'[i] = asked[i]
  <2>1. [frame |-> f, time |-> t] \in [frame : Nat, time : Nat]
    OBVIOUS
  <2> QED  BY <1>3, <1>4, <2>1
<1>6. \A i \in 1..Len(asked) : asked[i].frame # f
  BY <1>1, <1>2 DEF AskedInv
<1>7. \A i \in 1..Len(asked) : asked[i].time <= t
  <2> SUFFICES ASSUME NEW i \in 1..Len(asked) PROVE asked[i].time <= t
    OBVIOUS
  <2>1. asked[i].time \in Nat /\ frame.time \in Nat /\ until \in Nat /\ frame.time <= until
    BY AskedTypes, NowFacts, ArgsFacts DEF Inv
  <2>2. asked[i].frame # 0 => asked[i].time <= frame.time
    BY DEF AskedInv
  <2>3. asked[i].frame = 0 => interpolating /\ asked[i].time = until
    BY DEF AskedInv
  <2> QED  BY <1>2, <2>1, <2>2, <2>3
<1>8. \A i \in 1..Len(asked') : i = Len(asked) + 1 \/ i \in 1..Len(asked)
  BY <1>4, <1>5
<1>9. ASSUME NEW i \in 1..Len(asked'), NEW j \in 1..Len(asked'), i < j
      PROVE  asked'[i].frame # asked'[j].frame /\ asked'[i].time <= asked'[j].time
  <2>1. i \in 1..Len(asked)
    BY <1>4, <1>5, <1>9
  <2>2. CASE j = Len(asked) + 1
    <3>1. asked'[i] = asked[i] /\ asked'[j].frame = f /\ asked'[j].time = t
      BY <1>5, <2>1, <2>2
    <3> QED  BY <1>6, <1>7, <2>1, <3>1
  <2>3. CASE j \in 1..Len(asked)
    <3>1. asked'[i] = asked[i] /\ asked'[j] = asked[j]
      BY <1>5, <2>1, <2>3
    <3> QED  BY <1>9, <2>1, <2>3, <3>1 DEF AskedInv
  <2> QED  BY <1>8, <2>2, <2>3
<1>10. ASSUME NEW i \in 1..Len(asked')
       PROVE  IF asked'[i].frame = 0 THEN interpolating /\ asked'[i].time = until
              ELSE asked'[i].frame <= frame.number /\ asked'[i].time <= frame.time
  <2>1. CASE i = Len(asked) + 1
    <3>1. frame.number \in Nat \ {0} /\ frame.time \in Nat
      BY NowFacts DEF Inv
    <3> QED  BY <1>2, <1>5, <2>1, <3>1
  <2>2. CASE i \in 1..Len(asked)
    BY <1>5, <2>2 DEF AskedInv
  <2> QED  BY <1>8, <2>1, <2>2
<1> QED  BY <1>1, <1>5, <1>9, <1>10 DEF AskedInv, args

\* Every step keeps what is known of the states that were fetched.
LEMMA AskedNext ==
  ASSUME Inv, AskedInv, [Next]_vars
  PROVE  AskedInv'
<1>a. running \in Futures /\ running.input_state \in {"empty", "requested", "full"}
  BY DEF Inv, FrameInv, Futures
<1>b. Goes => running'.input_state = running.input_state
  BY <1>a DEF Goes, Futures
<1>1. CASE StateArrives
  <2>1. running.input_state = "requested"
    BY <1>1 DEF StateArrives, AskedInv
  <2>2. /\ running'.input_state = "full" /\ result' = result /\ state_fut' = FALSE
        /\ UNCHANGED <<args, frame, interpolating, asked>>
    BY <1>1, <1>a, <2>1 DEF StateArrives, Futures
  <2> QED  BY <2>2 DEF AskedInv, args
<1>2. CASE Requests
  <2>1. /\ running'.input_state = "requested" /\ running.input_state = "empty"
        /\ ~state_fut /\ UNCHANGED <<args, frame, interpolating, asked, state_fut, result>>
    BY <1>2, <1>a DEF Requests, Runs, StillRuns, Futures
  <2> QED  BY <2>1 DEF AskedInv, args
<1>3. CASE Fetches
  BY <1>3, AskedFetches
<1>4. CASE StatePends \/ Wakes \/ Waits \/ WaitIsOver \/ IsAnswered \/ Counts \/ Emits \/ Plans
           \/ UNCHANGED vars
  <2>1. /\ UNCHANGED <<args, asked, interpolating, state_fut, frame, result>>
        /\ running'.input_state = running.input_state
    BY <1>4, <1>b DEF StatePends, Wakes, Waits, WaitIsOver, IsAnswered, Counts, Emits, Plans,
                     StillRuns, vars
  <2>2. result # "panic"
    BY DEF AskedInv
  <2> QED  BY <2>1, <2>2, AskedStays
<1>5. CASE HandleScheduled
  <2>1. /\ UNCHANGED <<args, asked, interpolating, state_fut, result>>
        /\ running' = [running EXCEPT !.work = program["scheduled"]]
        /\ frame' = [frame EXCEPT !.inputs = <<>>]
    BY <1>5 DEF HandleScheduled
  <2>2. running'.input_state = running.input_state
    BY <1>a, <2>1 DEF Futures
  <2>3. frame'.time = frame.time /\ frame'.number = frame.number
    BY <2>1 DEF Inv, FrameInv
  <2>4. result # "panic"
    BY DEF AskedInv
  <2> QED  BY <2>1, <2>2, <2>3, <2>4, AskedStays
<1>6. CASE TakeInput \/ TakeScheduled
  <2>1. PICK t \in Nat : frame.time <= t /\ \E inputs, work : NextFrame(t, inputs, work)
    <3>1. CASE TakeInput
      <4>1. events[1].time \in Late /\ Late \in SUBSET Nat
        BY <3>1, FirstEvent DEF TakeInput, InputIsNext
      <4>2. frame.time <= events[1].time
        <5>1. events[1].time \in Nat /\ frame.time \in Nat /\ (frame.number = 1 => frame.time = 0)
          BY <4>1 DEF Inv, FrameInv
        <5>2. frame.number = 1 \/ frame.time < events[1].time
          BY <4>1 DEF Late
        <5> QED  BY <5>1, <5>2
      <4> QED  BY <3>1, <4>1, <4>2 DEF TakeInput
    <3>2. CASE TakeScheduled
      <4>1. PICK t \in Due : NextFrame(t, <<>>, <<>>)
        BY <3>2 DEF TakeScheduled
      <4>2. t \in Nat /\ frame.time \in Nat /\ t \in {frame.time, frame.time + 1}
        BY ArgsFacts DEF Due, Inv, FrameInv
      <4>3. frame.time <= t
        BY <4>2
      <4> QED  BY <4>1, <4>2, <4>3
    <3> QED  BY <1>6, <3>1, <3>2
  <2>2. /\ UNCHANGED <<args, asked, interpolating, state_fut, result>>
        /\ running'.input_state = "empty" /\ frame'.time = t /\ frame'.number = frame.number + 1
    BY <2>1 DEF NextFrame, Starts
  <2>3. ~interpolating /\ ~state_fut /\ result # "panic"
    BY <1>6 DEF TakeInput, TakeScheduled, Saturated, Done, AskedInv
  <2> QED  BY <2>1, <2>2, <2>3, AskedBefore
<1>7. CASE Interpolate
  <2>1. /\ UNCHANGED <<args, asked, frame, state_fut, result>> /\ interpolating'
        /\ running'.input_state = "empty" /\ ~interpolating /\ ~state_fut /\ result # "panic"
    BY <1>7 DEF Interpolate, Starts, Saturated, Done, AskedInv
  <2>2. PICK t \in Nat : t = frame.time
    BY NowFacts DEF Inv
  <2>3. frame'.time = t /\ frame.time <= t /\ frame'.number = frame.number
    BY <2>1, <2>2
  <2> QED  BY <2>1, <2>3, AskedBefore
<1>8. CASE Return
  <2>1. /\ UNCHANGED <<args, asked, interpolating, state_fut, frame, running>>
        /\ result' # "panic"
    BY <1>8 DEF Return
  <2> QED  BY <2>1, AskedStays
<1> QED
  BY <1>1, <1>2, <1>3, <1>4, <1>5, <1>6, <1>7, <1>8 DEF Next

\* At the start none was fetched.
LEMMA AskedInit ==
  ASSUME Init
  PROVE  AskedInv
<1>1. asked = <<>> /\ asked \in Seq([frame : Nat, time : Nat]) /\ Len(asked) = 0
  BY DEF Init
<1>2. ~state_fut /\ running.input_state = "empty" /\ result = "none"
  BY DEF Init, Starts
<1> QED  BY <1>1, <1>2 DEF AskedInv

-----------------------------------------------------------------------------
(* Theorems                                                                *)

\* Every step keeps the invariant.
LEMMA InvNext ==
  ASSUME Inv, [Next]_vars
  PROVE  Inv'
<1>1. CASE StateArrives
  <2>1. running' \in Futures /\ running'.work = running.work
    <3>1. running \in Futures
      BY DEF Inv, FrameInv
    <3>2. running' = running \/ running' = [running EXCEPT !.input_state = "full"]
      BY <1>1 DEF StateArrives
    <3> QED  BY <3>1, <3>2 DEF Futures
  <2>2. result' = "ready" => result = "ready"
    BY <1>1 DEF StateArrives
  <2>3. UNCHANGED <<args, events, frame, interpolating, schedule, seen, outputs>>
    BY <1>1 DEF StateArrives
  <2> QED  BY <2>1, <2>2, <2>3, InvWhilePending
<1>2. CASE Requests
  <2>1. running' \in Futures /\ running'.work = running.work
    <3>1. running \in Futures
      BY DEF Inv, FrameInv
    <3>2. running' = [running EXCEPT !.input_state = "requested"]
      BY <1>2 DEF Requests
    <3> QED  BY <3>1, <3>2 DEF Futures
  <2>2. UNCHANGED <<args, events, frame, interpolating, schedule, seen, outputs, result>>
    BY <1>2 DEF Requests, StillRuns
  <2> QED  BY <2>1, <2>2, InvWhilePending
<1>3. CASE StatePends \/ Wakes \/ Waits \/ Fetches \/ UNCHANGED vars
  <2>1. UNCHANGED <<args, events, frame, interpolating, schedule, seen, outputs, result, running>>
    BY <1>3 DEF StatePends, Wakes, Waits, Fetches, StillRuns, vars
  <2>2. running \in Futures
    BY DEF Inv, FrameInv
  <2> QED  BY <2>1, <2>2, InvWhilePending
<1>4. CASE WaitIsOver \/ IsAnswered
  BY <1>4, InvAwaited
<1>5. CASE Counts
  BY <1>5, InvCounts
<1>6. CASE Emits
  BY <1>6, InvEmits
<1>7. CASE Plans
  BY <1>7, InvPlans
<1>8. CASE HandleScheduled
  BY <1>8, InvHandleScheduled
<1>9. CASE TakeInput
  BY <1>9, InvTakeInput
<1>10. CASE TakeScheduled
  BY <1>10, InvTakeScheduled
<1>11. CASE Interpolate
  BY <1>11, InvInterpolate
<1>12. CASE Return
  BY <1>12, InvReturn
<1> QED
  BY <1>1, <1>2, <1>3, <1>4, <1>5, <1>6, <1>7, <1>8, <1>9, <1>10, <1>11, <1>12 DEF Next

\* The invariant always holds.
LEMMA InvAlways == Spec => []Inv
<1>1. Init => Inv
  BY InvInit
<1>2. Inv /\ [Next]_vars => Inv'
  BY InvNext
<1> QED  BY <1>1, <1>2, PTL DEF Spec

\* EvaluateTo::poll returns the outputs and the state that the handlers define, called instant by
\* instant with the inputs up to `until`, in whatever order these were given.
THEOREM ResultAlwaysTheTransposers == Spec => []ResultIsTheTransposers
<1>1. Inv => ResultIsTheTransposers
  BY DEF Inv, OutcomeInv, ResultIsTheTransposers
<1> QED  BY <1>1, InvAlways, PTL

\* EvaluateTo::poll calls `state` once for a frame or the interpolation, at its time and never at an
\* earlier one, and SingleInputState::set_state finds no state in it.
THEOREM StatesAlwaysFetchedOnce == Spec => []StatesAreFetchedOnce
<1>1. Init => AskedInv
  BY AskedInit
<1>2. Inv /\ AskedInv /\ [Next]_vars => AskedInv'
  BY AskedNext
<1>3. AskedInv => StatesAreFetchedOnce
  <2> SUFFICES ASSUME AskedInv PROVE StatesAreFetchedOnce
    OBVIOUS
  <2>1. DOMAIN asked = 1..Len(asked) /\ result # "panic"
    BY AskedTypes DEF AskedInv
  <2>2. \A i \in 1..Len(asked) : asked[i].frame = 0 => asked[i].time = until
    BY DEF AskedInv
  <2> QED  BY <2>1, <2>2 DEF AskedInv, StatesAreFetchedOnce
<1> QED  BY <1>1, <1>2, <1>3, InvAlways, PTL DEF Spec
=============================================================================
