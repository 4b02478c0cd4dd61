--------------------------- MODULE Duplicate_proofs ---------------------------
(***************************************************************************)
(* What holds of the duplicates of a source, whatever their number, the    *)
(* threads that use them, and what they do together.                       *)
(*                                                                         *)
(* They keep to channels of their own: the numbering of the pairs of an    *)
(* index and a channel is injective, since the diagonals before the s-th   *)
(* hold s * (s + 1) / 2 pairs, and the s-th one holds s + 1.               *)
(*                                                                         *)
(* Nothing the source says is lost on the way to a handle (MissInv); and   *)
(* who sleeps will be woken, and in time (ReachInv, PromiseInv, LateInv).  *)
(* Callers agree on the events that stand, but for those said when another *)
(* entry stood at their time, as long as polls do not overlap (PlaceInv,   *)
(* ViewInv).  A caller's max_channel is exact, since the square root it    *)
(* rests on is.                                                            *)
(*                                                                         *)
(* That a handle has an index of its own is a hypothesis of these: it      *)
(* fails when two are cloned at the same time.                             *)
(***************************************************************************)
EXTENDS Duplicate, Integers, FiniteSetTheorems, WellFoundedInduction, TLAPS

-----------------------------------------------------------------------------
(* The numbering of the pairs *)

\* A number is even or odd.
LEMMA Halves ==
  ASSUME NEW s \in Nat
  PROVE  \E k \in Nat : \/ s = 2 * k /\ s % 2 = 0 /\ s \div 2 = k
                        \/ s = 2 * k + 1 /\ s % 2 = 1 /\ (s + 1) \div 2 = k + 1
<1>1. s \div 2 \in Nat
  OBVIOUS
<1>2. CASE s % 2 = 0
  <2>1. s = 2 * (s \div 2)
    BY <1>2
  <2> QED  BY <1>1, <1>2, <2>1
<1>3. CASE s % 2 = 1
  <2>1. s = 2 * (s \div 2) + 1
    BY <1>3
  <2>2. (s + 1) \div 2 = (s \div 2) + 1
    BY <2>1, <1>1
  <2> QED  BY <1>1, <1>3, <2>1, <2>2
<1> QED  BY <1>2, <1>3

\* The product may be halved before it is computed, in either factor.
LEMMA DiagonalsHalvesTheProduct ==
  ASSUME NEW s \in Nat
  PROVE  Diagonals(s) \in Nat /\ 2 * Diagonals(s) = s * (s + 1)
<1>1. PICK k \in Nat : \/ s = 2 * k /\ s % 2 = 0 /\ s \div 2 = k
                       \/ s = 2 * k + 1 /\ s % 2 = 1 /\ (s + 1) \div 2 = k + 1
  BY Halves
<1>2. CASE s = 2 * k /\ s % 2 = 0 /\ s \div 2 = k
  <2>1. Diagonals(s) = k * (s + 1)
    BY <1>2 DEF Diagonals
  <2>2. k * (s + 1) \in Nat /\ 2 * (k * (s + 1)) = (2 * k) * (s + 1)
    BY Z3
  <2> QED  BY <1>2, <2>1, <2>2
<1>3. CASE s = 2 * k + 1 /\ s % 2 = 1 /\ (s + 1) \div 2 = k + 1
  <2>1. Diagonals(s) = s * (k + 1)
    BY <1>3 DEF Diagonals
  <2>2. s * (k + 1) \in Nat /\ 2 * (s * (k + 1)) = s * (2 * k + 2)
    BY Z3
  <2>3. 2 * k + 2 = s + 1
    BY <1>3
  <2> QED  BY <2>1, <2>2, <2>3
<1> QED  BY <1>1, <1>2, <1>3

\* A diagonal ends where the next one starts.
LEMMA NextDiagonal ==
  ASSUME NEW s \in Nat
  PROVE  Diagonals(s + 1) = Diagonals(s) + s + 1
<1>1. 2 * Diagonals(s) = s * (s + 1) /\ Diagonals(s) \in Nat
  BY DiagonalsHalvesTheProduct
<1>2. 2 * Diagonals(s + 1) = (s + 1) * (s + 2) /\ Diagonals(s + 1) \in Nat
  BY DiagonalsHalvesTheProduct, s + 1 \in Nat, (s + 1) + 1 = s + 2
<1>3. (s + 1) * (s + 2) = s * (s + 1) + 2 * s + 2
  BY Z3
<1> QED  BY <1>1, <1>2, <1>3

\* So the diagonals do not overlap.
LEMMA LaterDiagonal ==
  ASSUME NEW s \in Nat, NEW t \in Nat, s < t
  PROVE  Diagonals(s) + s < Diagonals(t)
<1>1. 2 * Diagonals(s) = s * (s + 1) /\ Diagonals(s) \in Nat
  BY DiagonalsHalvesTheProduct
<1>2. 2 * Diagonals(t) = t * (t + 1) /\ Diagonals(t) \in Nat
  BY DiagonalsHalvesTheProduct
<1>3. PICK d \in Nat : t = (s + 1) + d
  BY t - (s + 1) \in Nat
<1>4. t * (t + 1) = (s + 1) * (s + 2) + d * (2 * s + 3 + d)
  BY <1>3, Z3
<1>6. (s + 1) * (s + 2) = s * (s + 1) + 2 * s + 2
  BY Z3
<1>7. s * (s + 1) \in Nat /\ t * (t + 1) \in Nat /\ d * (2 * s + 3 + d) \in Nat
  BY Z3
<1>8. t * (t + 1) = (s * (s + 1) + 2 * s + 2) + d * (2 * s + 3 + d)
  BY <1>4, <1>6
<1>9. ASSUME NEW a \in Nat, NEW b \in Nat, NEW p \in Nat, NEW e \in Nat,
             2 * a = p, 2 * b = (p + 2 * s + 2) + e
      PROVE  a + s < b
  BY <1>9
<1>10. 2 * Diagonals(t) = (s * (s + 1) + 2 * s + 2) + d * (2 * s + 3 + d)
  BY <1>2, <1>8
<1> QED  BY <1>1, <1>2, <1>7, <1>9, <1>10

\* Two duplicates never get one channel of the source, nor one duplicate the same
\* channel twice, however many there are of both (channel_map::map).
THEOREM MapIsInjective ==
  ASSUME NEW d \in Nat, NEW c \in Nat, NEW e \in Nat, NEW f \in Nat, Map(d, c) = Map(e, f)
  PROVE  d = e /\ c = f
<1>1. Diagonals(d + c) + c = Diagonals(e + f) + f
  BY DEF Map
<1>2. Diagonals(d + c) \in Nat /\ Diagonals(e + f) \in Nat
  BY DiagonalsHalvesTheProduct, d + c \in Nat, e + f \in Nat
<1>3. CASE d + c < e + f
  <2>1. Diagonals(d + c) + (d + c) < Diagonals(e + f)
    BY <1>3, LaterDiagonal, d + c \in Nat, e + f \in Nat
  <2> QED  BY <1>1, <1>2, <2>1
<1>4. CASE e + f < d + c
  <2>1. Diagonals(e + f) + (e + f) < Diagonals(d + c)
    BY <1>4, LaterDiagonal, d + c \in Nat, e + f \in Nat
  <2> QED  BY <1>1, <1>2, <2>1
<1>5. CASE d + c = e + f
  BY <1>1, <1>2, <1>5
<1> QED  BY <1>3, <1>4, <1>5

\* No channel of the source is wasted: the pairs of the first s diagonals are
\* numbered from 0 to Diagonals(s) - 1 and the channel counts them up along each.
THEOREM MapFillsTheDiagonals ==
  ASSUME NEW s \in Nat, NEW n \in Nat, Diagonals(s) <= n, n < Diagonals(s + 1)
  PROVE  \E d \in Nat, c \in Nat : d + c = s /\ Map(d, c) = n
<1>1. Diagonals(s) \in Nat /\ Diagonals(s + 1) = Diagonals(s) + s + 1
  BY DiagonalsHalvesTheProduct, NextDiagonal
<1>2. PICK c \in 0..s : n = Diagonals(s) + c
  BY <1>1, n - Diagonals(s) \in 0..s
<1>3. (s - c) + c = s /\ s - c \in Nat /\ c \in Nat
  OBVIOUS
<1>4. Map(s - c, c) = n
  BY <1>2, <1>3 DEF Map
<1> QED  BY <1>3, <1>4

-----------------------------------------------------------------------------
(* The indices *)

\* What every handle does is known, and the index of a child that is on its way
\* into the registry is a number.
CallInv ==
  /\ call = [h \in Handles |-> call[h]]
  /\ \A h \in Handles : "at" \in DOMAIN call[h]
  /\ \A h \in Handles : At(h, "cloning") => call[h].index \in Nat

\* So are the indices in the registry, which has a last one.
IndexInv ==
  /\ CallInv
  /\ index \in [Handles -> Nat]
  /\ DOMAIN children \in SUBSET Nat
  /\ \E n \in DOMAIN children : \A i \in DOMAIN children : i <= n

-----------------------------------------------------------------------------
\* The greatest element of a set of numbers that has one.
LEMMA MaxOfIndices ==
  ASSUME NEW S \in SUBSET Nat, NEW n \in S, \A i \in S : i <= n
  PROVE  Max(S) \in Nat
<1>1. \A i \in S : n >= i
  OBVIOUS
<1> QED  BY <1>1 DEF Max

\* A handle that goes on to anything but a clone.
LEMMA GoesOn ==
  ASSUME IndexInv, NEW h \in Handles, NEW r, "at" \in DOMAIN r, r.at # "cloning",
         GoesTo(h, r), UNCHANGED <<bound, index, children>>
  PROVE  IndexInv'
<1>1. call' = [call EXCEPT ![h] = r] /\ Handles' = Handles
  BY DEF GoesTo, Handles
<1>2. call' = [g \in Handles |-> call'[g]]
  BY <1>1 DEF IndexInv, CallInv
<1>3. \A g \in Handles : call'[g] = IF g = h THEN r ELSE call[g]
  BY <1>1 DEF IndexInv, CallInv
<1>4. CallInv'
  BY <1>1, <1>2, <1>3 DEF IndexInv, CallInv, At
<1> QED  BY <1>1, <1>4 DEF IndexInv

LEMMA IndexInit == Init => IndexInv
<1> SUFFICES ASSUME Init PROVE IndexInv
  OBVIOUS
<1>1. CallInv
  BY DEF Init, CallInv, At
<1>2. index \in [Handles -> Nat]
  BY DEF Init
<1>3. DOMAIN children = {0}
  BY DEF Init
<1> QED  BY <1>1, <1>2, <1>3 DEF IndexInv

\* A new index is a number, the one behind the last.
LEMMA GetNextIndexStep ==
  ASSUME IndexInv, NEW h \in Handles, GetNextIndex(h)
  PROVE  IndexInv'
<1> DEFINE r == [at |-> "cloning", index |-> Max(DOMAIN children) + 1]
<1>1. /\ call' = [call EXCEPT ![h] = r]
      /\ Handles' = Handles /\ UNCHANGED <<index, children>>
  BY DEF GetNextIndex, GoesTo, registry, Handles
<1>2. Max(DOMAIN children) \in Nat
  BY MaxOfIndices DEF IndexInv
<1>3. "at" \in DOMAIN r /\ r.index \in Nat
  BY <1>2
<1> HIDE DEF r
<1>4. call' = [g \in Handles |-> call'[g]]
  BY <1>1 DEF IndexInv, CallInv
<1>5. \A g \in Handles : call'[g] = IF g = h THEN r ELSE call[g]
  BY <1>1 DEF IndexInv, CallInv
<1>6. CallInv'
  BY <1>1, <1>3, <1>4, <1>5 DEF IndexInv, CallInv, At
<1> QED  BY <1>1, <1>6 DEF IndexInv

\* The child is registered with the index that was read.
LEMMA InsertChildStep ==
  ASSUME IndexInv, NEW h \in Handles, InsertChild(h)
  PROVE  IndexInv'
<1> DEFINE g == Min({f \in Handles : At(f, "unborn")})
           r == [at |-> "inserted", child |-> g]
           s == [at |-> "new"]
<1>1. call[h].index \in Nat
  BY DEF InsertChild, IndexInv, CallInv
<1>2. /\ call' = [call EXCEPT ![h] = r, ![g] = s]
      /\ index' = [index EXCEPT ![g] = call[h].index]
      /\ children' = With(children, call[h].index, g)
      /\ Handles' = Handles
  BY DEF InsertChild, Handles
<1>3. "at" \in DOMAIN r /\ r.at # "cloning" /\ "at" \in DOMAIN s /\ s.at # "cloning"
  OBVIOUS
<1> HIDE DEF g, r, s
<1>4. call' = [f \in Handles |-> call'[f]]
  BY <1>2 DEF IndexInv, CallInv
<1>5. \A f \in Handles : call'[f] \in {r, s, call[f]}
  BY <1>2 DEF IndexInv, CallInv
<1>6. CallInv'
  BY <1>2, <1>3, <1>4, <1>5 DEF IndexInv, CallInv, At
<1>7. index' \in [Handles -> Nat]
  BY <1>1, <1>2 DEF IndexInv
<1>8. DOMAIN children' = {call[h].index} \cup DOMAIN children
  BY <1>2 DEF With
<1>9. PICK n \in DOMAIN children : n \in Nat /\ \A i \in DOMAIN children : i <= n
  BY DEF IndexInv
<1>10. \E m \in DOMAIN children' : \A i \in DOMAIN children' : i <= m
  <2>1. CASE call[h].index <= n
    BY <1>8, <1>9, <2>1
  <2>2. CASE n < call[h].index
    <3>1. \A i \in DOMAIN children : i \in Nat /\ i <= call[h].index
      BY <1>1, <1>9, <2>2 DEF IndexInv
    <3> QED  BY <1>1, <1>8, <3>1
  <2> QED  BY <1>1, <1>9, <2>1, <2>2
<1>11. DOMAIN children' \in SUBSET Nat
  BY <1>1, <1>8 DEF IndexInv
<1> QED  BY <1>2, <1>6, <1>7, <1>10, <1>11 DEF IndexInv

\* Both go on, or are gone.
LEMMA RegisterAdvancedStep ==
  ASSUME IndexInv, NEW h \in Handles, RegisterAdvanced(h)
  PROVE  IndexInv'
<1> DEFINE r == IF advanced.poisoned THEN Gone ELSE Idle
<1>1. /\ call' = [call EXCEPT ![h] = r, ![call[h].child] = r]
      /\ Handles' = Handles /\ UNCHANGED <<index, children>>
  BY DEF RegisterAdvanced, Handles
<1>2. "at" \in DOMAIN r /\ r.at # "cloning"
  BY DEF Gone, Idle
<1> HIDE DEF r
<1>3. call' = [f \in Handles |-> call'[f]]
  BY <1>1 DEF IndexInv, CallInv
<1>4. \A f \in Handles : call'[f] \in {r, call[f]}
  BY <1>1 DEF IndexInv, CallInv
<1>5. CallInv'
  BY <1>1, <1>2, <1>3, <1>4 DEF IndexInv, CallInv, At
<1> QED  BY <1>1, <1>5 DEF IndexInv

-----------------------------------------------------------------------------
LEMMA IndexNext == IndexInv /\ [Next]_vars => IndexInv'
<1> SUFFICES ASSUME IndexInv, [Next]_vars PROVE IndexInv'
  OBVIOUS
<1>1. CASE UNCHANGED vars
  BY <1>1 DEF vars, registry, IndexInv, CallInv, At, Handles
<1>2. CASE SourceWakes
  BY <1>2 DEF SourceWakes, registry, IndexInv, CallInv, At, Handles
<1>3. CASE Rests
  BY <1>1, <1>3 DEF Rests
<1>4. ASSUME NEW h \in Handles, Steps(h) PROVE IndexInv'
  <2>1. ASSUME NEW time \in 1..bound.polls, Register(h, time) PROVE IndexInv'
    <3>1. GoesTo(h, [at |-> "registered", time |-> time])
      BY <2>1 DEF Register
    <3> QED  BY <2>1, <3>1, GoesOn DEF Register, registry
  <2>2. ASSUME NEW time \in 1..bound.advances, Advance(h, time) PROVE IndexInv'
    <3>1. PICK r \in {Gone, Idle, [at |-> "advancing",
                     to |-> Aggregate(Increment(Decrement(advanced.counts, advanced.of[index[h]]),
                                                time))]} : GoesTo(h, r)
      BY <2>2 DEF Advance
    <3>2. "at" \in DOMAIN r /\ r.at # "cloning"
      BY DEF Gone, Idle
    <3> QED  BY <2>2, <3>1, <3>2, GoesOn DEF Advance
  <2>3. CASE FindStored(h)
    <3>1. GoesTo(h, [at |-> IF ToEmitStored(h) THEN "popping" ELSE "polling", time |-> call[h].time])
      BY <2>3 DEF FindStored
    <3> QED  BY <2>3, <3>1, GoesOn DEF FindStored, registry
  <2>4. CASE PopStored(h)
    <3>1. GoesTo(h, Idle)
      BY <2>4 DEF PopStored
    <3> QED  BY <2>4, <3>1, GoesOn DEF PopStored, registry, Idle
  <2>5. CASE PopStoredPanics(h)
    <3>1. GoesTo(h, Gone)
      BY <2>5 DEF PopStoredPanics
    <3> QED  BY <2>5, <3>1, GoesOn DEF PopStoredPanics, registry, Gone
  <2>6. CASE SourceEmits(h)
    <3>1. PICK e, r : /\ GoesTo(h, r)
                      /\ r \in {[at |-> "purging", entry |-> e, left |-> DOMAIN children],
                                [at |-> "emitted", entry |-> e]}
      BY <2>6 DEF SourceEmits
    <3>2. "at" \in DOMAIN r /\ r.at # "cloning"
      BY <3>1
    <3> QED  BY <2>6, <3>1, <3>2, GoesOn DEF SourceEmits, PollsSource, registry
  <2>7. CASE SourceIsPending(h)
    <3>1. GoesTo(h, Idle)
      BY <2>7 DEF SourceIsPending
    <3> QED  BY <2>7, <3>1, GoesOn DEF SourceIsPending, PollsSource, registry, Idle
  <2>8. CASE SourceHasState(h)
    <3>1. PICK next : GoesTo(h, [at |-> "adjusting", next |-> next])
      BY <2>8 DEF SourceHasState
    <3> QED  BY <2>8, <3>1, GoesOn DEF SourceHasState, PollsSource, registry
  <2>9. CASE Adjust(h)
    <3>1. GoesTo(h, Idle)
      BY <2>9 DEF Adjust
    <3> QED  BY <2>9, <3>1, GoesOn DEF Adjust, registry, Idle
  <2>10. CASE Purge(h)
    <3> DEFINE rest == call[h].left \ {Min(call[h].left)}
               r    == IF rest = {} THEN [at |-> "emitted", entry |-> call[h].entry]
                       ELSE [call[h] EXCEPT !.left = rest]
    <3>1. GoesTo(h, r) /\ UNCHANGED <<bound, index, children>>
      BY <2>10 DEF Purge, registry
    <3>2. "at" \in DOMAIN r /\ r.at # "cloning"
      BY <2>10 DEF Purge, At, IndexInv, CallInv
    <3> QED  BY <3>1, <3>2, GoesOn
  <2>11. CASE Distribute(h)
    <3>1. GoesTo(h, [at |-> "distributing", entry |-> call[h].entry,
                left |-> DOMAIN children \ {index[h]}])
      BY <2>11 DEF Distribute
    <3> QED  BY <2>11, <3>1, GoesOn DEF Distribute, registry
  <2>12. CASE HandOut(h)
    <3> DEFINE r == [call[h] EXCEPT !.left = @ \ {Min(@)}]
    <3>1. GoesTo(h, r) /\ UNCHANGED <<bound, index, children>>
      BY <2>12 DEF HandOut, registry
    <3>2. "at" \in DOMAIN r /\ r.at # "cloning"
      BY <2>12 DEF HandOut, At, IndexInv, CallInv
    <3> QED  BY <3>1, <3>2, GoesOn
  <2>13. CASE Answer(h)
    <3>1. GoesTo(h, Idle)
      BY <2>13 DEF Answer
    <3> QED  BY <2>13, <3>1, GoesOn DEF Answer, registry, Idle
  <2>14. CASE AdvancePanics(h)
    <3>1. GoesTo(h, Gone)
      BY <2>14 DEF AdvancePanics
    <3> QED  BY <2>14, <3>1, GoesOn DEF AdvancePanics, registry, Gone
  <2>15. CASE AdvanceSource(h)
    <3>1. GoesTo(h, Idle)
      BY <2>15 DEF AdvanceSource
    <3> QED  BY <2>15, <3>1, GoesOn DEF AdvanceSource, registry, Idle
  <2>16. CASE GetNextIndex(h)
    BY <2>16, GetNextIndexStep
  <2>17. CASE InsertChild(h)
    BY <2>17, InsertChildStep
  <2>18. CASE RegisterAdvanced(h)
    BY <2>18, RegisterAdvancedStep
  <2>19. CASE Drop(h)
    <3>1. GoesTo(h, Gone)
      BY <2>19 DEF Drop
    <3> QED  BY <2>19, <3>1, GoesOn DEF Drop, registry, Gone
  <2>20. CASE SourceFails(h)
    <3>1. GoesTo(h, Idle)
      BY <2>20 DEF SourceFails
    <3> QED  BY <2>20, <3>1, GoesOn DEF SourceFails, PollsSource, registry, Idle
  <2> QED
    BY <1>4, <2>1, <2>2, <2>3, <2>4, <2>5, <2>6, <2>7, <2>8, <2>9, <2>10, <2>11, <2>12, <2>13,
       <2>14, <2>15, <2>16, <2>17, <2>18, <2>19, <2>20 DEF Steps
<1> QED
  BY <1>1, <1>2, <1>3, <1>4 DEF Next

\* Indices are numbers, so different ones never lead to one channel.
LEMMA IndicesKeepApart == IndexInv => ChannelsAreApart
<1> SUFFICES ASSUME IndexInv, NEW g \in Handles, NEW h \in Handles, g # h, Listens(g),
                    ~At(h, "unborn"), NEW c \in 0..3, NEW d \in 0..3,
                    Map(index[g], c) = Map(index[h], d)
             PROVE  FALSE
  BY DEF ChannelsAreApart
<1>1. index[g] # index[h]
  BY DEF Listens, OwnIndex
<1>2. index[g] \in Nat /\ index[h] \in Nat /\ c \in Nat /\ d \in Nat
  BY DEF IndexInv
<1> QED  BY <1>1, <1>2, MapIsInjective

\* Whatever the number of duplicates and threads, and whatever they do at the same
\* time: no two of them poll the source on one channel (channel_map.rs, original.rs).
THEOREM ChannelsAlwaysApart == Spec => []ChannelsAreApart
<1>1. Spec => []IndexInv
  BY IndexInit, IndexNext, PTL DEF Spec
<1> QED  BY <1>1, IndicesKeepApart, PTL

-----------------------------------------------------------------------------
(* What the source says reaches everybody *)

\* The places at which a handle deals with its own business.
Aside == {"idle", "registered", "popping", "polling", "adjusting", "advancing"}
Entry == [kind : {"event", "rollback", "finalize"}, time : Times, id : Nat]
Logged == {source.log[i] : i \in DOMAIN source.log}
Carries(h) == call[h].at \in {"purging", "emitted", "distributing"}
Owner(h) == Alive(h) /\ OwnIndex(h)

\* What a caller has been told, and whether it was told an entry or more than before.
Sequence(s) == \E A : s \in Seq(A)
Says(s, id) == \E i \in DOMAIN s : s[i] = id
Keeps(s, t) == \A i \in DOMAIN s : i \in DOMAIN t /\ t[i] = s[i]

\* The entries the handles have stored are those of the source, whose ids are their places.
StoreInv ==
  /\ bound \in Bounds
  /\ DOMAIN source = {"log", "promised", "hasWaker", "advanced"}
  /\ source.log \in Seq(Entry)
  /\ \A i \in DOMAIN source.log : source.log[i].id = i
  /\ stored \in [Handles -> SUBSET Logged]
  /\ joined \in [Handles -> Nat]
  /\ heard = [h \in Handles |-> heard[h]]
  /\ \A h \in Handles : Sequence(heard[h])

\* So are those they carry.  A rollback is carried out while it is the last of them.
CarryInv ==
  /\ \A h \in Handles : Carries(h) => call[h].entry \in Logged /\ "entry" \in DOMAIN call[h]
  /\ \A h \in Handles : At(h, "purging") \/ At(h, "distributing") => "left" \in DOMAIN call[h]
  /\ \A h \in Handles : At(h, "purging") =>
       IsRollback(call[h].entry) /\ call[h].entry.id = Len(source.log)

\* A handle with an index of its own is found under it; the child of a clone waits for it; and
\* there is a child for every clone.
ChildInv ==
  /\ \A h \in Handles : Owner(h) => index[h] \in DOMAIN children /\ children[index[h]] = h
  /\ \A h \in Handles : At(h, "inserted") =>
       call[h].child \in Handles /\ At(call[h].child, "new")
  /\ \A g, h \in Handles :
       At(g, "inserted") /\ At(h, "inserted") /\ call[g].child = call[h].child => g = h
  /\ Cardinality({h \in Handles : At(h, "cloning")}) <= Cardinality({h \in Handles : At(h, "unborn")})

Reaches(h, id) ==
  LET e == source.log[id]
  IN  \/ Says(heard[h], id)
      \/ e \in stored[h]
      \/ OnItsWayTo(h, id)
      \/ ~IsRollback(e) /\ \E i \in (id + 1)..Len(source.log) :
           IsRollback(source.log[i]) /\ source.log[i].time <= e.time
      \/ \E i \in DOMAIN source.log : i # id /\ Equal(source.log[i], e)

\* New handles are waited for, too.
MissInv ==
  \A h \in Handles : Owner(h) =>
    \A id \in (joined[h] + 1)..Len(source.log) : Reaches(h, id)

-----------------------------------------------------------------------------
\* What h does, and the others do not.
GoesOnFrom(h, places, r) ==
  /\ call[h].at \in places
  /\ GoesTo(h, r) /\ "at" \in DOMAIN r
  /\ UNCHANGED <<bound, index, children, joined>>

Quiet(h, r) ==
  /\ GoesOnFrom(h, Aside, r) /\ r.at \in Aside \cup {"gone"}
  /\ UNCHANGED <<stored, heard>> /\ source'.log = source.log /\ DOMAIN source' = DOMAIN source

\* The steps that leave the entries where they are.
LEMMA QuietSteps ==
  ASSUME StoreInv, NEW h \in Handles,
         \/ \E time \in 1..bound.polls : Register(h, time)
         \/ \E time \in 1..bound.advances : Advance(h, time)
         \/ FindStored(h) \/ PopStoredPanics(h) \/ SourceIsPending(h) \/ SourceHasState(h)
         \/ SourceFails(h) \/ Adjust(h) \/ AdvancePanics(h) \/ AdvanceSource(h) \/ Drop(h)
  PROVE  \E r : Quiet(h, r)
<1> USE DEF Quiet, GoesOnFrom, Aside, At
<1>1. ASSUME NEW time \in 1..bound.polls, Register(h, time) PROVE \E r : Quiet(h, r)
  <2>1. Quiet(h, [at |-> "registered", time |-> time])
    BY <1>1 DEF Register, Calls, registry
  <2> QED  BY <2>1
<1>2. ASSUME NEW time \in 1..bound.advances, Advance(h, time) PROVE \E r : Quiet(h, r)
  <2>1. PICK r \in {Gone, Idle, [at |-> "advancing",
                   to |-> Aggregate(Increment(Decrement(advanced.counts, advanced.of[index[h]]),
                                              time))]} : GoesTo(h, r)
    BY <1>2 DEF Advance
  <2>2. "at" \in DOMAIN r /\ r.at \in {"gone", "idle", "advancing"}
    BY DEF Gone, Idle
  <2>3. Quiet(h, r)
    BY <1>2, <2>1, <2>2 DEF Advance, Calls
  <2> QED  BY <2>3
<1>3. CASE FindStored(h)
  <2>1. Quiet(h, [at |-> IF ToEmitStored(h) THEN "popping" ELSE "polling", time |-> call[h].time])
    BY <1>3 DEF FindStored, registry, history
  <2> QED  BY <2>1
<1>4. CASE PopStoredPanics(h)
  <2>1. Quiet(h, Gone)
    BY <1>4 DEF PopStoredPanics, registry, history, Gone
  <2> QED  BY <2>1
<1>5. CASE SourceIsPending(h)
  <2>1. Quiet(h, Idle)
    BY <1>5 DEF SourceIsPending, PollsSource, registry, history, Idle, StoreInv
  <2> QED  BY <2>1
<1>11. CASE SourceFails(h)
  <2>1. Quiet(h, Idle)
    BY <1>11 DEF SourceFails, PollsSource, registry, history, Idle, StoreInv
  <2> QED  BY <2>1
<1>6. CASE SourceHasState(h)
  <2>1. PICK next : /\ source' = [source EXCEPT !.promised = next, !.hasWaker = TRUE]
                    /\ GoesTo(h, [at |-> "adjusting", next |-> next])
    BY <1>6 DEF SourceHasState
  <2>2. Quiet(h, [at |-> "adjusting", next |-> next])
    BY <1>6, <2>1 DEF SourceHasState, PollsSource, registry, history, StoreInv
  <2> QED  BY <2>2
<1>7. CASE Adjust(h)
  <2>1. Quiet(h, Idle)
    BY <1>7 DEF Adjust, registry, history, Idle
  <2> QED  BY <2>1
<1>8. CASE AdvancePanics(h)
  <2>1. Quiet(h, Gone)
    BY <1>8 DEF AdvancePanics, Calls, registry, history, Gone
  <2> QED  BY <2>1
<1>9. CASE AdvanceSource(h)
  <2>1. Quiet(h, Idle)
    BY <1>9 DEF AdvanceSource, registry, history, Idle, StoreInv
  <2> QED  BY <2>1
<1>10. CASE Drop(h)
  <2>1. Quiet(h, Gone)
    BY <1>10 DEF Drop, Calls, registry, history, Gone
  <2> QED  BY <2>1
<1> QED
  BY <1>1, <1>2, <1>3, <1>4, <1>5, <1>6, <1>7, <1>8, <1>9, <1>10, <1>11

-----------------------------------------------------------------------------
\* What h does to the places of the handles.
LEMMA Places ==
  ASSUME IndexInv, NEW h \in Handles, NEW r, GoesTo(h, r), UNCHANGED bound
  PROVE  /\ Handles' = Handles
         /\ call'[h] = r
         /\ \A g \in Handles \ {h} : call'[g] = call[g]
BY DEF IndexInv, CallInv, GoesTo, Handles

LEMMA FinitelyMany ==
  ASSUME bound \in Bounds, NEW S \in SUBSET Handles
  PROVE  IsFiniteSet(S) /\ Cardinality(S) \in Nat
<1>1. bound.handles \in Nat
  BY DuplicateAssumption
<1>2. IsFiniteSet(Handles)
  BY <1>1, FS_Interval DEF Handles
<1> QED  BY <1>2, FS_Subset, FS_CardinalityType

\* A non-empty set of naturals has a least element, and Min is it.
LEMMA LeastOf ==
  ASSUME NEW S \in SUBSET Nat, S # {}
  PROVE  Min(S) \in S /\ \A t \in S : Min(S) <= t
<1> DEFINE R == OpToRel(<, Nat)
<1>1. \E x \in S : \A y \in S : ~ (<<y, x>> \in R)
  BY WFMin, NatLessThanWellFounded
<1>2. ASSUME NEW x \in S, NEW y \in S, ~ (<<y, x>> \in R)
      PROVE  x <= y
  BY <1>2, SMT DEF OpToRel
<1>3. \E x \in S : \A y \in S : x <= y
  BY <1>1, <1>2
<1> QED  BY <1>3 DEF Min

\* Handles that are not being cloned or cloning keep their places in the registry.
LEMMA ChildGoesOn ==
  ASSUME IndexInv, ChildInv, NEW h \in Handles, NEW r,
         GoesOnFrom(h, Aside \cup {"purging", "emitted", "distributing"}, r),
         r.at \in Aside \cup {"gone", "purging", "emitted", "distributing"}
  PROVE  ChildInv'
<1>1. Handles' = Handles /\ call'[h] = r /\ \A g \in Handles \ {h} : call'[g] = call[g]
  BY Places DEF GoesOnFrom
<1>2. \A g \in Handles : /\ At(g, "unborn")' <=> At(g, "unborn")
                         /\ At(g, "cloning")' <=> At(g, "cloning")
                         /\ At(g, "inserted")' <=> At(g, "inserted")
                         /\ At(g, "new")' <=> At(g, "new")
                         /\ At(g, "inserted") => call'[g] = call[g]
                         /\ Alive(g)' => Alive(g)
  BY <1>1 DEF At, Alive, GoesOnFrom, Aside
<1>3. UNCHANGED <<index, children>>
  BY DEF GoesOnFrom
<1>4. \A g \in Handles : Owner(g)' => Owner(g)
  BY <1>1, <1>2, <1>3 DEF Owner, OwnIndex
<1>5. {g \in Handles : At(g, "cloning")}' = {g \in Handles : At(g, "cloning")}
  BY <1>1, <1>2
<1>6. {g \in Handles : At(g, "unborn")}' = {g \in Handles : At(g, "unborn")}
  BY <1>1, <1>2
<1> QED  BY <1>1, <1>2, <1>3, <1>4, <1>5, <1>6 DEF ChildInv

LEMMA ChildGetNextIndex ==
  ASSUME IndexInv, ChildInv, bound \in Bounds, NEW h \in Handles, GetNextIndex(h)
  PROVE  ChildInv'
<1> DEFINE r    == [at |-> "cloning", index |-> Max(DOMAIN children) + 1]
           C    == {g \in Handles : At(g, "cloning")}
           U    == {g \in Handles : At(g, "unborn")}
<1>1. GoesTo(h, r) /\ UNCHANGED <<bound, index, children>> /\ At(h, "idle")
      /\ Cardinality(U) > Cardinality(C)
  BY DEF GetNextIndex, registry, Calls
<1>2. r.at = "cloning"
  OBVIOUS
<1> HIDE DEF r
<1>3. Handles' = Handles /\ call'[h] = r /\ \A g \in Handles \ {h} : call'[g] = call[g]
  BY <1>1, Places
<1>4. \A g \in Handles : /\ At(g, "unborn")' <=> At(g, "unborn")
                         /\ At(g, "cloning")' <=> At(g, "cloning") \/ g = h
                         /\ At(g, "inserted")' <=> At(g, "inserted")
                         /\ At(g, "new")' <=> At(g, "new")
                         /\ At(g, "inserted") => call'[g] = call[g]
                         /\ Alive(g)' => Alive(g)
  BY <1>1, <1>2, <1>3 DEF At, Alive
<1>5. \A g \in Handles : Owner(g)' => Owner(g)
  BY <1>1, <1>3, <1>4 DEF Owner, OwnIndex
<1>6. C' = C \cup {h} /\ U' = U
  BY <1>3, <1>4
<1>7. IsFiniteSet(C) /\ Cardinality(C) \in Nat /\ Cardinality(U) \in Nat
  BY FinitelyMany
<1>8. Cardinality(C \cup {h}) <= Cardinality(C) + 1
  <2> HIDE DEF C
  <2>1. Cardinality(C \cup {h}) = IF h \in C THEN Cardinality(C) ELSE Cardinality(C) + 1
    BY <1>7, FS_AddElement
  <2> QED  BY <1>7, <2>1
<1>9. Cardinality(C \cup {h}) <= Cardinality(U)
  <2>1. Cardinality(C \cup {h}) \in Nat
    BY FinitelyMany, C \cup {h} \in SUBSET Handles
  <2> HIDE DEF C, U
  <2> QED  BY <1>1, <1>7, <1>8, <2>1
<1>10. Cardinality(C)' <= Cardinality(U)'
  <2> HIDE DEF C, U
  <2> QED  BY <1>6, <1>9
<1> QED  BY <1>1, <1>3, <1>4, <1>5, <1>10 DEF ChildInv

\* There is a least handle that is unborn when one is cloned.
LEMMA ChildToBe ==
  ASSUME IndexInv, ChildInv, bound \in Bounds, NEW h \in Handles, At(h, "cloning")
  PROVE  LET g == Min({f \in Handles : At(f, "unborn")})
         IN  g \in Handles /\ At(g, "unborn")
<1> DEFINE C    == {g \in Handles : At(g, "cloning")}
           U    == {g \in Handles : At(g, "unborn")}
<1>1. IsFiniteSet(C) /\ IsFiniteSet(U) /\ Cardinality(C) \in Nat /\ Cardinality(U) \in Nat
  BY FinitelyMany
<1>2. Cardinality(C) # 0
  BY <1>1, FS_EmptySet, h \in C
<1>3. Cardinality(C) <= Cardinality(U)
  BY DEF ChildInv
<1>4. Cardinality(U) # 0
  <2> HIDE DEF C, U
  <2> QED  BY <1>1, <1>2, <1>3
<1>5. U # {}
  BY <1>4, FS_EmptySet
<1>6. U \subseteq Nat
  BY DuplicateAssumption DEF Handles
<1>7. Min(U) \in U
  <2> HIDE DEF C, U
  <2> QED  BY <1>5, <1>6, LeastOf
<1> QED  BY <1>7

LEMMA ChildInsertChild ==
  ASSUME IndexInv, ChildInv, bound \in Bounds, NEW h \in Handles, InsertChild(h)
  PROVE  ChildInv'
<1> DEFINE g == Min({f \in Handles : At(f, "unborn")})
           i == call[h].index
           C == {f \in Handles : At(f, "cloning")}
           U == {f \in Handles : At(f, "unborn")}
<1>1. At(h, "cloning") /\ g \in Handles /\ At(g, "unborn") /\ g # h
  BY ChildToBe DEF InsertChild, At
<1>2. /\ call' = [call EXCEPT ![h] = [at |-> "inserted", child |-> g], ![g] = [at |-> "new"]]
      /\ index' = [index EXCEPT ![g] = i]
      /\ children' = With(children, i, g)
      /\ bound' = bound /\ Handles' = Handles
  BY DEF InsertChild, Handles
<1> HIDE DEF g, i
<1>3. /\ call'[h] = [at |-> "inserted", child |-> g] /\ call'[g] = [at |-> "new"]
      /\ \A f \in Handles \ {g, h} : call'[f] = call[f]
  BY <1>1, <1>2 DEF IndexInv, CallInv
<1>4. index'[g] = i /\ \A f \in Handles \ {g} : index'[f] = index[f]
  BY <1>1, <1>2 DEF IndexInv
<1>5. /\ i \in DOMAIN children' /\ children'[i] = g
      /\ \A j \in DOMAIN children \ {i} : j \in DOMAIN children' /\ children'[j] = children[j]
  BY <1>2 DEF With
<1>6. \A f \in Handles : /\ At(f, "unborn")' <=> At(f, "unborn") /\ f # g
                         /\ At(f, "cloning")' <=> At(f, "cloning") /\ f # h
                         /\ At(f, "inserted")' <=> At(f, "inserted") \/ f = h
                         /\ At(f, "new")' <=> At(f, "new") \/ f = g
                         /\ Alive(f)' <=> Alive(f) \/ f = g
  BY <1>1, <1>3 DEF At, Alive
<1>7. ASSUME NEW f \in Handles, Owner(f)'
      PROVE  index'[f] \in DOMAIN children' /\ children'[index'[f]] = f
  <2>1. CASE f = g
    BY <2>1, <1>4, <1>5
  <2>2. CASE f # g
    <3>1. index'[f] = index[f] /\ index[f] # i
      BY <1>1, <1>2, <1>4, <1>6, <1>7, <2>2 DEF Owner, OwnIndex
    <3>2. \A k \in Handles \ {f} : At(k, "unborn") \/ index[k] # index[f]
      BY <1>1, <1>2, <1>4, <1>6, <1>7, <2>2 DEF Owner, OwnIndex
    <3>3. Owner(f)
      BY <1>6, <1>7, <2>2, <3>2 DEF Owner, OwnIndex
    <3> QED  BY <1>5, <3>1, <3>3 DEF ChildInv
  <2> QED  BY <2>1, <2>2
<1>8. ASSUME NEW f \in Handles, At(f, "inserted")'
      PROVE  call'[f].child \in Handles /\ call'[call'[f].child].at = "new"
  <2>1. CASE f = h
    BY <1>1, <1>3, <2>1
  <2>2. CASE f # h
    <3>1. At(f, "inserted") /\ f # g
      BY <1>1, <1>6, <1>8, <2>2 DEF At
    <3>2. call'[f] = call[f] /\ call[f].child \in Handles /\ At(call[f].child, "new")
      BY <1>3, <2>2, <3>1 DEF ChildInv
    <3>3. call[f].child # h /\ call[f].child # g
      BY <1>1, <3>2 DEF At
    <3> QED  BY <1>3, <3>2, <3>3 DEF At
  <2> QED  BY <2>1, <2>2
<1>9. ASSUME NEW e \in Handles, NEW f \in Handles, At(e, "inserted")', At(f, "inserted")',
             call'[e].child = call'[f].child
      PROVE  e = f
  BY <1>1, <1>3, <1>6, <1>9 DEF ChildInv, At
<1>10. C' = C \ {h} /\ U' = U \ {g} /\ h \in C /\ g \in U
  BY <1>1, <1>2, <1>6
<1>11. /\ IsFiniteSet(C) /\ IsFiniteSet(U) /\ Cardinality(C) \in Nat /\ Cardinality(U) \in Nat
       /\ Cardinality(C) <= Cardinality(U)
  BY FinitelyMany DEF ChildInv
<1>12. Cardinality(C)' <= Cardinality(U)'
  <2> HIDE DEF C, U
  <2>1. Cardinality(C \ {h}) = Cardinality(C) - 1 /\ Cardinality(U \ {g}) = Cardinality(U) - 1
    BY <1>10, <1>11, FS_RemoveElement
  <2> QED  BY <1>10, <1>11, <2>1
<1>13. (\A f \in Handles : At(f, "inserted") => call[f].child \in Handles /\ At(call[f].child, "new"))'
  BY <1>2, <1>8 DEF At
<1> QED  BY <1>2, <1>7, <1>9, <1>12, <1>13 DEF ChildInv

LEMMA ChildRegisterAdvanced ==
  ASSUME IndexInv, ChildInv, NEW h \in Handles, RegisterAdvanced(h)
  PROVE  ChildInv'
<1> DEFINE r == IF advanced.poisoned THEN Gone ELSE Idle
           g == call[h].child
<1>1. /\ call' = [call EXCEPT ![h] = r, ![g] = r]
      /\ bound' = bound /\ Handles' = Handles /\ UNCHANGED <<index, children>>
      /\ At(h, "inserted") /\ g \in Handles /\ At(g, "new")
  BY DEF RegisterAdvanced, Handles, ChildInv
<1>2. r.at \in {"idle", "gone"}
  BY DEF Gone, Idle
<1> HIDE DEF r
<1>3. call'[h] = r /\ call'[g] = r /\ \A f \in Handles \ {g, h} : call'[f] = call[f]
  BY <1>1 DEF IndexInv, CallInv
<1>4. \A f \in Handles : /\ At(f, "unborn")' <=> At(f, "unborn")
                         /\ At(f, "cloning")' <=> At(f, "cloning")
                         /\ At(f, "inserted")' <=> At(f, "inserted") /\ f # h
                         /\ Alive(f)' => Alive(f)
  BY <1>1, <1>2, <1>3 DEF At, Alive
<1>5. \A f \in Handles : Owner(f)' => Owner(f)
  BY <1>1, <1>4 DEF Owner, OwnIndex
<1>6. ASSUME NEW f \in Handles, At(f, "inserted")'
      PROVE  /\ call'[f] = call[f] /\ call[f].child \in Handles
             /\ call'[call'[f].child].at = "new"
  <2>1. At(f, "inserted") /\ f # h /\ f # g
    BY <1>1, <1>4, <1>6 DEF At
  <2>2. call'[f] = call[f] /\ call[f].child \in Handles /\ At(call[f].child, "new")
    BY <1>3, <2>1 DEF ChildInv
  <2>3. call[f].child # h /\ call[f].child # g
    BY <1>1, <2>1, <2>2 DEF At, ChildInv
  <2>4. call'[call[f].child].at = "new"
    BY <1>3, <2>2, <2>3 DEF At
  <2> QED  BY <2>2, <2>4
<1>7. (\A f \in Handles : At(f, "inserted") => call[f].child \in Handles /\ At(call[f].child, "new"))'
  <2>1. Handles' = Handles
    BY <1>1
  <2>2. \A f \in Handles : call'[f].at = "inserted" =>
          call'[f].child \in Handles /\ call'[call'[f].child].at = "new"
    BY <1>6 DEF At
  <2> QED  BY <2>1, <2>2 DEF At
<1>8. (\A e, f \in Handles :
         At(e, "inserted") /\ At(f, "inserted") /\ call[e].child = call[f].child => e = f)'
  BY <1>1, <1>4, <1>6 DEF ChildInv
<1>9. {f \in Handles : At(f, "cloning")}' = {f \in Handles : At(f, "cloning")}
  BY <1>1, <1>4
<1>10. {f \in Handles : At(f, "unborn")}' = {f \in Handles : At(f, "unborn")}
  BY <1>1, <1>4
<1> QED  BY <1>1, <1>4, <1>5, <1>7, <1>8, <1>9, <1>10 DEF ChildInv

LEMMA ChildInit == Init => ChildInv
<1> SUFFICES ASSUME Init PROVE ChildInv
  OBVIOUS
<1>1. bound.handles \in Nat
  BY DuplicateAssumption DEF Init
<1>2. \A h \in Handles : At(h, IF h = 0 THEN "idle" ELSE "unborn")
  BY DEF Init, At
<1>3. children = [i \in {0} |-> 0] /\ index = [h \in Handles |-> 0]
  BY DEF Init
<1>4. \A h \in Handles : Owner(h) => h = 0
  BY <1>2 DEF Owner, Alive, At
<1>5. {h \in Handles : At(h, "cloning")} = {}
  BY <1>2 DEF At
<1>6. Cardinality({h \in Handles : At(h, "cloning")}) = 0
  BY <1>5, FS_EmptySet
<1>7. Cardinality({h \in Handles : At(h, "unborn")}) \in Nat
  <2>1. bound \in Bounds
    BY DEF Init
  <2> QED  BY <2>1, FinitelyMany
<1>8. \A h \in Handles : ~At(h, "inserted")
  BY <1>2 DEF At
<1>9. Cardinality({h \in Handles : At(h, "cloning")}) <= Cardinality({h \in Handles : At(h, "unborn")})
  BY <1>6, <1>7
<1> QED  BY <1>3, <1>4, <1>8, <1>9 DEF ChildInv

-----------------------------------------------------------------------------
LEMMA StoreKept ==
  ASSUME StoreInv, UNCHANGED <<bound, heard>>, source'.log = source.log,
         DOMAIN source' = DOMAIN source,
         stored' \in [Handles -> SUBSET Logged], joined' \in [Handles -> Nat]
  PROVE  StoreInv'
<1>1. Handles' = Handles /\ Logged' = Logged
  BY DEF Handles, Logged
<1> QED  BY <1>1 DEF StoreInv

LEMMA CarryKept ==
  ASSUME CarryInv, Handles' = Handles, source'.log = source.log,
         \A g \in Handles : Carries(g)' => call'[g] = call[g]
  PROVE  CarryInv'
<1>1. Logged' = Logged
  BY DEF Logged
<1>2. \A g \in Handles : At(g, "purging")' \/ At(g, "distributing")' => Carries(g)'
  BY DEF Carries, At
<1>3. \A g \in Handles : /\ Carries(g)' => Carries(g)
                         /\ At(g, "purging")' => At(g, "purging")
                         /\ At(g, "distributing")' => At(g, "distributing")
  BY <1>2 DEF Carries, At
<1> QED  BY <1>1, <1>2, <1>3 DEF CarryInv

\* The same for a handle that goes on with an entry it has.
LEMMA CarryGoesOn ==
  ASSUME IndexInv, CarryInv, NEW h \in Handles, NEW r, GoesTo(h, r), UNCHANGED bound,
         source'.log = source.log,
         r.at \in {"purging", "emitted", "distributing"} =>
           r.entry \in Logged /\ "entry" \in DOMAIN r,
         r.at \in {"purging", "distributing"} => "left" \in DOMAIN r,
         r.at = "purging" => IsRollback(r.entry) /\ r.entry.id = Len(source.log)
  PROVE  CarryInv'
<1>1. Handles' = Handles /\ call'[h] = r /\ \A g \in Handles \ {h} : call'[g] = call[g]
  BY Places
<1>2. Logged' = Logged
  BY DEF Logged
<1>3. \A g \in Handles : /\ Carries(g)' <=> IF g = h THEN r.at \in {"purging", "emitted", "distributing"}
                                            ELSE Carries(g)
                         /\ At(g, "purging")' <=> IF g = h THEN r.at = "purging" ELSE At(g, "purging")
                         /\ At(g, "distributing")' <=> IF g = h THEN r.at = "distributing"
                                                       ELSE At(g, "distributing")
  BY <1>1 DEF Carries, At
<1> QED  BY <1>1, <1>2, <1>3 DEF CarryInv

\* What a caller is told comes after what it was told before.
LEMMA Told ==
  ASSUME NEW s, NEW id, Sequence(s)
  PROVE  Sequence(Append(s, id)) /\ Says(Append(s, id), id) /\ Keeps(s, Append(s, id))
<1>1. PICK A : s \in Seq(A)
  BY DEF Sequence
<1> DEFINE B == A \cup {id}
<1>2. s \in Seq(B) /\ id \in B
  BY <1>1
<1> HIDE DEF B
<1>3. Append(s, id) \in Seq(B)
  BY <1>2
<1>4. Len(s) + 1 \in DOMAIN Append(s, id) /\ Append(s, id)[Len(s) + 1] = id
  BY <1>2
<1>5. \A i \in DOMAIN s : i \in DOMAIN Append(s, id) /\ Append(s, id)[i] = s[i]
  BY <1>2
<1> QED  BY <1>3, <1>4, <1>5 DEF Sequence, Says, Keeps

LEMMA StoreHears ==
  ASSUME StoreInv, NEW h \in Handles, NEW id, heard' = [heard EXCEPT ![h] = Append(@, id)],
         stored' \in [Handles -> SUBSET Logged], UNCHANGED <<bound, source, joined>>
  PROVE  StoreInv' /\ Says(heard'[h], id) /\ \A g \in Handles : Keeps(heard[g], heard'[g])
<1>1. Handles' = Handles /\ Logged' = Logged
  BY DEF Handles, Logged
<1>2. heard'[h] = Append(heard[h], id) /\ \A g \in Handles \ {h} : heard'[g] = heard[g]
  BY DEF StoreInv
<1>3. Sequence(heard[h])
  BY DEF StoreInv
<1>4. Sequence(heard'[h]) /\ Says(heard'[h], id) /\ Keeps(heard[h], heard'[h])
  BY <1>2, <1>3, Told
<1>5. heard' = [g \in Handles |-> heard'[g]]
  BY DEF StoreInv
<1>6. \A g \in Handles : Sequence(heard'[g])
  BY <1>2, <1>4 DEF StoreInv
<1>7. StoreInv'
  BY <1>1, <1>5, <1>6 DEF StoreInv, Sequence
<1>8. \A g \in Handles : Keeps(heard[g], heard'[g])
  BY <1>2, <1>4 DEF Keeps
<1> QED  BY <1>4, <1>7, <1>8

-----------------------------------------------------------------------------
\* Owners are not made by what a handle does that lives.
LEMMA OwnersKept ==
  ASSUME IndexInv, NEW h \in Handles, NEW r,
         GoesOnFrom(h, Aside \cup {"purging", "emitted", "distributing"}, r),
         r.at \in Aside \cup {"gone", "cloning", "purging", "emitted", "distributing"}
  PROVE  \A g \in Handles : Owner(g)' => Owner(g)
<1>1. Handles' = Handles /\ call'[h] = r /\ \A g \in Handles \ {h} : call'[g] = call[g]
  BY Places DEF GoesOnFrom
<1>2. \A g \in Handles : (At(g, "unborn")' <=> At(g, "unborn")) /\ (Alive(g)' => Alive(g))
  BY <1>1 DEF At, Alive, GoesOnFrom, Aside
<1> QED  BY <1>1, <1>2 DEF Owner, OwnIndex, GoesOnFrom

LEMMA ReachesKept ==
  ASSUME NEW h \in Handles, NEW id, Reaches(h, id), source'.log = source.log,
         Keeps(heard[h], heard'[h]),
         source.log[id] \in stored[h] => Reaches(h, id)',
         OnItsWayTo(h, id) => Reaches(h, id)'
  PROVE  Reaches(h, id)'
BY DEF Reaches, Says, Keeps

LEMMA OnItsWayKept ==
  ASSUME NEW h \in Handles, NEW id, OnItsWayTo(h, id), Handles' = Handles, index'[h] = index[h],
         \A g \in Handles : Carries(g) => call'[g] = call[g]
  PROVE  OnItsWayTo(h, id)'
BY DEF OnItsWayTo, Carries, At

\* When nobody says, stores or carries anything new, nothing is missed.
LEMMA MissKept ==
  ASSUME StoreInv, MissInv, Handles' = Handles, UNCHANGED <<stored, heard>>, source'.log = source.log,
         \A g \in Handles : Carries(g) => call'[g] = call[g],
         \A g \in Handles : Owner(g)' =>
           \/ Owner(g) /\ joined'[g] = joined[g] /\ index'[g] = index[g]
           \/ joined'[g] = Len(source.log)
  PROVE  MissInv'
<1> SUFFICES ASSUME NEW g \in Handles, Owner(g)', NEW id \in (joined'[g] + 1)..Len(source.log)
             PROVE  Reaches(g, id)'
  BY DEF MissInv
<1>1. CASE joined'[g] = Len(source.log)
  <2>1. Len(source.log) \in Nat
    BY DEF StoreInv
  <2> QED  BY <1>1, <2>1
<1>2. CASE Owner(g) /\ joined'[g] = joined[g] /\ index'[g] = index[g]
  <2>1. Reaches(g, id)
    BY <1>2 DEF MissInv
  <2>2. source.log[id] \in stored[g] => Reaches(g, id)'
    BY DEF Reaches
  <2>3. OnItsWayTo(g, id) => Reaches(g, id)'
    <3>1. OnItsWayTo(g, id) => OnItsWayTo(g, id)'
      BY <1>2, OnItsWayKept
    <3> QED  BY <3>1 DEF Reaches
  <2> QED  BY <2>1, <2>2, <2>3, ReachesKept DEF Keeps
<1> QED  BY <1>1, <1>2

EntryInv == StoreInv /\ CarryInv /\ MissInv

LEMMA EntryQuiet ==
  ASSUME IndexInv, EntryInv, NEW h \in Handles, NEW r, Quiet(h, r)
  PROVE  EntryInv'
<1>1. Handles' = Handles /\ call'[h] = r /\ \A g \in Handles \ {h} : call'[g] = call[g]
  BY Places DEF Quiet, GoesOnFrom
<1>2. StoreInv'
  BY <1>1, StoreKept DEF Quiet, GoesOnFrom, EntryInv, StoreInv
<1>3. CarryInv'
  BY <1>1, CarryKept DEF Quiet, GoesOnFrom, EntryInv, Carries, Aside
<1>4. \A g \in Handles : Owner(g)' => Owner(g)
  <2>1. GoesOnFrom(h, Aside \cup {"purging", "emitted", "distributing"}, r)
    BY DEF Quiet, GoesOnFrom
  <2> QED  BY <2>1, OwnersKept DEF Quiet
<1>5. \A g \in Handles : Carries(g) => call'[g] = call[g]
  BY <1>1 DEF Quiet, GoesOnFrom, Carries, Aside
<1>6. MissInv'
  BY <1>1, <1>4, <1>5, MissKept DEF Quiet, GoesOnFrom, EntryInv
<1> QED  BY <1>2, <1>3, <1>6 DEF EntryInv

LEMMA EntryGetNextIndex ==
  ASSUME IndexInv, EntryInv, NEW h \in Handles, GetNextIndex(h)
  PROVE  EntryInv'
<1> DEFINE r == [at |-> "cloning", index |-> Max(DOMAIN children) + 1]
<1>1. /\ GoesOnFrom(h, Aside, r) /\ UNCHANGED <<stored, heard, source>>
  BY DEF GetNextIndex, registry, history, Calls, GoesOnFrom, Aside, At
<1>2. r.at = "cloning"
  OBVIOUS
<1> HIDE DEF r
<1>3. Handles' = Handles /\ call'[h] = r /\ \A g \in Handles \ {h} : call'[g] = call[g]
  BY <1>1, Places DEF GoesOnFrom
<1>4. StoreInv'
  BY <1>1, <1>3, StoreKept DEF GoesOnFrom, EntryInv, StoreInv
<1>5. CarryInv'
  BY <1>1, <1>2, <1>3, CarryKept DEF GoesOnFrom, EntryInv, Carries
<1>6. \A g \in Handles : Owner(g)' => Owner(g)
  <2>1. GoesOnFrom(h, Aside \cup {"purging", "emitted", "distributing"}, r)
    BY <1>1 DEF GoesOnFrom
  <2> QED  BY <1>2, <2>1, OwnersKept
<1>7. \A g \in Handles : Carries(g) => call'[g] = call[g]
  BY <1>1, <1>3 DEF GoesOnFrom, Carries, Aside
<1>8. MissInv'
  BY <1>1, <1>3, <1>6, <1>7, MissKept DEF GoesOnFrom, EntryInv
<1> QED  BY <1>4, <1>5, <1>8 DEF EntryInv

\* A clone has heard nothing of what was said before it.
LEMMA EntryInsertChild ==
  ASSUME IndexInv, ChildInv, EntryInv, NEW h \in Handles, InsertChild(h)
  PROVE  EntryInv'
<1> DEFINE g == Min({f \in Handles : At(f, "unborn")})
<1>1. At(h, "cloning") /\ g \in Handles /\ At(g, "unborn") /\ g # h
  BY ChildToBe DEF InsertChild, At, EntryInv, StoreInv
<1>2. /\ call' = [call EXCEPT ![h] = [at |-> "inserted", child |-> g], ![g] = [at |-> "new"]]
      /\ index' = [index EXCEPT ![g] = call[h].index]
      /\ joined' = [joined EXCEPT ![g] = Len(source.log)]
      /\ UNCHANGED <<bound, stored, heard, source>> /\ Handles' = Handles
  BY DEF InsertChild, Handles
<1> HIDE DEF g
<1>3. /\ call'[h] = [at |-> "inserted", child |-> g] /\ call'[g] = [at |-> "new"]
      /\ \A f \in Handles \ {g, h} : call'[f] = call[f]
  BY <1>1, <1>2 DEF IndexInv, CallInv
<1>4. \A f \in Handles \ {g} : index'[f] = index[f]
  BY <1>1, <1>2 DEF IndexInv
<1>5. /\ joined' \in [Handles -> Nat] /\ joined'[g] = Len(source.log)
      /\ \A f \in Handles \ {g} : joined'[f] = joined[f]
  BY <1>1, <1>2 DEF EntryInv, StoreInv
<1>6. \A f \in Handles : /\ Carries(f)' => call'[f] = call[f]
                         /\ Carries(f) => call'[f] = call[f]
                         /\ At(f, "unborn")' => At(f, "unborn")
                         /\ f # g /\ Alive(f)' => Alive(f)
  BY <1>1, <1>3 DEF Carries, At, Alive
<1>7. StoreInv'
  BY <1>2, <1>5, StoreKept DEF EntryInv, StoreInv
<1>8. CarryInv'
  BY <1>2, <1>6, CarryKept DEF EntryInv
<1>9. ASSUME NEW f \in Handles, Owner(f)', f # g
      PROVE  Owner(f)
  BY <1>1, <1>2, <1>4, <1>6, <1>9 DEF Owner, OwnIndex
<1>10. MissInv'
  BY <1>2, <1>4, <1>5, <1>6, <1>9, MissKept DEF EntryInv
<1> QED  BY <1>7, <1>8, <1>10 DEF EntryInv

LEMMA EntryRegisterAdvanced ==
  ASSUME IndexInv, ChildInv, EntryInv, NEW h \in Handles, RegisterAdvanced(h)
  PROVE  EntryInv'
<1> DEFINE r == IF advanced.poisoned THEN Gone ELSE Idle
           g == call[h].child
<1>1. /\ call' = [call EXCEPT ![h] = r, ![g] = r]
      /\ Handles' = Handles /\ UNCHANGED <<bound, index, children, stored, heard, source, joined>>
      /\ At(h, "inserted") /\ g \in Handles /\ At(g, "new")
  BY DEF RegisterAdvanced, Handles, ChildInv
<1>2. r.at \in {"idle", "gone"}
  BY DEF Gone, Idle
<1> HIDE DEF r
<1>3. call'[h] = r /\ call'[g] = r /\ \A f \in Handles \ {g, h} : call'[f] = call[f]
  BY <1>1 DEF IndexInv, CallInv
<1>4. \A f \in Handles : /\ Carries(f)' => call'[f] = call[f]
                         /\ Carries(f) => call'[f] = call[f]
                         /\ At(f, "unborn")' <=> At(f, "unborn")
                         /\ Alive(f)' => Alive(f)
  BY <1>1, <1>2, <1>3 DEF Carries, At, Alive
<1>5. StoreInv'
  BY <1>1, StoreKept DEF EntryInv, StoreInv
<1>6. CarryInv'
  BY <1>1, <1>4, CarryKept DEF EntryInv
<1>7. \A f \in Handles : Owner(f)' => Owner(f)
  BY <1>1, <1>4 DEF Owner, OwnIndex
<1>8. MissInv'
  BY <1>1, <1>4, <1>7, MissKept DEF EntryInv
<1> QED  BY <1>5, <1>6, <1>8 DEF EntryInv

\* Neither the source waking nor a rest moves an entry.
LEMMA EntryAlone ==
  ASSUME IndexInv, EntryInv, source'.log = source.log, DOMAIN source' = DOMAIN source,
         UNCHANGED <<call, stored, heard, bound, index, children, joined>>
  PROVE  EntryInv'
<1>1. Handles' = Handles /\ \A f \in Handles : call'[f] = call[f]
  BY DEF Handles
<1>2. StoreInv'
  BY <1>1, StoreKept DEF EntryInv, StoreInv
<1>3. CarryInv'
  BY <1>1, CarryKept DEF EntryInv
<1>4. \A f \in Handles : Owner(f)' => Owner(f)
  BY <1>1 DEF Owner, OwnIndex, Alive, At
<1>5. MissInv'
  BY <1>1, <1>4, MissKept DEF EntryInv
<1> QED  BY <1>2, <1>3, <1>5 DEF EntryInv

-----------------------------------------------------------------------------
\* What the source says is on its way to everybody at once.
LEMMA EntrySourceEmits ==
  ASSUME IndexInv, EntryInv, NEW h \in Handles, SourceEmits(h)
  PROVE  EntryInv'
<1>1. PICK kind \in bound.kinds, time \in Times :
        LET e == [kind |-> kind, time |-> time, id |-> Len(source.log) + 1]
        IN  /\ source' = [source EXCEPT !.log = Append(@, e), !.hasWaker = TRUE]
            /\ GoesTo(h, IF IsRollback(e)
                         THEN [at |-> "purging", entry |-> e, left |-> DOMAIN children]
                         ELSE [at |-> "emitted", entry |-> e])
  BY DEF SourceEmits
<1> DEFINE e == [kind |-> kind, time |-> time, id |-> Len(source.log) + 1]
           r == IF IsRollback(e) THEN [at |-> "purging", entry |-> e, left |-> DOMAIN children]
                ELSE [at |-> "emitted", entry |-> e]
<1>2. /\ source' = [source EXCEPT !.log = Append(@, e), !.hasWaker = TRUE] /\ GoesTo(h, r)
      /\ UNCHANGED <<bound, index, children, stored, heard, joined>>
      /\ At(h, "polling") /\ SourceFree
  BY <1>1 DEF SourceEmits, PollsSource, registry, history
<1>3. e \in Entry /\ e.id = Len(source.log) + 1
  <2>1. kind \in {"event", "rollback", "finalize"}
    BY DuplicateAssumption DEF EntryInv, StoreInv
  <2>2. Len(source.log) + 1 \in Nat
    BY DEF EntryInv, StoreInv
  <2> QED  BY <2>1, <2>2 DEF Entry
<1>4. /\ r.entry = e /\ "entry" \in DOMAIN r /\ r.at \in {"purging", "emitted"} /\ "at" \in DOMAIN r
      /\ r.at = "purging" => IsRollback(e) /\ "left" \in DOMAIN r
  OBVIOUS
<1> HIDE DEF e, r
<1>5. Handles' = Handles /\ call'[h] = r /\ \A g \in Handles \ {h} : call'[g] = call[g]
  BY <1>2, Places
<1>6. /\ source'.log = Append(source.log, e) /\ DOMAIN source' = DOMAIN source
      /\ source.log \in Seq(Entry) /\ Len(source.log) \in Nat
  BY <1>2 DEF EntryInv, StoreInv
<1>7. /\ source'.log \in Seq(Entry) /\ Len(source'.log) = Len(source.log) + 1
      /\ source'.log[Len(source.log) + 1] = e
      /\ \A i \in DOMAIN source.log : i \in DOMAIN source'.log /\ source'.log[i] = source.log[i]
      /\ DOMAIN source'.log = DOMAIN source.log \cup {Len(source.log) + 1}
      /\ DOMAIN source.log = 1..Len(source.log)
  BY <1>3, <1>6
<1>8. Logged' = Logged \cup {e}
  BY <1>7 DEF Logged
<1>9. StoreInv'
  <2>1. stored' \in [Handles -> SUBSET Logged']
    BY <1>2, <1>8 DEF EntryInv, StoreInv
  <2>2. \A i \in DOMAIN source'.log : source'.log[i].id = i
    BY <1>3, <1>7 DEF EntryInv, StoreInv
  <2> QED  BY <1>2, <1>5, <1>6, <1>7, <2>1, <2>2 DEF EntryInv, StoreInv
<1>10. \A g \in Handles : ~At(g, "purging") \/ g = h
  BY <1>2 DEF SourceFree
<1>11. CarryInv'
  <2>1. \A g \in Handles : /\ Carries(g)' <=> g = h \/ Carries(g)
                           /\ At(g, "purging")' => g = h
                           /\ At(g, "distributing")' => g # h /\ At(g, "distributing")
    BY <1>2, <1>4, <1>5, <1>10 DEF Carries, At
  <2>2. \A g \in Handles : At(g, "purging") \/ At(g, "distributing") => Carries(g)
    BY DEF Carries, At
  <2>3. (\A g \in Handles : Carries(g) => call[g].entry \in Logged /\ "entry" \in DOMAIN call[g])'
    BY <1>4, <1>5, <1>8, <2>1 DEF EntryInv, CarryInv
  <2>4. (\A g \in Handles : At(g, "purging") \/ At(g, "distributing") => "left" \in DOMAIN call[g])'
    BY <1>4, <1>5, <2>1 DEF EntryInv, CarryInv, At
  <2>5. (\A g \in Handles : At(g, "purging") =>
          IsRollback(call[g].entry) /\ call[g].entry.id = Len(source.log))'
    BY <1>3, <1>4, <1>5, <1>7, <2>1 DEF At
  <2> QED  BY <2>3, <2>4, <2>5 DEF CarryInv
<1>12. \A g \in Handles : Owner(g)' => Owner(g)
  <2>1. GoesOnFrom(h, Aside \cup {"purging", "emitted", "distributing"}, r)
    BY <1>2, <1>4 DEF GoesOnFrom, Aside, At
  <2> QED  BY <1>4, <2>1, OwnersKept
<1>13. ASSUME NEW g \in Handles, Owner(g)', NEW id \in (joined'[g] + 1)..Len(source'.log)
       PROVE  Reaches(g, id)'
  <2>1. CASE id = Len(source.log) + 1
    <3>1. OnItsWayTo(g, id)'
      BY <1>3, <1>4, <1>5, <2>1 DEF OnItsWayTo, At
    <3> QED  BY <3>1 DEF Reaches
  <2>2. CASE id # Len(source.log) + 1
    <3>1. id \in (joined[g] + 1)..Len(source.log) /\ id \in 1..Len(source.log)
      BY <1>2, <1>6, <1>7, <1>13, <2>2 DEF EntryInv, StoreInv
    <3>2. Reaches(g, id) /\ source'.log[id] = source.log[id]
      BY <1>7, <1>12, <1>13, <3>1 DEF EntryInv, MissInv
    <3>3. OnItsWayTo(g, id) => OnItsWayTo(g, id)'
      <4>1. \A f \in Handles : Carries(f) => call'[f] = call[f]
        BY <1>2, <1>5 DEF Carries, At
      <4> QED  BY <1>2, <1>5, <4>1, OnItsWayKept
    <3>4. \A i \in (id + 1)..Len(source.log) : i \in (id + 1)..Len(source'.log) /\ i \in DOMAIN source.log
      BY <1>6, <1>7, <3>1
    <3> QED  BY <1>2, <1>7, <3>1, <3>2, <3>3, <3>4 DEF Reaches
  <2> QED  BY <2>1, <2>2
<1>14. MissInv'
  BY <1>5, <1>13 DEF MissInv
<1> QED  BY <1>9, <1>11, <1>14 DEF EntryInv

\* The entry a caller is told leaves the store, and no other does.
LEMMA EntryPopStored ==
  ASSUME IndexInv, EntryInv, NEW h \in Handles, PopStored(h)
  PROVE  EntryInv'
<1> DEFINE e == First(stored[h])
<1>1. /\ At(h, "popping") /\ GoesTo(h, Idle)
      /\ stored' = [stored EXCEPT ![h] = @ \ {e}]
      /\ heard' = [heard EXCEPT ![h] = Append(@, e.id)]
      /\ UNCHANGED <<bound, index, children, source, joined>>
  BY DEF PopStored, registry
<1> HIDE DEF e
<1>2. GoesOnFrom(h, Aside, Idle) /\ Idle.at = "idle"
  BY <1>1 DEF GoesOnFrom, Aside, At, Idle
<1>3. Handles' = Handles /\ call'[h] = Idle /\ \A g \in Handles \ {h} : call'[g] = call[g]
  BY <1>1, Places
<1>4. /\ stored' \in [Handles -> SUBSET Logged] /\ stored'[h] = stored[h] \ {e}
      /\ \A g \in Handles \ {h} : stored'[g] = stored[g]
  BY <1>1 DEF EntryInv, StoreInv
<1>5. /\ StoreInv'
      /\ Says(heard'[h], e.id)
      /\ \A g \in Handles : Keeps(heard[g], heard'[g])
  BY <1>1, <1>4, StoreHears DEF EntryInv
<1>6. CarryInv'
  BY <1>1, <1>2, <1>3, CarryKept DEF EntryInv, Carries
<1>7. \A g \in Handles : Owner(g)' => Owner(g)
  <2>1. GoesOnFrom(h, Aside \cup {"purging", "emitted", "distributing"}, Idle)
    BY <1>2 DEF GoesOnFrom
  <2> QED  BY <1>2, <2>1, OwnersKept DEF Aside
<1>8. ASSUME NEW g \in Handles, Owner(g)', NEW id \in (joined'[g] + 1)..Len(source'.log)
      PROVE  Reaches(g, id)'
  <2>1. Reaches(g, id)
    BY <1>1, <1>7, <1>8 DEF EntryInv, MissInv
  <2>2. source.log[id].id = id
    BY <1>1, <1>8 DEF EntryInv, StoreInv
  <2>3. source.log[id] \in stored[g] => Reaches(g, id)'
    BY <1>1, <1>4, <1>5, <2>2 DEF Reaches
  <2>4. OnItsWayTo(g, id) => Reaches(g, id)'
    <3>1. \A f \in Handles : Carries(f) => call'[f] = call[f]
      BY <1>1, <1>3 DEF Carries, At
    <3>2. OnItsWayTo(g, id) => OnItsWayTo(g, id)'
      BY <1>1, <1>3, <3>1, OnItsWayKept
    <3> QED  BY <3>2 DEF Reaches
  <2> QED  BY <1>1, <1>5, <2>1, <2>3, <2>4, ReachesKept
<1>9. MissInv'
  BY <1>3, <1>8 DEF MissInv
<1> QED  BY <1>5, <1>6, <1>9 DEF EntryInv

\* What a rollback takes from a store it takes back: it is later in the log than all there is.
LEMMA EntryPurge ==
  ASSUME IndexInv, EntryInv, NEW h \in Handles, Purge(h)
  PROVE  EntryInv'
<1> DEFINE i    == Min(call[h].left)
           e    == call[h].entry
           left == call[h].left \ {i}
           r    == IF left = {} THEN [at |-> "emitted", entry |-> e] ELSE [call[h] EXCEPT !.left = left]
<1>1. /\ At(h, "purging") /\ GoesTo(h, r)
      /\ stored' = IF Alive(children[i])
                   THEN [stored EXCEPT ![children[i]] = PurgeFrom(@, e.time)] ELSE stored
      /\ UNCHANGED <<bound, index, children, source, heard, joined>>
  BY DEF Purge, registry, history
<1>2. /\ IsRollback(e) /\ e.id = Len(source.log) /\ e \in Logged
      /\ {"at", "entry", "left"} \subseteq DOMAIN call[h]
  BY <1>1 DEF EntryInv, CarryInv, Carries, At, IndexInv, CallInv
<1>3. /\ r.at \in {"purging", "emitted"} /\ r.entry = e /\ "entry" \in DOMAIN r /\ "at" \in DOMAIN r
      /\ r.at = "purging" => "left" \in DOMAIN r
  BY <1>1, <1>2 DEF At
<1> HIDE DEF r, left, i, e
<1>4. Handles' = Handles /\ call'[h] = r /\ \A g \in Handles \ {h} : call'[g] = call[g]
  BY <1>1, Places
<1>5. /\ stored' \in [Handles -> SUBSET Logged]
      /\ \A g \in Handles : \A f \in stored[g] \ stored'[g] : ~IsRollback(f) /\ ~(f.time < e.time)
  BY <1>1 DEF PurgeFrom, EntryInv, StoreInv
<1>6. StoreInv'
  BY <1>1, <1>5, StoreKept DEF EntryInv, StoreInv
<1>7. CarryInv'
  BY <1>1, <1>2, <1>3, CarryGoesOn DEF EntryInv
<1>8. \A g \in Handles : Owner(g)' => Owner(g)
  <2>1. GoesOnFrom(h, Aside \cup {"purging", "emitted", "distributing"}, r)
    BY <1>1, <1>3 DEF GoesOnFrom, Aside, At
  <2> QED  BY <1>3, <2>1, OwnersKept
<1>9. ASSUME NEW g \in Handles, Owner(g)', NEW id \in (joined'[g] + 1)..Len(source'.log)
      PROVE  Reaches(g, id)'
  <2>1. Reaches(g, id)
    BY <1>1, <1>8, <1>9 DEF EntryInv, MissInv
  <2>2. /\ Len(source.log) \in Nat /\ id \in 1..Len(source.log)
        /\ \A j \in 1..Len(source.log) : source.log[j].id = j /\ source.log[j].time \in Nat
        /\ DOMAIN source.log = 1..Len(source.log)
    <3>1. Len(source.log) \in Nat /\ DOMAIN source.log = 1..Len(source.log) /\ source.log \in Seq(Entry)
      BY DEF EntryInv, StoreInv
    <3>2. \A j \in 1..Len(source.log) : source.log[j].id = j /\ source.log[j] \in Entry
      BY <3>1 DEF EntryInv, StoreInv
    <3>3. \A f \in Entry : f.time \in Nat
      BY DuplicateAssumption DEF Entry, Times
    <3>4. joined[g] \in Nat
      BY DEF EntryInv, StoreInv
    <3> QED  BY <1>1, <1>9, <3>1, <3>2, <3>3, <3>4
  <2>3. source.log[Len(source.log)] = e /\ e.time \in Nat
    BY <1>2, <2>2 DEF Logged
  <2>4. source.log[id] \in stored[g] => Reaches(g, id)'
    <3>1. CASE source.log[id] \in stored'[g]
      BY <1>1, <3>1 DEF Reaches
    <3>2. CASE source.log[id] \in stored[g] \ stored'[g]
      <4>1. ~IsRollback(source.log[id]) /\ e.time <= source.log[id].time
        BY <1>5, <2>2, <2>3, <3>2
      <4>2. id # Len(source.log)
        BY <1>2, <2>3, <4>1
      <4>3. Len(source.log) \in (id + 1)..Len(source.log)
        BY <2>2, <4>2
      <4> QED  BY <1>1, <1>2, <2>3, <4>1, <4>3 DEF Reaches
    <3> QED  BY <3>1, <3>2
  <2>5. OnItsWayTo(g, id) => Reaches(g, id)'
    <3>1. OnItsWayTo(g, id) => OnItsWayTo(g, id)'
      BY <1>1, <1>3, <1>4 DEF OnItsWayTo, At, e
    <3> QED  BY <3>1 DEF Reaches
  <2> QED  BY <1>1, <2>1, <2>4, <2>5, ReachesKept DEF Keeps
<1>10. MissInv'
  BY <1>4, <1>9 DEF MissInv
<1> QED  BY <1>6, <1>7, <1>10 DEF EntryInv

\* All children but the handle that polled are left to be told.
LEMMA EntryDistribute ==
  ASSUME IndexInv, ChildInv, EntryInv, NEW h \in Handles, Distribute(h)
  PROVE  EntryInv'
<1> DEFINE r == [at |-> "distributing", entry |-> call[h].entry, left |-> DOMAIN children \ {index[h]}]
<1>1. /\ At(h, "emitted") /\ GoesTo(h, r)
      /\ UNCHANGED <<bound, index, children, source, stored, heard, joined>>
  BY DEF Distribute, registry, history
<1>2. call[h].entry \in Logged
  BY <1>1 DEF EntryInv, CarryInv, Carries, At
<1>3. /\ r.at = "distributing" /\ r.entry = call[h].entry /\ r.left = DOMAIN children \ {index[h]}
      /\ {"at", "entry", "left"} \subseteq DOMAIN r
  OBVIOUS
<1> HIDE DEF r
<1>4. Handles' = Handles /\ call'[h] = r /\ \A g \in Handles \ {h} : call'[g] = call[g]
  BY <1>1, Places
<1>5. StoreInv'
  BY <1>1, <1>4, StoreKept DEF EntryInv, StoreInv
<1>6. CarryInv'
  BY <1>1, <1>2, <1>3, CarryGoesOn DEF EntryInv
<1>7. \A g \in Handles : Owner(g)' => Owner(g)
  <2>1. GoesOnFrom(h, Aside \cup {"purging", "emitted", "distributing"}, r)
    BY <1>1, <1>3 DEF GoesOnFrom, Aside, At
  <2> QED  BY <1>3, <2>1, OwnersKept
<1>8. ASSUME NEW g \in Handles, Owner(g)', NEW id \in (joined'[g] + 1)..Len(source'.log)
      PROVE  Reaches(g, id)'
  <2>1. Reaches(g, id)
    BY <1>1, <1>7, <1>8 DEF EntryInv, MissInv
  <2>2. OnItsWayTo(g, id) => OnItsWayTo(g, id)'
    <3>1. g # h => index[g] \in r.left
      <4>1. index[g] \in DOMAIN children
        BY <1>7, <1>8 DEF ChildInv
      <4>2. g # h => index[g] # index[h]
        BY <1>1, <1>7, <1>8 DEF Owner, OwnIndex, At
      <4> QED  BY <1>3, <4>1, <4>2
    <3> QED  BY <1>1, <1>3, <1>4, <3>1 DEF OnItsWayTo, At
  <2> QED  BY <1>1, <2>1, <2>2 DEF Reaches
<1>9. MissInv'
  BY <1>4, <1>8 DEF MissInv
<1> QED  BY <1>5, <1>6, <1>9 DEF EntryInv

\* A child is handed the entry, unless it has one that is equal, of which the source said both.
LEMMA EntryHandOut ==
  ASSUME IndexInv, ChildInv, EntryInv, NEW h \in Handles, HandOut(h)
  PROVE  EntryInv'
<1> DEFINE i == Min(call[h].left)
           e == call[h].entry
           r == [call[h] EXCEPT !.left = call[h].left \ {i}]
<1>1. /\ At(h, "distributing") /\ GoesTo(h, r)
      /\ stored' = IF Alive(children[i]) THEN [stored EXCEPT ![children[i]] = Insert(@, e)] ELSE stored
      /\ UNCHANGED <<bound, index, children, source, heard, joined>>
  BY DEF HandOut, registry, history
<1>2. e \in Logged /\ {"at", "entry", "left"} \subseteq DOMAIN call[h]
  BY <1>1 DEF EntryInv, CarryInv, Carries, At, IndexInv, CallInv
<1>3. /\ r.at = "distributing" /\ r.entry = e /\ {"at", "entry", "left"} \subseteq DOMAIN r
      /\ r.left = call[h].left \ {i}
  BY <1>1, <1>2 DEF At
<1> HIDE DEF r, i, e
<1>4. Handles' = Handles /\ call'[h] = r /\ \A g \in Handles \ {h} : call'[g] = call[g]
  BY <1>1, Places
<1>5. /\ stored' \in [Handles -> SUBSET Logged] /\ \A g \in Handles : stored[g] \subseteq stored'[g]
      /\ \A g \in Handles : g = children[i] /\ Alive(g) => stored'[g] = Insert(stored[g], e)
  BY <1>1, <1>2 DEF Insert, EntryInv, StoreInv
<1>6. StoreInv'
  BY <1>1, <1>5, StoreKept DEF EntryInv, StoreInv
<1>7. CarryInv'
  BY <1>1, <1>2, <1>3, CarryGoesOn DEF EntryInv
<1>8. \A g \in Handles : Owner(g)' => Owner(g)
  <2>1. GoesOnFrom(h, Aside \cup {"purging", "emitted", "distributing"}, r)
    BY <1>1, <1>3 DEF GoesOnFrom, Aside, At
  <2> QED  BY <1>3, <2>1, OwnersKept
<1>9. ASSUME NEW g \in Handles, Owner(g)', NEW id \in (joined'[g] + 1)..Len(source'.log)
      PROVE  Reaches(g, id)'
  <2>1. Reaches(g, id)
    BY <1>1, <1>8, <1>9 DEF EntryInv, MissInv
  <2>2. id \in DOMAIN source.log /\ source.log[id].id = id
    <3>1. joined[g] \in Nat /\ DOMAIN source.log = 1..Len(source.log) /\ Len(source.log) \in Nat
      BY DEF EntryInv, StoreInv
    <3>2. id \in DOMAIN source.log
      BY <1>1, <1>9, <3>1
    <3> QED  BY <3>2 DEF EntryInv, StoreInv
  <2>3. source.log[id] \in stored[g] => Reaches(g, id)'
    BY <1>1, <1>5 DEF Reaches
  <2>4. ASSUME OnItsWayTo(g, id) PROVE Reaches(g, id)'
    <3>1. PICK f \in Handles :
            /\ call[f].at \in {"purging", "emitted", "distributing"} /\ call[f].entry.id = id
            /\ At(f, "distributing") /\ f # g => index[g] \in call[f].left
      BY <2>4 DEF OnItsWayTo
    <3>2. CASE f # h \/ g = h \/ index[g] # i
      <4>1. OnItsWayTo(g, id)'
        BY <1>1, <1>3, <1>4, <3>1, <3>2 DEF OnItsWayTo, At, e
      <4> QED  BY <4>1 DEF Reaches
    <3>3. CASE f = h /\ g # h /\ index[g] = i
      <4>1. children[i] = g /\ Alive(g)
        BY <1>8, <1>9, <3>3 DEF ChildInv, Owner
      <4>2. stored'[g] = Insert(stored[g], e)
        BY <1>5, <4>1
      <4>3. source.log[id] = e
        BY <1>2, <2>2, <3>1, <3>3 DEF Logged, e, EntryInv, StoreInv
      <4>4. CASE \E d \in stored[g] : Equal(d, e)
        <5>1. PICK d \in stored[g] : Equal(d, e)
          BY <4>4
        <5>2. PICK j \in DOMAIN source.log : source.log[j] = d
          BY <5>1 DEF EntryInv, StoreInv, Logged
        <5>3. CASE j = id
          BY <1>1, <1>5, <5>1, <5>2, <5>3 DEF Reaches
        <5>4. CASE j # id
          BY <1>1, <4>3, <5>1, <5>2, <5>4 DEF Reaches
        <5> QED  BY <5>3, <5>4
      <4>5. CASE ~ \E d \in stored[g] : Equal(d, e)
        <5>1. Insert(stored[g], e) = stored[g] \cup {e}
          BY <4>5 DEF Insert, Equal
        <5>2. e \in stored'[g]
          BY <4>2, <5>1
        <5> QED  BY <1>1, <4>3, <5>2 DEF Reaches
      <4> QED  BY <4>4, <4>5
    <3> QED  BY <3>2, <3>3
  <2> QED  BY <1>1, <2>1, <2>3, <2>4, ReachesKept DEF Keeps
<1>10. MissInv'
  BY <1>4, <1>9 DEF MissInv
<1> QED  BY <1>6, <1>7, <1>10 DEF EntryInv

\* The caller is told last.
LEMMA EntryAnswer ==
  ASSUME IndexInv, EntryInv, NEW h \in Handles, Answer(h)
  PROVE  EntryInv'
<1>1. /\ At(h, "distributing") /\ call[h].left = {} /\ GoesTo(h, Idle)
      /\ heard' = [heard EXCEPT ![h] = Append(@, call[h].entry.id)]
      /\ UNCHANGED <<bound, index, children, source, stored, joined>>
  BY DEF Answer, registry
<1>2. Idle.at = "idle" /\ "at" \in DOMAIN Idle
  BY DEF Idle
<1>3. Handles' = Handles /\ call'[h] = Idle /\ \A g \in Handles \ {h} : call'[g] = call[g]
  BY <1>1, Places
<1>4. /\ StoreInv'
      /\ Says(heard'[h], call[h].entry.id)
      /\ \A g \in Handles : Keeps(heard[g], heard'[g])
  <2>1. stored' \in [Handles -> SUBSET Logged]
    BY <1>1 DEF EntryInv, StoreInv
  <2> QED  BY <1>1, <2>1, StoreHears DEF EntryInv
<1>5. CarryInv'
  BY <1>1, <1>2, CarryGoesOn DEF EntryInv
<1>6. \A g \in Handles : Owner(g)' => Owner(g)
  <2>1. GoesOnFrom(h, Aside \cup {"purging", "emitted", "distributing"}, Idle)
    BY <1>1, <1>2 DEF GoesOnFrom, At
  <2> QED  BY <1>2, <2>1, OwnersKept DEF Aside
<1>7. ASSUME NEW g \in Handles, Owner(g)', NEW id \in (joined'[g] + 1)..Len(source'.log)
      PROVE  Reaches(g, id)'
  <2>1. Reaches(g, id)
    BY <1>1, <1>6, <1>7 DEF EntryInv, MissInv
  <2>2. source.log[id] \in stored[g] => Reaches(g, id)'
    BY <1>1 DEF Reaches
  <2>3. ASSUME OnItsWayTo(g, id) PROVE Reaches(g, id)'
    <3>1. PICK f \in Handles :
            /\ call[f].at \in {"purging", "emitted", "distributing"} /\ call[f].entry.id = id
            /\ At(f, "distributing") /\ f # g => index[g] \in call[f].left
      BY <2>3 DEF OnItsWayTo
    <3>2. CASE f = h
      BY <1>1, <1>4, <3>1, <3>2 DEF Reaches
    <3>3. CASE f # h
      <4>1. OnItsWayTo(g, id)'
        BY <1>1, <1>3, <3>1, <3>3 DEF OnItsWayTo, At
      <4> QED  BY <4>1 DEF Reaches
    <3> QED  BY <3>2, <3>3
  <2> QED  BY <1>1, <1>4, <2>1, <2>2, <2>3, ReachesKept
<1>8. MissInv'
  BY <1>3, <1>7 DEF MissInv
<1> QED  BY <1>4, <1>5, <1>8 DEF EntryInv

-----------------------------------------------------------------------------
LEMMA EntryInit == Init => EntryInv
<1> SUFFICES ASSUME Init PROVE EntryInv
  OBVIOUS
<1>1. /\ source = [log |-> <<>>, promised |-> None, hasWaker |-> FALSE, advanced |-> None]
      /\ stored = [h \in Handles |-> {}] /\ heard = [h \in Handles |-> <<>>]
      /\ joined = [h \in Handles |-> 0] /\ bound \in Bounds
  BY DEF Init
<1>2. \A h \in Handles : call[h].at \in {"idle", "unborn"}
  BY DEF Init
<1>3. /\ source.log = <<>> /\ DOMAIN source = {"log", "promised", "hasWaker", "advanced"}
      /\ <<>> \in Seq(Entry) /\ Len(source.log) = 0 /\ DOMAIN source.log = {}
  BY <1>1
<1>4. \A h \in Handles : heard[h] \in Seq({})
  BY <1>1
<1>5. StoreInv
  BY <1>1, <1>3, <1>4 DEF StoreInv, Sequence
<1>6. CarryInv
  BY <1>2 DEF CarryInv, Carries, At
<1>7. MissInv
  BY <1>1, <1>3 DEF MissInv
<1> QED  BY <1>5, <1>6, <1>7 DEF EntryInv

DuplicateInv == IndexInv /\ ChildInv /\ EntryInv

LEMMA DuplicateNext == DuplicateInv /\ [Next]_vars => DuplicateInv'
<1> SUFFICES ASSUME DuplicateInv, [Next]_vars PROVE DuplicateInv'
  OBVIOUS
<1>1. IndexInv'
  BY IndexNext DEF DuplicateInv
<1>2. ASSUME source'.log = source.log, DOMAIN source' = DOMAIN source,
             UNCHANGED <<call, stored, heard, bound, index, children, joined>>
      PROVE  DuplicateInv'
  <2>1. EntryInv'
    BY <1>2, EntryAlone DEF DuplicateInv
  <2>2. ChildInv'
    BY <1>2 DEF DuplicateInv, ChildInv, Owner, OwnIndex, Alive, At, Handles
  <2> QED  BY <1>1, <2>1, <2>2 DEF DuplicateInv
<1>3. CASE UNCHANGED vars
  BY <1>2, <1>3 DEF vars, registry, history
<1>4. CASE SourceWakes
  BY <1>2, <1>4 DEF SourceWakes, registry, history, DuplicateInv, EntryInv, StoreInv
<1>5. CASE Rests
  BY <1>3, <1>5 DEF Rests
<1>6. ASSUME NEW h \in Handles, Steps(h) PROVE ChildInv' /\ EntryInv'
  <2> USE DEF DuplicateInv
  <2>1. ASSUME NEW r, Quiet(h, r) PROVE ChildInv' /\ EntryInv'
    <3>1. GoesOnFrom(h, Aside \cup {"purging", "emitted", "distributing"}, r)
          /\ r.at \in Aside \cup {"gone", "purging", "emitted", "distributing"}
      BY <2>1 DEF Quiet, GoesOnFrom
    <3> QED  BY <2>1, <3>1, ChildGoesOn, EntryQuiet
  <2>2. CASE \/ \E time \in 1..bound.polls : Register(h, time)
             \/ \E time \in 1..bound.advances : Advance(h, time)
             \/ FindStored(h) \/ PopStoredPanics(h) \/ SourceIsPending(h) \/ SourceHasState(h)
             \/ SourceFails(h) \/ Adjust(h) \/ AdvancePanics(h) \/ AdvanceSource(h) \/ Drop(h)
    BY <2>1, <2>2, QuietSteps DEF EntryInv
  <2>3. CASE GetNextIndex(h)
    BY <2>3, ChildGetNextIndex, EntryGetNextIndex DEF EntryInv, StoreInv
  <2>4. CASE InsertChild(h)
    BY <2>4, ChildInsertChild, EntryInsertChild DEF EntryInv, StoreInv
  <2>5. CASE RegisterAdvanced(h)
    BY <2>5, ChildRegisterAdvanced, EntryRegisterAdvanced
  <2> DEFINE Deals == \E r : /\ GoesOnFrom(h, Aside \cup {"purging", "emitted", "distributing"}, r)
                             /\ r.at \in Aside \cup {"gone", "purging", "emitted", "distributing"}
  <2>6. ASSUME Deals PROVE ChildInv'
    BY <2>6, ChildGoesOn
  <2>7. CASE PopStored(h)
    <3>1. GoesOnFrom(h, Aside \cup {"purging", "emitted", "distributing"}, Idle) /\ Idle.at = "idle"
      BY <2>7 DEF PopStored, GoesOnFrom, Aside, Idle, At, registry
    <3>2. Deals
      BY <3>1 DEF Aside
    <3> QED  BY <2>6, <2>7, <3>2, EntryPopStored
  <2>8. CASE SourceEmits(h)
    <3>1. PICK e, r : /\ GoesTo(h, r)
                      /\ r \in {[at |-> "purging", entry |-> e, left |-> DOMAIN children],
                                [at |-> "emitted", entry |-> e]}
      BY <2>8 DEF SourceEmits
    <3>2. "at" \in DOMAIN r /\ r.at \in {"purging", "emitted"}
      BY <3>1
    <3>3. Deals
      BY <2>8, <3>1, <3>2 DEF SourceEmits, PollsSource, GoesOnFrom, Aside, At, registry, history
    <3> QED  BY <2>6, <2>8, <3>3, EntrySourceEmits
  <2>9. CASE Purge(h)
    <3> DEFINE rest == call[h].left \ {Min(call[h].left)}
               r    == IF rest = {} THEN [at |-> "emitted", entry |-> call[h].entry]
                       ELSE [call[h] EXCEPT !.left = rest]
    <3>1. GoesTo(h, r) /\ UNCHANGED <<bound, index, children, joined>> /\ At(h, "purging")
      BY <2>9 DEF Purge, registry, history
    <3>2. "at" \in DOMAIN r /\ r.at \in {"purging", "emitted"}
      BY <3>1 DEF At, IndexInv, CallInv
    <3> HIDE DEF r
    <3>3. Deals
      BY <3>1, <3>2 DEF GoesOnFrom, At
    <3> QED  BY <2>6, <2>9, <3>3, EntryPurge
  <2>10. CASE Distribute(h)
    <3>1. GoesOnFrom(h, Aside \cup {"purging", "emitted", "distributing"},
            [at |-> "distributing", entry |-> call[h].entry, left |-> DOMAIN children \ {index[h]}])
      BY <2>10 DEF Distribute, GoesOnFrom, At, registry, history
    <3>2. Deals
      BY <3>1
    <3> QED  BY <2>6, <2>10, <3>2, EntryDistribute
  <2>11. CASE HandOut(h)
    <3> DEFINE r == [call[h] EXCEPT !.left = @ \ {Min(@)}]
    <3>1. GoesTo(h, r) /\ UNCHANGED <<bound, index, children, joined>> /\ At(h, "distributing")
      BY <2>11 DEF HandOut, registry, history
    <3>2. "at" \in DOMAIN r /\ r.at = "distributing"
      BY <3>1 DEF At, IndexInv, CallInv
    <3> HIDE DEF r
    <3>3. Deals
      BY <3>1, <3>2 DEF GoesOnFrom, At
    <3> QED  BY <2>6, <2>11, <3>3, EntryHandOut
  <2>12. CASE Answer(h)
    <3>1. GoesOnFrom(h, Aside \cup {"purging", "emitted", "distributing"}, Idle) /\ Idle.at = "idle"
      BY <2>12 DEF Answer, GoesOnFrom, Idle, At, registry
    <3>2. Deals
      BY <3>1 DEF Aside
    <3> QED  BY <2>6, <2>12, <3>2, EntryAnswer
  <2> QED
    BY <1>6, <2>2, <2>3, <2>4, <2>5, <2>7, <2>8, <2>9, <2>10, <2>11, <2>12 DEF Steps
<1> QED
  BY <1>1, <1>3, <1>4, <1>5, <1>6 DEF Next, DuplicateInv

\* Whatever the threads do at the same time, an entry of the source reaches every handle that has
\* an index of its own, or is taken back or stands beside an equal one (distribute_event,
\* handle_rollback, poll_previously_emitted).
THEOREM NothingIsMissed == Spec => []NoneMissed
<1>1. Init => DuplicateInv
  BY IndexInit, ChildInit, EntryInit DEF DuplicateInv
<1>2. DuplicateInv => NoneMissed
  BY DEF DuplicateInv, EntryInv, MissInv, NoneMissed, Reaches, Says, Owner
<1>3. Spec => []DuplicateInv
  BY <1>1, DuplicateNext, PTL DEF Spec
<1> QED  BY <1>2, <1>3, PTL

-----------------------------------------------------------------------------
(* Sleepers miss nothing *)

Reachable(h) == index[h] \in DOMAIN wakers /\ wakers[index[h]] = h
Waits(h)     == sleeps[h] \notin {None, Never}
Late(e, time) == e.kind = "event" => e.time >= time

\* Whoever is busy with a poll, or not there yet, does not sleep.
SleepTypes ==
  /\ sleeps \in [Handles -> 0..Never]
  /\ source.promised \in 0..Never
  /\ \A h \in Handles : Polling(h) \/ At(h, "unborn") \/ At(h, "new") => sleeps[h] = None

\* Who sleeps, or is about to, can be woken.
ReachInv ==
  /\ \A h \in Handles : Owner(h) /\ sleeps[h] # None => source.hasWaker /\ Reachable(h)
  /\ \A h \in Handles : Owner(h) /\ Polling(h) /\ h \notin woken => Reachable(h)

\* The source has promised nothing before the time a caller waits for, or is told to.
PromiseInv ==
  /\ \A h \in Handles : At(h, "adjusting") => call[h].next \in 0..Never
  /\ \A h \in Handles : Owner(h) /\ At(h, "adjusting") /\ h \notin woken =>
       source.hasWaker /\ call[h].next <= source.promised
  /\ \A h \in Handles : Owner(h) /\ Waits(h) => sleeps[h] <= source.promised

\* Nothing that is stored or handed out comes before the time a caller waits for.
LateInv ==
  ~overlap =>
    /\ \A g, h \in Handles : Polling(g) /\ Polling(h) => g = h
    /\ \A h \in Handles : Owner(h) /\ Waits(h) =>
         /\ \A e \in stored[h] : Late(e, sleeps[h])
         /\ \A g \in Handles : Carries(g) => Late(call[g].entry, sleeps[h])

SleepInv == SleepTypes /\ ReachInv /\ PromiseInv /\ LateInv

-----------------------------------------------------------------------------
\* A set of numbers up to a bound has a greatest one, and Max is it.
LEMMA GreatestOf ==
  ASSUME NEW n \in Nat, NEW S \in SUBSET (0..n), S # {}
  PROVE  Max(S) \in S /\ \A t \in S : t <= Max(S)
<1> DEFINE T == {k \in 0..n : n - k \in S}
<1>1. PICK s \in S : s \in 0..n
  OBVIOUS
<1>2. n - s \in T
  BY <1>1
<1>3. T \in SUBSET Nat /\ T # {}
  BY <1>2
<1>4. Min(T) \in T /\ \A k \in T : Min(T) <= k
  <2> HIDE DEF T
  <2> QED  BY <1>3, LeastOf
<1>5. n - Min(T) \in S /\ Min(T) \in 0..n
  BY <1>4
<1>6. ASSUME NEW t \in S PROVE t <= n - Min(T)
  <2>1. t \in 0..n /\ n - t \in 0..n /\ n - (n - t) = t
    BY <1>6
  <2>2. n - t \in T
    BY <2>1
  <2>3. Min(T) <= n - t
    BY <1>4, <2>2
  <2> QED  BY <1>5, <2>1, <2>3
<1>7. \E m \in S : \A t \in S : t <= m
  BY <1>5, <1>6
<1>8. \A t \in S : t \in Nat
  OBVIOUS
<1> QED  BY <1>7, <1>8 DEF Max

\* The source emits no event before the time it has promised.
LEMMA PromiseIsKept ==
  ASSUME StoreInv, source.promised \in 0..Never, NEW e, NEW time,
         e.kind = "event", e.time \in Times, MayEmit(e, time)
  PROVE  source.promised <= e.time
<1> DEFINE S == StandingAt \cup {source.promised, FinalizedTo}
<1>1. Never \in Nat /\ Times \subseteq 0..Never /\ 0 \in 0..Never
      /\ \A t \in 0..Never : t \in Nat
  BY DuplicateAssumption DEF Never, Times
<1>2. /\ source.log \in Seq(Entry) /\ Len(source.log) \in Nat
      /\ DOMAIN source.log = 1..Len(source.log)
      /\ \A i \in DOMAIN source.log : source.log[i].time \in Times
  <2>1. \A f \in Entry : f.time \in Times
    BY DEF Entry
  <2>2. source.log \in Seq(Entry)
    BY DEF StoreInv
  <2> HIDE DEF Entry
  <2> QED  BY <2>1, <2>2
<1>3. StandingAt \subseteq 0..Never
  <2>1. \A i \in DOMAIN SaidSince(0) : i \in DOMAIN source.log /\ SaidSince(0)[i] = i
    BY <1>2 DEF SaidSince
  <2>2. \A i \in Standing(SaidSince(0)) : i \in DOMAIN source.log
    BY <2>1 DEF Standing
  <2> QED  BY <1>1, <1>2, <2>2 DEF StandingAt
<1>4. FinalizedTo \in 0..Never
  <2> DEFINE F == {None} \cup {source.log[i].time :
                       i \in {j \in DOMAIN source.log : source.log[j].kind = "finalize"}}
  <2>1. F \in SUBSET (0..Never) /\ F # {}
    BY <1>1, <1>2 DEF None
  <2>2. Max(F) \in F
    <3> HIDE DEF F
    <3> QED  BY <1>1, <2>1, GreatestOf
  <2> QED  BY <2>1, <2>2 DEF FinalizedTo
<1>5. S \in SUBSET (0..Never) /\ S # {} /\ source.promised \in S
  BY <1>3, <1>4
<1>6. source.promised <= Max(S) /\ Max(S) \in Nat
  <2> HIDE DEF S
  <2>1. Max(S) \in S /\ \A t \in S : t <= Max(S)
    BY <1>1, <1>5, GreatestOf
  <2>2. Max(S) \in Nat
    BY <1>1, <1>5, <2>1
  <2> QED  BY <1>5, <2>1, <2>2
<1>7. e.time >= Max(S)
  BY DEF MayEmit
<1>8. e.time \in Nat /\ source.promised \in Nat
  BY <1>1
<1> HIDE DEF S
<1> QED  BY <1>6, <1>7, <1>8

\* The time a caller is told is that of the source, or of a stored event before it.
LEMMA ToldInTime ==
  ASSUME NEW S, \A e \in S : e.time \in Times, NEW cutoff \in 0..Never
  PROVE  LET next == Min({cutoff, FirstEventTime(S, cutoff)})
         IN  /\ next \in 0..Never /\ next <= cutoff
             /\ next # Never => \A e \in S : Late(e, next)
<1> DEFINE times == {e.time : e \in {f \in S : f.kind = "event"}}
           first == FirstEventTime(S, cutoff)
           next  == Min({cutoff, first})
<1>1. Never \in Nat /\ times \subseteq 1..LastTime /\ Never = LastTime + 1 /\ LastTime \in Nat
      /\ times \in SUBSET Nat /\ cutoff \in Nat /\ \A t \in times : t \in Nat /\ t \in 0..Never
  BY DuplicateAssumption DEF Never, Times
<1>2. times # {} => Min(times) \in times /\ \A t \in times : Min(times) <= t
  <2> HIDE DEF times
  <2> QED  BY <1>1, LeastOf
<1>3. first = IF cutoff # Never /\ \E t \in times : t < cutoff THEN Min(times) ELSE Never
  BY DEF FirstEventTime
<1> HIDE DEF times, first
<1>4. first \in 0..Never /\ (cutoff = Never => first = Never)
      /\ (cutoff # Never => \A t \in times : first <= t \/ cutoff <= t)
  <2>1. CASE cutoff # Never /\ \E t \in times : t < cutoff
    <3>1. first \in times /\ \A t \in times : first <= t
      BY <1>2, <1>3, <2>1
    <3> QED  BY <1>1, <2>1, <3>1
  <2>2. CASE ~(cutoff # Never /\ \E t \in times : t < cutoff)
    <3>1. first = Never /\ Never \in 0..Never
      BY <1>1, <1>3, <2>2
    <3>2. cutoff # Never => \A t \in times : cutoff <= t
      BY <1>1, <2>2
    <3> QED  BY <3>1, <3>2
  <2> QED  BY <2>1, <2>2
<1>5. next \in {cutoff, first} /\ next <= cutoff /\ next <= first
  <2>1. {cutoff, first} \in SUBSET Nat /\ {cutoff, first} # {}
    BY <1>1, <1>4
  <2> QED  BY <2>1, LeastOf
<1> HIDE DEF next
<1>6. next # Never => \A t \in times : t >= next
  BY <1>1, <1>4, <1>5
<1>7. \A e \in S : e.kind = "event" => e.time \in times
  BY DEF times
<1>8. next \in 0..Never /\ next <= cutoff /\ (next # Never => \A e \in S : Late(e, next))
  BY <1>4, <1>5, <1>6, <1>7 DEF Late
<1> QED  BY <1>8 DEF next, first

-----------------------------------------------------------------------------
\* Nobody goes to sleep, and whatever reaches a store was carried to it.
LEMMA SleepKept ==
  ASSUME SleepInv, Handles' = Handles, UNCHANGED <<sleeps, wakers>>,
         source'.promised = source.promised, source'.hasWaker = source.hasWaker,
         overlap => overlap',
         \A g \in Handles : Owner(g)' =>
           \/ Owner(g) /\ index'[g] = index[g]
           \/ sleeps[g] = None /\ ~Polling(g)',
         \A g \in Handles : /\ Polling(g)' => Polling(g) /\ (g \notin woken' => g \notin woken)
                            /\ At(g, "unborn")' \/ At(g, "new")' =>
                                 At(g, "unborn") \/ At(g, "new"),
         \A g \in Handles : At(g, "adjusting")' => At(g, "adjusting") /\ call'[g].next = call[g].next,
         \A g \in Handles : Carries(g)' => Carries(g) /\ call'[g].entry = call[g].entry,
         \A g \in Handles : \A e \in stored'[g] :
           e \in stored[g] \/ \E f \in Handles : Carries(f) /\ e = call[f].entry
  PROVE  SleepInv'
<1>1. \A g \in Handles : (Waits(g)' <=> Waits(g)) /\ (At(g, "adjusting") => Polling(g))
                         /\ (At(g, "adjusting")' => Polling(g)')
  BY DEF Waits, At, Polling
<1>2. SleepTypes'
  BY DEF SleepInv, SleepTypes
<1>3. ReachInv'
  BY DEF SleepInv, ReachInv, Reachable
<1>4. PromiseInv'
  BY <1>1 DEF SleepInv, PromiseInv, Waits
<1>5. ASSUME ~overlap' PROVE LateInv'
  <2>1. ~overlap
    BY <1>5
  <2>2. \A g, h \in Handles : Polling(g)' /\ Polling(h)' => g = h
    BY <2>1 DEF SleepInv, LateInv
  <2>3. ASSUME NEW h \in Handles, Owner(h)', Waits(h)'
        PROVE  /\ \A e \in stored'[h] : Late(e, sleeps[h])
               /\ \A g \in Handles : Carries(g)' => Late(call'[g].entry, sleeps[h])
    <3>1. Owner(h) /\ Waits(h)
      BY <1>1, <2>3 DEF Waits
    <3> QED  BY <2>1, <3>1 DEF SleepInv, LateInv
  <2> QED  BY <2>2, <2>3 DEF LateInv
<1>6. LateInv'
  BY <1>5 DEF LateInv
<1> QED  BY <1>2, <1>3, <1>4, <1>6 DEF SleepInv

Dealing == Aside \cup {"purging", "emitted", "distributing"}
PollingPlaces == {"registered", "popping", "polling", "adjusting", "purging", "emitted", "distributing"}

\* The same for a handle that goes on with what it is doing.
LEMMA SleepGoesOn ==
  ASSUME IndexInv, SleepInv, NEW h \in Handles, NEW r, GoesOnFrom(h, Dealing, r),
         r.at \in Dealing \cup {"gone", "cloning"},
         UNCHANGED <<sleeps, wakers, overlap>>,
         source'.promised = source.promised, source'.hasWaker = source.hasWaker,
         r.at \in PollingPlaces => call[h].at \in PollingPlaces /\ woken' = woken,
         woken' = woken \/ woken' = woken \ {h},
         r.at # "adjusting",
         r.at \in {"purging", "emitted", "distributing"} => Carries(h) /\ r.entry = call[h].entry,
         \A g \in Handles : \A e \in stored'[g] :
           e \in stored[g] \/ \E f \in Handles : Carries(f) /\ e = call[f].entry
  PROVE  SleepInv'
<1>1. Handles' = Handles /\ call'[h] = r /\ \A g \in Handles \ {h} : call'[g] = call[g]
  BY Places DEF GoesOnFrom
<1>2. \A g \in Handles : Owner(g)' => Owner(g) /\ index'[g] = index[g]
  <2>1. GoesOnFrom(h, Aside \cup {"purging", "emitted", "distributing"}, r)
        /\ r.at \in Aside \cup {"gone", "cloning", "purging", "emitted", "distributing"}
    BY DEF Dealing
  <2>2. \A g \in Handles : Owner(g)' => Owner(g)
    BY <2>1, OwnersKept
  <2> QED  BY <2>2 DEF GoesOnFrom
<1>3. \A g \in Handles :
        /\ Polling(g)' => Polling(g) /\ (g \notin woken' => g \notin woken)
        /\ At(g, "unborn")' \/ At(g, "new")' => At(g, "unborn") \/ At(g, "new")
  BY <1>1 DEF Polling, At, PollingPlaces, Dealing, Aside
<1>4. \A g \in Handles : At(g, "adjusting")' => At(g, "adjusting") /\ call'[g].next = call[g].next
  BY <1>1 DEF At
<1>5. \A g \in Handles : Carries(g)' => Carries(g) /\ call'[g].entry = call[g].entry
  BY <1>1 DEF Carries
<1> QED  BY <1>1, <1>2, <1>3, <1>4, <1>5, SleepKept

\* Who is woken no longer sleeps, or learns that it need not.
LEMMA SleepSourceWakes ==
  ASSUME SleepInv, SourceWakes
  PROVE  SleepInv'
<1> DEFINE callers == {wakers[i] : i \in DOMAIN wakers}
<1>1. /\ source'.promised = None \/ source'.promised = source.promised
      /\ wakers' = <<>> /\ sleeps' = [h \in Handles |-> IF h \in callers THEN None ELSE sleeps[h]]
      /\ woken' = woken \cup {h \in callers : Polling(h)}
      /\ UNCHANGED <<call, stored, bound, index, overlap>> /\ Handles' = Handles
  BY DEF SourceWakes, registry, history, Handles
<1>2. \A h \in Handles : Reachable(h) => h \in callers
  BY DEF Reachable
<1> HIDE DEF callers
<1>3. \A h \in Handles : /\ Owner(h)' <=> Owner(h)
                         /\ Polling(h)' <=> Polling(h)
                         /\ At(h, "adjusting")' <=> At(h, "adjusting")
                         /\ At(h, "unborn")' <=> At(h, "unborn")
                         /\ At(h, "new")' <=> At(h, "new")
  BY <1>1 DEF Owner, OwnIndex, Alive, Polling, At
<1>4. \A h \in Handles : sleeps'[h] = IF h \in callers THEN None ELSE sleeps[h]
  BY <1>1
<1>5. \A h \in Handles : Owner(h)' => sleeps'[h] = None /\ (Polling(h)' => h \in woken')
  BY <1>1, <1>2, <1>3, <1>4 DEF SleepInv, ReachInv
<1>6. SleepTypes'
  <2>1. None \in 0..Never
    BY DuplicateAssumption DEF None, Never
  <2> QED  BY <1>1, <1>3, <1>4, <2>1 DEF SleepInv, SleepTypes
<1>7. ReachInv'
  BY <1>1, <1>5 DEF ReachInv
<1>8. PromiseInv'
  <2>1. \A h \in Handles : At(h, "adjusting")' => Polling(h)'
    BY DEF At, Polling
  <2> QED  BY <1>1, <1>3, <1>5, <2>1 DEF SleepInv, PromiseInv, Waits
<1>9. LateInv'
  BY <1>1, <1>3, <1>5 DEF SleepInv, LateInv, Waits
<1> QED  BY <1>6, <1>7, <1>8, <1>9 DEF SleepInv

\* Who polls is awake and can be woken, and if another polls at the same time, it is known.
LEMMA SleepRegister ==
  ASSUME IndexInv, SleepInv, NEW h \in Handles, NEW time, Register(h, time)
  PROVE  SleepInv'
<1> DEFINE r == [at |-> "registered", time |-> time]
<1>1. /\ At(h, "idle") /\ GoesTo(h, r)
      /\ wakers' = With(wakers, index[h], h) /\ sleeps' = [sleeps EXCEPT ![h] = None]
      /\ overlap' = (overlap \/ \E g \in Handles : Polling(g))
      /\ UNCHANGED <<bound, index, children, joined, stored, source, woken>>
  BY DEF Register, Calls, registry
<1>2. r.at = "registered" /\ "at" \in DOMAIN r
  OBVIOUS
<1> HIDE DEF r
<1>3. Handles' = Handles /\ call'[h] = r /\ \A g \in Handles \ {h} : call'[g] = call[g]
  BY <1>1, Places
<1>4. \A g \in Handles : Owner(g)' => Owner(g)
  <2>1. GoesOnFrom(h, Aside \cup {"purging", "emitted", "distributing"}, r)
    BY <1>1, <1>2 DEF GoesOnFrom, Aside, At
  <2> QED  BY <1>2, <2>1, OwnersKept DEF Aside
<1>5. /\ sleeps'[h] = None /\ \A g \in Handles \ {h} : sleeps'[g] = sleeps[g]
      /\ sleeps' \in [Handles -> 0..Never]
  <2>1. None \in 0..Never
    BY DuplicateAssumption DEF None, Never
  <2> QED  BY <1>1, <2>1 DEF SleepInv, SleepTypes
<1>6. \A g \in Handles : /\ g # h => (Polling(g)' <=> Polling(g))
                         /\ At(g, "adjusting")' => At(g, "adjusting") /\ call'[g] = call[g]
                         /\ At(g, "unborn")' => At(g, "unborn")
                         /\ At(g, "new")' => At(g, "new")
                         /\ Carries(g)' => Carries(g) /\ call'[g] = call[g]
  BY <1>2, <1>3 DEF Polling, At, Carries
<1>7. \A g \in Handles : Owner(g)' /\ (g = h \/ Reachable(g)) => Reachable(g)'
  <2>1. \A g \in Handles \ {h} : Owner(g) => index[g] # index[h]
    BY <1>1 DEF Owner, OwnIndex, At
  <2> QED  BY <1>1, <1>4, <2>1 DEF Reachable, With
<1>8. SleepTypes'
  BY <1>1, <1>3, <1>5, <1>6 DEF SleepInv, SleepTypes
<1>9. ReachInv'
  BY <1>1, <1>3, <1>4, <1>5, <1>6, <1>7 DEF SleepInv, ReachInv
<1>10. PromiseInv'
  BY <1>1, <1>3, <1>4, <1>5, <1>6 DEF SleepInv, PromiseInv, Waits
<1>11. ASSUME ~overlap' PROVE LateInv'
  <2>1. ~overlap /\ \A g \in Handles : ~Polling(g)
    BY <1>1, <1>11
  <2> QED  BY <1>1, <1>3, <1>4, <1>5, <1>6, <2>1 DEF SleepInv, LateInv, Waits
<1>12. LateInv'
  BY <1>11 DEF LateInv
<1> QED  BY <1>8, <1>9, <1>10, <1>12 DEF SleepInv

\* What a step of a poll of h does to the places of the handles.
PollMoves(h, r) ==
  /\ Handles' = Handles /\ call'[h] = r
  /\ \A g \in Handles : (Owner(g)' => Owner(g)) /\ index'[g] = index[g]
  /\ \A g \in Handles \ {h} :
       /\ call'[g] = call[g]
       /\ Polling(g)' <=> Polling(g)
       /\ At(g, "adjusting")' <=> At(g, "adjusting")
       /\ At(g, "unborn")' <=> At(g, "unborn")
       /\ At(g, "new")' <=> At(g, "new")
       /\ Carries(g)' <=> Carries(g)
  /\ Polling(h) /\ (Polling(h)' <=> r.at # "idle") /\ (At(h, "adjusting")' <=> r.at = "adjusting")
  /\ ~At(h, "unborn")' /\ ~At(h, "new")'
  /\ Carries(h)' <=> r.at \in {"purging", "emitted", "distributing"}

LEMMA PollGoesOn ==
  ASSUME IndexInv, NEW h \in Handles, NEW r, GoesOnFrom(h, PollingPlaces, r),
         r.at \in PollingPlaces \cup {"idle"}
  PROVE  PollMoves(h, r)
<1>1. Handles' = Handles /\ call'[h] = r /\ \A g \in Handles \ {h} : call'[g] = call[g]
  BY Places DEF GoesOnFrom
<1>2. \A g \in Handles : (Owner(g)' => Owner(g)) /\ index'[g] = index[g]
  <2>1. GoesOnFrom(h, Aside \cup {"purging", "emitted", "distributing"}, r)
        /\ r.at \in Aside \cup {"gone", "cloning", "purging", "emitted", "distributing"}
    BY DEF GoesOnFrom, PollingPlaces, Aside
  <2>2. \A g \in Handles : Owner(g)' => Owner(g)
    BY <2>1, OwnersKept
  <2> QED  BY <2>2 DEF GoesOnFrom
<1>3. \A g \in Handles \ {h} :
              /\ call'[g] = call[g]
              /\ Polling(g)' <=> Polling(g)
              /\ At(g, "adjusting")' <=> At(g, "adjusting")
              /\ At(g, "unborn")' <=> At(g, "unborn")
              /\ At(g, "new")' <=> At(g, "new")
              /\ Carries(g)' <=> Carries(g)
  BY <1>1 DEF Polling, At, Carries
<1>4. /\ Polling(h) /\ (Polling(h)' <=> r.at # "idle") /\ (At(h, "adjusting")' <=> r.at = "adjusting")
      /\ ~At(h, "unborn")' /\ ~At(h, "new")'
      /\ Carries(h)' <=> r.at \in {"purging", "emitted", "distributing"}
  BY <1>1 DEF Polling, At, Carries, PollingPlaces, GoesOnFrom
<1> QED  BY <1>1, <1>2, <1>3, <1>4 DEF PollMoves

\* The source is pending, and has the waker of the caller, who sleeps until it is woken.
LEMMA SleepSourceIsPending ==
  ASSUME IndexInv, StoreInv, SleepInv, NEW h \in Handles, SourceIsPending(h)
  PROVE  SleepInv'
<1>1. /\ GoesOnFrom(h, PollingPlaces, Idle) /\ Idle.at = "idle"
      /\ source'.hasWaker = TRUE /\ source'.promised = source.promised
      /\ sleeps' = [sleeps EXCEPT ![h] = IF h \in woken THEN None ELSE Never]
      /\ woken' = woken \ {h}
      /\ UNCHANGED <<stored, wakers, overlap>>
  BY DEF SourceIsPending, PollsSource, SleepsUntil, Idle, GoesOnFrom, PollingPlaces, At, registry,
         history, StoreInv
<1>2. PollMoves(h, Idle)
  BY <1>1, PollGoesOn
<1> USE DEF PollMoves
<1>3. /\ sleeps' \in [Handles -> 0..Never] /\ sleeps'[h] = IF h \in woken THEN None ELSE Never
      /\ \A g \in Handles \ {h} : sleeps'[g] = sleeps[g]
  <2>1. None \in 0..Never /\ Never \in 0..Never
    BY DuplicateAssumption DEF None, Never
  <2> QED  BY <1>1, <2>1 DEF SleepInv, SleepTypes
<1>4. SleepTypes'
  BY <1>1, <1>2, <1>3 DEF SleepInv, SleepTypes
<1>5. \A g \in Handles : Reachable(g)' <=> Reachable(g)
  BY <1>1, <1>2 DEF Reachable
<1>6. ReachInv'
  BY <1>1, <1>2, <1>3, <1>5 DEF SleepInv, ReachInv
<1>7. PromiseInv'
  BY <1>1, <1>2, <1>3 DEF SleepInv, PromiseInv, Waits
<1>8. ASSUME ~overlap' PROVE LateInv'
  BY <1>1, <1>2, <1>3, <1>8 DEF SleepInv, LateInv, Waits
<1>9. LateInv'
  BY <1>8 DEF LateInv
<1> QED  BY <1>4, <1>6, <1>7, <1>9 DEF SleepInv

\* The source promises more, and has the waker of the caller, who is to be told so.
LEMMA SleepSourceHasState ==
  ASSUME IndexInv, StoreInv, SleepInv, NEW h \in Handles, SourceHasState(h)
  PROVE  SleepInv'
<1>1. PICK next \in Times \cup {Never} :
        /\ next >= source.promised
        /\ source' = [source EXCEPT !.promised = next, !.hasWaker = TRUE]
        /\ GoesTo(h, [at |-> "adjusting", next |-> next])
  BY DEF SourceHasState
<1> DEFINE r == [at |-> "adjusting", next |-> next]
<1>2. /\ GoesOnFrom(h, PollingPlaces, r) /\ r.at = "adjusting" /\ r.next = next
      /\ source'.hasWaker = TRUE /\ source'.promised = next /\ source.promised <= next
      /\ UNCHANGED <<stored, wakers, overlap, sleeps, woken>>
  BY <1>1 DEF SourceHasState, PollsSource, GoesOnFrom, PollingPlaces, At, registry,
         history, StoreInv, SleepInv, SleepTypes
<1> HIDE DEF r
<1>3. PollMoves(h, r)
  BY <1>2, PollGoesOn DEF PollingPlaces
<1> USE DEF PollMoves
<1>4. next \in 0..Never /\ next \in Nat /\ source.promised \in Nat
      /\ \A g \in Handles : sleeps[g] \in Nat
  BY <1>1, DuplicateAssumption DEF Never, Times, SleepInv, SleepTypes
<1>5. SleepTypes'
  BY <1>2, <1>3, <1>4 DEF SleepInv, SleepTypes
<1>6. \A g \in Handles : (Reachable(g)' <=> Reachable(g)) /\ (Waits(g)' <=> Waits(g))
  BY <1>2, <1>3 DEF Reachable, Waits
<1>7. ReachInv'
  BY <1>2, <1>3, <1>6 DEF SleepInv, ReachInv
<1>8. PromiseInv'
  <2>1. \A g \in Handles : At(g, "adjusting")' => call'[g].next \in 0..Never
    BY <1>2, <1>3, <1>4 DEF SleepInv, PromiseInv
  <2>2. ASSUME NEW g \in Handles, Owner(g)', At(g, "adjusting")', g \notin woken'
        PROVE  source'.hasWaker /\ call'[g].next <= source'.promised
    <3>1. CASE g = h
      BY <1>2, <1>3, <1>4, <3>1
    <3>2. CASE g # h
      <4>1. call'[g].next = call[g].next /\ call[g].next <= source.promised /\ call[g].next \in 0..Never
        BY <1>2, <1>3, <2>2, <3>2 DEF SleepInv, PromiseInv
      <4>2. call[g].next \in Nat
        BY <4>1, DuplicateAssumption DEF Never
      <4> QED  BY <1>2, <1>4, <4>1, <4>2
    <3> QED  BY <3>1, <3>2
  <2>3. ASSUME NEW g \in Handles, Owner(g)', Waits(g)'
        PROVE  sleeps'[g] <= source'.promised
    <3>1. sleeps[g] <= source.promised
      BY <1>3, <1>6, <2>3 DEF SleepInv, PromiseInv
    <3> QED  BY <1>2, <1>4, <3>1
  <2> QED  BY <1>3, <2>1, <2>2, <2>3 DEF PromiseInv
<1>9. ASSUME ~overlap' PROVE LateInv'
  BY <1>2, <1>3, <1>6, <1>9 DEF SleepInv, LateInv
<1>10. LateInv'
  BY <1>9 DEF LateInv
<1> QED  BY <1>5, <1>7, <1>8, <1>10 DEF SleepInv

\* The caller is told the first of what the source promised and what is stored.
LEMMA SleepAdjust ==
  ASSUME IndexInv, StoreInv, SleepInv, NEW h \in Handles, Adjust(h)
  PROVE  SleepInv'
<1> DEFINE cutoff == call[h].next
           next   == Min({cutoff, FirstEventTime(stored[h], cutoff)})
<1>1. /\ GoesOnFrom(h, PollingPlaces, Idle) /\ Idle.at = "idle" /\ At(h, "adjusting")
      /\ sleeps' = [sleeps EXCEPT ![h] = IF h \in woken THEN None ELSE next]
      /\ woken' = woken \ {h}
      /\ UNCHANGED <<stored, wakers, overlap, source>>
  BY DEF Adjust, SleepsUntil, Idle, GoesOnFrom, PollingPlaces, At, registry, history
<1>2. cutoff \in 0..Never
  BY <1>1 DEF SleepInv, PromiseInv
<1>3. /\ next \in 0..Never /\ next <= cutoff
      /\ next # Never => \A e \in stored[h] : Late(e, next)
  <2>1. \A e \in Entry : e.time \in Times
    BY DEF Entry
  <2>2. \A e \in stored[h] : e.time \in Times
    BY <2>1 DEF StoreInv, Logged
  <2> QED  BY <1>2, <2>2, ToldInTime
<1> HIDE DEF next
<1>4. PollMoves(h, Idle)
  BY <1>1, PollGoesOn
<1> USE DEF PollMoves
<1>5. /\ sleeps' \in [Handles -> 0..Never] /\ sleeps'[h] = IF h \in woken THEN None ELSE next
      /\ \A g \in Handles \ {h} : sleeps'[g] = sleeps[g]
  <2>1. None \in 0..Never
    BY DuplicateAssumption DEF None, Never
  <2> QED  BY <1>1, <1>3, <2>1 DEF SleepInv, SleepTypes
<1>6. SleepTypes'
  BY <1>1, <1>4, <1>5 DEF SleepInv, SleepTypes
<1>7. \A g \in Handles : Reachable(g)' <=> Reachable(g)
  BY <1>1, <1>4 DEF Reachable
<1>8. ReachInv'
  BY <1>1, <1>4, <1>5, <1>7 DEF SleepInv, ReachInv, PromiseInv
<1>9. PromiseInv'
  <2>1. ASSUME Owner(h)', Waits(h)' PROVE sleeps'[h] <= source'.promised
    <3>1. h \notin woken /\ Owner(h)
      BY <1>4, <1>5, <2>1 DEF Waits
    <3>2. cutoff <= source.promised /\ sleeps'[h] = next
      BY <1>1, <1>5, <3>1 DEF SleepInv, PromiseInv
    <3>3. next \in Nat /\ cutoff \in Nat /\ source.promised \in Nat
      BY <1>2, <1>3, DuplicateAssumption DEF Never, SleepInv, SleepTypes
    <3>4. next <= source.promised
      BY <1>3, <3>2, <3>3
    <3> QED  BY <1>1, <3>2, <3>4
  <2>2. \A g \in Handles \ {h} : Owner(g)' /\ Waits(g)' => sleeps'[g] <= source'.promised
    BY <1>1, <1>4, <1>5 DEF SleepInv, PromiseInv, Waits
  <2>3. \A g \in Handles : At(g, "adjusting")' => g # h
    BY <1>1, <1>4
  <2> QED  BY <1>1, <1>4, <2>1, <2>2, <2>3 DEF SleepInv, PromiseInv
<1>10. ASSUME ~overlap' PROVE LateInv'
  <2>1. \A g \in Handles : Polling(g) => g = h
    BY <1>1, <1>4, <1>10 DEF SleepInv, LateInv
  <2>2. \A g \in Handles : ~Polling(g)' /\ ~Carries(g)'
    <3>1. \A g \in Handles : Carries(g) => Polling(g)
      BY DEF Carries, Polling
    <3> QED  BY <1>1, <1>4, <2>1, <3>1
  <2>3. ASSUME NEW g \in Handles, Owner(g)', Waits(g)', NEW e \in stored'[g]
        PROVE  Late(e, sleeps'[g])
    <3>1. CASE g = h
      BY <1>1, <1>3, <1>5, <2>3, <3>1 DEF Waits
    <3>2. CASE g # h
      BY <1>1, <1>4, <1>5, <1>10, <2>3, <3>2 DEF SleepInv, LateInv, Waits
    <3> QED  BY <3>1, <3>2
  <2> QED  BY <1>4, <2>2, <2>3 DEF LateInv
<1>11. LateInv'
  BY <1>10 DEF LateInv
<1> QED  BY <1>6, <1>8, <1>9, <1>11 DEF SleepInv

\* The source emits no event before anybody waits for it.
LEMMA SleepSourceEmits ==
  ASSUME IndexInv, StoreInv, SleepInv, NEW h \in Handles, SourceEmits(h)
  PROVE  SleepInv'
<1>1. PICK kind \in bound.kinds, time \in Times :
        LET e == [kind |-> kind, time |-> time, id |-> Len(source.log) + 1]
        IN  /\ MayEmit(e, call[h].time)
            /\ source' = [source EXCEPT !.log = Append(@, e), !.hasWaker = TRUE]
            /\ GoesTo(h, IF IsRollback(e)
                         THEN [at |-> "purging", entry |-> e, left |-> DOMAIN children]
                         ELSE [at |-> "emitted", entry |-> e])
  BY DEF SourceEmits
<1> DEFINE e == [kind |-> kind, time |-> time, id |-> Len(source.log) + 1]
           r == IF IsRollback(e) THEN [at |-> "purging", entry |-> e, left |-> DOMAIN children]
                ELSE [at |-> "emitted", entry |-> e]
<1>2. r.at \in {"purging", "emitted"} /\ "at" \in DOMAIN r /\ r.entry = e /\ e.kind = kind /\ e.time = time
  OBVIOUS
<1>3. GoesTo(h, r) /\ MayEmit(e, call[h].time) /\ source' = [source EXCEPT !.log = Append(@, e), !.hasWaker = TRUE]
  BY <1>1
<1> HIDE DEF r, e
<1>4. /\ GoesOnFrom(h, PollingPlaces, r)
      /\ source'.hasWaker = TRUE /\ source'.promised = source.promised
      /\ UNCHANGED <<stored, wakers, overlap, sleeps, woken>>
  BY <1>2, <1>3 DEF SourceEmits, PollsSource, GoesOnFrom, PollingPlaces, At, registry, history, StoreInv
<1>5. PollMoves(h, r)
  BY <1>2, <1>4, PollGoesOn DEF PollingPlaces
<1>6. e.kind = "event" => source.promised <= e.time
  BY <1>2, <1>3, PromiseIsKept DEF SleepInv, SleepTypes
<1> USE DEF PollMoves
<1>7. SleepTypes'
  BY <1>2, <1>4, <1>5 DEF SleepInv, SleepTypes
<1>8. \A g \in Handles : (Reachable(g)' <=> Reachable(g)) /\ (Waits(g)' <=> Waits(g))
  BY <1>4, <1>5 DEF Reachable, Waits
<1>9. ReachInv'
  BY <1>2, <1>4, <1>5, <1>8 DEF SleepInv, ReachInv
<1>10. PromiseInv'
  BY <1>2, <1>4, <1>5, <1>8 DEF SleepInv, PromiseInv
<1>11. ASSUME ~overlap' PROVE LateInv'
  <2>1. ASSUME NEW g \in Handles, Owner(g)', Waits(g)', NEW f \in Handles, Carries(f)'
        PROVE  Late(call'[f].entry, sleeps'[g])
    <3>1. CASE f = h
      <4>1. sleeps[g] <= source.promised
        BY <1>5, <1>8, <2>1 DEF SleepInv, PromiseInv
      <4>2. sleeps[g] \in Nat /\ source.promised \in Nat /\ time \in Nat
        BY DuplicateAssumption DEF SleepInv, SleepTypes, Never, Times
      <4>3. Late(e, sleeps[g])
        BY <1>2, <1>6, <4>1, <4>2 DEF Late
      <4> QED  BY <1>2, <1>4, <1>5, <3>1, <4>3
    <3>2. CASE f # h
      BY <1>4, <1>5, <1>8, <1>11, <2>1, <3>2 DEF SleepInv, LateInv
    <3> QED  BY <3>1, <3>2
  <2> QED  BY <1>2, <1>4, <1>5, <1>8, <1>11, <2>1 DEF SleepInv, LateInv
<1>12. LateInv'
  BY <1>11 DEF LateInv
<1> QED  BY <1>7, <1>9, <1>10, <1>12 DEF SleepInv

\* A clone is awake, and listens under an index that is its own or nobody's.
LEMMA SleepInsertChild ==
  ASSUME IndexInv, ChildInv, StoreInv, SleepInv, NEW h \in Handles, InsertChild(h)
  PROVE  SleepInv'
<1> DEFINE g == Min({f \in Handles : At(f, "unborn")})
<1>1. At(h, "cloning") /\ g \in Handles /\ At(g, "unborn") /\ g # h
  BY ChildToBe DEF InsertChild, At, StoreInv
<1>2. /\ call' = [call EXCEPT ![h] = [at |-> "inserted", child |-> g], ![g] = [at |-> "new"]]
      /\ index' = [index EXCEPT ![g] = call[h].index]
      /\ overlap' = (overlap \/ \E f \in Handles : Polling(f))
      /\ UNCHANGED <<bound, stored, wakers, sleeps, woken, source>> /\ Handles' = Handles
  BY DEF InsertChild, Handles, waking
<1> HIDE DEF g
<1>3. /\ call'[h] = [at |-> "inserted", child |-> g] /\ call'[g] = [at |-> "new"]
      /\ \A f \in Handles \ {g, h} : call'[f] = call[f]
  BY <1>1, <1>2 DEF IndexInv, CallInv
<1>4. \A f \in Handles \ {g} : index'[f] = index[f]
  BY <1>1, <1>2 DEF IndexInv
<1>5. \A f \in Handles : f = g => sleeps[f] = None /\ ~Polling(f)'
  BY <1>1, <1>3 DEF SleepInv, SleepTypes, Polling, At
<1>6. \A f \in Handles : /\ Polling(f)' => Polling(f) /\ (f \notin woken' => f \notin woken)
                         /\ At(f, "unborn")' \/ At(f, "new")' => At(f, "unborn") \/ At(f, "new")
                         /\ At(f, "unborn")' => At(f, "unborn")
                         /\ f # g /\ Alive(f)' => Alive(f)
  <2>1. call'[g].at = "new" /\ call'[h].at = "inserted" /\ woken' = woken
    BY <1>2, <1>3
  <2> QED  BY <1>1, <1>3, <2>1 DEF Polling, At, Alive
<1>7. \A f \in Handles : /\ At(f, "adjusting")' => At(f, "adjusting") /\ call'[f].next = call[f].next
                         /\ Carries(f)' => Carries(f) /\ call'[f].entry = call[f].entry
  BY <1>1, <1>3 DEF At, Carries
<1>8. ASSUME NEW f \in Handles, Owner(f)', f # g
      PROVE  Owner(f) /\ index'[f] = index[f]
  BY <1>1, <1>2, <1>4, <1>6, <1>8 DEF Owner, OwnIndex
<1>9. \A f \in Handles : Owner(f)' =>
        \/ Owner(f) /\ index'[f] = index[f]
        \/ sleeps[f] = None /\ ~Polling(f)'
  BY <1>5, <1>8
<1> QED  BY <1>2, <1>6, <1>7, <1>9, SleepKept

LEMMA SleepRegisterAdvanced ==
  ASSUME IndexInv, ChildInv, SleepInv, NEW h \in Handles, RegisterAdvanced(h)
  PROVE  SleepInv'
<1> DEFINE r == IF advanced.poisoned THEN Gone ELSE Idle
           g == call[h].child
<1>1. /\ call' = [call EXCEPT ![h] = r, ![g] = r]
      /\ At(h, "inserted") /\ g \in Handles /\ At(g, "new")
      /\ UNCHANGED <<bound, index, stored, wakers, sleeps, woken, source, overlap>> /\ Handles' = Handles
  BY DEF RegisterAdvanced, Handles, ChildInv, waking
<1>2. r.at \in {"idle", "gone"}
  BY DEF Gone, Idle
<1> HIDE DEF r, g
<1>3. call'[h] = r /\ call'[g] = r /\ \A f \in Handles \ {g, h} : call'[f] = call[f]
  BY <1>1 DEF IndexInv, CallInv
<1>4. \A f \in Handles : /\ Polling(f)' => Polling(f) /\ (f \notin woken' => f \notin woken)
                         /\ At(f, "unborn")' \/ At(f, "new")' => At(f, "unborn") \/ At(f, "new")
                         /\ At(f, "unborn")' <=> At(f, "unborn")
                         /\ Alive(f)' => Alive(f)
  BY <1>1, <1>2, <1>3 DEF Polling, At, Alive
<1>5. \A f \in Handles : /\ At(f, "adjusting")' => At(f, "adjusting") /\ call'[f].next = call[f].next
                         /\ Carries(f)' => Carries(f) /\ call'[f].entry = call[f].entry
  BY <1>1, <1>2, <1>3 DEF At, Carries
<1>6. \A f \in Handles : Owner(f)' => Owner(f) /\ index'[f] = index[f]
  BY <1>1, <1>4 DEF Owner, OwnIndex
<1> QED  BY <1>1, <1>4, <1>5, <1>6, SleepKept

LEMMA SleepInit == Init => SleepInv
<1> SUFFICES ASSUME Init PROVE SleepInv
  OBVIOUS
<1>1. /\ sleeps = [h \in Handles |-> None] /\ source.promised = None
      /\ \A h \in Handles : call[h].at = IF h = 0 THEN "idle" ELSE "unborn"
  BY DEF Init
<1>2. None \in 0..Never
  BY DuplicateAssumption DEF None, Never
<1>3. \A h \in Handles : ~Polling(h) /\ ~At(h, "adjusting") /\ sleeps[h] = None
  BY <1>1 DEF Polling, At
<1> QED  BY <1>1, <1>2, <1>3 DEF SleepInv, SleepTypes, ReachInv, PromiseInv, LateInv, Waits

LEMMA SleepNext == DuplicateInv /\ SleepInv /\ [Next]_vars => SleepInv'
<1> SUFFICES ASSUME DuplicateInv, SleepInv, [Next]_vars PROVE SleepInv'
  OBVIOUS
<1>0. IndexInv /\ ChildInv /\ StoreInv /\ CarryInv
  BY DEF DuplicateInv, EntryInv
<1>1. CASE UNCHANGED vars
  BY <1>1, SleepKept DEF vars, registry, waking, history, Handles, Owner, OwnIndex, Alive, At,
     Polling, Carries
<1>2. CASE SourceWakes
  BY <1>2, SleepSourceWakes
<1>3. CASE Rests
  BY <1>1, <1>3 DEF Rests
<1>4. ASSUME NEW h \in Handles, Steps(h) PROVE SleepInv'
  <2> DEFINE Stored == \A g \in Handles : \A e \in stored'[g] :
                         e \in stored[g] \/ \E f \in Handles : Carries(f) /\ e = call[f].entry
             Passes(r) == /\ GoesOnFrom(h, Dealing, r) /\ r.at \in Dealing \cup {"gone", "cloning"}
                          /\ UNCHANGED <<sleeps, wakers, overlap>>
                          /\ source'.promised = source.promised /\ source'.hasWaker = source.hasWaker
                          /\ r.at \in PollingPlaces => call[h].at \in PollingPlaces /\ woken' = woken
                          /\ woken' = woken \/ woken' = woken \ {h}
                          /\ r.at # "adjusting"
                          /\ r.at \in {"purging", "emitted", "distributing"} =>
                               Carries(h) /\ r.entry = call[h].entry
                          /\ Stored
  <2>0. ASSUME NEW r, Passes(r) PROVE SleepInv'
    BY <1>0, <2>0, SleepGoesOn
  <2> USE DEF At, Calls, GoesOnFrom, Dealing, Aside, PollingPlaces, Carries, registry, waking, history
  <2>1. ASSUME NEW time \in 1..bound.polls, Register(h, time) PROVE SleepInv'
    BY <1>0, <2>1, SleepRegister
  <2>2. ASSUME NEW time \in 1..bound.advances, Advance(h, time) PROVE SleepInv'
    <3>1. PICK r \in {Gone, Idle, [at |-> "advancing",
                     to |-> Aggregate(Increment(Decrement(advanced.counts, advanced.of[index[h]]),
                                                time))]} : GoesTo(h, r)
      BY <2>2 DEF Advance
    <3>2. "at" \in DOMAIN r /\ r.at \in {"gone", "idle", "advancing"}
      BY DEF Gone, Idle
    <3>3. Passes(r)
      BY <2>2, <3>1, <3>2 DEF Advance
    <3> QED  BY <2>0, <3>3
  <2>3. CASE FindStored(h)
    <3>1. Passes([at |-> IF ToEmitStored(h) THEN "popping" ELSE "polling", time |-> call[h].time])
      BY <2>3 DEF FindStored
    <3> QED  BY <2>0, <3>1
  <2>4. CASE PopStored(h)
    <3>1. Stored
      BY <1>0, <2>4 DEF PopStored, StoreInv
    <3>2. Passes(Idle)
      BY <2>4, <3>1 DEF PopStored, Idle
    <3> QED  BY <2>0, <3>2
  <2>5. CASE PopStoredPanics(h)
    <3>1. Passes(Gone)
      BY <2>5 DEF PopStoredPanics, Gone
    <3> QED  BY <2>0, <3>1
  <2>6. CASE SourceEmits(h)
    BY <1>0, <2>6, SleepSourceEmits
  <2>7. CASE SourceIsPending(h)
    BY <1>0, <2>7, SleepSourceIsPending
  <2>20. CASE SourceFails(h)
    <3>1. Passes(Idle)
      BY <2>20 DEF SourceFails, PollsSource, Idle
    <3> QED  BY <2>0, <3>1
  <2>8. CASE SourceHasState(h)
    BY <1>0, <2>8, SleepSourceHasState
  <2>9. CASE Adjust(h)
    BY <1>0, <2>9, SleepAdjust
  <2>10. CASE Purge(h)
    <3> DEFINE rest == call[h].left \ {Min(call[h].left)}
               r    == IF rest = {} THEN [at |-> "emitted", entry |-> call[h].entry]
                       ELSE [call[h] EXCEPT !.left = rest]
    <3>1. /\ GoesTo(h, r) /\ call[h].at = "purging"
          /\ UNCHANGED <<bound, index, children, joined, sleeps, wakers, woken, overlap, source>>
      BY <2>10 DEF Purge
    <3>2. r.at \in {"purging", "emitted"} /\ "at" \in DOMAIN r /\ r.entry = call[h].entry
      BY <1>0, <3>1 DEF IndexInv, CallInv, CarryInv
    <3>3. Stored
      BY <1>0, <2>10 DEF Purge, PurgeFrom, StoreInv
    <3> HIDE DEF r, Stored
    <3>4. Passes(r)
      BY <3>1, <3>2, <3>3
    <3> QED  BY <2>0, <3>4
  <2>11. CASE Distribute(h)
    <3>1. Passes([at |-> "distributing", entry |-> call[h].entry,
                  left |-> DOMAIN children \ {index[h]}])
      BY <2>11 DEF Distribute
    <3> QED  BY <2>0, <3>1
  <2>12. CASE HandOut(h)
    <3> DEFINE r == [call[h] EXCEPT !.left = @ \ {Min(@)}]
    <3>1. /\ GoesTo(h, r) /\ call[h].at = "distributing"
          /\ UNCHANGED <<bound, index, children, joined, sleeps, wakers, woken, overlap, source>>
      BY <2>12 DEF HandOut
    <3>2. r.at = "distributing" /\ "at" \in DOMAIN r /\ r.entry = call[h].entry
      BY <1>0, <3>1 DEF IndexInv, CallInv, CarryInv
    <3>3. Stored
      BY <1>0, <2>12 DEF HandOut, Insert, StoreInv
    <3> HIDE DEF r, Stored
    <3>4. Passes(r)
      BY <3>1, <3>2, <3>3
    <3> QED  BY <2>0, <3>4
  <2>13. CASE Answer(h)
    <3>1. Passes(Idle)
      BY <2>13 DEF Answer, Idle
    <3> QED  BY <2>0, <3>1
  <2>14. CASE AdvancePanics(h)
    <3>1. Passes(Gone)
      BY <2>14 DEF AdvancePanics, Gone
    <3> QED  BY <2>0, <3>1
  <2>15. CASE AdvanceSource(h)
    <3>1. Passes(Idle)
      BY <1>0, <2>15 DEF AdvanceSource, Idle, StoreInv
    <3> QED  BY <2>0, <3>1
  <2>16. CASE GetNextIndex(h)
    <3>1. Passes([at |-> "cloning", index |-> Max(DOMAIN children) + 1])
      BY <2>16 DEF GetNextIndex
    <3> QED  BY <2>0, <3>1
  <2>17. CASE InsertChild(h)
    BY <1>0, <2>17, SleepInsertChild
  <2>18. CASE RegisterAdvanced(h)
    BY <1>0, <2>18, SleepRegisterAdvanced
  <2>19. CASE Drop(h)
    <3>1. Passes(Gone)
      BY <2>19 DEF Drop, Gone
    <3> QED  BY <2>0, <3>1
  <2> QED
    BY <1>4, <2>1, <2>2, <2>3, <2>4, <2>5, <2>6, <2>7, <2>8, <2>9, <2>10, <2>11, <2>12, <2>13,
       <2>14, <2>15, <2>16, <2>17, <2>18, <2>19, <2>20 DEF Steps
<1> QED
  BY <1>1, <1>2, <1>3, <1>4 DEF Next

\* Whichever handle polled the source last, its news reach all that sleep; and as long as no two
\* polls overlap, nobody sleeps through an event that is stored for it (DuplicateEventWaker::wake,
\* get_new_context, first_event_time).
THEOREM SleepersNeverMiss == Spec => []SleepersMissNothing
<1>1. Init => DuplicateInv /\ SleepInv
  BY IndexInit, ChildInit, EntryInit, SleepInit DEF DuplicateInv
<1>2. SleepInv => SleepersMissNothing
  BY DEF SleepInv, ReachInv, LateInv, Reachable, Late, Waits, Owner, Alive, At, Listens,
     SleepersMissNothing
<1>3. DuplicateInv /\ SleepInv /\ [Next]_vars => (DuplicateInv /\ SleepInv)'
  BY DuplicateNext, SleepNext
<1>4. Spec => [](DuplicateInv /\ SleepInv)
  BY <1>1, <1>3, PTL DEF Spec
<1> QED  BY <1>2, <1>4, PTL

-----------------------------------------------------------------------------
(* What the callers agree on *)

\* The children of the registry, and the stores.
PlaceInv ==
  /\ \A i \in DOMAIN children :
       children[i] \in Handles /\ index[children[i]] = i /\ ~At(children[i], "unborn")
  /\ \A h \in Handles : At(h, "distributing") => call[h].left \subseteq DOMAIN children \ {index[h]}
  /\ \A h \in Handles : At(h, "purging") =>
       call[h].left \subseteq DOMAIN children /\ call[h].left # {}
  /\ \A h \in Handles : At(h, "unborn") => heard[h] = <<>> /\ stored[h] = {}
  /\ \A h \in Handles : \A e, f \in stored[h] : Equal(e, f) => e = f
  /\ \A h \in Handles : joined[h] <= Len(source.log)

-----------------------------------------------------------------------------
\* A store with an entry has a first one: of the rollbacks if there are any, or of the others.
LEMMA FirstOf ==
  ASSUME NEW S, S # {}, \A e \in S : e.time \in Nat, \A e, f \in S : Equal(e, f) => e = f
  PROVE  /\ First(S) \in S
         /\ ~IsRollback(First(S)) => \A e \in S : ~IsRollback(e)
<1> DEFINE R == {e \in S : IsRollback(e)}
           T == IF R = {} THEN S ELSE R
           times == {e.time : e \in T}
<1>1. T # {} /\ T \subseteq S /\ \A e \in T, f \in S \ T : IsRollback(e) /\ ~IsRollback(f)
  OBVIOUS
<1>2. \A e, f \in T : IsRollback(e) <=> IsRollback(f)
  OBVIOUS
<1> HIDE DEF T
<1>3. times \in SUBSET Nat /\ times # {}
  BY <1>1
<1>4. Min(times) \in times /\ \A t \in times : Min(times) <= t
  <2> HIDE DEF times
  <2> QED  BY <1>3, LeastOf
<1>5. PICK e \in T : \A f \in T : e.time <= f.time
  BY <1>4
<1>6. ASSUME NEW f \in S \ {e}
      PROVE  Before(e, f)
  <2>1. CASE f \in T
    <3>1. e.time \in Nat /\ f.time \in Nat /\ e.time <= f.time
      BY <1>1, <1>5, <2>1
    <3>2. ~Equal(e, f)
      BY <1>1, <1>6
    <3> QED  BY <1>2, <2>1, <3>1, <3>2 DEF Before, Equal
  <2>2. CASE f \notin T
    BY <1>1, <2>2 DEF Before
  <2> QED  BY <2>1, <2>2
<1>7. \E d \in S : \A f \in S \ {d} : Before(d, f)
  BY <1>1, <1>6
<1>8. First(S) \in S /\ \A f \in S \ {First(S)} : Before(First(S), f)
  BY <1>7 DEF First
<1> QED  BY <1>8 DEF Before

LEMMA TimesAreNumbers ==
  ASSUME StoreInv
  PROVE  /\ Len(source.log) \in Nat /\ DOMAIN source.log = 1..Len(source.log)
         /\ \A i \in 1..Len(source.log) : source.log[i].time \in Nat /\ source.log[i].id = i
         /\ \A e \in Logged : e.time \in Nat /\ e.id \in 1..Len(source.log) /\ source.log[e.id] = e
         /\ \A h \in Handles : stored[h] \subseteq Logged
<1>1. source.log \in Seq(Entry) /\ DOMAIN source.log = 1..Len(source.log) /\ Len(source.log) \in Nat
  BY DEF StoreInv
<1>2. \A e \in Entry : e.time \in Nat
  BY DuplicateAssumption DEF Entry, Times
<1>3. \A i \in 1..Len(source.log) : source.log[i] \in Entry /\ source.log[i].id = i
  BY <1>1 DEF StoreInv
<1> HIDE DEF Entry
<1> QED  BY <1>1, <1>2, <1>3 DEF Logged, StoreInv

-----------------------------------------------------------------------------
\* The children, and those who are left to be told, are what they were.
LEMMA PlaceGoesOn ==
  ASSUME IndexInv, PlaceInv, NEW h \in Handles, NEW r, GoesOnFrom(h, Dealing, r),
         r.at \in Dealing \cup {"gone", "cloning"},
         r.at = "distributing" => r.left \subseteq DOMAIN children \ {index[h]},
         r.at = "purging" => r.left \subseteq DOMAIN children /\ r.left # {},
         \A g \in Handles \ {h} : heard'[g] = heard[g],
         \A g \in Handles : At(g, "unborn") => stored'[g] = stored[g],
         \A g \in Handles : \A e, f \in stored'[g] : Equal(e, f) => e = f,
         Len(source'.log) \in Nat, Len(source.log) \in Nat, Len(source.log) <= Len(source'.log),
         joined \in [Handles -> Nat]
  PROVE  PlaceInv'
<1>1. Handles' = Handles /\ call'[h] = r /\ \A g \in Handles \ {h} : call'[g] = call[g]
  BY Places DEF GoesOnFrom
<1>2. UNCHANGED <<index, children, joined>> /\ ~At(h, "unborn") /\ ~At(h, "unborn")'
  BY <1>1 DEF GoesOnFrom, At, Dealing, Aside
<1>3. \A g \in Handles : (At(g, "unborn")' <=> At(g, "unborn"))
  BY <1>1, <1>2 DEF At
<1>4. (\A i \in DOMAIN children :
         children[i] \in Handles /\ index[children[i]] = i /\ ~At(children[i], "unborn"))'
  <2>1. \A i \in DOMAIN children : children'[i] = children[i] /\ index'[children[i]] = i
                                   /\ children[i] \in Handles /\ ~At(children[i], "unborn")
    BY <1>2 DEF PlaceInv
  <2>2. \A i \in DOMAIN children : call'[children[i]].at # "unborn"
    BY <1>3, <2>1 DEF At
  <2> QED  BY <1>1, <1>2, <2>1, <2>2 DEF At
<1>5. (\A g \in Handles : At(g, "distributing") => call[g].left \subseteq DOMAIN children \ {index[g]})'
  BY <1>1, <1>2 DEF PlaceInv, At
<1>6. (\A g \in Handles : At(g, "purging") => call[g].left \subseteq DOMAIN children /\ call[g].left # {})'
  BY <1>1, <1>2 DEF PlaceInv, At
<1>7. (\A g \in Handles : At(g, "unborn") => heard[g] = <<>> /\ stored[g] = {})'
  BY <1>1, <1>2, <1>3 DEF PlaceInv
<1>8. (\A g \in Handles : \A e, f \in stored[g] : Equal(e, f) => e = f)'
  BY <1>1 DEF Equal, Before, IsRollback
<1>9. (\A g \in Handles : joined[g] <= Len(source.log))'
  <2>1. \A g \in Handles : joined[g] \in Nat /\ joined[g] <= Len(source.log) /\ joined'[g] = joined[g]
    BY <1>2 DEF PlaceInv
  <2> QED  BY <1>1, <2>1
<1> QED  BY <1>4, <1>5, <1>6, <1>7, <1>8, <1>9 DEF PlaceInv

\* What h does to the children in its turn.
PlaceMoves(h, r) ==
  /\ GoesOnFrom(h, Dealing, r) /\ r.at \in Dealing \cup {"gone", "cloning"}
  /\ r.at = "distributing" => r.left \subseteq DOMAIN children \ {index[h]}
  /\ r.at = "purging" => r.left \subseteq DOMAIN children /\ r.left # {}
  /\ \A g \in Handles \ {h} : heard'[g] = heard[g]
  /\ \A g \in Handles : At(g, "unborn") => stored'[g] = stored[g]
  /\ \A g \in Handles : \A e, f \in stored'[g] : Equal(e, f) => e = f
  /\ Len(source.log) <= Len(source'.log)

LEMMA PlaceInsertChild ==
  ASSUME IndexInv, ChildInv, StoreInv, PlaceInv, NEW h \in Handles, InsertChild(h)
  PROVE  PlaceInv'
<1> DEFINE g == Min({f \in Handles : At(f, "unborn")})
           c == call[h].index
<1>1. At(h, "cloning") /\ g \in Handles /\ At(g, "unborn") /\ g # h
  BY ChildToBe DEF InsertChild, At, StoreInv
<1>2. /\ call' = [call EXCEPT ![h] = [at |-> "inserted", child |-> g], ![g] = [at |-> "new"]]
      /\ index' = [index EXCEPT ![g] = c]
      /\ children' = With(children, c, g)
      /\ joined' = [joined EXCEPT ![g] = Len(source.log)]
      /\ UNCHANGED <<bound, stored, heard, source>> /\ Handles' = Handles
      /\ \A f \in Handles : ~At(f, "purging") /\ ~At(f, "distributing")
  BY DEF InsertChild, ChildrenFree, Handles
<1> HIDE DEF g, c
<1>3. /\ call'[h] = [at |-> "inserted", child |-> g] /\ call'[g] = [at |-> "new"]
      /\ \A f \in Handles \ {g, h} : call'[f] = call[f]
  BY <1>1, <1>2 DEF IndexInv, CallInv
<1>4. index'[g] = c /\ \A f \in Handles \ {g} : index'[f] = index[f]
  BY <1>1, <1>2 DEF IndexInv
<1>5. /\ joined'[g] = Len(source.log) /\ Len(source.log) \in Nat
      /\ \A f \in Handles \ {g} : joined'[f] = joined[f]
  BY <1>1, <1>2 DEF StoreInv
<1>6. \A f \in Handles : /\ At(f, "unborn")' => At(f, "unborn")
                         /\ ~At(f, "purging")' /\ ~At(f, "distributing")'
  <2>1. \A f \in Handles : call'[f].at \in {"inserted", "new", call[f].at}
    BY <1>3
  <2> QED  BY <1>2, <2>1 DEF At
<1>7. call'[g].at # "unborn" /\ call'[h].at # "unborn"
  BY <1>3
<1>8. ASSUME NEW i \in DOMAIN children'
      PROVE  children'[i] \in Handles /\ index'[children'[i]] = i /\ call'[children'[i]].at # "unborn"
  <2>1. CASE i = c
    <3>1. children'[i] = g
      BY <1>2, <2>1 DEF With
    <3> QED  BY <1>1, <1>4, <1>7, <2>1, <3>1
  <2>2. CASE i # c
    <3>1. i \in DOMAIN children /\ children'[i] = children[i]
      BY <1>2, <2>2 DEF With
    <3>2. children[i] \in Handles /\ index[children[i]] = i /\ ~At(children[i], "unborn")
      BY <3>1 DEF PlaceInv
    <3>3. children[i] # g
      BY <1>1, <3>2
    <3>4. call'[children[i]].at # "unborn"
      BY <1>3, <1>7, <3>2, <3>3 DEF At
    <3> QED  BY <1>4, <3>1, <3>2, <3>3, <3>4
  <2> QED  BY <2>1, <2>2
<1>9. (\A i \in DOMAIN children :
         children[i] \in Handles /\ index[children[i]] = i /\ ~At(children[i], "unborn"))'
  BY <1>2, <1>8 DEF At
<1>10. (\A f \in Handles : At(f, "unborn") => heard[f] = <<>> /\ stored[f] = {})'
  BY <1>2, <1>6 DEF PlaceInv
<1>11. (\A f \in Handles : \A d, e \in stored[f] : Equal(d, e) => d = e)'
  BY <1>2 DEF PlaceInv, Equal, Before, IsRollback
<1>12. (\A f \in Handles : joined[f] <= Len(source.log))'
  BY <1>2, <1>5 DEF PlaceInv
<1> QED  BY <1>2, <1>6, <1>9, <1>10, <1>11, <1>12 DEF PlaceInv

LEMMA PlaceRegisterAdvanced ==
  ASSUME IndexInv, ChildInv, PlaceInv, NEW h \in Handles, RegisterAdvanced(h)
  PROVE  PlaceInv'
<1> DEFINE r == IF advanced.poisoned THEN Gone ELSE Idle
           g == call[h].child
<1>1. /\ call' = [call EXCEPT ![h] = r, ![g] = r]
      /\ Handles' = Handles /\ UNCHANGED <<bound, index, children, stored, heard, source, joined>>
      /\ At(h, "inserted") /\ g \in Handles /\ At(g, "new")
  BY DEF RegisterAdvanced, Handles, ChildInv
<1>2. r.at \in {"idle", "gone"}
  BY DEF Gone, Idle
<1> HIDE DEF r, g
<1>3. call'[h] = r /\ call'[g] = r /\ \A f \in Handles \ {g, h} : call'[f] = call[f]
  BY <1>1 DEF IndexInv, CallInv
<1>4. \A f \in Handles : /\ At(f, "unborn")' <=> At(f, "unborn")
                         /\ At(f, "purging")' => At(f, "purging") /\ call'[f] = call[f]
                         /\ At(f, "distributing")' => At(f, "distributing") /\ call'[f] = call[f]
  BY <1>1, <1>2, <1>3 DEF At
<1>5. (\A i \in DOMAIN children :
         children[i] \in Handles /\ index[children[i]] = i /\ ~At(children[i], "unborn"))'
  <2>1. \A i \in DOMAIN children : children'[i] = children[i] /\ index'[children[i]] = i
                                   /\ children[i] \in Handles /\ ~At(children[i], "unborn")'
    BY <1>1, <1>4 DEF PlaceInv
  <2>2. \A i \in DOMAIN children : call'[children[i]].at # "unborn"
    BY <2>1 DEF At
  <2> QED  BY <1>1, <2>1, <2>2 DEF At
<1>6. (\A f \in Handles : At(f, "distributing") => call[f].left \subseteq DOMAIN children \ {index[f]})'
  BY <1>1, <1>4 DEF PlaceInv
<1>7. (\A f \in Handles : At(f, "purging") => call[f].left \subseteq DOMAIN children /\ call[f].left # {})'
  BY <1>1, <1>4 DEF PlaceInv
<1>8. (\A f \in Handles : At(f, "unborn") => heard[f] = <<>> /\ stored[f] = {})'
  BY <1>1, <1>4 DEF PlaceInv
<1>9. (\A f \in Handles : \A d, e \in stored[f] : Equal(d, e) => d = e)'
  BY <1>1 DEF PlaceInv, Equal, Before, IsRollback
<1>10. (\A f \in Handles : joined[f] <= Len(source.log))'
  BY <1>1 DEF PlaceInv
<1> QED  BY <1>5, <1>6, <1>7, <1>8, <1>9, <1>10 DEF PlaceInv

\* Neither the source waking nor a rest changes a place.
LEMMA PlaceAlone ==
  ASSUME PlaceInv, source'.log = source.log,
         UNCHANGED <<call, stored, heard, bound, index, children, joined>>
  PROVE  PlaceInv'
<1>1. Handles' = Handles
  BY DEF Handles
<1>2. (\A i \in DOMAIN children :
         children[i] \in Handles /\ index[children[i]] = i /\ ~At(children[i], "unborn"))'
  BY <1>1 DEF PlaceInv, At
<1>3. (\A f \in Handles : \A d, e \in stored[f] : Equal(d, e) => d = e)'
  BY <1>1 DEF PlaceInv, Equal, Before, IsRollback
<1> QED  BY <1>1, <1>2, <1>3 DEF PlaceInv, At

LEMMA PlaceNext == DuplicateInv /\ PlaceInv /\ [Next]_vars => PlaceInv'
<1> SUFFICES ASSUME DuplicateInv, PlaceInv, [Next]_vars PROVE PlaceInv'
  OBVIOUS
<1>0. IndexInv /\ ChildInv /\ StoreInv /\ CarryInv
  BY DEF DuplicateInv, EntryInv
<1>1. StoreInv' /\ Len(source.log) \in Nat /\ Len(source'.log) \in Nat
  BY <1>0, DuplicateNext DEF DuplicateInv, EntryInv, StoreInv
<1>2. CASE UNCHANGED vars
  BY <1>2, PlaceAlone DEF vars, registry, history
<1>3. CASE SourceWakes
  BY <1>0, <1>3, PlaceAlone DEF SourceWakes, registry, history, StoreInv
<1>4. CASE Rests
  BY <1>2, <1>4 DEF Rests
<1>5. ASSUME NEW h \in Handles, Steps(h) PROVE PlaceInv'
  <2>0. ASSUME NEW r, PlaceMoves(h, r) PROVE PlaceInv'
    <3>1. joined \in [Handles -> Nat]
      BY <1>0 DEF StoreInv
    <3> QED  BY <1>0, <1>1, <2>0, <3>1, PlaceGoesOn DEF PlaceMoves
  <2>1. ASSUME NEW r, Quiet(h, r) PROVE PlaceInv'
    <3>1. GoesOnFrom(h, Dealing, r) /\ r.at \in Aside \cup {"gone"}
          /\ UNCHANGED <<stored, heard>> /\ source'.log = source.log
      BY <2>1 DEF Quiet, GoesOnFrom, Dealing
    <3>2. \A g \in Handles : \A e, f \in stored'[g] : Equal(e, f) => e = f
      BY <3>1 DEF PlaceInv
    <3>3. r.at # "distributing" /\ r.at # "purging" /\ r.at \in Dealing \cup {"gone", "cloning"}
      BY <3>1 DEF Dealing, Aside
    <3>4. PlaceMoves(h, r)
      BY <1>1, <3>1, <3>2, <3>3 DEF PlaceMoves
    <3> QED  BY <2>0, <3>4
  <2>2. CASE SourceEmits(h)
    <3>1. PICK kind \in bound.kinds, time \in Times :
            LET e == [kind |-> kind, time |-> time, id |-> Len(source.log) + 1]
            IN  /\ source' = [source EXCEPT !.log = Append(@, e), !.hasWaker = TRUE]
                /\ GoesTo(h, IF IsRollback(e)
                             THEN [at |-> "purging", entry |-> e, left |-> DOMAIN children]
                             ELSE [at |-> "emitted", entry |-> e])
      BY <2>2 DEF SourceEmits
    <3> DEFINE e == [kind |-> kind, time |-> time, id |-> Len(source.log) + 1]
               r == IF IsRollback(e) THEN [at |-> "purging", entry |-> e, left |-> DOMAIN children]
                    ELSE [at |-> "emitted", entry |-> e]
    <3>2. /\ source' = [source EXCEPT !.log = Append(@, e), !.hasWaker = TRUE] /\ GoesTo(h, r)
          /\ UNCHANGED <<bound, index, children, stored, heard, joined>>
          /\ At(h, "polling")
      BY <2>2, <3>1 DEF SourceEmits, PollsSource, registry, history
    <3>3. /\ r.at \in {"purging", "emitted"} /\ "at" \in DOMAIN r
          /\ r.at = "purging" => r.left = DOMAIN children
      OBVIOUS
    <3> HIDE DEF e, r
    <3>4. Len(source'.log) = Len(source.log) + 1
      BY <1>0, <3>2 DEF StoreInv
    <3>5. \A g \in Handles : \A d, f \in stored'[g] : Equal(d, f) => d = f
      BY <3>2 DEF PlaceInv
    <3>6. DOMAIN children # {}
      BY <1>0 DEF IndexInv
    <3>7. GoesOnFrom(h, Dealing, r) /\ r.at \in Dealing \cup {"gone", "cloning"}
      BY <3>2, <3>3 DEF GoesOnFrom, Dealing, Aside, At
    <3>8. PlaceMoves(h, r)
      BY <1>1, <3>2, <3>3, <3>4, <3>5, <3>6, <3>7 DEF PlaceMoves
    <3> QED  BY <2>0, <3>8
  <2>3. CASE PopStored(h)
    <3>1. /\ GoesTo(h, Idle) /\ At(h, "popping")
          /\ stored' = [stored EXCEPT ![h] = @ \ {First(@)}]
          /\ heard' = [heard EXCEPT ![h] = Append(@, First(stored[h]).id)]
          /\ UNCHANGED <<bound, index, children, source, joined>>
      BY <2>3 DEF PopStored, registry
    <3>2. \A g \in Handles : stored'[g] \subseteq stored[g]
      BY <1>0, <3>1 DEF StoreInv
    <3>3. \A g \in Handles : \A d, f \in stored'[g] : Equal(d, f) => d = f
      BY <3>2 DEF PlaceInv
    <3>4. \A g \in Handles \ {h} : heard'[g] = heard[g] /\ stored'[g] = stored[g]
      BY <1>0, <3>1 DEF StoreInv
    <3>5. GoesOnFrom(h, Dealing, Idle) /\ Idle.at = "idle" /\ "idle" \in Dealing
      BY <3>1 DEF GoesOnFrom, Dealing, Aside, At, Idle
    <3>6. PlaceMoves(h, Idle)
      BY <1>1, <3>1, <3>3, <3>4, <3>5 DEF PlaceMoves, At
    <3> QED  BY <2>0, <3>6
  <2>4. CASE Purge(h)
    <3> DEFINE i    == Min(call[h].left)
               left == call[h].left \ {i}
               r    == IF left = {} THEN [at |-> "emitted", entry |-> call[h].entry]
                                    ELSE [call[h] EXCEPT !.left = left]
    <3>1. /\ At(h, "purging") /\ GoesTo(h, r)
          /\ stored' = IF Alive(children[i])
                       THEN [stored EXCEPT ![children[i]] = PurgeFrom(@, call[h].entry.time)] ELSE stored
          /\ UNCHANGED <<bound, index, children, source, heard, joined>>
      BY <2>4 DEF Purge, registry, history
    <3>2. {"at", "entry", "left"} \subseteq DOMAIN call[h]
      BY <1>0, <3>1 DEF CarryInv, Carries, At, IndexInv, CallInv
    <3>3. /\ r.at \in {"purging", "emitted"} /\ "at" \in DOMAIN r
          /\ r.at = "purging" => r.left = left /\ left # {}
      BY <3>1, <3>2 DEF At
    <3>4. call[h].left \subseteq DOMAIN children /\ call[h].left # {} /\ left \subseteq DOMAIN children
      BY <3>1 DEF PlaceInv
    <3>5. i \in DOMAIN children
      BY <1>0, <3>4, LeastOf DEF IndexInv
    <3>6. children[i] \in Handles /\ ~At(children[i], "unborn")
      BY <3>5 DEF PlaceInv
    <3> HIDE DEF i, left, r
    <3>7. /\ \A g \in Handles : stored'[g] \subseteq stored[g]
          /\ \A g \in Handles \ {children[i]} : stored'[g] = stored[g]
      BY <1>0, <3>1, <3>6 DEF StoreInv, PurgeFrom
    <3>8. \A g \in Handles : \A d, f \in stored'[g] : Equal(d, f) => d = f
      BY <3>7 DEF PlaceInv
    <3>9. GoesOnFrom(h, Dealing, r) /\ r.at \in Dealing \cup {"gone", "cloning"}
      BY <3>1, <3>3 DEF GoesOnFrom, Dealing, At
    <3>10. PlaceMoves(h, r)
      BY <1>1, <3>1, <3>3, <3>4, <3>6, <3>7, <3>8, <3>9 DEF PlaceMoves
    <3> QED  BY <2>0, <3>10
  <2>5. CASE Distribute(h)
    <3> DEFINE r == [at |-> "distributing", entry |-> call[h].entry,
                     left |-> DOMAIN children \ {index[h]}]
    <3>1. /\ At(h, "emitted") /\ GoesTo(h, r)
          /\ UNCHANGED <<bound, index, children, source, stored, heard, joined>>
      BY <2>5 DEF Distribute, registry, history
    <3>2. r.at = "distributing" /\ r.left = DOMAIN children \ {index[h]} /\ "at" \in DOMAIN r
      OBVIOUS
    <3> HIDE DEF r
    <3>3. GoesOnFrom(h, Dealing, r) /\ r.at \in Dealing \cup {"gone", "cloning"}
      BY <3>1, <3>2 DEF GoesOnFrom, Dealing, At
    <3>4. \A g \in Handles : \A d, f \in stored'[g] : Equal(d, f) => d = f
      BY <3>1 DEF PlaceInv
    <3>5. PlaceMoves(h, r)
      BY <1>1, <3>1, <3>2, <3>3, <3>4 DEF PlaceMoves
    <3> QED  BY <2>0, <3>5
  <2>6. CASE HandOut(h)
    <3> DEFINE i == Min(call[h].left)
               e == call[h].entry
               r == [call[h] EXCEPT !.left = call[h].left \ {i}]
    <3>1. /\ At(h, "distributing") /\ GoesTo(h, r) /\ call[h].left # {}
          /\ stored' = IF Alive(children[i])
                       THEN [stored EXCEPT ![children[i]] = Insert(@, e)] ELSE stored
          /\ UNCHANGED <<bound, index, children, source, heard, joined>>
      BY <2>6 DEF HandOut, registry, history
    <3>2. {"at", "left"} \subseteq DOMAIN call[h]
      BY <1>0, <3>1 DEF CarryInv, At, IndexInv, CallInv
    <3>3. r.at = "distributing" /\ "at" \in DOMAIN r /\ r.left = call[h].left \ {i}
      BY <3>1, <3>2 DEF At
    <3>4. call[h].left \subseteq DOMAIN children \ {index[h]}
      BY <3>1 DEF PlaceInv
    <3>5. i \in DOMAIN children
      BY <1>0, <3>1, <3>4, LeastOf DEF IndexInv
    <3>6. children[i] \in Handles /\ ~At(children[i], "unborn")
      BY <3>5 DEF PlaceInv
    <3> HIDE DEF i, e, r
    <3>7. /\ \A g \in Handles \ {children[i]} : stored'[g] = stored[g]
          /\ \A g \in Handles : stored'[g] = stored[g] \/ stored'[g] = Insert(stored[g], e)
      BY <1>0, <3>1, <3>6 DEF StoreInv
    <3>8. ASSUME NEW g \in Handles PROVE \A d, f \in stored'[g] : Equal(d, f) => d = f
      <4>1. \A d, f \in stored[g] : Equal(d, f) => d = f
        BY DEF PlaceInv
      <4>2. CASE \E f \in stored[g] : Equal(f, e)
        <5>1. Insert(stored[g], e) = stored[g]
          BY <4>2 DEF Insert, Equal
        <5> QED  BY <3>7, <4>1, <5>1
      <4>3. CASE ~ \E f \in stored[g] : Equal(f, e)
        <5>1. Insert(stored[g], e) = stored[g] \cup {e}
          BY <4>3 DEF Insert, Equal
        <5>2. \A f \in stored[g] : ~Equal(f, e) /\ ~Equal(e, f)
          BY <4>3 DEF Equal
        <5> QED  BY <3>7, <4>1, <5>1, <5>2
      <4> QED  BY <4>2, <4>3
    <3>9. GoesOnFrom(h, Dealing, r) /\ r.at \in Dealing \cup {"gone", "cloning"}
      BY <3>1, <3>3 DEF GoesOnFrom, Dealing, At
    <3>10. PlaceMoves(h, r)
      BY <1>1, <3>1, <3>3, <3>4, <3>6, <3>7, <3>8, <3>9 DEF PlaceMoves
    <3> QED  BY <2>0, <3>10
  <2>7. CASE Answer(h)
    <3>1. /\ GoesTo(h, Idle) /\ At(h, "distributing")
          /\ heard' = [heard EXCEPT ![h] = Append(@, call[h].entry.id)]
          /\ UNCHANGED <<bound, index, children, source, joined, stored>>
      BY <2>7 DEF Answer, registry
    <3>2. \A g \in Handles : \A d, f \in stored'[g] : Equal(d, f) => d = f
      BY <3>1 DEF PlaceInv
    <3>3. \A g \in Handles \ {h} : heard'[g] = heard[g]
      BY <1>0, <3>1 DEF StoreInv
    <3>4. GoesOnFrom(h, Dealing, Idle) /\ Idle.at = "idle" /\ "idle" \in Dealing
      BY <3>1 DEF GoesOnFrom, Dealing, Aside, At, Idle
    <3>5. PlaceMoves(h, Idle)
      BY <1>1, <3>1, <3>2, <3>3, <3>4 DEF PlaceMoves
    <3> QED  BY <2>0, <3>5
  <2>8. CASE GetNextIndex(h)
    <3> DEFINE r == [at |-> "cloning", index |-> Max(DOMAIN children) + 1]
    <3>1. /\ GoesOnFrom(h, Dealing, r) /\ UNCHANGED <<stored, heard, source>>
      BY <2>8 DEF GetNextIndex, registry, history, Calls, GoesOnFrom, Dealing, Aside, At
    <3>2. r.at = "cloning"
      OBVIOUS
    <3> HIDE DEF r
    <3>3. \A g \in Handles : \A d, f \in stored'[g] : Equal(d, f) => d = f
      BY <3>1 DEF PlaceInv
    <3>4. PlaceMoves(h, r)
      BY <1>1, <3>1, <3>2, <3>3 DEF PlaceMoves
    <3> QED  BY <2>0, <3>4
  <2>9. CASE InsertChild(h)
    BY <1>0, <2>9, PlaceInsertChild
  <2>10. CASE RegisterAdvanced(h)
    BY <1>0, <2>10, PlaceRegisterAdvanced
  <2> QED
    BY <1>0, <1>5, <2>1, <2>2, <2>3, <2>4, <2>5, <2>6, <2>7, <2>8, <2>9, <2>10, QuietSteps DEF Steps
<1> QED
  BY <1>2, <1>3, <1>4, <1>5 DEF Next
-----------------------------------------------------------------------------
\* What a caller knows of a log: s are the places it was told of, S what is stored for it, W is on
\* its way to it, and D about to be carried out on its store; it has listened since n.
IsEvent(e)         == e.kind = "event"
TakesBack(r, e)    == IsRollback(r) /\ r.time <= e.time
Written(log)       == /\ Len(log) \in Nat /\ DOMAIN log = 1..Len(log)
                      /\ \A i \in 1..Len(log) : log[i].id = i /\ log[i].time \in Nat
StoredFrom(log, S) == \A e \in S : e.id \in 1..Len(log) /\ log[e.id] = e
Stays(log, i)      == \A k \in (i + 1)..Len(log) : ~TakesBack(log[k], log[i])
InTheWay(log, n, id) ==
  \E i \in (n + 1)..(id - 1) : ~IsRollback(log[i]) /\ log[i].time = log[id].time /\ Stays(log, i)

\* Rollbacks come after the events that the caller was told before them; an event it was told of
\* that was taken back will be taken back for it; nothing stored was taken back; and events that
\* were not reach the caller, unless another entry to their time is in the way.
Knows(log, n, s, S, W, D) ==
  /\ \A i \in DOMAIN s : s[i] \in (n + 1)..Len(log)
  /\ \A e \in S : e.id > n
  /\ \A i, j \in DOMAIN s :
       i < j /\ IsEvent(log[s[i]]) /\ IsRollback(log[s[j]]) => s[i] < s[j]
  /\ \A e \in S : \A i \in DOMAIN s : IsRollback(e) /\ IsEvent(log[s[i]]) => s[i] < e.id
  /\ \A i \in DOMAIN s : IsEvent(log[s[i]]) =>
       \A k \in (s[i] + 1)..Len(log) : TakesBack(log[k], log[s[i]]) =>
         \/ \E e \in S : TakesBack(e, log[s[i]])
         \/ \E j \in DOMAIN s : i < j /\ TakesBack(log[s[j]], log[s[i]])
         \/ k \in W
  /\ \A e \in S : ~IsRollback(e) =>
       \A k \in (e.id + 1)..Len(log) : TakesBack(log[k], e) => k \in D
  /\ \A id \in (n + 1)..Len(log) : IsEvent(log[id]) /\ Stays(log, id) =>
       Says(s, id) \/ log[id] \in S \/ id \in W \/ InTheWay(log, n, id)

\* Nothing happens to the caller.
LEMMA KnowsStill ==
  ASSUME NEW log, NEW n, NEW s, NEW S, NEW W, NEW D, NEW V, NEW C,
         Knows(log, n, s, S, W, D), W \subseteq V, D \subseteq C
  PROVE  Knows(log, n, s, S, V, C)
BY DEF Knows

\* The source says e, which is on its way to the caller, and takes from the store what it takes back.
LEMMA KnowsMore ==
  ASSUME NEW log, NEW n \in Nat, NEW s, NEW S, NEW W, NEW D, NEW V, NEW C, NEW e, NEW more,
         Knows(log, n, s, S, W, D), Written(log), StoredFrom(log, S),
         Written(more), Len(more) = Len(log) + 1, \A i \in 1..Len(log) : more[i] = log[i],
         more[Len(log) + 1] = e,
         W \subseteq V, D \subseteq C, Len(log) + 1 \in V, IsRollback(e) => Len(log) + 1 \in C
  PROVE  Knows(more, n, s, S, V, C)
<1>1. \A i \in DOMAIN s : s[i] \in 1..Len(log) /\ more[s[i]] = log[s[i]]
  BY DEF Knows, Written
<1>2. \A i \in DOMAIN s : s[i] \in (n + 1)..Len(more)
  BY DEF Knows, Written
<1>3. ASSUME NEW i \in Nat, NEW k \in (i + 1)..Len(more)
      PROVE  k # Len(log) + 1 => k \in (i + 1)..Len(log) /\ more[k] = log[k]
  <2>1. Len(log) \in Nat /\ k \in Nat /\ i + 1 <= k /\ k <= Len(log) + 1
    BY DEF Written
  <2>2. CASE k <= Len(log)
    <3>1. k \in 1..Len(log)
      BY <2>1, <2>2
    <3> QED  BY <2>1, <2>2, <3>1
  <2> QED  BY <2>1, <2>2
<1>4. ASSUME NEW i \in DOMAIN s, IsEvent(more[s[i]]), NEW k \in (s[i] + 1)..Len(more),
             TakesBack(more[k], more[s[i]])
      PROVE  \/ \E f \in S : TakesBack(f, more[s[i]])
             \/ \E j \in DOMAIN s : i < j /\ TakesBack(more[s[j]], more[s[i]])
             \/ k \in V
  <2>1. CASE k = Len(log) + 1
    BY <2>1
  <2>2. CASE k # Len(log) + 1
    <3>1. k \in (s[i] + 1)..Len(log) /\ more[k] = log[k]
      BY <1>1, <1>3, <1>4, <2>2
    <3>2. \/ \E f \in S : TakesBack(f, log[s[i]])
          \/ \E j \in DOMAIN s : i < j /\ TakesBack(log[s[j]], log[s[i]])
          \/ k \in W
      BY <1>1, <1>4, <3>1 DEF Knows
    <3> QED  BY <1>1, <3>2
  <2> QED  BY <2>1, <2>2
<1>5. ASSUME NEW f \in S, ~IsRollback(f), NEW k \in (f.id + 1)..Len(more), TakesBack(more[k], f)
      PROVE  k \in C
  <2>1. CASE k = Len(log) + 1
    BY <1>5, <2>1 DEF TakesBack
  <2>2. CASE k # Len(log) + 1
    <3>1. f.id \in 1..Len(log)
      BY DEF StoredFrom
    <3>2. k \in (f.id + 1)..Len(log) /\ more[k] = log[k]
      BY <1>3, <1>5, <2>2, <3>1
    <3> QED  BY <1>5, <3>2 DEF Knows
  <2> QED  BY <2>1, <2>2
<1>6. ASSUME NEW id \in (n + 1)..Len(more), IsEvent(more[id]), Stays(more, id)
      PROVE  Says(s, id) \/ more[id] \in S \/ id \in V \/ InTheWay(more, n, id)
  <2>1. Len(log) \in Nat /\ id \in Nat /\ n + 1 <= id /\ id <= Len(log) + 1
    BY DEF Written
  <2>2. CASE id = Len(log) + 1
    BY <2>2
  <2>3. CASE id # Len(log) + 1
    <3>1. id \in (n + 1)..Len(log) /\ id \in 1..Len(log) /\ more[id] = log[id]
      BY <2>1, <2>3
    <3>2. ASSUME NEW k \in (id + 1)..Len(log) PROVE k \in (id + 1)..Len(more) /\ more[k] = log[k]
      BY <2>1, <3>1
    <3>3. Stays(log, id)
      BY <1>6, <3>1, <3>2 DEF Stays
    <3>4. CASE InTheWay(log, n, id)
      <4>1. PICK i \in (n + 1)..(id - 1) :
              ~IsRollback(log[i]) /\ log[i].time = log[id].time /\ Stays(log, i)
        BY <3>4 DEF InTheWay
      <4>2. i \in 1..Len(log) /\ i < id /\ i \in Nat /\ more[i] = log[i]
        BY <2>1, <3>1
      <4>3. ASSUME NEW k \in (i + 1)..Len(more), TakesBack(more[k], more[i]) PROVE FALSE
        <5>1. TakesBack(more[k], more[id])
          BY <3>1, <4>1, <4>2, <4>3 DEF TakesBack
        <5>2. CASE k = Len(log) + 1
          <6>1. k \in (id + 1)..Len(more)
            BY <2>1, <3>1, <5>2
          <6> QED  BY <1>6, <5>1, <6>1 DEF Stays
        <5>3. CASE k # Len(log) + 1
          <6>1. k \in (i + 1)..Len(log) /\ more[k] = log[k]
            BY <1>3, <4>2, <5>3
          <6> QED  BY <4>1, <4>2, <4>3, <6>1 DEF Stays
        <5> QED  BY <5>2, <5>3
      <4>4. Stays(more, i)
        BY <4>3 DEF Stays
      <4> QED  BY <3>1, <4>1, <4>2, <4>4 DEF InTheWay
    <3>5. CASE ~InTheWay(log, n, id)
      <4>1. Says(s, id) \/ log[id] \in S \/ id \in W
        BY <1>6, <3>1, <3>3, <3>5 DEF Knows
      <4> QED  BY <3>1, <4>1
    <3> QED  BY <3>4, <3>5
  <2> QED  BY <2>2, <2>3
<1> QED  BY <1>1, <1>2, <1>4, <1>5, <1>6 DEF Knows

\* What is taken from the store are not rollbacks; and what is left the last entry does not take back.
LEMMA KnowsPurged ==
  ASSUME NEW log, NEW n, NEW s, NEW S, NEW W, NEW D, NEW R, NEW V, NEW C, NEW last,
         Knows(log, n, s, S, W, D), StoredFrom(log, S), Written(log), n \in Nat,
         last = Len(log), IsRollback(log[last]),
         R \subseteq S, \A e \in S : IsRollback(e) => e \in R,
         \A e \in R : ~TakesBack(log[last], e) \/ IsRollback(e),
         \A e \in S \ R : TakesBack(log[last], e),
         W \subseteq V, D \ {last} \subseteq C
  PROVE  Knows(log, n, s, R, V, C)
<1>1. \A e \in S : \A f : TakesBack(e, f) => e \in R
  BY DEF TakesBack
<1>2. ASSUME NEW i \in DOMAIN s, IsEvent(log[s[i]]), NEW k \in (s[i] + 1)..Len(log),
             TakesBack(log[k], log[s[i]])
      PROVE  \/ \E f \in R : TakesBack(f, log[s[i]])
             \/ \E j \in DOMAIN s : i < j /\ TakesBack(log[s[j]], log[s[i]])
             \/ k \in V
  BY <1>1, <1>2 DEF Knows
<1>3. ASSUME NEW e \in R, ~IsRollback(e), NEW k \in (e.id + 1)..Len(log), TakesBack(log[k], e)
      PROVE  k \in C
  <2>1. k # last
    BY <1>3
  <2>2. k \in D
    BY <1>3 DEF Knows
  <2> QED  BY <2>1, <2>2
<1>4. ASSUME NEW id \in (n + 1)..Len(log), IsEvent(log[id]), Stays(log, id), log[id] \notin R
      PROVE  log[id] \notin S
  <2>1. id # last /\ id \in Nat /\ Len(log) \in Nat
    BY <1>4 DEF IsEvent, IsRollback, Written
  <2>2. last \in (id + 1)..Len(log)
    BY <2>1
  <2>3. ~TakesBack(log[last], log[id])
    BY <1>4, <2>2 DEF Stays
  <2> QED  BY <1>4, <2>3
<1>5. \A id \in (n + 1)..Len(log) : IsEvent(log[id]) /\ Stays(log, id) =>
        Says(s, id) \/ log[id] \in R \/ id \in V \/ InTheWay(log, n, id)
  BY <1>4 DEF Knows
<1> QED  BY <1>2, <1>3, <1>5 DEF Knows

\* The last entry, which was on its way, is stored, unless there is a rollback to the same time.
LEMMA KnowsInStore ==
  ASSUME NEW log, NEW n, NEW s, NEW S, NEW W, NEW D, NEW R, NEW V, NEW C, NEW e,
         Knows(log, n, s, S, W, D), Written(log), n \in Nat, StoredFrom(log, S),
         Len(log) > n, e = log[Len(log)],
         S \subseteq R, R \subseteq S \cup {e}, e \in R \/ \E f \in S : Equal(f, e),
         W \ {Len(log)} \subseteq V, D = {}
  PROVE  Knows(log, n, s, R, V, C)
<1>1. e.id = Len(log) /\ e.time \in Nat
  BY DEF Written
<1>2. \A f \in R : f.id > n
  BY <1>1 DEF Knows
<1>3. ASSUME NEW i \in DOMAIN s, IsEvent(log[s[i]]), NEW f \in R, IsRollback(f)
      PROVE  s[i] < f.id
  <2>1. CASE f \in S
    BY <1>3, <2>1 DEF Knows
  <2>2. CASE f = e
    <3>1. s[i] # Len(log)
      BY <1>3, <2>2 DEF IsEvent, IsRollback
    <3>2. s[i] \in (n + 1)..Len(log)
      BY DEF Knows
    <3> QED  BY <1>1, <2>2, <3>1, <3>2 DEF Written
  <2> QED  BY <2>1, <2>2
<1>4. ASSUME NEW i \in DOMAIN s, IsEvent(log[s[i]]), NEW k \in (s[i] + 1)..Len(log),
             TakesBack(log[k], log[s[i]])
      PROVE  \/ \E f \in R : TakesBack(f, log[s[i]])
             \/ \E j \in DOMAIN s : i < j /\ TakesBack(log[s[j]], log[s[i]])
             \/ k \in V
  <2>1. CASE k = Len(log)
    <3>1. TakesBack(e, log[s[i]])
      BY <1>4, <2>1
    <3>2. CASE e \in R
      BY <3>1, <3>2
    <3>3. CASE \E f \in S : Equal(f, e)
      <4>1. PICK f \in S : Equal(f, e)
        BY <3>3
      <4>2. f.time \in Nat
        BY DEF StoredFrom, Written
      <4>3. IsRollback(e) /\ (IsRollback(f) <=> IsRollback(e))
        BY <3>1, <4>1 DEF Equal, Before, TakesBack
      <4>4. f.time = e.time
        BY <1>1, <4>1, <4>2, <4>3 DEF Equal, Before
      <4> QED  BY <3>1, <4>3, <4>4 DEF TakesBack
    <3> QED  BY <3>2, <3>3
  <2>2. CASE k # Len(log)
    BY <1>4, <2>2 DEF Knows
  <2> QED  BY <2>1, <2>2
<1>5. ASSUME NEW f \in R, ~IsRollback(f), NEW k \in (f.id + 1)..Len(log), TakesBack(log[k], f)
      PROVE  k \in C
  <2>1. CASE f \in S
    BY <1>5, <2>1 DEF Knows
  <2>2. CASE f = e
    BY <1>1, <1>5, <2>2 DEF Written
  <2> QED  BY <2>1, <2>2
<1>6. ASSUME NEW id \in (n + 1)..Len(log), IsEvent(log[id]), Stays(log, id)
      PROVE  Says(s, id) \/ log[id] \in R \/ id \in V \/ InTheWay(log, n, id)
  <2>1. CASE id # Len(log)
    BY <1>6, <2>1 DEF Knows
  <2>2. CASE id = Len(log) /\ e \in R
    BY <2>2
  <2>3. CASE id = Len(log) /\ \E f \in S : Equal(f, e)
    <3>1. PICK f \in S : Equal(f, e)
      BY <2>3
    <3>2. f.time \in Nat /\ f.id \in 1..Len(log) /\ log[f.id] = f /\ f.id > n
      BY DEF StoredFrom, Written, Knows
    <3>3. ~IsRollback(e)
      BY <1>6, <2>3 DEF IsEvent, IsRollback
    <3>4. ~IsRollback(f)
      BY <3>1, <3>3 DEF Equal, Before
    <3>5. f.time = e.time
      <4>1. ~(f.time < e.time) /\ ~(e.time < f.time)
        BY <3>1, <3>3, <3>4 DEF Equal, Before, IsRollback
      <4> QED  BY <1>1, <3>2, <4>1
    <3>6. Stays(log, f.id)
      BY <3>2, <3>4 DEF Knows, Stays
    <3>7. CASE f.id # id
      <4>1. f.id \in (n + 1)..(id - 1)
        BY <2>3, <3>2, <3>7
      <4> QED  BY <2>3, <3>2, <3>4, <3>5, <3>6, <4>1 DEF InTheWay
    <3>8. CASE f.id = id
      BY <3>2, <3>8
    <3> QED  BY <3>7, <3>8
  <2> QED  BY <2>1, <2>2, <2>3
<1> QED  BY <1>2, <1>3, <1>4, <1>5, <1>6 DEF Knows

\* The caller is told an entry, id, that follows any rollback stored or is one.
LEMMA KnowsTold ==
  ASSUME NEW log, NEW n, NEW s, NEW S, NEW W, NEW D, NEW R, NEW V, NEW C, NEW id,
         Knows(log, n, s, S, W, D), Written(log), n \in Nat, Sequence(s), StoredFrom(log, S),
         id \in (n + 1)..Len(log),
         R \subseteq S, S \subseteq R \cup {log[id]},
         W \ {id} \subseteq V, D \subseteq C,
         \A e \in S : IsRollback(e) => IsRollback(log[id]),
         IsRollback(log[id]) => \A i \in DOMAIN s : IsEvent(log[s[i]]) => s[i] < id,
         IsEvent(log[id]) => \A k \in (id + 1)..Len(log) : ~TakesBack(log[k], log[id])
  PROVE  Knows(log, n, Append(s, id), R, V, C)
<1> DEFINE t == Append(s, id)
           m == Len(s) + 1
<1>1. /\ DOMAIN t = DOMAIN s \cup {m} /\ m \notin DOMAIN s /\ t[m] = id
      /\ \A i \in DOMAIN s : t[i] = s[i] /\ i < m /\ i \in Nat
      /\ m \in Nat
  BY DEF Sequence
<1> HIDE DEF t, m
<1>2. \A i \in DOMAIN t : t[i] \in (n + 1)..Len(log)
  BY <1>1 DEF Knows
<1>3. ASSUME NEW i \in DOMAIN t, NEW j \in DOMAIN t, i < j, IsEvent(log[t[i]]), IsRollback(log[t[j]])
      PROVE  t[i] < t[j]
  <2>1. i \in DOMAIN s /\ t[i] = s[i]
    BY <1>1, <1>3
  <2>2. CASE j = m
    BY <1>1, <1>3, <2>1, <2>2
  <2>3. CASE j \in DOMAIN s
    BY <1>1, <1>3, <2>1, <2>3 DEF Knows
  <2> QED  BY <1>1, <2>2, <2>3
<1>4. ASSUME NEW e \in R, NEW i \in DOMAIN t, IsRollback(e), IsEvent(log[t[i]])
      PROVE  t[i] < e.id
  <2>1. i # m
    BY <1>1, <1>4 DEF IsRollback, IsEvent
  <2>2. i \in DOMAIN s /\ t[i] = s[i]
    BY <1>1, <2>1
  <2> QED  BY <1>4, <2>2 DEF Knows
<1>5. ASSUME NEW i \in DOMAIN t, IsEvent(log[t[i]]), NEW k \in (t[i] + 1)..Len(log),
             TakesBack(log[k], log[t[i]])
      PROVE  \/ \E f \in R : TakesBack(f, log[t[i]])
             \/ \E j \in DOMAIN t : i < j /\ TakesBack(log[t[j]], log[t[i]])
             \/ k \in V
  <2>1. i # m
    BY <1>1, <1>5
  <2>2. i \in DOMAIN s /\ t[i] = s[i] /\ i < m
    BY <1>1, <2>1
  <2>3. \/ \E f \in S : TakesBack(f, log[s[i]])
        \/ \E j \in DOMAIN s : i < j /\ TakesBack(log[s[j]], log[s[i]])
        \/ k \in W
    BY <1>5, <2>2 DEF Knows
  <2>4. CASE \E f \in S : TakesBack(f, log[s[i]])
    BY <1>1, <2>2, <2>4
  <2>5. CASE \E j \in DOMAIN s : i < j /\ TakesBack(log[s[j]], log[s[i]])
    BY <1>1, <2>2, <2>5
  <2>6. CASE k \in W
    BY <1>1, <1>5, <2>2, <2>6
  <2> QED  BY <2>3, <2>4, <2>5, <2>6
<1>6. (\A e \in R : e.id > n) /\ \A e \in R : ~IsRollback(e) =>
        \A k \in (e.id + 1)..Len(log) : TakesBack(log[k], e) => k \in C
  BY DEF Knows
<1>7. ASSUME NEW d \in (n + 1)..Len(log), IsEvent(log[d]), Stays(log, d)
      PROVE  Says(t, d) \/ log[d] \in R \/ d \in V \/ InTheWay(log, n, d)
  <2>1. Says(t, id) /\ (Says(s, d) => Says(t, d))
    BY <1>1 DEF Says
  <2>2. CASE d = id
    BY <2>1, <2>2
  <2>3. CASE d # id
    <3>1. log[d] # log[id]
      BY <2>3 DEF Written
    <3>2. Says(s, d) \/ log[d] \in S \/ d \in W \/ InTheWay(log, n, d)
      BY <1>7 DEF Knows
    <3> QED  BY <2>1, <2>3, <3>1, <3>2
  <2> QED  BY <2>2, <2>3
<1> QED  BY <1>2, <1>3, <1>4, <1>5, <1>6, <1>7 DEF Knows, t

-----------------------------------------------------------------------------
\* The rollbacks that a handle is about to carry out on the store of h.
OnWay(h)  == {k \in 1..Len(source.log) : OnItsWayTo(h, k)}
Doomed(h) == {k \in 1..Len(source.log) : \E p \in Handles :
                At(p, "purging") /\ call[p].entry.id = k /\ index[h] \in call[p].left}
View(h)   == Knows(source.log, joined[h], heard[h], stored[h], OnWay(h), Doomed(h))

\* As long as no polls overlap, what is carried is the last entry; who asks the source has no
\* rollback stored; and everybody knows what to make of what it was told.
LastCarried ==
  \A p \in Handles : Carries(p) =>
    /\ call[p].entry.id = Len(source.log)
    /\ \A h \in Handles : joined[h] < Len(source.log)
PollsAfter ==
  \A h \in Handles : At(h, "polling") \/ At(h, "adjusting") \/ Carries(h) =>
    \A e \in stored[h] : ~IsRollback(e)
ViewInv ==
  ~overlap => LastCarried /\ PollsAfter /\ \A h \in Handles : Owner(h) => View(h)

LEMMA ViewFacts ==
  ASSUME StoreInv
  PROVE  /\ Written(source.log) /\ Len(source.log) \in Nat
         /\ \A h \in Handles : /\ StoredFrom(source.log, stored[h]) /\ joined[h] \in Nat
                               /\ Sequence(heard[h])
         /\ \A e \in Logged : source.log[e.id] = e
BY TimesAreNumbers DEF Written, StoredFrom, StoreInv

\* A caller whom nothing happens to knows what it knew.
LEMMA ViewStays ==
  ASSUME NEW g \in Handles, View(g), source'.log = source.log,
         heard'[g] = heard[g], stored'[g] = stored[g], joined'[g] = joined[g],
         OnWay(g) \subseteq OnWay(g)', Doomed(g) \subseteq Doomed(g)'
  PROVE  View(g)'
<1>1. Knows(source.log, joined[g], heard[g], stored[g], OnWay(g)', Doomed(g)')
  BY KnowsStill DEF View
<1> QED  BY <1>1 DEF View, Knows

LEMMA DoomedKept ==
  ASSUME NEW g \in Handles, Handles' = Handles, source'.log = source.log, index'[g] = index[g],
         \A f \in Handles : At(f, "purging") => call'[f] = call[f]
  PROVE  Doomed(g) \subseteq Doomed(g)'
BY DEF Doomed, At

LEMMA OnWayKept ==
  ASSUME NEW g \in Handles, source'.log = source.log,
         \A k \in OnWay(g) : OnItsWayTo(g, k) => OnItsWayTo(g, k)'
  PROVE  OnWay(g) \subseteq OnWay(g)'
BY DEF OnWay

LEMMA ViewKept ==
  ASSUME NEW g \in Handles, View(g), Handles' = Handles, source'.log = source.log,
         heard'[g] = heard[g], stored'[g] = stored[g], joined'[g] = joined[g], index'[g] = index[g],
         \A f \in Handles : Carries(f) => call'[f] = call[f]
  PROVE  View(g)'
<1>1. OnWay(g) \subseteq OnWay(g)'
  BY OnItsWayKept, OnWayKept
<1>2. Doomed(g) \subseteq Doomed(g)'
  BY DoomedKept DEF Carries, At
<1> QED  BY <1>1, <1>2, ViewStays

\* A step of a handle that carries nothing.
LEMMA ViewGoesOn ==
  ASSUME IndexInv, StoreInv, ViewInv, NEW h \in Handles, NEW r, GoesOnFrom(h, Aside, r),
         r.at \in Aside \cup {"gone", "cloning"},
         UNCHANGED <<stored, heard>>, source'.log = source.log, overlap => overlap',
         ~overlap /\ r.at \in {"polling", "adjusting"} => \A e \in stored[h] : ~IsRollback(e)
  PROVE  ViewInv'
<1> SUFFICES ASSUME ~overlap', ~overlap
             PROVE  (LastCarried /\ PollsAfter /\ \A g \in Handles : Owner(g) => View(g))'
  BY DEF ViewInv
<1>1. Handles' = Handles /\ call'[h] = r /\ \A g \in Handles \ {h} : call'[g] = call[g]
  BY Places DEF GoesOnFrom
<1>2. \A g \in Handles : (Carries(g)' => Carries(g)) /\ (Carries(g) => call'[g] = call[g])
  BY <1>1 DEF Carries, GoesOnFrom, Aside
<1>3. LastCarried'
  BY <1>1, <1>2 DEF LastCarried, ViewInv, GoesOnFrom
<1>4. PollsAfter'
  BY <1>1, <1>2 DEF PollsAfter, ViewInv, At
<1>5. \A g \in Handles : Owner(g)' => Owner(g)
  <2>1. GoesOnFrom(h, Aside \cup {"purging", "emitted", "distributing"}, r)
    BY DEF GoesOnFrom
  <2> QED  BY <2>1, OwnersKept
<1>6. ASSUME NEW g \in Handles, Owner(g)' PROVE View(g)'
  BY <1>1, <1>2, <1>5, <1>6, ViewKept DEF ViewInv, GoesOnFrom
<1> QED  BY <1>1, <1>3, <1>4, <1>6

LEMMA ViewAlone ==
  ASSUME ViewInv, source'.log = source.log,
         UNCHANGED <<call, stored, heard, bound, index, joined, overlap>>
  PROVE  ViewInv'
<1> SUFFICES ASSUME ~overlap
             PROVE  (LastCarried /\ PollsAfter /\ \A g \in Handles : Owner(g) => View(g))'
  BY DEF ViewInv
<1>1. Handles' = Handles
  BY DEF Handles
<1>2. LastCarried' /\ PollsAfter'
  BY <1>1 DEF LastCarried, PollsAfter, ViewInv, Carries, At
<1>3. ASSUME NEW g \in Handles, Owner(g)' PROVE View(g)'
  <2>1. Owner(g)
    BY <1>1, <1>3 DEF Owner, OwnIndex, Alive, At
  <2> QED  BY <1>1, <2>1, ViewKept DEF ViewInv
<1> QED  BY <1>1, <1>2, <1>3

\* Nobody polls when a child is inserted, and the child knows nothing.
LEMMA ViewInsertChild ==
  ASSUME IndexInv, ChildInv, StoreInv, PlaceInv, ViewInv, NEW h \in Handles, InsertChild(h)
  PROVE  ViewInv'
<1> SUFFICES ASSUME ~overlap'
             PROVE  (LastCarried /\ PollsAfter /\ \A f \in Handles : Owner(f) => View(f))'
  BY DEF ViewInv
<1> DEFINE g == Min({f \in Handles : At(f, "unborn")})
<1>1. At(h, "cloning") /\ g \in Handles /\ At(g, "unborn") /\ g # h
  BY ChildToBe DEF InsertChild, At, StoreInv
<1>2. /\ call' = [call EXCEPT ![h] = [at |-> "inserted", child |-> g], ![g] = [at |-> "new"]]
      /\ index' = [index EXCEPT ![g] = call[h].index]
      /\ joined' = [joined EXCEPT ![g] = Len(source.log)]
      /\ UNCHANGED <<bound, stored, heard, source>> /\ Handles' = Handles
      /\ ~overlap /\ \A f \in Handles : ~Polling(f)
  BY DEF InsertChild, Handles
<1> HIDE DEF g
<1>3. /\ call'[h] = [at |-> "inserted", child |-> g] /\ call'[g] = [at |-> "new"]
      /\ \A f \in Handles \ {g, h} : call'[f] = call[f]
  BY <1>1, <1>2 DEF IndexInv, CallInv
<1>4. /\ \A f \in Handles \ {g} : index'[f] = index[f] /\ joined'[f] = joined[f]
      /\ joined'[g] = Len(source.log)
  BY <1>1, <1>2 DEF IndexInv, StoreInv
<1>5. \A f \in Handles : call'[f].at \in {"inserted", "new", call[f].at}
  BY <1>3
<1>6. \A f \in Handles : /\ ~Carries(f)' /\ ~At(f, "polling")' /\ ~At(f, "adjusting")'
                         /\ ~Carries(f)
                         /\ At(f, "unborn")' => At(f, "unborn")
                         /\ f # g /\ Alive(f)' => Alive(f)
  BY <1>1, <1>2, <1>3, <1>5 DEF Carries, At, Polling, Alive
<1>7. LastCarried' /\ PollsAfter'
  BY <1>2, <1>6 DEF LastCarried, PollsAfter
<1>8. ASSUME NEW f \in Handles, Owner(f)' PROVE View(f)'
  <2>1. CASE f = g
    <3>1. heard[f] = <<>> /\ stored[f] = {}
      BY <1>1, <2>1 DEF PlaceInv
    <3>2. Len(source.log) \in Nat /\ (joined'[f] + 1)..Len(source'.log) = {}
      BY <1>2, <1>4, <2>1, ViewFacts
    <3> QED  BY <1>2, <3>1, <3>2 DEF View, Knows
  <2>2. CASE f # g
    <3>1. Owner(f)
      BY <1>1, <1>2, <1>4, <1>6, <1>8, <2>2 DEF Owner, OwnIndex
    <3>2. View(f)
      BY <1>2, <3>1 DEF ViewInv
    <3> QED  BY <1>2, <1>4, <1>6, <2>2, <3>2, ViewKept
  <2> QED  BY <2>1, <2>2
<1> QED  BY <1>2, <1>7, <1>8

LEMMA ViewRegisterAdvanced ==
  ASSUME IndexInv, ChildInv, ViewInv, NEW h \in Handles, RegisterAdvanced(h)
  PROVE  ViewInv'
<1> SUFFICES ASSUME ~overlap'
             PROVE  (LastCarried /\ PollsAfter /\ \A f \in Handles : Owner(f) => View(f))'
  BY DEF ViewInv
<1> DEFINE r == IF advanced.poisoned THEN Gone ELSE Idle
           g == call[h].child
<1>1. /\ call' = [call EXCEPT ![h] = r, ![g] = r]
      /\ Handles' = Handles /\ UNCHANGED <<bound, index, children, stored, heard, source, joined>>
      /\ At(h, "inserted") /\ g \in Handles /\ At(g, "new") /\ ~overlap
  BY DEF RegisterAdvanced, Handles, ChildInv
<1>2. r.at \in {"idle", "gone"}
  BY DEF Gone, Idle
<1> HIDE DEF r, g
<1>3. call'[h] = r /\ call'[g] = r /\ \A f \in Handles \ {g, h} : call'[f] = call[f]
  BY <1>1 DEF IndexInv, CallInv
<1>4. \A f \in Handles : /\ Carries(f)' => call'[f] = call[f] /\ Carries(f)
                         /\ Carries(f) => call'[f] = call[f]
                         /\ At(f, "polling")' => At(f, "polling")
                         /\ At(f, "adjusting")' => At(f, "adjusting")
                         /\ At(f, "unborn")' <=> At(f, "unborn")
                         /\ Alive(f)' => Alive(f)
  BY <1>1, <1>2, <1>3 DEF Carries, At, Alive
<1>5. LastCarried' /\ PollsAfter'
  BY <1>1, <1>4 DEF LastCarried, PollsAfter, ViewInv
<1>6. ASSUME NEW f \in Handles, Owner(f)' PROVE View(f)'
  <2>1. Owner(f)
    BY <1>1, <1>4, <1>6 DEF Owner, OwnIndex
  <2> QED  BY <1>1, <1>4, <2>1, ViewKept DEF ViewInv
<1> QED  BY <1>1, <1>5, <1>6

-----------------------------------------------------------------------------
\* As long as no polls overlap, who polls is alone with that.
LEMMA PollsAlone ==
  ASSUME SleepInv, ~overlap, NEW h \in Handles, Polling(h)
  PROVE  \A g \in Handles : g # h => ~Polling(g) /\ ~Carries(g) /\ ~At(g, "purging")
                                     /\ ~At(g, "polling") /\ ~At(g, "adjusting")
<1>1. \A g \in Handles : g # h => ~Polling(g)
  BY DEF SleepInv, LateInv
<1> QED  BY <1>1 DEF Polling, Carries, At

\* The source says something, to everybody.
LEMMA ViewSourceEmits ==
  ASSUME IndexInv, ChildInv, StoreInv, StoreInv', SleepInv, PlaceInv, ViewInv,
         NEW h \in Handles, SourceEmits(h)
  PROVE  ViewInv'
<1>1. PICK kind \in bound.kinds, time \in Times :
        LET e == [kind |-> kind, time |-> time, id |-> Len(source.log) + 1]
        IN  /\ source' = [source EXCEPT !.log = Append(@, e), !.hasWaker = TRUE]
            /\ GoesTo(h, IF IsRollback(e)
                         THEN [at |-> "purging", entry |-> e, left |-> DOMAIN children]
                         ELSE [at |-> "emitted", entry |-> e])
  BY DEF SourceEmits
<1> DEFINE e == [kind |-> kind, time |-> time, id |-> Len(source.log) + 1]
           r == IF IsRollback(e) THEN [at |-> "purging", entry |-> e, left |-> DOMAIN children]
                ELSE [at |-> "emitted", entry |-> e]
<1>2. /\ source' = [source EXCEPT !.log = Append(@, e), !.hasWaker = TRUE] /\ GoesTo(h, r)
      /\ UNCHANGED <<bound, index, children, stored, heard, joined, overlap>>
      /\ At(h, "polling")
  BY <1>1 DEF SourceEmits, PollsSource, registry, history
<1>3. e.id = Len(source.log) + 1 /\ e.time \in Nat
  BY DuplicateAssumption DEF Times
<1>4. /\ r.entry = e /\ r.at \in {"purging", "emitted"} /\ "at" \in DOMAIN r
      /\ IsRollback(e) => r.at = "purging" /\ r.left = DOMAIN children
  OBVIOUS
<1> HIDE DEF e, r
<1> SUFFICES ASSUME ~overlap
             PROVE  (LastCarried /\ PollsAfter /\ \A g \in Handles : Owner(g) => View(g))'
  BY <1>2 DEF ViewInv
<1>5. Handles' = Handles /\ call'[h] = r /\ \A g \in Handles \ {h} : call'[g] = call[g]
  BY <1>2, Places
<1>6. /\ Len(source.log) \in Nat /\ Len(source'.log) = Len(source.log) + 1
      /\ DOMAIN source'.log = 1..Len(source'.log)
      /\ source'.log[Len(source.log) + 1] = e
      /\ \A i \in 1..Len(source.log) : source'.log[i] = source.log[i]
  BY <1>2 DEF StoreInv
<1>7. /\ Written(source.log)
      /\ \A g \in Handles : StoredFrom(source.log, stored[g]) /\ joined[g] \in Nat
  BY ViewFacts
<1>8. Written(source'.log)
  <2>1. ASSUME NEW i \in 1..Len(source'.log)
        PROVE  source'.log[i].id = i /\ source'.log[i].time \in Nat
    <3>1. i = Len(source.log) + 1 \/ i \in 1..Len(source.log)
      BY <1>6
    <3> QED  BY <1>3, <1>6, <1>7, <3>1 DEF Written
  <2> QED  BY <1>6, <2>1 DEF Written
<1>9. \A g \in Handles : g # h => ~Carries(g) /\ ~At(g, "polling") /\ ~At(g, "adjusting")
  BY <1>2, PollsAlone DEF Polling, At
<1>10. \A g \in Handles : g # h => ~Carries(g)' /\ ~At(g, "polling")' /\ ~At(g, "adjusting")'
  BY <1>5, <1>9 DEF Carries, At
<1>11. LastCarried'
  <2>1. \A g \in Handles : joined'[g] < Len(source'.log)
    BY <1>2, <1>6, <1>7 DEF PlaceInv
  <2>2. call'[h].entry.id = Len(source'.log)
    BY <1>3, <1>4, <1>5, <1>6
  <2> QED  BY <1>5, <1>10, <2>1, <2>2 DEF LastCarried
<1>12. PollsAfter'
  <2>1. \A d \in stored[h] : ~IsRollback(d)
    BY <1>2 DEF ViewInv, PollsAfter
  <2> QED  BY <1>2, <1>5, <1>10, <2>1 DEF PollsAfter
<1>13. \A g \in Handles : Owner(g)' => Owner(g)
  <2>1. GoesOnFrom(h, Aside \cup {"purging", "emitted", "distributing"}, r)
    BY <1>2, <1>4 DEF GoesOnFrom, Aside, At
  <2> QED  BY <1>4, <2>1, OwnersKept
<1>14. ASSUME NEW g \in Handles, Owner(g)' PROVE View(g)'
  <2>1. Owner(g) /\ View(g)
    BY <1>13, <1>14 DEF ViewInv
  <2>2. Len(source.log) + 1 \in 1..Len(source'.log) /\ 1..Len(source.log) \subseteq 1..Len(source'.log)
    BY <1>6
  <2>3. Carries(h)' /\ call'[h].entry.id = Len(source.log) + 1 /\ ~At(h, "distributing")'
        /\ ~At(h, "purging") /\ ~Carries(h)
    BY <1>2, <1>3, <1>4, <1>5 DEF Carries, At
  <2>4. OnWay(g) \subseteq OnWay(g)'
    <3>1. \A f \in Handles : Carries(f) => call'[f] = call[f]
      BY <1>5, <2>3
    <3>2. ASSUME NEW k \in OnWay(g) PROVE k \in 1..Len(source.log) /\ OnItsWayTo(g, k)'
      BY <1>2, <1>5, <3>1, OnItsWayKept DEF OnWay
    <3> QED  BY <2>2, <3>2 DEF OnWay
  <2>5. Len(source.log) + 1 \in OnWay(g)'
    BY <1>5, <2>2, <2>3 DEF OnWay, OnItsWayTo, Carries, At
  <2>6. Doomed(g) \subseteq Doomed(g)'
    <3>1. ASSUME NEW p \in Handles, At(p, "purging") PROVE At(p, "purging")' /\ call'[p] = call[p]
      BY <1>5, <2>3, <3>1 DEF At
    <3> QED  BY <1>2, <1>5, <2>2, <3>1 DEF Doomed
  <2>7. IsRollback(e) => Len(source.log) + 1 \in Doomed(g)'
    <3>1. index[g] \in DOMAIN children
      BY <2>1 DEF ChildInv
    <3> QED  BY <1>2, <1>4, <1>5, <2>2, <2>3, <3>1 DEF Doomed, At
  <2>8. Knows(source.log, joined[g], heard[g], stored[g], OnWay(g), Doomed(g))
    BY <2>1 DEF View
  <2>9. Knows(source'.log, joined[g], heard[g], stored[g], OnWay(g)', Doomed(g)')
    BY <1>6, <1>7, <1>8, <2>4, <2>5, <2>6, <2>7, <2>8, KnowsMore
  <2> QED  BY <1>2, <2>9 DEF View, Knows
<1> QED  BY <1>5, <1>11, <1>12, <1>14

\* A rollback is carried out on the store of a child, which knows of it.
LEMMA ViewPurge ==
  ASSUME IndexInv, ChildInv, StoreInv, CarryInv, SleepInv, PlaceInv, ViewInv,
         NEW h \in Handles, Purge(h)
  PROVE  ViewInv'
<1> DEFINE i    == Min(call[h].left)
           e    == call[h].entry
           left == call[h].left \ {i}
           r    == IF left = {} THEN [at |-> "emitted", entry |-> e] ELSE [call[h] EXCEPT !.left = left]
<1>1. /\ At(h, "purging") /\ GoesTo(h, r)
      /\ stored' = IF Alive(children[i])
                   THEN [stored EXCEPT ![children[i]] = PurgeFrom(@, e.time)] ELSE stored
      /\ UNCHANGED <<bound, index, children, source, heard, joined, overlap>>
  BY DEF Purge, registry, history
<1>2. /\ IsRollback(e) /\ e.id = Len(source.log) /\ e \in Logged
      /\ {"at", "entry", "left"} \subseteq DOMAIN call[h]
  BY <1>1 DEF CarryInv, Carries, At, IndexInv, CallInv
<1>3. /\ r.at \in {"purging", "emitted"} /\ r.entry = e /\ "at" \in DOMAIN r
      /\ r.at = "purging" => r.left = left
      /\ left # {} => r.at = "purging"
  BY <1>1, <1>2 DEF At
<1>4. call[h].left \subseteq DOMAIN children /\ left = call[h].left \ {i} /\ e = call[h].entry
  BY <1>1 DEF PlaceInv
<1> HIDE DEF i, e, left, r
<1> SUFFICES ASSUME ~overlap
             PROVE  (LastCarried /\ PollsAfter /\ \A g \in Handles : Owner(g) => View(g))'
  BY <1>1 DEF ViewInv
<1>5. Handles' = Handles /\ call'[h] = r /\ \A g \in Handles \ {h} : call'[g] = call[g]
  BY <1>1, Places
<1>6. /\ \A g \in Handles : stored'[g] \subseteq stored[g]
      /\ \A g \in Handles : g = children[i] /\ Alive(g) => stored'[g] = PurgeFrom(stored[g], e.time)
      /\ \A g \in Handles : g # children[i] => stored'[g] = stored[g]
  BY <1>1 DEF StoreInv, PurgeFrom
<1>7. \A g \in Handles : g # h => ~Carries(g) /\ ~At(g, "purging") /\ ~At(g, "polling") /\ ~At(g, "adjusting")
  BY <1>1, PollsAlone DEF Polling, At
<1>8. \A g \in Handles : g # h => ~Carries(g)' /\ ~At(g, "polling")' /\ ~At(g, "adjusting")'
  BY <1>5, <1>7 DEF Carries, At
<1>9. Carries(h) /\ Carries(h)'
  BY <1>1, <1>3, <1>5 DEF Carries, At
<1>10. LastCarried'
  BY <1>1, <1>2, <1>3, <1>4, <1>5, <1>8, <1>9 DEF LastCarried, ViewInv
<1>11. PollsAfter'
  BY <1>5, <1>6, <1>8, <1>9 DEF PollsAfter, ViewInv
<1>12. \A g \in Handles : Owner(g)' => Owner(g)
  <2>1. GoesOnFrom(h, Aside \cup {"purging", "emitted", "distributing"}, r)
    BY <1>1, <1>3 DEF GoesOnFrom, Aside, At
  <2> QED  BY <1>3, <2>1, OwnersKept
<1>13. ASSUME NEW g \in Handles, Owner(g)' PROVE View(g)'
  <2>1. Owner(g) /\ View(g)
    BY <1>12, <1>13 DEF ViewInv
  <2>2. OnWay(g) \subseteq OnWay(g)'
    <3>1. ASSUME NEW k, OnItsWayTo(g, k) PROVE OnItsWayTo(g, k)'
      BY <1>1, <1>3, <1>4, <1>5, <3>1 DEF OnItsWayTo, At
    <3> QED  BY <1>1, <3>1, OnWayKept
  <2>3. Doomed(g) \subseteq {Len(source.log)}
    BY <1>2, <1>4, <1>7 DEF Doomed
  <2>4. CASE g = children[i]
    <3>1. stored'[g] = PurgeFrom(stored[g], e.time)
      BY <1>6, <2>1, <2>4 DEF Owner
    <3>2. source.log[Len(source.log)] = e /\ e.time \in Nat
      BY <1>2, TimesAreNumbers
    <3>3. \A f \in stored[g] : f.time \in Nat
      BY ViewFacts DEF StoredFrom, Written
    <3>4. /\ \A f \in stored'[g] : ~TakesBack(source.log[Len(source.log)], f) \/ IsRollback(f)
          /\ \A f \in stored[g] \ stored'[g] : TakesBack(source.log[Len(source.log)], f)
      BY <1>2, <3>1, <3>2, <3>3 DEF PurgeFrom, TakesBack
    <3>5. \A f \in stored[g] : IsRollback(f) => f \in stored'[g]
      BY <3>1 DEF PurgeFrom
    <3>6. Doomed(g) \ {Len(source.log)} \subseteq Doomed(g)'
      BY <2>3
    <3>7. StoredFrom(source.log, stored[g]) /\ Written(source.log) /\ joined[g] \in Nat
      BY ViewFacts
    <3>8. Knows(source.log, joined[g], heard[g], stored[g], OnWay(g), Doomed(g))
      BY <2>1 DEF View
    <3>9. stored'[g] \subseteq stored[g] /\ IsRollback(source.log[Len(source.log)])
      BY <1>2, <1>6, <3>2
    <3>10. Knows(source.log, joined[g], heard[g], stored'[g], OnWay(g)', Doomed(g)')
      BY <2>2, <3>4, <3>5, <3>6, <3>7, <3>8, <3>9, KnowsPurged
    <3> QED  BY <1>1, <3>10 DEF View, Knows
  <2>5. CASE g # children[i]
    <3>1. index[g] # i
      BY <2>1, <2>5 DEF ChildInv
    <3>2. Doomed(g) \subseteq Doomed(g)'
      <4>1. ASSUME NEW p \in Handles, At(p, "purging"), index[g] \in call[p].left
            PROVE  /\ At(p, "purging")' /\ call'[p].entry.id = call[p].entry.id
                   /\ index'[g] \in call'[p].left
        <5>1. p = h
          BY <1>7, <4>1
        <5>2. index[g] \in left
          BY <1>4, <3>1, <4>1, <5>1
        <5>3. r.at = "purging" /\ index[g] \in r.left /\ r.entry = call[p].entry
          BY <1>3, <1>4, <5>1, <5>2
        <5> QED  BY <1>1, <1>5, <5>1, <5>3 DEF At
      <4> QED  BY <1>1, <1>5, <4>1 DEF Doomed
    <3> QED  BY <1>1, <1>6, <2>1, <2>2, <2>5, <3>2, ViewStays
  <2> QED  BY <2>4, <2>5
<1> QED  BY <1>5, <1>10, <1>11, <1>13

LEMMA ViewDistribute ==
  ASSUME IndexInv, ChildInv, CarryInv, SleepInv, PlaceInv, ViewInv, NEW h \in Handles, Distribute(h)
  PROVE  ViewInv'
<1> DEFINE r == [at |-> "distributing", entry |-> call[h].entry, left |-> DOMAIN children \ {index[h]}]
<1>1. /\ At(h, "emitted") /\ GoesTo(h, r)
      /\ UNCHANGED <<bound, index, children, source, stored, heard, joined, overlap>>
  BY DEF Distribute, registry, history
<1>2. /\ r.at = "distributing" /\ r.entry = call[h].entry /\ r.left = DOMAIN children \ {index[h]}
      /\ "at" \in DOMAIN r
  OBVIOUS
<1> HIDE DEF r
<1> SUFFICES ASSUME ~overlap
             PROVE  (LastCarried /\ PollsAfter /\ \A g \in Handles : Owner(g) => View(g))'
  BY <1>1 DEF ViewInv
<1>3. Handles' = Handles /\ call'[h] = r /\ \A g \in Handles \ {h} : call'[g] = call[g]
  BY <1>1, Places
<1>4. Carries(h) /\ Carries(h)' /\ ~At(h, "purging") /\ ~At(h, "polling")' /\ ~At(h, "adjusting")'
  BY <1>1, <1>2, <1>3 DEF Carries, At
<1>5. \A g \in Handles \ {h} : /\ Carries(g)' <=> Carries(g)
                               /\ At(g, "polling")' <=> At(g, "polling")
                               /\ At(g, "adjusting")' <=> At(g, "adjusting")
  BY <1>3 DEF Carries, At
<1>6. LastCarried'
  BY <1>1, <1>2, <1>3, <1>4, <1>5 DEF LastCarried, ViewInv
<1>7. PollsAfter'
  BY <1>1, <1>3, <1>4, <1>5 DEF PollsAfter, ViewInv
<1>8. \A g \in Handles : Owner(g)' => Owner(g)
  <2>1. GoesOnFrom(h, Aside \cup {"purging", "emitted", "distributing"}, r)
    BY <1>1, <1>2 DEF GoesOnFrom, Aside, At
  <2> QED  BY <1>2, <2>1, OwnersKept
<1>9. ASSUME NEW g \in Handles, Owner(g)' PROVE View(g)'
  <2>1. Owner(g) /\ View(g)
    BY <1>8, <1>9 DEF ViewInv
  <2>2. g # h => index[g] \in r.left
    <3>1. index[g] \in DOMAIN children
      BY <2>1 DEF ChildInv
    <3>2. g # h => index[g] # index[h]
      BY <1>1, <2>1 DEF Owner, OwnIndex, At
    <3> QED  BY <1>2, <3>1, <3>2
  <2>3. OnWay(g) \subseteq OnWay(g)'
    <3>1. ASSUME NEW k, OnItsWayTo(g, k) PROVE OnItsWayTo(g, k)'
      BY <1>1, <1>2, <1>3, <2>2, <3>1 DEF OnItsWayTo, At
    <3> QED  BY <1>1, <3>1, OnWayKept
  <2>4. Doomed(g) \subseteq Doomed(g)'
    BY <1>1, <1>3, <1>4, DoomedKept
  <2> QED  BY <1>1, <2>1, <2>3, <2>4, ViewStays
<1> QED  BY <1>3, <1>6, <1>7, <1>9

\* A child is handed the last entry, unless it has a rollback to that time.
LEMMA ViewHandOut ==
  ASSUME IndexInv, ChildInv, StoreInv, CarryInv, SleepInv, PlaceInv, ViewInv,
         NEW h \in Handles, HandOut(h)
  PROVE  ViewInv'
<1> DEFINE i == Min(call[h].left)
           e == call[h].entry
           r == [call[h] EXCEPT !.left = call[h].left \ {i}]
<1>1. /\ At(h, "distributing") /\ GoesTo(h, r) /\ call[h].left # {}
      /\ stored' = IF Alive(children[i]) THEN [stored EXCEPT ![children[i]] = Insert(@, e)] ELSE stored
      /\ UNCHANGED <<bound, index, children, source, heard, joined, overlap>>
  BY DEF HandOut, registry, history
<1>2. e \in Logged /\ {"at", "entry", "left"} \subseteq DOMAIN call[h]
  BY <1>1 DEF CarryInv, Carries, At, IndexInv, CallInv
<1>3. /\ r.at = "distributing" /\ r.entry = e /\ "at" \in DOMAIN r
      /\ r.left = call[h].left \ {i} /\ e = call[h].entry
  BY <1>1, <1>2 DEF At
<1>4. i \in DOMAIN children /\ i # index[h]
  <2>1. call[h].left \subseteq DOMAIN children \ {index[h]}
    BY <1>1 DEF PlaceInv
  <2>2. i \in call[h].left
    BY <1>1, <2>1, LeastOf DEF IndexInv
  <2> QED  BY <2>1, <2>2
<1> HIDE DEF r, i, e
<1> SUFFICES ASSUME ~overlap
             PROVE  (LastCarried /\ PollsAfter /\ \A g \in Handles : Owner(g) => View(g))'
  BY <1>1 DEF ViewInv
<1>5. Handles' = Handles /\ call'[h] = r /\ \A g \in Handles \ {h} : call'[g] = call[g]
  BY <1>1, Places
<1>6. /\ \A g \in Handles : g = children[i] /\ Alive(g) => stored'[g] = Insert(stored[g], e)
      /\ \A g \in Handles : g # children[i] => stored'[g] = stored[g]
  BY <1>1 DEF StoreInv
<1>7. children[i] # h
  BY <1>4 DEF PlaceInv
<1>8. \A g \in Handles : g # h => ~Carries(g) /\ ~At(g, "polling") /\ ~At(g, "adjusting")
  BY <1>1, PollsAlone DEF Polling, At
<1>9. \A g \in Handles : g # h => ~Carries(g)' /\ ~At(g, "polling")' /\ ~At(g, "adjusting")'
  BY <1>5, <1>8 DEF Carries, At
<1>10. Carries(h) /\ Carries(h)' /\ ~At(h, "purging")
  BY <1>1, <1>3, <1>5 DEF Carries, At
<1>11. /\ e.id = Len(source.log) /\ source.log[Len(source.log)] = e
       /\ \A g \in Handles : joined[g] < Len(source.log)
  BY <1>2, <1>3, <1>10, ViewFacts DEF ViewInv, LastCarried
<1>12. LastCarried'
  BY <1>1, <1>3, <1>5, <1>9, <1>11 DEF LastCarried
<1>13. PollsAfter'
  BY <1>5, <1>6, <1>7, <1>9, <1>10 DEF PollsAfter, ViewInv
<1>14. \A g \in Handles : Owner(g)' => Owner(g)
  <2>1. GoesOnFrom(h, Aside \cup {"purging", "emitted", "distributing"}, r)
    BY <1>1, <1>3 DEF GoesOnFrom, Aside, At
  <2> QED  BY <1>3, <2>1, OwnersKept
<1>15. ASSUME NEW g \in Handles, Owner(g)' PROVE View(g)'
  <2>1. Owner(g) /\ View(g)
    BY <1>14, <1>15 DEF ViewInv
  <2>2. Doomed(g) \subseteq Doomed(g)'
    BY <1>1, <1>5, <1>10, DoomedKept
  <2>3. CASE g = children[i]
    <3>1. stored'[g] = Insert(stored[g], e)
      BY <1>6, <2>1, <2>3 DEF Owner
    <3>2. /\ stored[g] \subseteq stored'[g] /\ stored'[g] \subseteq stored[g] \cup {e}
          /\ e \in stored'[g] \/ \E f \in stored[g] : Equal(f, e)
      BY <3>1 DEF Insert, Equal
    <3>3. OnWay(g) \ {Len(source.log)} \subseteq OnWay(g)'
      BY <1>8, <1>3, <1>11 DEF OnWay, OnItsWayTo, Carries
    <3>4. Written(source.log) /\ joined[g] \in Nat /\ StoredFrom(source.log, stored[g])
          /\ Len(source.log) > joined[g] /\ e = source.log[Len(source.log)]
      BY <1>11, ViewFacts
    <3>5. Knows(source.log, joined[g], heard[g], stored[g], OnWay(g), Doomed(g)) /\ Doomed(g) = {}
      BY <1>8, <1>10, <2>1 DEF View, Doomed, Carries, At
    <3>6. Knows(source.log, joined[g], heard[g], stored'[g], OnWay(g)', Doomed(g)')
      BY <3>2, <3>3, <3>4, <3>5, KnowsInStore
    <3> QED  BY <1>1, <3>6 DEF View, Knows
  <2>4. CASE g # children[i]
    <3>1. index[g] # i
      BY <2>1, <2>4 DEF ChildInv
    <3>2. OnWay(g) \subseteq OnWay(g)'
      <4>1. ASSUME NEW k, OnItsWayTo(g, k) PROVE OnItsWayTo(g, k)'
        BY <1>1, <1>3, <1>5, <3>1, <4>1 DEF OnItsWayTo, At
      <4> QED  BY <1>1, <4>1, OnWayKept
    <3> QED  BY <1>1, <1>6, <2>1, <2>2, <2>4, <3>2, ViewStays
  <2> QED  BY <2>3, <2>4
<1> QED  BY <1>5, <1>12, <1>13, <1>15

\* The caller who polled is told the last entry.
LEMMA ViewAnswer ==
  ASSUME IndexInv, StoreInv, SleepInv, PlaceInv, ViewInv, NEW h \in Handles, Answer(h)
  PROVE  ViewInv'
<1>1. /\ At(h, "distributing") /\ call[h].left = {} /\ GoesTo(h, Idle)
      /\ heard' = [heard EXCEPT ![h] = Append(@, call[h].entry.id)]
      /\ UNCHANGED <<bound, index, children, source, stored, joined, overlap>>
  BY DEF Answer, registry
<1>2. Idle.at = "idle" /\ "at" \in DOMAIN Idle
  BY DEF Idle
<1> SUFFICES ASSUME ~overlap
             PROVE  (LastCarried /\ PollsAfter /\ \A g \in Handles : Owner(g) => View(g))'
  BY <1>1 DEF ViewInv
<1>3. Handles' = Handles /\ call'[h] = Idle /\ \A g \in Handles \ {h} : call'[g] = call[g]
  BY <1>1, Places
<1>4. Carries(h) /\ ~At(h, "purging")
  BY <1>1 DEF Carries, At
<1>5. \A g \in Handles : g # h => ~Carries(g) /\ ~At(g, "polling") /\ ~At(g, "adjusting")
  BY <1>1, PollsAlone DEF Polling, At
<1>6. \A g \in Handles : ~Carries(g)' /\ ~At(g, "polling")' /\ ~At(g, "adjusting")'
  BY <1>2, <1>3, <1>5 DEF Carries, At
<1>7. LastCarried' /\ PollsAfter'
  BY <1>3, <1>6 DEF LastCarried, PollsAfter
<1>8. \A g \in Handles : Owner(g)' => Owner(g)
  <2>1. GoesOnFrom(h, Aside \cup {"purging", "emitted", "distributing"}, Idle)
    BY <1>1, <1>2 DEF GoesOnFrom, At
  <2> QED  BY <1>2, <2>1, OwnersKept DEF Aside
<1>9. /\ heard'[h] = Append(heard[h], Len(source.log))
      /\ \A g \in Handles \ {h} : heard'[g] = heard[g]
      /\ call[h].entry.id = Len(source.log) /\ joined[h] < Len(source.log)
  BY <1>1, <1>4 DEF StoreInv, ViewInv, LastCarried
<1>10. ASSUME NEW g \in Handles, Owner(g)' PROVE View(g)'
  <2>1. Owner(g) /\ View(g)
    BY <1>8, <1>10 DEF ViewInv
  <2>2. Doomed(g) \subseteq Doomed(g)'
    BY <1>1, <1>3, <1>4, DoomedKept
  <2>3. CASE g = h
    <3> DEFINE m == Len(source.log)
    <3>1. OnWay(g) \ {m} \subseteq OnWay(g)'
      BY <1>5, <1>9, <2>3 DEF OnWay, OnItsWayTo, Carries
    <3>2. /\ Written(source.log) /\ m \in Nat /\ joined[g] \in Nat /\ Sequence(heard[g])
          /\ StoredFrom(source.log, stored[g])
      BY ViewFacts
    <3>3. m \in (joined[g] + 1)..m
      BY <1>9, <2>3, <3>2
    <3>4. Knows(source.log, joined[g], heard[g], stored[g], OnWay(g), Doomed(g))
      BY <2>1 DEF View
    <3>5. \A e \in stored[g] : ~IsRollback(e)
      BY <1>4, <2>3 DEF ViewInv, PollsAfter
    <3>6. IsRollback(source.log[m]) => \A i \in DOMAIN heard[g] :
            IsEvent(source.log[heard[g][i]]) => heard[g][i] < m
      <4> SUFFICES ASSUME IsRollback(source.log[m]), NEW i \in DOMAIN heard[g],
                          IsEvent(source.log[heard[g][i]])
                   PROVE  heard[g][i] < m
        OBVIOUS
      <4>1. heard[g][i] \in (joined[g] + 1)..m
        BY <3>4 DEF Knows
      <4>2. heard[g][i] # m
        BY DEF IsRollback, IsEvent
      <4> QED  BY <3>2, <4>1, <4>2
    <3>7. \A k \in (m + 1)..m : ~TakesBack(source.log[k], source.log[m])
      BY <3>2
    <3>8. stored[g] \subseteq stored[g] \cup {source.log[m]}
      OBVIOUS
    <3> HIDE DEF m
    <3>9. Knows(source.log, joined[g], Append(heard[g], m), stored[g], OnWay(g)', Doomed(g)')
      BY <2>2, <3>1, <3>2, <3>3, <3>4, <3>5, <3>6, <3>7, <3>8, KnowsTold DEF m
    <3>10. /\ heard'[g] = Append(heard[g], m) /\ stored'[g] = stored[g]
           /\ joined'[g] = joined[g] /\ source'.log = source.log
      BY <1>1, <1>9, <2>3 DEF m
    <3> QED  BY <3>9, <3>10 DEF View, Knows
  <2>4. CASE g # h
    <3>1. OnWay(g) \subseteq OnWay(g)'
      <4>1. ASSUME NEW k, OnItsWayTo(g, k) PROVE OnItsWayTo(g, k)'
        BY <1>1, <1>3, <2>4, <4>1 DEF OnItsWayTo, At
      <4> QED  BY <1>1, <4>1, OnWayKept
    <3> QED  BY <1>1, <1>9, <2>1, <2>2, <2>4, <3>1, ViewStays
  <2> QED  BY <2>3, <2>4
<1> QED  BY <1>3, <1>7, <1>10

\* The caller is told what is stored, rollbacks first.
LEMMA ViewPopStored ==
  ASSUME IndexInv, StoreInv, SleepInv, PlaceInv, ViewInv, NEW h \in Handles, PopStored(h)
  PROVE  ViewInv'
<1> DEFINE e == First(stored[h])
<1>1. /\ At(h, "popping") /\ GoesTo(h, Idle) /\ stored[h] # {}
      /\ stored' = [stored EXCEPT ![h] = @ \ {e}]
      /\ heard' = [heard EXCEPT ![h] = Append(@, e.id)]
      /\ UNCHANGED <<bound, index, children, source, joined, overlap>>
  BY DEF PopStored, registry
<1>2. Idle.at = "idle" /\ "at" \in DOMAIN Idle
  BY DEF Idle
<1>3. e \in stored[h] /\ (~IsRollback(e) => \A d \in stored[h] : ~IsRollback(d))
  <2>1. \A d \in stored[h] : d.time \in Nat
    BY TimesAreNumbers
  <2>2. \A d, f \in stored[h] : Equal(d, f) => d = f
    BY DEF PlaceInv
  <2> QED  BY <1>1, <2>1, <2>2, FirstOf
<1> HIDE DEF e
<1> SUFFICES ASSUME ~overlap
             PROVE  (LastCarried /\ PollsAfter /\ \A g \in Handles : Owner(g) => View(g))'
  BY <1>1 DEF ViewInv
<1>4. Handles' = Handles /\ call'[h] = Idle /\ \A g \in Handles \ {h} : call'[g] = call[g]
  BY <1>1, Places
<1>5. \A g \in Handles : ~Carries(g) /\ ~At(g, "purging") /\ ~At(g, "polling") /\ ~At(g, "adjusting")
  BY <1>1, PollsAlone DEF Polling, Carries, At
<1>6. \A g \in Handles : ~Carries(g)' /\ ~At(g, "polling")' /\ ~At(g, "adjusting")'
  BY <1>2, <1>4, <1>5 DEF Carries, At
<1>7. LastCarried' /\ PollsAfter'
  BY <1>4, <1>6 DEF LastCarried, PollsAfter
<1>8. \A g \in Handles : Owner(g)' => Owner(g)
  <2>1. GoesOnFrom(h, Aside \cup {"purging", "emitted", "distributing"}, Idle)
    BY <1>1, <1>2 DEF GoesOnFrom, At, Aside
  <2> QED  BY <1>2, <2>1, OwnersKept DEF Aside
<1>9. /\ heard'[h] = Append(heard[h], e.id) /\ stored'[h] = stored[h] \ {e}
      /\ \A g \in Handles \ {h} : heard'[g] = heard[g] /\ stored'[g] = stored[g]
  BY <1>1 DEF StoreInv
<1>10. ASSUME NEW g \in Handles, Owner(g)' PROVE View(g)'
  <2>1. Owner(g) /\ View(g)
    BY <1>8, <1>10 DEF ViewInv
  <2>2. Doomed(g) \subseteq Doomed(g)'
    BY <1>1, <1>4, <1>5, DoomedKept
  <2>3. OnWay(g) \subseteq OnWay(g)'
    BY <1>1, <1>4, <1>5, OnItsWayKept, OnWayKept
  <2>4. CASE g = h
    <3>1. /\ Written(source.log) /\ joined[g] \in Nat /\ Sequence(heard[g])
          /\ StoredFrom(source.log, stored[g]) /\ Len(source.log) \in Nat
      BY ViewFacts
    <3>2. Knows(source.log, joined[g], heard[g], stored[g], OnWay(g), Doomed(g))
      BY <2>1 DEF View
    <3>3. e \in stored[g] /\ source.log[e.id] = e /\ e.id \in 1..Len(source.log)
      BY <1>3, <2>4, <3>1 DEF StoredFrom
    <3>4. e.id \in (joined[g] + 1)..Len(source.log)
      <4>1. e.id > joined[g]
        BY <3>2, <3>3 DEF Knows
      <4> QED  BY <3>1, <3>3, <4>1
    <3>5. \A d \in stored[g] : IsRollback(d) => IsRollback(source.log[e.id])
      BY <1>3, <2>4, <3>3
    <3>6. IsRollback(source.log[e.id]) => \A i \in DOMAIN heard[g] :
            IsEvent(source.log[heard[g][i]]) => heard[g][i] < e.id
      BY <3>2, <3>3 DEF Knows
    <3>7. IsEvent(source.log[e.id]) =>
            \A k \in (e.id + 1)..Len(source.log) : ~TakesBack(source.log[k], source.log[e.id])
      <4>1. Doomed(g) = {}
        BY <1>5 DEF Doomed
      <4> QED  BY <3>2, <3>3, <4>1 DEF Knows, IsEvent, IsRollback
    <3>8. /\ stored'[g] \subseteq stored[g] /\ stored[g] \subseteq stored'[g] \cup {source.log[e.id]}
          /\ OnWay(g) \ {e.id} \subseteq OnWay(g)'
      BY <1>9, <2>3, <2>4, <3>3
    <3>9. Knows(source.log, joined[g], Append(heard[g], e.id), stored'[g], OnWay(g)', Doomed(g)')
      BY <2>2, <3>1, <3>2, <3>4, <3>5, <3>6, <3>7, <3>8, KnowsTold
    <3>10. /\ source'.log = source.log /\ joined'[g] = joined[g]
           /\ heard'[g] = Append(heard[g], e.id)
      BY <1>1, <1>9, <2>4
    <3> QED  BY <3>9, <3>10 DEF View, Knows
  <2>5. CASE g # h
    BY <1>1, <1>9, <2>1, <2>2, <2>3, <2>5, ViewStays
  <2> QED  BY <2>4, <2>5
<1> QED  BY <1>4, <1>7, <1>10

-----------------------------------------------------------------------------
LEMMA PlaceInit == Init => PlaceInv
<1> SUFFICES ASSUME Init PROVE PlaceInv
  OBVIOUS
<1>1. /\ children = [i \in {0} |-> 0] /\ index = [h \in Handles |-> 0] /\ 0 \in Handles
      /\ stored = [h \in Handles |-> {}] /\ heard = [h \in Handles |-> <<>>]
      /\ joined = [h \in Handles |-> 0] /\ Len(source.log) = 0
      /\ call = [h \in Handles |-> [at |-> IF h = 0 THEN "idle" ELSE "unborn"]]
  BY DuplicateAssumption DEF Init, Handles
<1>2. \A h \in Handles : call[h].at \in {"idle", "unborn"}
  BY <1>1
<1>3. call[0].at = "idle"
  BY <1>1
<1> QED  BY <1>1, <1>2, <1>3 DEF PlaceInv, At

LEMMA ViewInit == Init => ViewInv
<1> SUFFICES ASSUME Init PROVE ViewInv
  OBVIOUS
<1>1. /\ stored = [h \in Handles |-> {}] /\ heard = [h \in Handles |-> <<>>]
      /\ \A h \in Handles : call[h].at \in {"idle", "unborn"}
      /\ \A h \in Handles : (joined[h] + 1)..Len(source.log) = {}
  BY DEF Init
<1>2. LastCarried /\ PollsAfter
  BY <1>1 DEF LastCarried, PollsAfter, Carries, At
<1>3. \A h \in Handles : View(h)
  BY <1>1 DEF View, Knows
<1> QED  BY <1>2, <1>3 DEF ViewInv

LEMMA ViewNext ==
  DuplicateInv /\ SleepInv /\ PlaceInv /\ ViewInv /\ [Next]_vars => ViewInv'
<1> SUFFICES ASSUME DuplicateInv, SleepInv, PlaceInv, ViewInv, [Next]_vars PROVE ViewInv'
  OBVIOUS
<1>0. IndexInv /\ ChildInv /\ StoreInv /\ CarryInv
  BY DEF DuplicateInv, EntryInv
<1>1. StoreInv'
  BY DuplicateNext DEF DuplicateInv, EntryInv
<1>2. CASE UNCHANGED vars
  BY <1>2, ViewAlone DEF vars, registry, history
<1>3. CASE SourceWakes
  BY <1>0, <1>3, ViewAlone DEF SourceWakes, registry, history, StoreInv
<1>4. CASE Rests
  BY <1>2, <1>4 DEF Rests
<1>5. ASSUME NEW h \in Handles, Steps(h) PROVE ViewInv'
  <2>0. ASSUME NEW r, Quiet(h, r), overlap => overlap',
               ~overlap /\ r.at \in {"polling", "adjusting"} => \A e \in stored[h] : ~IsRollback(e)
        PROVE  ViewInv'
    <3>1. GoesOnFrom(h, Aside, r) /\ r.at \in Aside \cup {"gone", "cloning"}
          /\ UNCHANGED <<stored, heard>> /\ source'.log = source.log
      BY <2>0 DEF Quiet
    <3> QED  BY <1>0, <2>0, <3>1, ViewGoesOn
  <2>1. CASE \/ \E time \in 1..bound.polls : Register(h, time)
             \/ \E time \in 1..bound.advances : Advance(h, time)
             \/ FindStored(h) \/ PopStoredPanics(h) \/ SourceIsPending(h) \/ SourceHasState(h)
             \/ SourceFails(h) \/ Adjust(h) \/ AdvancePanics(h) \/ AdvanceSource(h) \/ Drop(h)
    <3>1. PICK r : Quiet(h, r)
      BY <1>0, <2>1, QuietSteps
    <3>2. call'[h] = r
      BY <1>0, <3>1, Places DEF Quiet, GoesOnFrom
    <3>3. overlap => overlap'
      BY <2>1 DEF Register, Advance, FindStored, PopStoredPanics, SourceIsPending, SourceHasState,
         SourceFails, Adjust, AdvancePanics, AdvanceSource, Drop, PollsSource, history
    <3>4. CASE FindStored(h)
      <4>1. r.at = "polling" => ~ToEmitStored(h)
        BY <1>0, <3>2, <3>4 DEF FindStored, GoesTo, IndexInv, CallInv
      <4>2. ~ToEmitStored(h) => \A e \in stored[h] : ~IsRollback(e)
        <5>1. \A e \in stored[h] : e.time \in Nat
          BY <1>0, TimesAreNumbers
        <5>2. \A e, f \in stored[h] : Equal(e, f) => e = f
          BY DEF PlaceInv
        <5>3. stored[h] # {} => (~IsRollback(First(stored[h])) => \A e \in stored[h] : ~IsRollback(e))
          BY <5>1, <5>2, FirstOf
        <5> QED  BY <5>3 DEF ToEmitStored, IsRollback
      <4>3. r.at # "adjusting"
        BY <1>0, <3>2, <3>4 DEF FindStored, GoesTo, IndexInv, CallInv
      <4> QED  BY <2>0, <3>1, <3>3, <4>1, <4>2, <4>3
    <3>5. CASE SourceHasState(h)
      <4>1. At(h, "polling")
        BY <3>5 DEF SourceHasState, PollsSource
      <4> QED  BY <2>0, <3>1, <3>3, <4>1 DEF ViewInv, PollsAfter
    <3>6. CASE ~FindStored(h) /\ ~SourceHasState(h)
      <4>1. call'[h].at \notin {"polling", "adjusting"}
        <5>1. call' = [call EXCEPT ![h] = call'[h]] /\ call = [g \in Handles |-> call[g]]
          BY <1>0, <3>1, <3>2 DEF Quiet, GoesOnFrom, GoesTo, IndexInv, CallInv
        <5>2. \A c : GoesTo(h, c) => call'[h] = c
          BY <5>1 DEF GoesTo
        <5>3. CASE \E time \in 1..bound.polls : Register(h, time)
          BY <5>2, <5>3 DEF Register
        <5>4. CASE \E time \in 1..bound.advances : Advance(h, time)
          BY <5>2, <5>4 DEF Advance, Gone, Idle
        <5>5. CASE PopStoredPanics(h) \/ SourceIsPending(h) \/ SourceFails(h) \/ Adjust(h) \/ AdvancePanics(h)
                   \/ AdvanceSource(h) \/ Drop(h)
          BY <5>2, <5>5 DEF PopStoredPanics, SourceIsPending, SourceFails, Adjust, AdvancePanics,
             AdvanceSource, Drop, Gone, Idle
        <5> QED  BY <2>1, <3>6, <5>3, <5>4, <5>5
      <4> QED  BY <2>0, <3>1, <3>2, <3>3, <4>1
    <3> QED  BY <3>4, <3>5, <3>6
  <2>2. CASE GetNextIndex(h)
    <3> DEFINE r == [at |-> "cloning", index |-> Max(DOMAIN children) + 1]
    <3>1. /\ GoesOnFrom(h, Aside, r) /\ UNCHANGED <<stored, heard, source, overlap>>
      BY <2>2 DEF GetNextIndex, registry, history, Calls, GoesOnFrom, Aside, At
    <3>2. r.at = "cloning"
      OBVIOUS
    <3> HIDE DEF r
    <3> QED  BY <1>0, <3>1, <3>2, ViewGoesOn
  <2>3. CASE SourceEmits(h)
    BY <1>0, <1>1, <2>3, ViewSourceEmits
  <2>4. CASE PopStored(h)
    BY <1>0, <2>4, ViewPopStored
  <2>5. CASE Purge(h)
    BY <1>0, <2>5, ViewPurge
  <2>6. CASE Distribute(h)
    BY <1>0, <2>6, ViewDistribute
  <2>7. CASE HandOut(h)
    BY <1>0, <2>7, ViewHandOut
  <2>8. CASE Answer(h)
    BY <1>0, <2>8, ViewAnswer
  <2>9. CASE InsertChild(h)
    BY <1>0, <2>9, ViewInsertChild
  <2>10. CASE RegisterAdvanced(h)
    BY <1>0, <2>10, ViewRegisterAdvanced
  <2> QED
    BY <1>5, <2>1, <2>2, <2>3, <2>4, <2>5, <2>6, <2>7, <2>8, <2>9, <2>10 DEF Steps
<1> QED
  BY <1>2, <1>3, <1>4, <1>5 DEF Next

-----------------------------------------------------------------------------
\* The events that stand for the source since n are those that nothing takes back.
LEMMA StandsSince ==
  ASSUME StoreInv, NEW n \in Nat, NEW id
  PROVE  id \in Standing(SaidSince(n)) <=>
           /\ id \in (n + 1)..Len(source.log) /\ IsEvent(source.log[id])
           /\ \A k \in (id + 1)..Len(source.log) : ~TakesBack(source.log[k], source.log[id])
<1> DEFINE log == source.log
           m == Len(log) - n
           s == SaidSince(n)
<1>1. /\ Len(log) \in Nat /\ \A i \in 1..Len(log) : log[i].time \in Nat
  BY TimesAreNumbers
<1>2. CASE m \in Nat
  <2>1. /\ DOMAIN s = 1..m /\ Len(s) = m /\ \A i \in 1..m : s[i] = n + i
        /\ \A i \in 1..m : s[i] \in (n + 1)..Len(log)
    <3>1. s = [i \in 1..m |-> n + i]
      BY DEF SaidSince
    <3>2. s \in Seq(Nat)
      BY <1>2, <3>1
    <3> HIDE DEF s
    <3> QED  BY <1>1, <1>2, <3>1
  <2> DEFINE Stands(j) == /\ log[s[j]].kind = "event"
                          /\ \A k \in (j + 1)..Len(s) : IsRollback(log[s[k]]) => log[s[k]].time > log[s[j]].time
  <2>2. ASSUME NEW j \in 1..m
        PROVE  Stands(j) <=> /\ IsEvent(log[s[j]])
                             /\ \A k \in (s[j] + 1)..Len(log) : ~TakesBack(log[k], log[s[j]])
    <3>1. s[j] = n + j /\ log[s[j]].time \in Nat
      BY <1>1, <2>1
    <3>2. ASSUME Stands(j), NEW k \in (s[j] + 1)..Len(log) PROVE ~TakesBack(log[k], log[s[j]])
      <4>1. k - n \in (j + 1)..m /\ k - n \in 1..m
        BY <1>1, <1>2, <3>1
      <4>2. s[k - n] = k /\ k \in 1..Len(log)
        BY <1>1, <2>1, <3>1, <4>1
      <4>3. log[k].time \in Nat /\ (IsRollback(log[k]) => log[k].time > log[s[j]].time)
        BY <1>1, <2>1, <3>2, <4>1, <4>2
      <4> QED  BY <3>1, <4>3 DEF TakesBack
    <3>3. ASSUME \A k \in (s[j] + 1)..Len(log) : ~TakesBack(log[k], log[s[j]]),
                 NEW k \in (j + 1)..Len(s), IsRollback(log[s[k]])
          PROVE  log[s[k]].time > log[s[j]].time
      <4>1. k \in 1..m /\ s[k] = n + k /\ s[k] \in (s[j] + 1)..Len(log) /\ s[k] \in 1..Len(log)
        BY <1>1, <1>2, <2>1, <3>1
      <4>2. ~TakesBack(log[s[k]], log[s[j]]) /\ log[s[k]].time \in Nat
        BY <1>1, <3>3, <4>1
      <4>3. ~(log[s[k]].time <= log[s[j]].time)
        BY <3>3, <4>2 DEF TakesBack
      <4> HIDE DEF s, log
      <4> QED  BY <3>1, <4>2, <4>3
    <3> QED  BY <3>2, <3>3 DEF IsEvent
  <2>3. id \in Standing(s) <=> \E j \in 1..m : s[j] = id /\ Stands(j)
    <3>1. Standing(s) = {s[j] : j \in {j \in 1..m : Stands(j)}}
      BY <2>1 DEF Standing
    <3> HIDE DEF Stands, s
    <3> QED  BY <3>1
  <2>4. id \in (n + 1)..Len(log) => \E j \in 1..m : s[j] = id
    <3> SUFFICES ASSUME id \in (n + 1)..Len(log) PROVE id - n \in 1..m /\ s[id - n] = id
      OBVIOUS
    <3>1. id - n \in 1..m
      BY <1>1, <1>2
    <3> QED  BY <1>1, <2>1, <3>1
  <2> HIDE DEF Stands, s, m
  <2> QED  BY <2>1, <2>2, <2>3, <2>4 DEF s
<1>3. CASE m \notin Nat
  <2>1. 1..m = {} /\ (n + 1)..Len(log) = {}
    BY <1>1, <1>3
  <2>2. DOMAIN s = {}
    BY <2>1 DEF SaidSince
  <2> QED  BY <2>1, <2>2 DEF Standing
<1> QED  BY <1>2, <1>3

\* As long as no polls overlap, what a caller takes for an event that stands does stand for the source,
\* and it misses none but those said when another entry to their time stood (original.rs,
\* duplicate_inner.rs, rollback_event.rs): a rollback reaches every store before anything after it
\* does, removes what it takes back, and is told before what is stored.
THEOREM ViewsAlwaysAgree == Spec => []ViewsAgree
<1>1. DuplicateInv /\ ViewInv => ViewsAgree
  <2> SUFFICES ASSUME DuplicateInv, ViewInv, ~overlap, Resting, NEW h \in Handles, Listens(h)
               PROVE  /\ EventsFor(h) \subseteq EventsOfSource(h)
                      /\ \A id \in EventsOfSource(h) \ EventsFor(h) : \E i \in (joined[h] + 1)..(id - 1) :
                           /\ ~IsRollback(source.log[i]) /\ source.log[i].time = source.log[id].time
                           /\ ~TakenBack(i)
    BY DEF ViewsAgree
  <2> DEFINE log       == source.log
             s         == heard[h]
             n         == joined[h]
             rollbacks == {e \in stored[h] : IsRollback(e)}
             standing  == {id \in Standing(s) : \A e \in rollbacks : e.time > log[id].time}
             events    == {e.id : e \in {f \in stored[h] : f.kind = "event"}}
             Stands(id) == /\ id \in (n + 1)..Len(log) /\ IsEvent(log[id])
                           /\ \A k \in (id + 1)..Len(log) : ~TakesBack(log[k], log[id])
  <2>0. StoreInv
    BY DEF DuplicateInv, EntryInv
  <2>1. /\ Written(log) /\ n \in Nat /\ Sequence(s) /\ StoredFrom(log, stored[h]) /\ Len(log) \in Nat
    BY <2>0, ViewFacts
  <2>2. /\ \A g \in Handles : ~Carries(g) /\ ~At(g, "purging")
        /\ OnWay(h) = {} /\ Doomed(h) = {} /\ \A k : ~OnItsWayTo(h, k)
    BY DEF Resting, OnWay, Doomed, OnItsWayTo, Carries, At
  <2>3. Owner(h)
    BY DEF Listens, Owner, Alive, At
  <2>4. Knows(log, n, s, stored[h], {}, {})
    BY <2>2, <2>3 DEF ViewInv, View
  <2>5. \A id : id \in Standing(SaidSince(n)) <=> Stands(id)
    BY <2>0, <2>1, StandsSince
  <2>6. \A id : id \in Standing(s) <=>
          \E j \in DOMAIN s : /\ s[j] = id /\ IsEvent(log[s[j]])
                              /\ \A k \in (j + 1)..Len(s) :
                                   IsRollback(log[s[k]]) => log[s[k]].time > log[s[j]].time
    BY DEF Standing, IsEvent
  <2>7. DOMAIN s = 1..Len(s) /\ Len(s) \in Nat
    BY <2>1 DEF Sequence
  <2>8. \A j \in DOMAIN s : s[j] \in (n + 1)..Len(log) /\ s[j] \in 1..Len(log) /\ log[s[j]].time \in Nat
    BY <2>1, <2>4 DEF Knows, Written
  <2>9. ASSUME NEW id \in standing PROVE Stands(id)
    <3>1. PICK j \in DOMAIN s : /\ s[j] = id /\ IsEvent(log[s[j]])
                                /\ \A k \in (j + 1)..Len(s) :
                                     IsRollback(log[s[k]]) => log[s[k]].time > log[s[j]].time
      BY <2>6
    <3>2. ASSUME NEW k \in (s[j] + 1)..Len(log), TakesBack(log[k], log[s[j]]) PROVE FALSE
      <4>1. \/ \E e \in stored[h] : TakesBack(e, log[s[j]])
            \/ \E i \in DOMAIN s : j < i /\ TakesBack(log[s[i]], log[s[j]])
        BY <2>4, <3>1, <3>2 DEF Knows
      <4>2. CASE \E e \in stored[h] : TakesBack(e, log[s[j]])
        <5>1. PICK e \in stored[h] : TakesBack(e, log[s[j]])
          BY <4>2
        <5>2. e.time \in Nat /\ e.time > log[s[j]].time
          BY <2>1, <3>1, <5>1 DEF TakesBack, StoredFrom, Written
        <5> QED  BY <2>8, <5>1, <5>2 DEF TakesBack
      <4>3. CASE \E i \in DOMAIN s : j < i /\ TakesBack(log[s[i]], log[s[j]])
        <5>1. PICK i \in DOMAIN s : j < i /\ TakesBack(log[s[i]], log[s[j]])
          BY <4>3
        <5>2. i \in (j + 1)..Len(s)
          BY <2>7, <5>1
        <5>3. log[s[i]].time > log[s[j]].time
          BY <3>1, <5>1, <5>2 DEF TakesBack
        <5> QED  BY <2>8, <5>1, <5>3 DEF TakesBack
      <4> QED  BY <4>1, <4>2, <4>3
    <3> QED  BY <2>8, <3>1, <3>2
  <2>10. ASSUME NEW id \in events PROVE Stands(id)
    <3>1. PICK e \in stored[h] : IsEvent(e) /\ e.id = id
      BY DEF IsEvent
    <3>2. id \in 1..Len(log) /\ log[id] = e /\ id > n
      BY <2>1, <2>4, <3>1 DEF StoredFrom, Knows
    <3>3. id \in (n + 1)..Len(log)
      BY <2>1, <3>2
    <3>4. \A k \in (id + 1)..Len(log) : ~TakesBack(log[k], log[id])
      BY <2>4, <3>1, <3>2 DEF Knows, IsEvent, IsRollback
    <3> QED  BY <3>1, <3>2, <3>3, <3>4
  <2>11. ASSUME NEW id, Stands(id), id \notin standing \cup events PROVE InTheWay(log, n, id)
    <3>1. Says(s, id) \/ log[id] \in stored[h] \/ InTheWay(log, n, id)
      BY <2>4, <2>11 DEF Knows, Stays
    <3>2. /\ id \in 1..Len(log) /\ log[id].time \in Nat /\ ~IsRollback(log[id])
          /\ log[id].id = id /\ id \in DOMAIN log
      BY <2>1, <2>11 DEF Written, IsEvent, IsRollback
    <3>3. CASE Says(s, id)
      <4>1. PICK j \in DOMAIN s : s[j] = id
        BY <3>3 DEF Says
      <4>2. ASSUME NEW e, IsRollback(e), e.id \in (id + 1)..Len(log), log[e.id] = e
            PROVE  e.time > log[id].time
        <5>1. e.time \in Nat
          BY <2>1, <3>2, <4>2 DEF Written
        <5>2. ~TakesBack(e, log[id])
          BY <2>11, <4>2
        <5>3. ~(e.time <= log[id].time)
          BY <4>2, <5>2 DEF TakesBack
        <5> HIDE DEF log
        <5> QED  BY <3>2, <5>1, <5>3
      <4>3. ASSUME NEW k \in (j + 1)..Len(s), IsRollback(log[s[k]])
            PROVE  log[s[k]].time > log[s[j]].time
        <5>1. k \in DOMAIN s /\ j < k
          BY <2>7
        <5>2. s[j] < s[k]
          BY <2>4, <2>11, <4>1, <4>3, <5>1 DEF Knows
        <5>3. s[k] \in (id + 1)..Len(log) /\ log[s[k]].id = s[k]
          BY <2>1, <2>8, <3>2, <4>1, <5>1, <5>2 DEF Written
        <5>4. ~TakesBack(log[s[k]], log[id]) /\ log[s[k]].time \in Nat
          BY <2>8, <2>11, <5>1, <5>3
        <5> QED  BY <3>2, <4>1, <4>3, <5>4 DEF TakesBack
      <4>4. ASSUME NEW e \in rollbacks PROVE e.time > log[id].time
        <5>1. s[j] < e.id /\ e.id \in 1..Len(log) /\ log[e.id] = e
          BY <2>1, <2>4, <2>11, <4>1 DEF Knows, StoredFrom
        <5>2. e.id \in (id + 1)..Len(log)
          BY <2>1, <3>2, <4>1, <5>1
        <5> QED  BY <4>2, <5>1, <5>2
      <4> QED  BY <2>6, <2>11, <4>1, <4>3, <4>4
    <3>4. CASE log[id] \in stored[h]
      BY <2>11, <3>2, <3>4 DEF IsEvent
    <3> QED  BY <3>1, <3>3, <3>4
  <2> HIDE DEF standing, events, Stands
  <2>12. EventsFor(h) = standing \cup events
    BY DEF EventsFor, standing, events
  <2>13. ASSUME NEW id, InTheWay(log, n, id)
         PROVE  \E i \in (n + 1)..(id - 1) :
                  ~IsRollback(log[i]) /\ log[i].time = log[id].time /\ ~TakenBack(i)
    BY <2>13 DEF InTheWay, Stays, TakenBack, TakesBack
  <2> QED  BY <2>5, <2>9, <2>10, <2>11, <2>12, <2>13 DEF EventsOfSource
<1>2. Init => DuplicateInv /\ SleepInv /\ PlaceInv /\ ViewInv
  BY IndexInit, ChildInit, EntryInit, SleepInit, PlaceInit, ViewInit DEF DuplicateInv
<1>3. DuplicateInv /\ SleepInv /\ PlaceInv /\ ViewInv /\ [Next]_vars
        => (DuplicateInv /\ SleepInv /\ PlaceInv /\ ViewInv)'
  BY DuplicateNext, SleepNext, PlaceNext, ViewNext
<1>4. Spec => [](DuplicateInv /\ SleepInv /\ PlaceInv /\ ViewInv)
  BY <1>2, <1>3, PTL DEF Spec
<1> QED  BY <1>1, <1>4, PTL
-----------------------------------------------------------------------------
(* The channels of a caller *)

IsSqrt(s, a) == s * s <= a /\ a < (s + 1) * (s + 1)

\* Every number has a root, rounded down.
LEMMA SqrtExists ==
  ASSUME NEW a \in Nat
  PROVE  \E s \in Nat : IsSqrt(s, a)
<1> DEFINE S == {x \in Nat : a < (x + 1) * (x + 1)}
           s == Min(S)
<1>1. a \in S
  <2>1. a * a >= 0 /\ (a + 1) * (a + 1) = a * a + a + a + 1
    OBVIOUS
  <2> QED  BY <2>1
<1>2. s \in S /\ \A t \in S : s <= t
  <2> HIDE DEF S
  <2>1. S \in SUBSET Nat /\ S # {}
    BY <1>1 DEF S
  <2> QED  BY <2>1, LeastOf
<1> HIDE DEF s
<1>3. s * s <= a
  <2>1. CASE s = 0
    BY <2>1
  <2>2. CASE s # 0
    <3>1. s - 1 \in Nat /\ s - 1 \notin S
      BY <1>2, <2>2
    <3>2. ~(a < ((s - 1) + 1) * ((s - 1) + 1))
      BY <3>1
    <3>3. s \in Nat /\ (s - 1) + 1 = s
      BY <1>2
    <3> QED  BY <3>2, <3>3
  <2> QED  BY <2>1, <2>2
<1> QED  BY <1>2, <1>3 DEF IsSqrt

\* A step of the iteration never gets below the root, and goes down as long as it is above it.
LEMMA NewtonStep ==
  ASSUME NEW a \in Nat, NEW s \in Nat, IsSqrt(s, a), NEW x \in Nat, x # 0
  PROVE  LET y == (x + a \div x) \div 2
         IN  y \in Nat /\ s <= y /\ (y < x <=> s < x)
<1> DEFINE q == a \div x
           y == (x + q) \div 2
<1>1. q \in Nat /\ q * x <= a /\ a < (q + 1) * x
  OBVIOUS
<1> HIDE DEF q
<1>2. y \in Nat /\ 2 * y <= x + q /\ x + q <= 2 * y + 1
  BY <1>1
<1> HIDE DEF y
<1>3. \A z \in Nat : 4 * (x * z) <= (x + z) * (x + z)
  <2> SUFFICES ASSUME NEW z \in Nat PROVE 4 * (x * z) <= (x + z) * (x + z)
    OBVIOUS
  <2>1. (x - z) * (x - z) >= 0
    OBVIOUS
  <2> QED  BY <2>1
<1>4. s <= y
  <2> SUFFICES ASSUME y < s PROVE FALSE
    BY <1>2
  <2>1. x + (q + 1) <= 2 * s /\ x + (q + 1) \in Nat
    BY <1>1, <1>2
  <2>2. (x + (q + 1)) * (x + (q + 1)) <= (2 * s) * (2 * s)
    BY <2>1
  <2>3. 4 * (x * (q + 1)) <= 4 * (s * s)
    BY <1>1, <1>3, <2>2
  <2>4. x * (q + 1) = (q + 1) * x
    BY <1>1
  <2> QED  BY <1>1, <2>3, <2>4 DEF IsSqrt
<1>5. ASSUME s < x PROVE y < x
  <2>1. q < x
    <3> SUFFICES ASSUME x <= q PROVE FALSE
      BY <1>1
    <3>1. x * x <= q * x
      BY <1>1
    <3>2. (s + 1) * (s + 1) <= x * x
      BY <1>5
    <3> QED  BY <1>1, <3>1, <3>2 DEF IsSqrt
  <2> QED  BY <1>1, <1>2, <2>1
<1>6. y < x <=> s < x
  BY <1>2, <1>4, <1>5
<1>7. y \in Nat /\ s <= y /\ (y < x <=> s < x)
  BY <1>2, <1>4, <1>6
<1> QED  BY <1>7 DEF q, y

\* From anywhere at or above the root, the iteration ends there.
LEMMA IntSqrtIsSqrt ==
  ASSUME NEW a \in Nat, NEW s \in Nat, IsSqrt(s, a)
  PROVE  IntSqrt(a) = s
<1> DEFINE From == Nat \ {0}
           step(x) == (x + a \div x) \div 2
           Descends(f) == f = [x \in From |-> IF step(x) < x THEN f[step(x)] ELSE x]
           Descend == CHOOSE f : Descends(f)
<1>1. CASE a \div 2 = 0
  <2>1. a = 0 \/ a = 1
    BY <1>1
  <2>2. s = a
    <3>1. s * s < 2 * 2
      BY <2>1 DEF IsSqrt
    <3>2. s = 0 \/ s = 1
      <4> SUFFICES ASSUME s >= 2 PROVE FALSE
        OBVIOUS
      <4>1. s * s >= 2 * 2
        OBVIOUS
      <4> QED  BY <3>1, <4>1
    <3> QED  BY <2>1, <3>2 DEF IsSqrt
  <2> QED  BY <1>1, <2>2 DEF IntSqrt
<1>2. CASE a \div 2 # 0
  <2>1. a >= 2 /\ a \div 2 \in From /\ 2 * (a \div 2) <= a /\ a <= 2 * (a \div 2) + 1
    BY <1>2
  <2>2. s # 0
    BY <2>1 DEF IsSqrt
  <2>3. s <= a \div 2
    <3>1. CASE s = 1
      BY <2>1, <3>1
    <3>2. CASE s >= 2
      <4>1. s * s >= 2 * s
        BY <3>2
      <4> QED  BY <2>1, <4>1 DEF IsSqrt
    <3> QED  BY <2>2, <3>1, <3>2
  <2>4. \A x \in From : step(x) \in Nat /\ s <= step(x) /\ (step(x) < x <=> s < x)
    BY NewtonStep
  <2> HIDE DEF step
  <2>5. \E f : Descends(f)
    <3> DEFINE f == [x \in From |-> IF s < x THEN s ELSE x]
    <3>1. ASSUME NEW x \in From
          PROVE  f[x] = IF step(x) < x THEN f[step(x)] ELSE x
      <4>1. step(x) \in From
        BY <2>2, <2>4
      <4>2. CASE s < x
        <5>1. step(x) < x /\ f[x] = s
          BY <2>4, <4>2
        <5>2. f[step(x)] = s
          <6>1. CASE s < step(x)
            BY <4>1, <6>1
          <6>2. CASE s = step(x)
            BY <4>1, <6>2
          <6> QED  BY <2>4, <6>1, <6>2
        <5> QED  BY <5>1, <5>2
      <4>3. CASE ~(s < x)
        BY <2>4, <4>3
      <4> QED  BY <4>2, <4>3
    <3>2. f = [x \in From |-> f[x]]
      OBVIOUS
    <3> HIDE DEF f, From
    <3>3. f = [x \in From |-> IF step(x) < x THEN f[step(x)] ELSE x]
      BY <3>1, <3>2
    <3> QED  BY <3>3
  <2>6. Descends(Descend)
    BY <2>5
  <2> HIDE DEF Descend
  <2>7. \A x \in From : Descend[x] = IF step(x) < x THEN Descend[step(x)] ELSE x
    <3> HIDE DEF From
    <3> QED  BY <2>6
  <2>8. \A x \in From : s <= x => Descend[x] = s
    <3> DEFINE Wrong == {x \in From : s <= x /\ Descend[x] # s}
    <3> SUFFICES ASSUME Wrong # {} PROVE FALSE
      OBVIOUS
    <3>1. Wrong \in SUBSET Nat
      OBVIOUS
    <3>2. Min(Wrong) \in Wrong /\ \A t \in Wrong : Min(Wrong) <= t
      <4> HIDE DEF Wrong
      <4> QED  BY <3>1, LeastOf
    <3>3. PICK x \in Wrong : \A t \in Wrong : x <= t
      BY <3>2
    <3>4. x \in From /\ s <= x /\ Descend[x] # s
      OBVIOUS
    <3>5. s < x
      BY <2>4, <2>7, <3>4
    <3>6. step(x) < x /\ step(x) \in From /\ s <= step(x)
      BY <2>2, <2>4, <3>4, <3>5
    <3>7. step(x) \notin Wrong
      BY <3>3, <3>6
    <3> QED  BY <2>7, <3>4, <3>6, <3>7
  <2>9. Descend[a \div 2] = s
    BY <2>1, <2>3, <2>8
  <2>10. IntSqrt(a) = Descend[a \div 2]
    BY <1>2 DEF IntSqrt, Descend, step
  <2> QED  BY <2>9, <2>10
<1> QED  BY <1>1, <1>2

\* The diagonals up to the last that is full, which the root tells up to one.
LEMMA MaxDuplicatesIsExact ==
  ASSUME NEW channels \in Nat
  PROVE  LET m == MaxDuplicates(channels)
         IN  m \in Nat /\ Diagonals(m) <= channels /\ channels < Diagonals(m + 1)
<1>1. PICK s \in Nat : IsSqrt(s, 2 * channels)
  BY SqrtExists
<1>2. IntSqrt(2 * channels) = s
  BY <1>1, IntSqrtIsSqrt
<1>3. /\ s * s <= 2 * channels /\ 2 * channels < (s + 1) * (s + 1)
      /\ Diagonals(s) \in Nat /\ 2 * Diagonals(s) = s * (s + 1)
      /\ Diagonals(s + 1) \in Nat /\ 2 * Diagonals(s + 1) = (s + 1) * ((s + 1) + 1)
  BY <1>1, DiagonalsHalvesTheProduct DEF IsSqrt
<1>4. CASE Diagonals(s) <= channels
  <2>1. MaxDuplicates(channels) = s
    BY <1>2, <1>4 DEF MaxDuplicates
  <2>2. (s + 1) * (s + 1) <= (s + 1) * ((s + 1) + 1)
    OBVIOUS
  <2>3. 2 * channels < 2 * Diagonals(s + 1)
    BY <1>3, <2>2
  <2> QED  BY <1>3, <1>4, <2>1, <2>3
<1>5. CASE ~(Diagonals(s) <= channels)
  <2>1. s # 0
    BY <1>3, <1>5
  <2>2. MaxDuplicates(channels) = s - 1 /\ s - 1 \in Nat /\ (s - 1) + 1 = s
    BY <1>2, <1>5, <2>1 DEF MaxDuplicates
  <2>3. Diagonals(s - 1) \in Nat /\ 2 * Diagonals(s - 1) = (s - 1) * ((s - 1) + 1)
    BY <2>2, DiagonalsHalvesTheProduct
  <2>4. (s - 1) * ((s - 1) + 1) <= s * s
    BY <2>2
  <2>5. 2 * Diagonals(s - 1) <= 2 * channels
    BY <1>3, <2>3, <2>4
  <2> QED  BY <1>3, <1>5, <2>2, <2>3, <2>5
<1> QED  BY <1>4, <1>5

\* Whatever number of channels a source has: max_channel, where it does not panic, is the last channel
\* of which the duplicate's caller has all up to it (channel_map.rs).
THEOREM MaxChannelIsTheLastThatFits ==
  ASSUME NEW channels \in Nat, NEW duplicate \in Nat
  PROVE  MaxChannelIsExactFor(channels, duplicate)
<1> SUFFICES ASSUME ~MaxChannelPanics(channels, duplicate)
             PROVE  /\ Fits(channels, duplicate, MaxB(channels, duplicate))
                    /\ ~Fits(channels, duplicate, MaxB(channels, duplicate) + 1)
  BY DEF MaxChannelIsExactFor
<1> DEFINE m    == MaxDuplicates(channels)
           d    == duplicate
           b    == m - d
           last == MaxB(channels, duplicate)
<1>1. m \in Nat /\ Diagonals(m) <= channels /\ channels < Diagonals(m + 1)
  BY MaxDuplicatesIsExact
<1>2. /\ Diagonals(m) \in Nat /\ 2 * Diagonals(m) = m * (m + 1)
      /\ Diagonals(m + 1) \in Nat /\ 2 * Diagonals(m + 1) = (m + 1) * ((m + 1) + 1)
  <2> HIDE DEF m
  <2>1. m \in Nat /\ m + 1 \in Nat
    BY <1>1
  <2> QED  BY <2>1, DiagonalsHalvesTheProduct
<1>3. d <= m /\ last # 0 /\ last = IF b > channels - Diagonals(m) THEN b - 1 ELSE b
  BY <1>1 DEF MaxChannelPanics, MaxB, LastB
<1> HIDE DEF m
<1>4. b \in Nat /\ d + b = m /\ last \in Nat \ {0}
  BY <1>1, <1>2, <1>3
<1>5. \A c \in Nat : /\ c <= b => Diagonals(d + c) <= Diagonals(m)
                     /\ c < b => Diagonals(d + c) + c < Diagonals(m)
  <2> SUFFICES ASSUME NEW c \in Nat
               PROVE  /\ c <= b => Diagonals(d + c) <= Diagonals(m)
                      /\ c < b => Diagonals(d + c) + c < Diagonals(m)
    OBVIOUS
  <2>1. Diagonals(d + c) \in Nat
    BY DiagonalsHalvesTheProduct
  <2>2. CASE c < b
    <3>1. d + c \in Nat /\ d + c < m
      BY <1>1, <1>4, <2>2
    <3>2. m \in Nat
      BY <1>1
    <3>3. Diagonals(d + c) + (d + c) < Diagonals(m)
      BY <3>1, <3>2, LaterDiagonal
    <3> QED  BY <1>2, <2>1, <3>3
  <2>3. CASE c = b
    BY <1>2, <1>4, <2>3
  <2> QED  BY <1>4, <2>2, <2>3
<1> HIDE DEF b, last
<1>6. CASE b > channels - Diagonals(m)
  <2>1. last = b - 1
    BY <1>3, <1>6
  <2>2. Fits(channels, d, last)
    <3> SUFFICES ASSUME NEW c \in 0..last PROVE Map(d, c) <= channels
      BY DEF Fits
    <3>1. c \in Nat /\ c < b /\ Diagonals(d + c) \in Nat
      BY <1>4, <2>1, DiagonalsHalvesTheProduct
    <3>2. Diagonals(d + c) + c < Diagonals(m)
      BY <1>5, <3>1
    <3> QED  BY <1>1, <1>2, <3>1, <3>2 DEF Map
  <2>3. Map(d, b) = Diagonals(m) + b
    BY <1>4 DEF Map
  <2>4. ~(Map(d, b) <= channels)
    BY <1>2, <1>4, <1>6, <2>3
  <2>5. b \in 0..(last + 1)
    BY <1>4, <2>1
  <2> QED  BY <2>2, <2>4, <2>5 DEF Fits, last
<1>7. CASE ~(b > channels - Diagonals(m))
  <2>1. last = b
    BY <1>3, <1>7
  <2>2. Fits(channels, d, last)
    <3> SUFFICES ASSUME NEW c \in 0..last PROVE Map(d, c) <= channels
      BY DEF Fits
    <3>1. c \in Nat /\ c <= b /\ Diagonals(d + c) \in Nat
      BY <1>4, <2>1, DiagonalsHalvesTheProduct
    <3>2. Diagonals(d + c) <= Diagonals(m)
      BY <1>5, <3>1
    <3> QED  BY <1>1, <1>2, <1>4, <1>7, <3>1, <3>2 DEF Map
  <2>3. Map(d, b + 1) = Diagonals(m + 1) + (b + 1)
    <3>1. d + (b + 1) = m + 1
      BY <1>4
    <3> QED  BY <3>1 DEF Map
  <2>4. ~(Map(d, b + 1) <= channels)
    BY <1>1, <1>2, <1>4, <2>3
  <2>5. b + 1 \in 0..(last + 1)
    BY <1>4, <2>1
  <2> QED  BY <2>2, <2>4, <2>5 DEF Fits, last
<1> QED  BY <1>6, <1>7

\* So it is for every new duplicate, at all times.
THEOREM MaxChannelAlwaysExact == Spec => []MaxChannelIsExact
<1>1. IndexInv => MaxChannelIsExact
  <2> SUFFICES ASSUME IndexInv, NEW h \in Handles,
                      NEW channels \in 1..MaxChannels, NEW duplicate \in 0..index[h]
               PROVE  MaxChannelIsExactFor(channels, duplicate)
    BY DEF MaxChannelIsExact
  <2>1. channels \in Nat /\ duplicate \in Nat
    BY DuplicateAssumption DEF IndexInv
  <2> QED  BY <2>1, MaxChannelIsTheLastThatFits
<1>2. Spec => []IndexInv
  BY IndexInit, IndexNext, PTL DEF Spec
<1> QED  BY <1>1, <1>2, PTL
=============================================================================
