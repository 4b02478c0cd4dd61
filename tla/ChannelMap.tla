------------------------------ MODULE ChannelMap ------------------------------
(***************************************************************************)
(* How duplicates of one source share its channels                         *)
(* (adapters/duplicate/channel_map.rs): the pairs of a duplicate and a     *)
(* channel are numbered along the diagonals on which their sum is          *)
(* constant, so that nobody has to know how many duplicates there will be. *)
(***************************************************************************)
EXTENDS Naturals

\* The pairs on the diagonals before the s-th; halved before it is multiplied.
Diagonals(s) ==
  IF s % 2 = 0 THEN (s \div 2) * (s + 1) ELSE s * ((s + 1) \div 2)

\* Mutant: the product is halved in the wrong factor.
MapHalvedWrong(duplicate, channel) ==
  LET s == duplicate + channel IN (s \div 2) * (s + 1) + channel

Map(duplicate, channel) == Diagonals(duplicate + channel) + channel

\* int_sqrt: Newton's iteration from above, from any x but 0, by which nothing is divided.
IntSqrt(a) ==
  LET Next(x) == (x + a \div x) \div 2
      Descend[x \in Nat \ {0}] == IF Next(x) < x THEN Descend[Next(x)] ELSE x
  IN  IF a \div 2 = 0 THEN a ELSE Descend[a \div 2]

\* The diagonals that a source with `channels` channels has room for.
MaxDuplicates(channels) ==
  LET sqrt == IntSqrt(2 * channels)
  IN  IF Diagonals(sqrt) <= channels THEN sqrt ELSE sqrt - 1

\* How far the channels go into the diagonal behind the last full one.
LastB(channels) == channels - Diagonals(MaxDuplicates(channels))

\* Mutant: the diagonal behind the last full one is taken to be full.
MaxBOptimistic(channels, duplicate) == MaxDuplicates(channels) - duplicate

\* max_channel underflows for a duplicate behind the last diagonal, and unwraps a NonZeroUsize.
MaxB(channels, duplicate) ==
  LET b == MaxDuplicates(channels) - duplicate
  IN  IF b > LastB(channels) THEN b - 1 ELSE b

MaxChannelPanics(channels, duplicate) ==
  duplicate > MaxDuplicates(channels) \/ MaxB(channels, duplicate) = 0

-----------------------------------------------------------------------------
\* max_channel, where it does not panic, is the last channel of a duplicate of which every channel up
\* to it has a place among those of the source (the channels a poll may use are 0..=max_channel).
Fits(channels, duplicate, last) == \A c \in 0..last : Map(duplicate, c) <= channels

MaxChannelIsExactFor(channels, duplicate) ==
  ~MaxChannelPanics(channels, duplicate) =>
    /\ Fits(channels, duplicate, MaxB(channels, duplicate))
    /\ ~Fits(channels, duplicate, MaxB(channels, duplicate) + 1)
=============================================================================
