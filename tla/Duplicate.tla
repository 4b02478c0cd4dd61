------------------------------ MODULE Duplicate ------------------------------
(***************************************************************************)
(* adapters/duplicate: several handles, Duplicates, share one source.  What *)
(* the source tells the handle that polls it is also stored for all the    *)
(* others, which hear it when they poll.  Handles may be used from         *)
(* different threads: a call is a sequence of steps between which the      *)
(* locks of the code are released, and a handle is busy until its call     *)
(* returns.                                                                *)
(***************************************************************************)
EXTENDS Naturals, Sequences, FiniteSets, FiniteSetsExt, ChannelMap

CONSTANTS
  LastTime,        \* bound: instants of what the source schedules
  MaxChannels,     \* bound: the channels of the source that max_channel is checked for
  Bounds           \* bound: the scenarios, how much of what happens together

\* The handles 0..handles, of which 0 is made by Duplicate::new; the threads that use them and how
\* many they drop; how much the source emits, and of what kind; the instants up to which handles are
\* polled, and those up to which they advance.
ASSUME DuplicateAssumption ==
  LastTime \in Nat /\ MaxChannels \in Nat /\ Bounds \subseteq
    [handles : Nat, threads : Nat, drops : Nat, interrupts : Nat,
     kinds : SUBSET {"event", "rollback", "finalize"}, polls : 0..LastTime, advances : Nat]

Times   == 1..LastTime
None    == 0                \* of an Option<Time>; sorts first, as None does
Never   == LastTime + 1

VARIABLES
  bound,            \* the scenario, fixed from the start
  call,             \* what each handle is doing
  stored,           \* DuplicateInner::events
  source,           \* the source: what it has emitted, promised and been told
  index,            \* DuplicateInner::index
  children,         \* Original::children
  advanced,         \* Original::advanced, with whether the lock is poisoned
  wakers,           \* Original::wakers, the EventWakers
  sleeps,           \* until when each caller relies on its waker, None when it is awake
  woken,            \* the callers woken while they are polling
  heard,            \* history: what each caller has been told
  joined,           \* history: how much the source had emitted when it was cloned
  asked,            \* history: the time each caller has advanced to
  overlap           \* history: a handle was polled or cloned during a poll of another

registry == <<bound, index, children, advanced>>
waking   == <<wakers, sleeps, woken>>
history  == <<heard, joined, asked, overlap>>
vars     == <<call, stored, source, registry, waking, history>>

Handles      == 0..bound.handles
At(h, place) == call[h].at = place
GoesTo(h, c) == call' = [call EXCEPT ![h] = c]
Idle         == [at |-> "idle"]
Gone         == [at |-> "gone"]    \* dropped; a panic unwinds the thread of a handle and drops it
Alive(h)     == call[h].at \notin {"unborn", "gone"}

\* One of the threads that are left calls an operation of h.
Calls(h) ==
  /\ At(h, "idle")
  /\ bound.threads > Cardinality({g \in Handles : call[g].at \notin {"idle", "unborn", "new", "gone"}})

\* Map::insert of the std collections.
With(f, i, v) == [j \in DOMAIN f \cup {i} |-> IF j = i THEN v ELSE f[j]]

\* The locks.  The RwLock of a handle is only held within a step.
SourceFree   == \A h \in Handles : ~At(h, "purging")
ChildrenFree == \A h \in Handles : ~At(h, "purging") /\ ~At(h, "distributing")
AdvancedFree == \A h \in Handles : ~At(h, "advancing")

Polling(h) == call[h].at \in {"registered", "popping", "polling", "adjusting",
                              "purging", "emitted", "distributing"}

Init ==
  /\ bound \in Bounds
  /\ call = [h \in Handles |-> [at |-> IF h = 0 THEN "idle" ELSE "unborn"]]
  /\ stored = [h \in Handles |-> {}]
  /\ source = [log |-> <<>>, promised |-> None, hasWaker |-> FALSE, advanced |-> None]
  /\ index = [h \in Handles |-> 0]
  /\ children = [i \in {0} |-> 0]
  /\ advanced = [counts |-> [t \in {None} |-> 1], of |-> [i \in {0} |-> None], poisoned |-> FALSE]
  /\ wakers = <<>> /\ sleeps = [h \in Handles |-> None] /\ woken = {}
  /\ heard = [h \in Handles |-> <<>>]
  /\ joined = [h \in Handles |-> 0]
  /\ asked = [h \in Handles |-> None]
  /\ overlap = FALSE

-----------------------------------------------------------------------------
(* RollbackEvent: an entry is an element of the source's log and its place there, id.  The sets    *)
(* are ordered, and equality is that of the order: a rollback before anything else, then by time.  *)

IsRollback(e) == e.kind = "rollback"
\* Mutant: rollbacks are sorted by their time like everything else.
BeforeByTime(a, b) == a.time < b.time

Before(a, b) ==
  IF IsRollback(a) # IsRollback(b) THEN IsRollback(a) ELSE a.time < b.time
Equal(a, b) == ~Before(a, b) /\ ~Before(b, a)
First(S)    == CHOOSE e \in S : \A f \in S \ {e} : Before(e, f)

\* BTreeSet::insert keeps the entry that is there.
Insert(S, e) == IF \E f \in S : Equal(e, f) THEN S ELSE S \cup {e}

\* Mutant: entries at the very time of the rollback are kept.
PurgeAfter(S, time) == {e \in S : IsRollback(e) \/ e.time <= time}

\* split_off(Search(time)) never reaches a rollback.
PurgeFrom(S, time) == {e \in S : IsRollback(e) \/ e.time < time}

\* Mutant: stored events are not looked at.
FirstEventTimeNone(S, cutoff) == Never

\* Events::first_event_time: without a cutoff, as for Ready, there is never one.
FirstEventTime(S, cutoff) ==
  LET times == {e.time : e \in {f \in S : f.kind = "event"}}
  IN  IF cutoff # Never /\ \E t \in times : t < cutoff THEN Min(times) ELSE Never

-----------------------------------------------------------------------------
(* The source that is shared.                                              *)

\* Of what s says, places in the log one after the other, the events that no rollback took back.
Standing(s) ==
  LET log == source.log
  IN  {s[i] : i \in {j \in DOMAIN s :
         /\ log[s[j]].kind = "event"
         /\ \A k \in (j + 1)..Len(s) :
              IsRollback(log[s[k]]) => log[s[k]].time > log[s[j]].time}}

SaidSince(n) == [i \in 1..(Len(source.log) - n) |-> n + i]
StandingAt   == {source.log[i].time : i \in Standing(SaidSince(0))}
FinalizedTo  == Max({None} \cup {source.log[i].time :
                       i \in {j \in DOMAIN source.log : source.log[j].kind = "finalize"}})

\* Events in the order of their times, none before the time promised; a rollback of something that
\* stands and is not final; rollbacks and finalizations only after the source has woken its waker.
MayEmit(e, poll_time) ==
  /\ Len(source.log) < bound.interrupts
  /\ \/ /\ e.kind = "event"
        /\ e.time <= poll_time
        /\ e.time >= Max(StandingAt \cup {source.promised, FinalizedTo})
     \/ /\ e.kind = "rollback" /\ source.promised = None
        /\ e.time >= FinalizedTo /\ e.time <= Max(StandingAt \cup {None})
     \/ /\ e.kind = "finalize" /\ source.promised = None
        /\ e.time > FinalizedTo /\ e.time <= poll_time

\* The source has news, and wakes the waker it was given last.  DuplicateEventWaker::wake drains
\* the map and calls the wakers of all handles under its lock.
SourceWakes ==
  /\ source.hasWaker
  /\ source' = [source EXCEPT !.promised = None, !.hasWaker = FALSE]
  /\ LET callers == {wakers[i] : i \in DOMAIN wakers}
     IN  /\ wakers' = <<>>
         /\ sleeps' = [h \in Handles |-> IF h \in callers THEN None ELSE sleeps[h]]
         /\ woken' = woken \cup {h \in callers : Polling(h)}
  /\ UNCHANGED <<call, stored, registry, history>>

-----------------------------------------------------------------------------
(* DuplicateInner::poll.                                                   *)

\* Mutant: the waker is not stored when another one is.
RegisterFirst(h, poll_time) ==
  /\ Calls(h)
  /\ poll_time >= asked[h]
  /\ GoesTo(h, [at |-> "registered", time |-> poll_time])
  /\ wakers' = IF wakers = <<>> THEN With(wakers, index[h], h) ELSE wakers
  /\ sleeps' = [sleeps EXCEPT ![h] = None]
  /\ overlap' = (overlap \/ \E g \in Handles : Polling(g))
  /\ UNCHANGED <<stored, source, registry, woken, heard, joined, asked>>

\* get_new_context: the waker is registered right away.
Register(h, poll_time) ==
  /\ Calls(h)
  /\ poll_time >= asked[h]
  /\ GoesTo(h, [at |-> "registered", time |-> poll_time])
  /\ wakers' = With(wakers, index[h], h)
  /\ sleeps' = [sleeps EXCEPT ![h] = None]
  /\ overlap' = (overlap \/ \E g \in Handles : Polling(g))
  /\ UNCHANGED <<stored, source, registry, woken, heard, joined, asked>>

\* poll_previously_emitted: reads under one lock, and pops under the next.
ToEmitStored(h) ==
  /\ stored[h] # {}
  /\ First(stored[h]).kind = "event" => First(stored[h]).time <= call[h].time

FindStored(h) ==
  /\ At(h, "registered")
  /\ GoesTo(h, [at |-> IF ToEmitStored(h) THEN "popping" ELSE "polling", time |-> call[h].time])
  /\ UNCHANGED <<stored, source, registry, waking, history>>

PopStored(h) ==
  /\ At(h, "popping")
  /\ stored[h] # {}
  /\ stored' = [stored EXCEPT ![h] = @ \ {First(@)}]
  /\ heard' = [heard EXCEPT ![h] = Append(@, First(stored[h]).id)]
  /\ GoesTo(h, Idle)
  /\ woken' = woken \ {h}
  /\ UNCHANGED <<source, registry, wakers, sleeps, joined, asked, overlap>>

\* A rollback came in between and took all there was: unwrap panics.
PopStoredPanics(h) ==
  /\ At(h, "popping")
  /\ stored[h] = {}
  /\ GoesTo(h, Gone)
  /\ UNCHANGED <<stored, source, registry, waking, history>>

\* What the caller does: it sleeps unless it has been woken in the meantime.
SleepsUntil(h, time) ==
  /\ sleeps' = [sleeps EXCEPT ![h] = IF h \in woken THEN None ELSE time]
  /\ woken' = woken \ {h}

\* Original::poll may reach the source while another handle has still to hand out what it got.
PollsSource(h) ==
  /\ At(h, "polling") /\ SourceFree
  /\ UNCHANGED <<stored, registry, wakers, history>>

\* The lock on the source is kept while a rollback is carried out.
SourceEmits(h) ==
  /\ PollsSource(h)
  /\ \E kind \in bound.kinds, time \in Times :
       LET e == [kind |-> kind, time |-> time, id |-> Len(source.log) + 1]
       IN  /\ MayEmit(e, call[h].time)
           /\ source' = [source EXCEPT !.log = Append(@, e), !.hasWaker = TRUE]
           /\ GoesTo(h, IF IsRollback(e)
                        THEN [at |-> "purging", entry |-> e, left |-> DOMAIN children]
                        ELSE [at |-> "emitted", entry |-> e])
  /\ UNCHANGED <<sleeps, woken>>

SourceIsPending(h) ==
  /\ PollsSource(h)
  /\ source' = [source EXCEPT !.hasWaker = TRUE]
  /\ SleepsUntil(h, Never)
  /\ GoesTo(h, Idle)

\* An error is passed on, and the caller may poll again.
SourceFails(h) ==
  /\ PollsSource(h)
  /\ GoesTo(h, Idle)
  /\ woken' = woken \ {h}
  /\ UNCHANGED <<source, sleeps>>

\* Ready, next is Never, or Scheduled.
SourceHasState(h) ==
  /\ PollsSource(h)
  /\ \E next \in Times \cup {Never} :
       /\ next > call[h].time /\ next >= source.promised
       /\ source' = [source EXCEPT !.promised = next, !.hasWaker = TRUE]
       /\ GoesTo(h, [at |-> "adjusting", next |-> next])
  /\ UNCHANGED <<sleeps, woken>>

\* The caller is told when to poll again: what the source said, or a stored event before that.
Adjust(h) ==
  /\ At(h, "adjusting")
  /\ LET next == Min({call[h].next, FirstEventTime(stored[h], call[h].next)})
     IN  SleepsUntil(h, next)
  /\ GoesTo(h, Idle)
  /\ UNCHANGED <<stored, source, registry, wakers, history>>

\* handle_rollback of one child after the other, the dropped ones left out.
Purge(h) ==
  /\ At(h, "purging")
  /\ LET g    == children[Min(call[h].left)]
         left == call[h].left \ {Min(call[h].left)}
     IN  /\ stored' = IF Alive(g) THEN [stored EXCEPT ![g] = PurgeFrom(@, call[h].entry.time)]
                                  ELSE stored
         /\ GoesTo(h, IF left = {} THEN [at |-> "emitted", entry |-> call[h].entry]
                                   ELSE [call[h] EXCEPT !.left = left])
  /\ UNCHANGED <<source, registry, waking, history>>

\* Mutant: the first child is left out, not the one that polled.
DistributeButFirst(h) ==
  /\ At(h, "emitted")
  /\ GoesTo(h, [at |-> "distributing", entry |-> call[h].entry, left |-> DOMAIN children \ {0}])
  /\ UNCHANGED <<stored, source, registry, waking, history>>

\* distribute_event, to all but this one, and then the answer to the caller.
Distribute(h) ==
  /\ At(h, "emitted")
  /\ GoesTo(h, [at |-> "distributing", entry |-> call[h].entry,
                left |-> DOMAIN children \ {index[h]}])
  /\ UNCHANGED <<stored, source, registry, waking, history>>

HandOut(h) ==
  /\ At(h, "distributing")
  /\ call[h].left # {}
  /\ LET g == children[Min(call[h].left)]
     IN  stored' = IF Alive(g) THEN [stored EXCEPT ![g] = Insert(@, call[h].entry)] ELSE stored
  /\ GoesTo(h, [call[h] EXCEPT !.left = @ \ {Min(@)}])
  /\ UNCHANGED <<source, registry, waking, history>>

Answer(h) ==
  /\ At(h, "distributing")
  /\ call[h].left = {}
  /\ heard' = [heard EXCEPT ![h] = Append(@, call[h].entry.id)]
  /\ GoesTo(h, Idle)
  /\ woken' = woken \ {h}
  /\ UNCHANGED <<stored, source, registry, wakers, sleeps, joined, asked, overlap>>

-----------------------------------------------------------------------------
(* Advanced: how many handles have advanced to which time, and what each started from, index_map.  *)

Aggregate(counts) == Min(DOMAIN counts)

Increment(counts, time) ==
  With(counts, time, IF time \in DOMAIN counts THEN counts[time] + 1 ELSE 1)

Decrement(counts, time) ==
  IF time \notin DOMAIN counts THEN counts
  ELSE IF counts[time] > 1 THEN [counts EXCEPT ![time] = @ - 1]
  ELSE [t \in DOMAIN counts \ {time} |-> counts[t]]

\* Bound: advances go forwards, past the time up to which Advanced::advance returns early.  It does
\* not record the new time of the handle; the unwrap of an aggregate that is None panics under the lock.
Advance(h, time) ==
  /\ Calls(h) /\ AdvancedFree /\ ~advanced.poisoned
  /\ time > asked[h]
  /\ LET before == advanced.counts
         after  == Increment(Decrement(before, advanced.of[index[h]]), time)
     IN  /\ advanced' = [advanced EXCEPT !.counts = after, !.poisoned = Aggregate(after) = None]
         /\ GoesTo(h, IF Aggregate(after) = None THEN Gone
                      ELSE IF Aggregate(before) < Aggregate(after)
                      THEN [at |-> "advancing", to |-> Aggregate(after)] ELSE Idle)
  /\ asked' = [asked EXCEPT ![h] = time]
  /\ UNCHANGED <<stored, source, bound, index, children, waking, heard, joined, overlap>>

\* Original::advance unwraps the lock.
AdvancePanics(h) ==
  /\ Calls(h) /\ AdvancedFree /\ advanced.poisoned
  /\ GoesTo(h, Gone)
  /\ UNCHANGED <<stored, source, registry, waking, history>>

\* The lock on advanced is kept until the source is free.
AdvanceSource(h) ==
  /\ At(h, "advancing") /\ SourceFree
  /\ source' = [source EXCEPT !.advanced = call[h].to]
  /\ GoesTo(h, Idle)
  /\ UNCHANGED <<stored, registry, waking, history>>

-----------------------------------------------------------------------------
(* Clone, with get_next_index and the two halves of register_child, and drop.                      *)

GetNextIndex(h) ==
  /\ Calls(h)
  /\ Cardinality({g \in Handles : At(g, "unborn")}) > Cardinality({g \in Handles : At(g, "cloning")})
  /\ GoesTo(h, [at |-> "cloning", index |-> Max(DOMAIN children) + 1])
  /\ UNCHANGED <<stored, source, registry, waking, history>>

\* Another clone may have taken the index meanwhile; it loses its place.
InsertChild(h) ==
  /\ At(h, "cloning")
  /\ ChildrenFree
  /\ LET g == Min({f \in Handles : At(f, "unborn")})
     IN  /\ call' = [call EXCEPT ![h] = [at |-> "inserted", child |-> g], ![g] = [at |-> "new"]]
       /\ index' = [index EXCEPT ![g] = call[h].index]
       /\ children' = With(children, call[h].index, g)
       /\ joined' = [joined EXCEPT ![g] = Len(source.log)]
  /\ overlap' = (overlap \/ \E f \in Handles : Polling(f))
  /\ UNCHANGED <<stored, source, bound, advanced, waking, heard, asked>>

RegisterAdvanced(h) ==
  /\ At(h, "inserted")
  /\ AdvancedFree
  /\ LET g    == call[h].child
         time == Aggregate(advanced.counts)
     IN  /\ call' = [call EXCEPT ![h] = IF advanced.poisoned THEN Gone ELSE Idle,
                                 ![g] = IF advanced.poisoned THEN Gone ELSE Idle]
         /\ IF advanced.poisoned THEN UNCHANGED <<advanced, asked>>
            ELSE /\ advanced' = [advanced EXCEPT !.counts = Increment(@, time),
                                                 !.of = With(@, index[g], time)]
                 /\ asked' = [asked EXCEPT ![g] = time]
  /\ UNCHANGED <<stored, source, bound, index, children, waking, heard, joined, overlap>>

Drop(h) ==
  /\ Calls(h)
  /\ Cardinality({g \in Handles : At(g, "gone")}) < bound.drops
  /\ GoesTo(h, Gone)
  /\ UNCHANGED <<stored, source, registry, waking, history>>

\* Nobody calls anything any more.
Rests ==
  /\ \A h \in Handles : call[h].at \in {"idle", "unborn", "gone"}
  /\ UNCHANGED vars

-----------------------------------------------------------------------------
Steps(h) ==
  \/ \E time \in 1..bound.polls : Register(h, time)
  \/ \E time \in 1..bound.advances : Advance(h, time)
  \/ FindStored(h) \/ PopStored(h) \/ PopStoredPanics(h)
  \/ SourceEmits(h) \/ SourceIsPending(h) \/ SourceFails(h) \/ SourceHasState(h) \/ Adjust(h)
  \/ Purge(h) \/ Distribute(h) \/ HandOut(h) \/ Answer(h)
  \/ AdvancePanics(h) \/ AdvanceSource(h)
  \/ GetNextIndex(h) \/ InsertChild(h) \/ RegisterAdvanced(h) \/ Drop(h)

Next ==
  \/ SourceWakes \/ Rests
  \/ \E h \in Handles : Steps(h)

Spec == Init /\ [][Next]_vars

-----------------------------------------------------------------------------
(* Properties.                                                             *)

\* Two clones made at the same time may get one index, and then one of them is forgotten.
OwnIndex(h) == \A g \in Handles \ {h} : At(g, "unborn") \/ index[g] # index[h]
Listens(h)  == At(h, "idle") /\ OwnIndex(h)

\* However calls of different threads interleave, what the source says is not lost on the way: each
\* handle has heard it, has it stored, or is about to be handed it; or it was rolled back while it
\* waited, or shared its time with another entry (distribute_event, handle_rollback, insert).
OnItsWayTo(h, id) ==
  \E g \in Handles :
    /\ call[g].at \in {"purging", "emitted", "distributing"} /\ call[g].entry.id = id
    /\ At(g, "distributing") /\ g # h => index[h] \in call[g].left

NoneMissed ==
  \A h \in Handles : Alive(h) /\ ~At(h, "new") /\ OwnIndex(h) =>
    \A id \in (joined[h] + 1)..Len(source.log) :
      LET e == source.log[id]
      IN  \/ \E i \in DOMAIN heard[h] : heard[h][i] = id
          \/ e \in stored[h]
          \/ OnItsWayTo(h, id)
          \/ ~IsRollback(e) /\ \E i \in (id + 1)..Len(source.log) :
               IsRollback(source.log[i]) /\ source.log[i].time <= e.time
          \/ \E i \in DOMAIN source.log : i # id /\ Equal(source.log[i], e)

\* What a caller takes for the events that stand: of what it has heard, rollbacks stored for it
\* included, and of what is stored for it.  And what stands for the source.
EventsFor(h) ==
  {id \in Standing(heard[h]) :
     \A e \in stored[h] : IsRollback(e) => e.time > source.log[id].time}
  \cup {e.id : e \in {f \in stored[h] : f.kind = "event"}}
EventsOfSource(h) == Standing(SaidSince(joined[h]))

Resting     == \A h \in Handles : call[h].at \in {"idle", "gone", "unborn"}
TakenBack(i) == \E k \in (i + 1)..Len(source.log) :
                  IsRollback(source.log[k]) /\ source.log[k].time <= source.log[i].time

\* As long as no two polls overlap, a caller takes nothing for an event that stands which the source
\* took back, and misses none but one that was said when another entry at its time stood already, as
\* the ordered set keeps only the first of the two (rollback_event.rs, insert_rollback_event).
ViewsAgree ==
  ~overlap /\ Resting => \A h \in Handles : Listens(h) =>
    /\ EventsFor(h) \subseteq EventsOfSource(h)
    /\ \A id \in EventsOfSource(h) \ EventsFor(h) : \E i \in (joined[h] + 1)..(id - 1) :
         ~IsRollback(source.log[i]) /\ source.log[i].time = source.log[id].time /\ ~TakenBack(i)

\* A caller that was told to wait has its waker where the source reaches it, whoever polled the
\* source last; and, unless polls overlap, no event is stored for it that comes before the time it
\* was told to come back at.
SleepersMissNothing ==
  \A h \in Handles : Listens(h) /\ sleeps[h] # None =>
    /\ source.hasWaker /\ index[h] \in DOMAIN wakers /\ wakers[index[h]] = h
    /\ sleeps[h] # Never /\ ~overlap =>
         \A e \in stored[h] : e.kind = "event" => e.time >= sleeps[h]

\* Handles never poll the source on the same channel, whatever channels their callers use.
ChannelsAreApart ==
  \A g, h \in Handles : g # h /\ Listens(g) /\ Alive(h) /\ ~At(h, "unborn") =>
    \A c, d \in 0..3 : Map(index[g], c) # Map(index[h], d)

\* max_channel promises the callers of duplicates exactly the channels that its source has for it.
MaxChannelIsExact ==
  \A h \in Handles : At(h, "new") =>
    \A channels \in 1..MaxChannels, duplicate \in 0..index[h] :
      MaxChannelIsExactFor(channels, duplicate)
=============================================================================
