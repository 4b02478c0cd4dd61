----------------------------- MODULE MCDuplicate -----------------------------
(* The duplicates of one source, on threads of their own.                  *)
EXTENDS Duplicate

All == {"event", "rollback", "finalize"}

\* Two handles with much to hear; three with less, on one thread and on two; two that are polled and
\* advance; four that are cloned, dropped and advance.
MCBounds ==
  {[handles |-> 1, threads |-> 2, drops |-> 0, interrupts |-> 3, kinds |-> All \ {"finalize"},
    polls |-> 2, advances |-> 0],
   [handles |-> 2, threads |-> 1, drops |-> 0, interrupts |-> 2, kinds |-> All,
    polls |-> 1, advances |-> 0],
   [handles |-> 2, threads |-> 2, drops |-> 0, interrupts |-> 1, kinds |-> {"event"},
    polls |-> 1, advances |-> 0],
   [handles |-> 1, threads |-> 2, drops |-> 1, interrupts |-> 1, kinds |-> All,
    polls |-> 2, advances |-> 2],
   [handles |-> 3, threads |-> 3, drops |-> 1, interrupts |-> 0, kinds |-> {},
    polls |-> 0, advances |-> 3]}
=============================================================================
