------------------------- MODULE WorkQueueImplements -------------------------
(***************************************************************************)
(* The work queue keeps the promises of WorkItems.  A status is a phase    *)
(* under another name; the queue, the tracking sets, the futures and the   *)
(* manager are hidden.                                                     *)
(***************************************************************************)
EXTENDS WorkQueue

PhaseOf ==
    [none |-> "absent", pending |-> "waiting", running |-> "started", completed |-> "done",
     failed |-> "failed", cancelled |-> "withdrawn"]

Promise == INSTANCE WorkItems
    WITH phase <- [w \in Items |-> PhaseOf[status[w]]], needs <- dependencies, tries <- attempt

\* Whatever clients, manager and workers do, they do to items only what WorkItems allows:
\* dependencies first, at most max_attempts starts, nothing final revived.
ImplementsItems == Promise!ItemsSpec
=============================================================================
