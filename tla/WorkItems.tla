------------------------------ MODULE WorkItems -------------------------------
(***************************************************************************)
(* What the work queue of ztoq/work_queue.py promises of its items, without*)
(* queues, futures, managers and threads: WorkStatus and the transitions   *)
(* that a client of WorkQueue may rely on.                                 *)
(***************************************************************************)
EXTENDS Integers

CONSTANTS
    Items,         \* the ids that a client can create
    MaxAttempts    \* how often one of them is processed

VARIABLES
    phase,    \* where each item is
    needs,    \* the items that must be done before it
    tries     \* how often it was started

itemsVars == <<phase, needs, tries>>

Phases == {"absent", "waiting", "started", "done", "failed", "withdrawn"}

\* New items wait, for whatever they need.
Create(S) ==
    /\ \A w \in S : phase[w] = "absent"
    /\ phase' = [w \in Items |-> IF w \in S THEN "waiting" ELSE phase[w]]
    /\ \A w \in Items \ S : needs'[w] = needs[w]
    /\ UNCHANGED tries

\* Items that are not being processed are withdrawn for good.
Withdraw(S) ==
    /\ \A w \in S : phase[w] \in {"waiting", "failed"}
    /\ phase' = [w \in Items |-> IF w \in S THEN "withdrawn" ELSE phase[w]]
    /\ UNCHANGED <<needs, tries>>

\* An item is started only when all that it needs is done.
StartItem(w) ==
    /\ phase[w] = "waiting"
    /\ tries[w] < MaxAttempts
    /\ \A d \in needs[w] : phase[d] = "done"
    /\ phase' = [phase EXCEPT ![w] = "started"]
    /\ tries' = [tries EXCEPT ![w] = @ + 1]
    /\ UNCHANGED needs

FinishItem(w) ==
    /\ phase[w] = "started"
    /\ \E outcome \in {"done", "failed"} : phase' = [phase EXCEPT ![w] = outcome]
    /\ UNCHANGED <<needs, tries>>

\* A failed item waits again, as long as attempts are left.
RetryItem(w) ==
    /\ phase[w] = "failed"
    /\ tries[w] < MaxAttempts
    /\ phase' = [phase EXCEPT ![w] = "waiting"]
    /\ UNCHANGED <<needs, tries>>

ItemsInit ==
    /\ phase = [w \in Items |-> "absent"]
    /\ needs = [w \in Items |-> {}]
    /\ tries = [w \in Items |-> 0]

ItemsNext ==
    \/ \E S \in SUBSET Items : Create(S) \/ Withdraw(S)
    \/ \E w \in Items : StartItem(w) \/ FinishItem(w) \/ RetryItem(w)

ItemsSpec == ItemsInit /\ [][ItemsNext]_itemsVars
=============================================================================
