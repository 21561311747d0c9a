----------------------------- MODULE MCWorkQueue -----------------------------
(* Small instances of WorkQueue for TLC. *)
EXTENDS WorkQueue, TLC

Symmetry == Permutations(Items)

\* Bound: three items are started once, by a queue that is started once; two are
\* also retried, and stopped and started again.
FewRetries ==
    (\A w \in Items : status[w] # "none") => starts <= 1 /\ \A w \in Items : attempt[w] <= 1
=============================================================================
