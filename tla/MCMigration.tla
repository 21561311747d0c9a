----------------------------- MODULE MCMigration -----------------------------
(***************************************************************************)
(* A project in which all folders but the outer one are in it, the test    *)
(* cases are in the inner folders, and the executions are of the test      *)
(* cases in the cycles, as far as there are any.                           *)
(***************************************************************************)
EXTENDS Migration, TLC

CONSTANT outer

MCLevel == [f \in Folders |-> IF f = outer THEN 1 ELSE 2]
MCRefs ==
    [e \in Entities |->
        CASE e \in Folders \ {outer} -> {outer}
          [] e \in TestCases -> Folders \ {outer}
          [] e \in Executions -> TestCases \cup TestCycles
          [] OTHER -> {}]

Symmetry == Permutations(Folders \ {outer})
=============================================================================
