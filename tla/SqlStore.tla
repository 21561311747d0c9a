------------------------------ MODULE SqlStore -------------------------------
(***************************************************************************)
(* SQLDatabaseManager of ztoq/core/db_manager.py on PostgreSQL: threads    *)
(* that save test cases with shared labels and threads that update the     *)
(* migration state, each in a session of its own (scoped_session).         *)
(*                                                                         *)
(* The database is external and modelled at READ COMMITTED: a query sees   *)
(* what is committed and what its own transaction wrote; the insert of a   *)
(* unique value waits for another transaction that inserted it, and a      *)
(* cycle of waits ends one of them.                                        *)
(***************************************************************************)
EXTENDS Integers, Sequences, FiniteSets

CONSTANTS
    Savers,        \* threads, each saves a test case of its own
    Labels,        \* names of labels
    LabelsOf(_),   \* the labels of a saver's case, a sequence
    HasSteps(_),   \* whether the case has steps or scripts
    MaxSaves,      \* bound on the saves of a saver
    Updaters,      \* threads that update the migration state
    UpdateStatuses \* values of the phase an updater writes

ASSUME SqlAssumption == MaxSaves \in Nat \ {0} /\ \A s \in Savers : LabelsOf(s) \in Seq(Labels)

VARIABLES
    table,     \* committed: [cases, stale, labels, attached, steps]
    txn,       \* saver -> its session
    migration, \* the row of migration_state: [exists, status]
    update     \* updater -> its session: [pc, seen, last]
sqlVars == <<table, txn, migration, update>>

\* A session: whether its write of the case still stands, the labels it
\* inserted, those it inserted and lost in a rollback, those to attach.
NoTxn == [pc |-> "idle", row |-> FALSE, labels |-> {}, lost |-> {}, attached |-> {},
          next |-> 1, saves |-> 0]

SqlInit ==
    /\ table = [cases |-> {}, stale |-> {}, labels |-> {}, attached |-> {}, steps |-> {}]
    /\ txn = [s \in Savers |-> NoTxn]
    /\ migration = [exists |-> FALSE, status |-> [u \in Updaters |-> "not_started"]]
    /\ update = [u \in Updaters |-> [pc |-> "idle", seen |-> FALSE, last |-> "not_started"]]

---------------------------------------------------------------------------
(* save_test_case.                                                         *)

Wanted(s) == LabelsOf(s)[txn[s].next]
Visible(s) == table.labels \cup txn[s].labels

\* Query by id, then the row is added and flushed, or the row found is
\* changed; its labels are cleared.
BeginSave(s) ==
    /\ txn[s].pc = "idle" /\ txn[s].saves < MaxSaves
    /\ txn' = [txn EXCEPT ![s] = [NoTxn EXCEPT !.pc = "labels", !.row = TRUE,
                                               !.saves = txn[s].saves + 1]]
    /\ UNCHANGED <<table, migration, update>>

Attach(s, label) == [txn[s] EXCEPT !.attached = @ \cup {label}, !.next = @ + 1, !.pc = "labels"]

\* get_or_create finds the label.
FindLabel(s) ==
    /\ txn[s].pc = "labels" /\ txn[s].next <= Len(LabelsOf(s))
    /\ txn' = [txn EXCEPT ![s] = IF Wanted(s) \in Visible(s) THEN Attach(s, Wanted(s))
                                 ELSE [@ EXCEPT !.pc = "insert"]]
    /\ UNCHANGED <<table, migration, update>>

\* What a session inserts next: the label looked for, or at the flush of a
\* case that is in the table the objects that an earlier rollback expelled.
Inserts(s) ==
    CASE txn[s].pc = "insert" -> {Wanted(s)}
      [] txn[s].pc = "labels" /\ s \in table.cases /\ txn[s].next > Len(LabelsOf(s)) -> txn[s].lost
      [] OTHER -> {}
Blockers(s) == {o \in Savers \ {s} : Inserts(s) \cap txn[o].labels # {}}

\* get_or_create inserts it.  On the IntegrityError the whole session is
\* rolled back, the row of the case and the labels made before with it, and
\* the label of the other transaction is taken.
InsertLabel(s) ==
    /\ txn[s].pc = "insert" /\ Blockers(s) = {}
    /\ txn' = [txn EXCEPT ![s] =
          IF Wanted(s) \in table.labels
          THEN [Attach(s, Wanted(s)) EXCEPT !.row = FALSE, !.labels = {},
                                            !.lost = @ \cup txn[s].labels]
          ELSE [Attach(s, Wanted(s)) EXCEPT !.labels = @ \cup {Wanted(s)}]]
    /\ UNCHANGED <<table, migration, update>>

\* The session is rolled back and the error is raised.
RaiseSave(s) == txn' = [txn EXCEPT ![s] = [NoTxn EXCEPT !.pc = "raised", !.saves = txn[s].saves]]

\* The server ends one of the transactions that wait for each other.
BreakDeadlock(s) ==
    /\ \E waiting \in SUBSET Savers :
          s \in waiting /\ \A o \in waiting : Blockers(o) \cap waiting # {}
    /\ RaiseSave(s)
    /\ UNCHANGED <<table, migration, update>>

\* Mutant: no commit fails.
Refused_Never(s) == FALSE

\* Steps, scripts and the commit.  When the write of the row was lost, a new
\* case is not added again, so that its steps have nothing to refer to, and
\* an old one keeps its columns and its steps, whose ids are then taken.
Refused(s) ==
    IF s \in table.cases
    THEN ~txn[s].row /\ (s \in table.steps \/ txn[s].lost \cap table.labels # {})
    ELSE ~txn[s].row /\ HasSteps(s)

Stored(s) ==
    LET known == txn[s].row \/ s \in table.cases
        labels == IF known THEN txn[s].attached ELSE {}
    IN [cases    |-> IF known THEN table.cases \cup {s} ELSE table.cases,
        stale    |-> IF known /\ ~txn[s].row THEN table.stale \cup {s} ELSE table.stale \ {s},
        labels   |-> table.labels \cup txn[s].labels \cup labels,
        attached |-> {a \in table.attached : a[1] # s} \cup ({s} \X labels),
        steps    |-> IF HasSteps(s) THEN table.steps \cup {s} ELSE table.steps]

EndSave(s) ==
    /\ txn[s].pc = "labels" /\ txn[s].next > Len(LabelsOf(s)) /\ Blockers(s) = {}
    /\ IF Refused(s)
       THEN RaiseSave(s) /\ UNCHANGED table
       ELSE /\ txn' = [txn EXCEPT ![s] = [NoTxn EXCEPT !.pc = "returned", !.saves = txn[s].saves]]
            /\ table' = Stored(s)
    /\ UNCHANGED <<migration, update>>

NextCase(s) ==
    /\ txn[s].pc \in {"returned", "raised"} /\ txn[s].saves < MaxSaves
    /\ txn' = [txn EXCEPT ![s].pc = "idle"]
    /\ UNCHANGED <<table, migration, update>>

---------------------------------------------------------------------------
(* update_migration_state: the row is read, then what the caller gave is   *)
(* written; the flush sets the columns that were assigned, no others.      *)

ReadState(u) ==
    /\ update[u].pc = "idle"
    /\ update' = [update EXCEPT ![u].pc = "read", ![u].seen = migration.exists]
    /\ UNCHANGED <<table, txn, migration>>

\* A second first row breaks the unique key: the call raises.
WriteState(u, status) ==
    /\ update[u].pc = "read"
    /\ IF ~update[u].seen /\ migration.exists
       THEN update' = [update EXCEPT ![u].pc = "idle"] /\ UNCHANGED migration
       ELSE /\ update' = [update EXCEPT ![u].pc = "idle", ![u].last = status]
            /\ migration' = [exists |-> TRUE,
                             status |-> [migration.status EXCEPT ![u] = status]]
    /\ UNCHANGED <<table, txn>>

SqlNext ==
    \/ \E s \in Savers :
          \/ BeginSave(s) \/ FindLabel(s) \/ InsertLabel(s) \/ BreakDeadlock(s)
          \/ EndSave(s) \/ NextCase(s)
    \/ \E u \in Updaters : ReadState(u) \/ \E status \in UpdateStatuses : WriteState(u, status)

SqlSpec == SqlInit /\ [][SqlNext]_sqlVars

---------------------------------------------------------------------------
(* Properties.                                                             *)

\* The type invariant.
SqlTypeOK ==
    /\ table.cases \subseteq Savers /\ table.stale \subseteq Savers
    /\ table.labels \subseteq Labels /\ table.steps \subseteq Savers
    /\ table.attached \subseteq Savers \X Labels
    /\ \A s \in Savers :
          /\ txn[s].pc \in {"idle", "labels", "insert", "returned", "raised"}
          /\ txn[s].labels \cup txn[s].lost \cup txn[s].attached \subseteq Labels
          /\ txn[s].saves \in 0 .. MaxSaves
    /\ migration.status \in [Updaters -> UpdateStatuses \cup {"not_started"}]
    /\ \A u \in Updaters : update[u].pc \in {"idle", "read"}

\* No label is inserted twice: what the open transactions inserted is theirs
\* alone and new to the table.
LabelsUnique ==
    \A s \in Savers :
        /\ txn[s].labels \cap table.labels = {}
        /\ \A o \in Savers \ {s} : txn[s].labels \cap txn[o].labels = {}

\* However the rollbacks of get_or_create fell, steps and labels belong to
\* cases and labels of the table, and a save that returned and whose case
\* is stored attached every label of the case.
SavedWhole ==
    /\ table.steps \subseteq table.cases
    /\ table.attached \subseteq table.cases \X table.labels
    /\ \A s \in table.cases : txn[s].pc = "returned" =>
          \A n \in 1 .. Len(LabelsOf(s)) : <<s, LabelsOf(s)[n]>> \in table.attached

\* A case with steps is in the table once its save has returned: a save
\* whose row was lost on the way raises instead.
CasesWithStepsStored ==
    \A s \in Savers : HasSteps(s) /\ txn[s].pc = "returned" => s \in table.cases

\* Threads that update different phases at a time do not undo each other:
\* the row has for each phase what its last successful call wrote.
PhasesKept == \A u \in Updaters : migration.status[u] = update[u].last

\* Saves and updates that run at the same time, whatever is rolled back.
SavesSound ==
    /\ SqlTypeOK /\ LabelsUnique /\ SavedWhole /\ CasesWithStepsStored /\ PhasesKept
=============================================================================
