----------------------------- MODULE SqliteStore -----------------------------
(***************************************************************************)
(* DatabaseManager (ztoq/database_manager.py): the snapshot of a project   *)
(* in SQLite.  Every save is an INSERT OR REPLACE in a transaction of its  *)
(* own, with foreign keys on: SQLite deletes the old row first, and the    *)
(* ON DELETE clauses of the schema act on the rows that refer to it.       *)
(*                                                                         *)
(* A row is reduced to its references: `owners` are the rows it is deleted *)
(* with (ON DELETE CASCADE), `links` those whose deletion only clears the  *)
(* column (ON DELETE SET NULL).  One project is stored.                    *)
(***************************************************************************)
EXTENDS Integers, Sequences, FiniteSets, SequencesExt

CONSTANTS
    Folders, StoredPriorities, Environments,   \* entities of the project in Zephyr
    Cases, Cycles, Executions,
    LongIds,       \* the folders whose id is longer than the others'
    Rules,         \* validation rules
    Issues,        \* the validation issues that can be recorded, a bound
    MaxImports,    \* bound on the calls of save_project_data
    MaxMoves       \* bound on the folders moved in Zephyr

Project == "project"

\* The rows of a table are not those of another.
Tables == <<{Project}, Folders, StoredPriorities, Environments, Cases, Cycles, Executions,
            Rules, Issues>>

ASSUME StoreAssumption ==
    /\ \A t \in DOMAIN Tables : IsFiniteSet(Tables[t])
    /\ \A t, u \in DOMAIN Tables : t # u => Tables[t] \cap Tables[u] = {}
    /\ LongIds \subseteq Folders /\ "" \notin Folders
    /\ MaxImports \in Nat /\ MaxMoves \in Nat

VARIABLES
    rows,      \* the database: stored item -> [owners, links]
    parent,    \* Zephyr: folder -> its parent, or "" for a root
    import,    \* save_project_data: [pc, todo, complete, ordered, runs]
    moves,     \* folders moved so far
    issues     \* the issues recorded so far
storeVars == <<rows, parent, import, moves, issues>>

FetchKinds == {"folders", "priorities", "environments", "test_cases", "test_cycles",
               "test_executions"}
StoredItems == {Project} \cup Folders \cup StoredPriorities \cup Environments \cup Cases \cup Cycles
            \cup Executions \cup Rules \cup Issues

StoreInit ==
    /\ rows = <<>>
    /\ parent = [f \in Folders |-> ""]
    /\ import = [pc |-> "idle", todo |-> <<>>, complete |-> FALSE, ordered |-> FALSE,
                 runs |-> 0]
    /\ moves = 0
    /\ issues = {}

---------------------------------------------------------------------------
(* The database.                                                           *)

Row(owners, links) == [owners |-> owners, links |-> links]

\* What ON DELETE CASCADE deletes with the row of i.
DeletedWith(table, i) ==
    LET round[n \in 0 .. Cardinality(DOMAIN table)] ==
            IF n = 0 THEN {i}
            ELSE LET gone == round[n - 1]
                 IN gone \cup {k \in DOMAIN table : table[k].owners \cap gone # {}}
    IN round[Cardinality(DOMAIN table)]

\* The table once REPLACE has deleted the old row of i.
WithoutOld(table, i) ==
    LET gone == IF i \in DOMAIN table THEN DeletedWith(table, i) ELSE {i}
    IN [k \in DOMAIN table \ gone |-> [table[k] EXCEPT !.links = @ \ gone]]

\* Mutant: references are not checked.
CanReplace_Always(table, i, row) == TRUE

\* A reference to a missing row fails the statement.
CanReplace(table, i, row) == row.owners \cup row.links \subseteq DOMAIN WithoutOld(table, i)
Replaced(table, i, row) ==
    LET left == WithoutOld(table, i)
    IN [k \in DOMAIN left \cup {i} |-> IF k = i THEN row ELSE left[k]]

---------------------------------------------------------------------------
(* save_project_data.                                                      *)

\* The columns as Zephyr gives them; a case, a cycle and an execution refer
\* to all there is to refer to.
FolderRow(f) == Row({Project} \cup ({parent[f]} \ {""}), {})
CaseRow == Row({Project}, Folders \cup StoredPriorities)
CycleRow == Row({Project}, Folders)
ExecutionRow == Row({Project} \cup Cases \cup Cycles, Environments)

Plan(items, row) == [n \in 1 .. Len(items) |-> [item |-> items[n], row |-> row]]
PlanOf(kind) ==
    CASE kind = "priorities"      -> Plan(SetToSeq(StoredPriorities), Row({Project}, {}))
      [] kind = "environments"    -> Plan(SetToSeq(Environments), Row({Project}, {}))
      [] kind = "test_cases"      -> Plan(SetToSeq(Cases), CaseRow)
      [] kind = "test_cycles"     -> Plan(SetToSeq(Cycles), CycleRow)
      [] kind = "test_executions" -> Plan(SetToSeq(Executions), ExecutionRow)

\* The folders sorted by the length of their ids; those of one length stay as fetched.
SortedById(folders) ==
    \A m, n \in DOMAIN folders : folders[m] \in LongIds /\ folders[n] \notin LongIds => n < m
FolderPlan(sorted) ==
    [n \in 1 .. Len(sorted) |-> [item |-> sorted[n], row |-> FolderRow(sorted[n])]]

\* The saves of one import, in the order of the code, of the kinds fetched.
ImportPlan(fetchedKinds, sorted) ==
    LET Fetched(kind) == IF kind \in fetchedKinds THEN PlanOf(kind) ELSE <<>>
    IN (IF "folders" \in fetchedKinds THEN FolderPlan(sorted) ELSE <<>>)
           \o Fetched("priorities") \o Fetched("environments") \o Fetched("test_cases")
           \o Fetched("test_cycles") \o Fetched("test_executions")

\* Every fetched folder comes after its parent.
ParentsFirst(sorted) ==
    \A n \in 1 .. Len(sorted) :
        parent[sorted[n]] # "" => \E m \in 1 .. n - 1 : sorted[m] = parent[sorted[n]]

\* A call.  The results hold the project itself only when the command line
\* fetched it; without it a placeholder is inserted unless the key is there.
StartImport(project, fetchedKinds, sorted) ==
    /\ import.pc = "idle" /\ import.runs < MaxImports /\ SortedById(sorted)
    /\ import' = [pc |-> "saving", todo |-> ImportPlan(fetchedKinds, sorted),
                  complete |-> project # "failed" /\ fetchedKinds = FetchKinds,
                  ordered |-> ParentsFirst(sorted),
                  runs |-> import.runs + 1]
    /\ rows' = IF project = "fetched" \/ (project = "absent" /\ Project \notin DOMAIN rows)
               THEN Replaced(rows, Project, Row({}, {})) ELSE rows
    /\ UNCHANGED <<parent, moves, issues>>

\* save_folder, save_priority ... save_test_execution; the first statement
\* that fails ends the call, and what was saved before it stays.
SaveItem ==
    /\ import.pc = "saving" /\ import.todo # <<>>
    /\ LET head == Head(import.todo)
       IN IF CanReplace(rows, head.item, head.row)
          THEN /\ rows' = Replaced(rows, head.item, head.row)
               /\ import' = [import EXCEPT !.todo = Tail(@)]
          ELSE import' = [import EXCEPT !.pc = "raised"] /\ UNCHANGED rows
    /\ UNCHANGED <<parent, moves, issues>>

EndImport ==
    /\ \/ import.pc = "saving" /\ import.todo = <<>>
          /\ import' = [import EXCEPT !.pc = "returned"]
       \/ import.pc \in {"raised", "returned"} /\ import' = [import EXCEPT !.pc = "idle"]
    /\ UNCHANGED <<rows, parent, moves, issues>>

\* A test manager moves a folder, never below itself.
MoveFolder(f, to) ==
    /\ moves < MaxMoves /\ import.pc = "idle" /\ to # f /\ parent[f] # to
    /\ to # "" => parent[to] = ""
    /\ \A g \in Folders : parent[g] # f
    /\ parent' = [parent EXCEPT ![f] = to]
    /\ moves' = moves + 1
    /\ UNCHANGED <<rows, import, issues>>

---------------------------------------------------------------------------
(* Validation, at any time: the rules are registered at every start.       *)

SaveRule(r) ==
    /\ rows' = Replaced(rows, r, Row({}, {}))
    /\ UNCHANGED <<parent, import, moves, issues>>

SaveIssue(issue, r) ==
    /\ issue \notin issues
    /\ CanReplace(rows, issue, Row({r, Project}, {}))
    /\ rows' = Replaced(rows, issue, Row({r, Project}, {}))
    /\ issues' = issues \cup {issue}
    /\ UNCHANGED <<parent, import, moves>>

StoreNext ==
    \/ \E project \in {"absent", "fetched", "failed"}, kinds \in SUBSET FetchKinds :
          \E sorted \in SetToSeqs(Folders) : StartImport(project, kinds, sorted)
    \/ SaveItem \/ EndImport
    \/ \E f \in Folders, to \in Folders \cup {""} : MoveFolder(f, to)
    \/ \E r \in Rules : SaveRule(r) \/ \E issue \in Issues : SaveIssue(issue, r)

StoreSpec == StoreInit /\ [][StoreNext]_storeVars

---------------------------------------------------------------------------
(* Properties.                                                             *)

\* The type invariant of the snapshot.
StoreTypeOK ==
    /\ DOMAIN rows \subseteq StoredItems
    /\ \A i \in DOMAIN rows : rows[i].owners \cup rows[i].links \subseteq StoredItems
    /\ parent \in [Folders -> Folders \cup {""}]
    /\ import.pc \in {"idle", "saving", "raised", "returned"}
    /\ import.runs \in 0 .. MaxImports /\ moves \in 0 .. MaxMoves /\ issues \subseteq Issues

\* No replaced row leaves a reference to it behind, however the saves of
\* projects, folders, rules and issues follow each other.
ReferencesHold ==
    \A i \in DOMAIN rows : rows[i].owners \cup rows[i].links \subseteq DOMAIN rows

StoredEntities == Folders \cup StoredPriorities \cup Environments \cup Cases \cup Cycles \cup Executions
Current(i) ==
    CASE i \in Folders    -> FolderRow(i)
      [] i \in Cases      -> CaseRow
      [] i \in Cycles     -> CycleRow
      [] i \in Executions -> ExecutionRow
      [] OTHER            -> Row({Project}, {})

\* A complete import whose folders came parents first ends without an error
\* and leaves every entity with the references Zephyr gives it, whatever
\* older imports left and although its own saves delete rows: each cascade
\* only hits what is saved later.
CompleteImportMirrors ==
    import.complete /\ import.ordered =>
        /\ import.pc # "raised"
        /\ import.pc = "returned" =>
               \A i \in StoredEntities : i \in DOMAIN rows /\ rows[i] = Current(i)

\* The snapshot has no dangling reference, and a whole import mirrors Zephyr.
SnapshotSound == StoreTypeOK /\ ReferencesHold /\ CompleteImportMirrors
=============================================================================
