------------------------------ MODULE Exporter -------------------------------
(***************************************************************************)
(* ZephyrExporter.export_all (ztoq/exporter.py) into the two storages of   *)
(* ztoq/storage.py: a SQLite file with foreign keys, or a directory with a *)
(* JSON file for each kind of entity.  A project is exported again and     *)
(* again while it changes in Zephyr; an export may fail or be killed       *)
(* between two of its steps.                                               *)
(*                                                                         *)
(* SQLite is external: INSERT OR REPLACE deletes the row it replaces, and  *)
(* ON DELETE CASCADE deletes with it the rows that refer to it.            *)
(***************************************************************************)
EXTENDS Integers

CONSTANTS
    TreeFolders,    \* folders of the project
    Super(_),       \* the folder above a folder, or NoFolder
    NoFolder,
    ExportMeta,     \* its statuses, priorities and environments
    ExportCases, ExportCycles, ExportPlans,
    Runs,           \* its executions
    CaseOf(_), CycleOf(_), \* what an execution refers to
    Dated,          \* the entities that carry a datetime
    Versioned,      \* the cases with versions, each of which carries one
    MaxExports, MaxEdits, MaxStored \* bounds: exports, changes in Zephyr, single saves

\* What ON DELETE CASCADE deletes with a folder: the smallest set with its children and the
\* children of its own.
Children(f) == {g \in TreeFolders : Super(g) = f}
Below(f) ==
    {g \in TreeFolders : \A down \in SUBSET TreeFolders :
        Children(f) \subseteq down /\ (\A d \in down : Children(d) \subseteq down) => g \in down}

ASSUME ExporterAssumption ==
    /\ MaxExports \in Nat /\ MaxEdits \in Nat /\ MaxStored \in Nat
    /\ Versioned \subseteq ExportCases \cap Dated
    /\ Dated \cap (TreeFolders \cup ExportMeta) = {}
    /\ \A f \in TreeFolders : Super(f) \in TreeFolders \cup {NoFolder} /\ f \notin Below(f)
    /\ \A x \in Runs : CaseOf(x) \in ExportCases /\ CycleOf(x) \in ExportCycles

\* No entity is of two kinds.
ASSUME KindsAssumption ==
    LET kinds == <<TreeFolders, ExportMeta, ExportCases, ExportCycles, ExportPlans, Runs, {NoFolder}>>
    IN \A i, j \in 1..7 : i # j => kinds[i] \cap kinds[j] = {}

VARIABLES
    output, \* "json" or "sqlite"
    zephyr, \* the entities of the project, in Zephyr
    stored, \* [rows, broken]: what the storage holds, the JSON files that cannot be read
    unsaved, \* SQLite: the rows as the open transaction of the folders sees them
    export, \* the export under way, or the last one
    limits  \* [exports, edits, singles] so far
exportVars == <<output, zephyr, stored, unsaved, export, limits>>

Exportable == TreeFolders \cup ExportMeta \cup ExportCases \cup ExportCycles \cup Runs

\* The kinds of entities, each with a table or a file of its own.
Kinds == {TreeFolders, ExportMeta, ExportCases, ExportCycles, ExportPlans, Runs}

\* Step of the export, what it has fetched, what is left of the folders to be saved or of the
\* cycles to be asked for their executions, the cycles that did not answer, whether the
\* folders came parents first.
NoExport == [pc |-> "idle", fetched |-> {}, left |-> {}, failed |-> {}, ordered |-> TRUE,
             outcome |-> "none"]

ExportInit ==
    /\ output \in {"json", "sqlite"}
    /\ zephyr \in {Exportable, Exportable \ Versioned}
    /\ stored = [rows |-> {}, broken |-> {}]
    /\ unsaved = {}
    /\ export = NoExport
    /\ limits = [exports |-> 0, edits |-> 0, singles |-> 0]

---------------------------------------------------------------------------
(* SQLiteStorage: the new rows, or ExportRefused where it raises.          *)

ExportRefused == {NoFolder}

SqlSaveFolder(rows, f) ==
    IF Super(f) \notin rows \cup {NoFolder} THEN ExportRefused ELSE (rows \ Below(f)) \cup {f}

SqlSaveMetadata(rows, items) == rows \cup items
\* A datetime is stored as a string, but json.dumps refuses one inside a list.
SqlSaveCases(rows, cases) ==
    IF cases \cap Versioned # {} THEN ExportRefused
    ELSE {e \in rows : e \in Runs => CaseOf(e) \notin cases} \cup cases
SqlSaveCycles(rows, cycles) == {e \in rows : e \in Runs => CycleOf(e) \notin cycles} \cup cycles
SqlSavePlans(rows, plans) == rows \cup plans
SqlSaveExecutions(rows, executions) ==
    IF \A x \in executions : {CaseOf(x), CycleOf(x)} \subseteq rows
    THEN rows \cup executions ELSE ExportRefused

SqlSave(kind, items) ==
    CASE kind = ExportCases  -> SqlSaveCases(stored.rows, items)
      [] kind = ExportCycles -> SqlSaveCycles(stored.rows, items)
      [] kind = ExportPlans  -> SqlSavePlans(stored.rows, items)
      [] kind = Runs         -> SqlSaveExecutions(stored.rows, items)

\* __exit__ of the block: commit, or roll back what the block did.
CommitBlock(rows) == stored' = [stored EXCEPT !.rows = IF rows = ExportRefused THEN @ ELSE rows]

---------------------------------------------------------------------------
(* JSONStorage: the file is emptied first; json.dump raises on a datetime  *)
(* and leaves the file broken.                                             *)

Unreadable(st, kind) == [rows |-> st.rows \ kind, broken |-> st.broken \cup {kind}]

\* Mutant: what the file holds stays in it.
JsonSave_Appends(st, kind, items) ==
    IF items \cap Dated # {} THEN Unreadable(st, kind)
    ELSE [rows |-> st.rows \cup items, broken |-> st.broken \ {kind}]

JsonSave(st, kind, items) ==
    IF items \cap Dated # {} THEN Unreadable(st, kind)
    ELSE [rows |-> (st.rows \ kind) \cup items, broken |-> st.broken \ {kind}]

\* save_test_case and the like read the file, replace or append, and write it.
JsonSaveOne(st, kind, e) ==
    CASE kind \in st.broken -> st
      [] kind \notin st.broken /\ e \in Dated -> Unreadable(st, kind)
      [] OTHER -> [st EXCEPT !.rows = @ \cup {e}]

---------------------------------------------------------------------------
(* export_all.                                                             *)

Goes(pc) == export.pc = pc
Ends(outcome) == [export EXCEPT !.pc = "idle", !.left = {}, !.outcome = outcome]
InBlock == UNCHANGED <<output, zephyr, unsaved, limits>>

\* A new exporter for the project; its storage creates the tables or the directory.
StartExport ==
    /\ Goes("idle") /\ limits.exports < MaxExports
    /\ export' = [NoExport EXCEPT !.pc = "metadata"]
    /\ limits' = [limits EXCEPT !.exports = @ + 1]
    /\ UNCHANGED <<output, zephyr, stored, unsaved>>

\* The error of a request, or of a block, ends export_all; the manager goes on with its
\* next project.
ExportRaises ==
    /\ ~Goes("idle")
    /\ export' = Ends("raised")
    /\ UNCHANGED stored /\ InBlock

\* The process is killed while it writes: SQLite has rolled the block back, a JSON file
\* stays half written.
Killed ==
    /\ \E written \in {<<"folders", TreeFolders>>, <<"folders", ExportMeta>>, <<"cases", ExportCases>>,
                       <<"cycles", ExportCycles>>, <<"executions", Runs>>} :
           /\ Goes(written[1])
           /\ stored' = IF output = "json" THEN Unreadable(stored, written[2]) ELSE stored
    /\ export' = Ends("raised")
    /\ InBlock

\* The folders, statuses, priorities and environments are there, and SQLite has begun the
\* block that saves them.
FetchMetadata ==
    /\ Goes("metadata")
    /\ export' = [export EXCEPT !.pc = "folders", !.left = zephyr \cap TreeFolders,
                                !.fetched = zephyr \cap (TreeFolders \cup ExportMeta)]
    /\ unsaved' = stored.rows
    /\ UNCHANGED <<output, zephyr, stored, limits>>

\* The next folder of the answer, whatever its order is.
SaveFolder(f) ==
    /\ Goes("folders") /\ output = "sqlite" /\ f \in export.left
    /\ LET rows == SqlSaveFolder(unsaved, f) IN
       IF rows = ExportRefused THEN export' = Ends("raised") /\ UNCHANGED unsaved
       ELSE /\ unsaved' = rows
            /\ export' = [export EXCEPT !.left = @ \ {f}, !.ordered = @ /\ Super(f) \notin export.left]
    /\ UNCHANGED <<output, zephyr, stored, limits>>

\* The other kinds of the block, and its end.
SaveMetadata ==
    /\ Goes("folders") /\ (output = "sqlite" => export.left = {})
    /\ LET folders == export.fetched \cap TreeFolders
           meta == export.fetched \cap ExportMeta IN
       IF output = "json"
       THEN stored' = JsonSave(JsonSave(stored, TreeFolders, folders), ExportMeta, meta)
       ELSE CommitBlock(SqlSaveMetadata(unsaved, meta))
    /\ export' = [export EXCEPT !.pc = "cases", !.left = {}]
    /\ InBlock

\* The block that stores the items of a kind, in SQLite these rows, and what the export does
\* next.
Block(kind, items, rows, next) ==
    IF output = "json"
    THEN /\ stored' = JsonSave(stored, kind, items)
         /\ export' = IF items \cap Dated # {} THEN Ends("raised") ELSE next
    ELSE /\ CommitBlock(rows)
         /\ export' = IF rows = ExportRefused THEN Ends("raised") ELSE next

ExportTestCases ==
    /\ Goes("cases")
    /\ LET cases == zephyr \cap ExportCases IN
       Block(ExportCases, cases, SqlSaveCases(stored.rows, cases),
             [export EXCEPT !.pc = "cycles", !.fetched = @ \cup cases])
    /\ InBlock

ExportTestCycles ==
    /\ Goes("cycles")
    /\ LET cycles == zephyr \cap ExportCycles IN
       Block(ExportCycles, cycles, SqlSaveCycles(stored.rows, cycles),
             [export EXCEPT !.pc = "fetching", !.fetched = @ \cup cycles, !.left = cycles])
    /\ InBlock

\* A thread of the pool has the executions of a cycle, or its error is logged.
FetchExecutions(y) ==
    /\ Goes("fetching") /\ y \in export.left
    /\ \/ export' = [export EXCEPT !.left = @ \ {y},
                                   !.fetched = @ \cup {x \in zephyr \cap Runs : CycleOf(x) = y}]
       \/ export' = [export EXCEPT !.left = @ \ {y}, !.failed = @ \cup {y}]
    /\ UNCHANGED stored /\ InBlock

AllFetched ==
    /\ Goes("fetching") /\ export.left = {}
    /\ export' = [export EXCEPT !.pc = "executions"]
    /\ UNCHANGED stored /\ InBlock

ExportTestExecutions ==
    /\ Goes("executions")
    /\ LET executions == export.fetched \cap Runs IN
       Block(Runs, executions, SqlSaveExecutions(stored.rows, executions), Ends("completed"))
    /\ InBlock

---------------------------------------------------------------------------
(* A storage used on its own, and the project in Zephyr.                   *)

StoreOne ==
    /\ Goes("idle") /\ limits.singles < MaxStored
    /\ \E kind \in {ExportCases, ExportCycles, ExportPlans, Runs} : \E e \in kind :
           IF output = "json" THEN stored' = JsonSaveOne(stored, kind, e)
           ELSE CommitBlock(SqlSave(kind, {e}))
    /\ export' = [export EXCEPT !.outcome = "none"]
    /\ limits' = [limits EXCEPT !.singles = @ + 1]
    /\ UNCHANGED <<output, zephyr, unsaved>>

\* An entity, and with it what refers to it, is deleted.
ZephyrDeletes ==
    /\ limits.edits < MaxEdits
    /\ \E e \in zephyr \ ExportMeta :
           zephyr' = {o \in zephyr : /\ o # e
                                     /\ e \in TreeFolders => o \notin Below(e)
                                     /\ o \in Runs => e \notin {CaseOf(o), CycleOf(o)}}
    /\ limits' = [limits EXCEPT !.edits = @ + 1]
    /\ UNCHANGED <<output, stored, unsaved, export>>

ExportNext ==
    \/ StartExport \/ ExportRaises \/ Killed \/ FetchMetadata \/ SaveMetadata \/ ExportTestCases
    \/ ExportTestCycles \/ AllFetched \/ ExportTestExecutions \/ StoreOne \/ ZephyrDeletes
    \/ \E y \in ExportCycles : FetchExecutions(y)
    \/ \E f \in TreeFolders : SaveFolder(f)

ExportSpec == ExportInit /\ [][ExportNext]_exportVars

---------------------------------------------------------------------------
(***************************** Properties *********************************)

\* No row of the database refers to a row that is not there, whatever was replaced,
\* rolled back or deleted in between (storage.py:103, 259).
ExportReferencesHold ==
    output = "sqlite" =>
        /\ \A f \in stored.rows \cap TreeFolders : Super(f) \in stored.rows \cup {NoFolder}
        /\ \A x \in stored.rows \cap Runs : {CaseOf(x), CycleOf(x)} \subseteq stored.rows

\* After an export that completed, everything it fetched is in the storage and every file it
\* wrote (plans are never exported) can be read, though storing the cases and the cycles of
\* an earlier export deleted its executions; the JSON files hold nothing older.  With the
\* folders in an order that puts a child before its parent this fails on SQLite, whence the
\* condition (exporter.py:93-194).
CompletedIsWhole ==
    (Goes("idle") /\ export.outcome = "completed") =>
        /\ stored.broken \subseteq {ExportPlans}
        /\ export.ordered \/ output = "json" => export.fetched \subseteq stored.rows
        /\ output = "json" => stored.rows \ ExportPlans = export.fetched

\* Only what one cycle did not answer is missing: the executions of every cycle that
\* answered are in the storage, those of a failed one are not fetched
\* (exporter.py:159-181).
MissesOnlyFailed ==
    Goes("executions") =>
        \A x \in zephyr \cap Runs :
            {CaseOf(x), CycleOf(x)} \subseteq export.fetched =>
                (x \in export.fetched <=> CycleOf(x) \notin export.failed)

\* What an export deletes from the database are folders that are no longer in Zephyr and,
\* with the cases and the cycles it replaces, executions, which its own last step is to
\* store again; that step deletes nothing (exporter.py:93-139, 189-194).
DeletesOnlyExecutions ==
    [][(output = "sqlite" /\ ~Goes("idle") /\ export'.ordered) =>
           LET deleted == stored.rows \ stored'.rows IN
           /\ deleted \cap zephyr \subseteq Runs
           /\ deleted \cap Runs # {} => Goes("cases") \/ Goes("cycles")
           /\ deleted \cap TreeFolders # {} => Goes("folders")]_exportVars

ExportsSound == ExportReferencesHold /\ CompletedIsWhole /\ MissesOnlyFailed
=============================================================================
