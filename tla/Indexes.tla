------------------------------- MODULE Indexes -------------------------------
(***************************************************************************)
(* IndexManager (ztoq/db_indexing.py): processes that create the indexes   *)
(* recommended for the schema, create others by hand, analyse the database *)
(* and carry out what the analysis advises, all on one database.           *)
(*                                                                         *)
(* SQLAlchemy's inspector and the databases are external: the name of an   *)
(* index is unique in its database, the inspector does not list the index  *)
(* of a primary key and raises when it is asked for a table there is not,  *)
(* and PostgreSQL does not drop the index of a constraint.  Tables and     *)
(* columns are sequences of words, which names join.                       *)
(***************************************************************************)
EXTENDS Integers, Sequences, FiniteSets, SequencesExt

CONSTANTS
    IndexManagers, \* processes, each with a manager of its own
    SchemaIndexes, \* the indexes of the models: [name, table, columns, backs]
    ForeignKeys,   \* [table, columns]
    ColumnsOf(_),  \* table -> its columns
    Recommended,   \* get_recommended_indexes: a sequence of [name, table, columns, partial]
    Asked,         \* what create_specific_index is called for: [table, columns, unique]
    Filtered,      \* [table, columns] of the conditions of slow queries
    Keywords,      \* the columns whose names are keywords of SQL
    HashOf(_, _),  \* hash of the columns, which differs from process to process
    MaxWords,      \* the length of a name, in words
    MaxJobs        \* bound on the jobs of a process

ASSUME IndexesAssumption ==
    /\ MaxWords \in Nat /\ MaxJobs \in Nat
    /\ \A i, j \in SchemaIndexes : i.name = j.name => i = j

VARIABLES
    database, \* [postgres, tables]: which one it is, the tables it has
    indexes,  \* those in the database
    popular,  \* the names of those that are used often enough to be effective
    job       \* process -> what it does, or did last
indexVars == <<database, indexes, popular, job>>

\* missing: what the check did not find; faults, gone: histories of the indexes that the
\* database failed to create and of those that anybody removed since the job began.
NoJob == [pc |-> "idle", todo |-> <<>>, advice |-> <<>>, dealt |-> {}, failed |-> {},
          faults |-> {}, gone |-> {}, outcome |-> "none", jobs |-> 0]

IndexesInit ==
    /\ \E without \in {{}, {r.table : r \in Range(Recommended)}} :
           database \in [postgres : BOOLEAN,
                         tables : {{i.table : i \in SchemaIndexes} \ without}]
    /\ indexes = {i \in SchemaIndexes : i.table \in database.tables}
    /\ popular \in SUBSET {i.name : i \in SchemaIndexes}
    /\ job = [m \in IndexManagers |-> NoJob]

---------------------------------------------------------------------------
(* Indexes and their names.                                                *)

\* IndexDefinition without a name.
Named(m, table, columns, unique) ==
    LET kind == <<IF unique THEN "unq" ELSE "idx">>
        name == kind \o table \o FlattenSeq(columns)
    IN [name |-> IF Len(name) > MaxWords THEN kind \o table \o <<HashOf(m, columns)>> ELSE name,
        table |-> table, columns |-> columns, partial |-> FALSE]

Inspected == {i \in indexes : ~i.backs}
\* Mutant: any index of the table will do.
CheckIndexExists_OfTable(d) == \E i \in Inspected : i.table = d.table

CheckIndexExists(d) == \E i \in Inspected : i.name = d.name /\ i.table = d.table

\* What create_index can create: a condition is passed in a way that raises on PostgreSQL,
\* and is left out on SQLite.
Buildable(d) ==
    /\ d.table \in database.tables /\ Range(d.columns) \subseteq ColumnsOf(d.table)
    /\ ~(d.partial /\ database.postgres)
Taken(d) == \E i \in indexes : i.name = d.name

Index(d) == [name |-> d.name, table |-> d.table, columns |-> d.columns, backs |-> FALSE]

\* create_index answers True, or False when anything is wrong.
CreateIndex(d, done, refused, fault) ==
    \/ Buildable(d) /\ ~Taken(d) /\ indexes' = indexes \cup {Index(d)} /\ job' = done
    \/ ~(Buildable(d) /\ ~Taken(d)) /\ UNCHANGED indexes /\ job' = refused
    \/ UNCHANGED indexes /\ job' = fault

\* remove_index: DROP INDEX IF EXISTS, by name.
RemoveIndex(name, done) ==
    LET dropped == {i \in indexes : i.name = name /\ ~i.backs} IN
    /\ indexes' = indexes \ dropped
    /\ job' = [m \in IndexManagers |-> [done[m] EXCEPT !.gone = @ \cup dropped]]

---------------------------------------------------------------------------
(* create_recommended_indexes.                                             *)

Free(m) == job[m].pc = "idle" /\ job[m].jobs < MaxJobs
Begins(m, pc) == [job EXCEPT ![m] = [NoJob EXCEPT !.pc = pc, !.jobs = job[m].jobs + 1]]
Ends(m, outcome) == [job EXCEPT ![m].pc = "idle", ![m].outcome = outcome]
\* The definition at the head has been dealt with.
Dealt(m, pc, failed, faults) ==
    [job EXCEPT ![m] = [@ EXCEPT !.pc = pc, !.todo = Tail(@), !.dealt = @ \cup {Head(job[m].todo)},
                                 !.failed = @ \cup failed, !.faults = @ \cup faults]]

StartOptimizing(m) ==
    /\ Free(m)
    /\ job' = [Begins(m, "check") EXCEPT ![m].todo = Recommended]
    /\ UNCHANGED <<database, indexes, popular>>

\* An index of that name and table is skipped; a table that is missing ends the job.
CheckRecommended(m) ==
    /\ job[m].pc = "check" /\ job[m].todo # <<>>
    /\ LET d == Head(job[m].todo) IN
       job' = CASE d.table \notin database.tables -> Ends(m, "raised")
                [] CheckIndexExists(d) -> Dealt(m, "check", {}, {})
                [] OTHER -> [job EXCEPT ![m].pc = "create"]
    /\ UNCHANGED <<database, indexes, popular>>

CreateRecommended(m) ==
    /\ job[m].pc = "create"
    /\ LET d == Head(job[m].todo) IN
       CreateIndex(d, Dealt(m, "check", {}, {}), Dealt(m, "check", {d}, {}),
                   Dealt(m, "check", {d}, {d}))
    /\ UNCHANGED <<database, popular>>

EndOptimizing(m) ==
    /\ job[m].pc = "check" /\ job[m].todo = <<>>
    /\ job' = Ends(m, "completed")
    /\ UNCHANGED <<database, indexes, popular>>

CreateSpecificIndex(m) ==
    /\ Free(m)
    /\ \E a \in Asked :
           LET count == [job EXCEPT ![m].jobs = @ + 1]
           IN CreateIndex(Named(m, a.table, a.columns, a.unique), count, count, count)
    /\ UNCHANGED <<database, popular>>

---------------------------------------------------------------------------
(* recommend_indexes, and a user who does what it says.                    *)

Advise(action, index) == [action |-> action, index |-> index]
Advises(m, pc, more) == [job EXCEPT ![m].pc = pc, ![m].advice = @ \o SetToSeq(more)]

StartAnalysis(m) ==
    /\ Free(m)
    /\ job' = Begins(m, "usage")
    /\ UNCHANGED <<database, indexes, popular>>

\* PostgreSQL counts the uses, of the indexes of primary keys too; SQLite uses an index for
\* a query of its first column, but that query is no SQL when the column is a keyword.
AnalyzeIndexUsage(m) ==
    /\ job[m].pc = "usage"
    /\ job' = CASE database.postgres ->
                       Advises(m, "queries", {Advise("remove", i) : i \in {j \in indexes : j.name \notin popular}})
                [] ~database.postgres /\ \E i \in Inspected : Head(i.columns) \in Keywords ->
                       Ends(m, "raised")
                [] OTHER -> Advises(m, "queries", {})
    /\ UNCHANGED <<database, indexes, popular>>

\* PostgreSQL's slow queries that scanned a table, each with or without its statistics; an
\* index for a condition is advised unless there is one of its name.
RecommendForQueries(m) ==
    /\ job[m].pc = "queries"
    /\ \E slow \in IF database.postgres THEN SUBSET {f \in Filtered : f.table \in database.tables} ELSE {{}} :
           LET wanted == {Named(m, f.table, f.columns, FALSE) : f \in slow} IN
           job' = Advises(m, "keys", {Advise("create", d) : d \in {w \in wanted : ~CheckIndexExists(w)}})
    /\ UNCHANGED <<database, indexes, popular>>

\* Whatever the order of its columns, an index that has them all will do.
Covers(i, key) == i.table = key.table /\ Range(key.columns) \subseteq Range(i.columns)
IndexFor(m, key) == Named(m, key.table, key.columns, FALSE)

\* The first advice for a name is kept.
Deduplicated(advice) ==
    LET keep(kept, a) == IF \E k \in Range(kept) : k.index.name = a.index.name
                         THEN kept ELSE Append(kept, a)
    IN FoldLeft(keep, <<>>, advice)

RecommendForForeignKeys(m) ==
    /\ job[m].pc = "keys"
    /\ LET bare == {k \in ForeignKeys : k.table \in database.tables /\ ~\E i \in Inspected : Covers(i, k)}
           advised == Advises(m, "advised", {Advise("create", IndexFor(m, k)) : k \in bare})
       IN job' = [advised EXCEPT ![m].advice = Deduplicated(@)]
    /\ UNCHANGED <<database, indexes, popular>>

CarryOut(m) ==
    /\ job[m].pc = "advised" /\ job[m].advice # <<>>
    /\ LET a == Head(job[m].advice)
           next == [job EXCEPT ![m].advice = Tail(@)]
           failed == [next EXCEPT ![m].failed = @ \cup {a.index}]
       IN \/ a.action = "remove" /\ RemoveIndex(a.index.name, next)
          \/ a.action = "create" /\ CreateIndex(a.index, next, failed, failed)
    /\ UNCHANGED <<database, popular>>

EndCarryingOut(m) ==
    /\ job[m].pc = "advised" /\ job[m].advice = <<>>
    /\ job' = Ends(m, "carried out")
    /\ UNCHANGED <<database, indexes, popular>>

\* The job raises, or its process is killed.
StopJob(m) ==
    /\ job[m].pc # "idle"
    /\ job' = Ends(m, "raised")
    /\ UNCHANGED <<database, indexes, popular>>

IndexesNext ==
    \E m \in IndexManagers :
        \/ StartOptimizing(m) \/ CheckRecommended(m) \/ CreateRecommended(m) \/ EndOptimizing(m)
        \/ CreateSpecificIndex(m) \/ StartAnalysis(m) \/ AnalyzeIndexUsage(m)
        \/ RecommendForQueries(m) \/ RecommendForForeignKeys(m) \/ CarryOut(m)
        \/ EndCarryingOut(m) \/ StopJob(m)

IndexesSpec == IndexesInit /\ [][IndexesNext]_indexVars

---------------------------------------------------------------------------
(***************************** Properties *********************************)

\* A recommended index that was dealt with - created, skipped, or counted as failed because
\* another process was faster between the check and the creation - is in the database,
\* unless it cannot be built, the database failed, or somebody removed it since.
RecommendedAreThere ==
    \A m \in IndexManagers : \A d \in job[m].dealt :
        \/ ~Buildable(d) \/ d \in job[m].faults
        \/ \E i \in job[m].gone \cup indexes : i.name = d.name

\* Once an advice is carried out every foreign key has an index: only one that was removed
\* meanwhile, by this advice or by another process, or that could not be created, is missing.
KeysHaveIndexes ==
    \A m \in IndexManagers : job[m].outcome = "carried out" =>
        \A k \in ForeignKeys : k.table \in database.tables =>
            \/ \E i \in indexes \cup job[m].gone \cup job[m].failed :
                   i.table = k.table /\ Range(k.columns) \subseteq Range(i.columns)
            \/ \E i \in job[m].gone : i.name = IndexFor(m, k).name

\* Whatever the processes create under names of their own making, a name leads to one index,
\* and the index of a primary key stays though an advice wants it removed.
NamesLeadToOne ==
    /\ \A i, j \in indexes : i.name = j.name => i = j
    /\ \A i \in SchemaIndexes : i.backs /\ i.table \in database.tables => i \in indexes

IndexesSound == RecommendedAreThere /\ KeysHaveIndexes /\ NamesLeadToOne
=============================================================================
