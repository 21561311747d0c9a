------------------------------ MODULE MCStores -------------------------------
(***************************************************************************)
(* The work queue, the databases, the mock server and the batch algorithms,*)
(* instantiated for TLC side by side: they share no state, so a behaviour  *)
(* of this module is one of a single component, chosen in the initial      *)
(* state, while the others rest.                                           *)
(***************************************************************************)
EXTENDS WorkQueueImplements, QTestMockServer, SqliteStore, SqlStore, PgTransaction,
        QueryCache, BatchStrategies, AsyncWorkQueue, Validation, Exporter, Sessions, Dashboard

VARIABLE part
storesVars == <<vars, mockVars, storeVars, sqlVars, pgVars, cacheVars, batchVars,
                asyncVars, validationVars, exportVars, sessionVars, dashVars, part>>

CONSTANTS s1, s2, l1, l2
MCLabelsOf(s) == IF s = s1 THEN <<l1, l2>> ELSE <<l2, l1>>
MCHasSteps(s) == s = s1

CONSTANTS g1, g2, c1, c2, y1, y2, u1, u2
MCSuper(f) == IF f = g2 THEN g1 ELSE NoFolder
MCCaseOf(x) == c1
MCCycleOf(x) == IF x = u1 THEN y1 ELSE y2

MCReadKinds == <<"test_cases">>
MCExtents(k) == IF k = "folders" THEN {1} ELSE {1, 3}
MCDatabases == {[postgres |-> FALSE, mappings |-> FALSE]}

Parts == {"queue", "mock", "sqlite", "sql", "pg", "cache", "batch", "async", "valid",
          "export", "session", "dash"}

StoresInit ==
    /\ Init /\ MockInit /\ StoreInit /\ SqlInit /\ PgInit /\ CacheInit /\ BatchInit
    /\ AsyncInit /\ ValidationInit /\ ExportInit /\ SessionsInit /\ DashInit
    /\ part \in Parts
    /\ part # "valid" => valDb = "pg" /\ valCopies = 1 /\ \A k \in EntityCounted : valSource[k] = 0
    \* SQLite has no counts to compare, and entity kinds are alike.
    /\ part = "valid" => (valDb = "sqlite" => \A k \in EntityCounted : valSource[k] = 0)
                         /\ valSource["folders"] >= valSource["test_cases"]
    /\ part # "batch" => batchSize = MinBatch
    /\ part # "export" => output = "json" /\ zephyr = Exportable
    /\ part # "session" => engine = [manager |-> "sql", dialect |-> "sqlite"]
    /\ part # "mock" => ~mode.validation /\ mode.uses = "planning"

\* The components but p rest.
Only(p) ==
    /\ p # "queue" => UNCHANGED vars
    /\ p # "mock" => UNCHANGED mockVars
    /\ p # "sqlite" => UNCHANGED storeVars
    /\ p # "sql" => UNCHANGED sqlVars
    /\ p # "pg" => UNCHANGED pgVars
    /\ p # "cache" => UNCHANGED cacheVars
    /\ p # "batch" => UNCHANGED batchVars
    /\ p # "async" => UNCHANGED asyncVars
    /\ p # "valid" => UNCHANGED validationVars
    /\ p # "export" => UNCHANGED exportVars
    /\ p # "session" => UNCHANGED sessionVars
    /\ p # "dash" => UNCHANGED dashVars
    /\ UNCHANGED part

StoresNext ==
    \/ part = "queue"  /\ Next      /\ Only("queue")
    \/ part = "mock"   /\ MockNext  /\ Only("mock")
    \/ part = "sqlite" /\ StoreNext /\ Only("sqlite")
    \/ part = "sql"    /\ SqlNext   /\ Only("sql")
    \/ part = "pg"     /\ PgNext    /\ Only("pg")
    \/ part = "cache"  /\ CacheNext /\ Only("cache")
    \/ part = "batch"  /\ BatchNext /\ Only("batch")
    \/ part = "async"  /\ AsyncNext /\ Only("async")
    \/ part = "valid"  /\ ValidationNext /\ Only("valid")
    \/ part = "export" /\ ExportNext /\ Only("export")
    \/ part = "session" /\ SessionsNext /\ Only("session")
    \/ part = "dash"   /\ DashNext  /\ Only("dash")

StoresSpec == StoresInit /\ [][StoresNext]_storesVars

-----------------------------------------------------------------------------
(***************************** Properties *********************************)

\* Snapshots in SQLite, and what the dashboard reads while a migration writes.
DatabasesSound ==
    /\ part = "sqlite" => SnapshotSound
    /\ part = "dash" => DashboardSound

\* What several threads share, the query cache, the labels of saves, the connections of
\* execute_transaction, the session managers with their sessions and transactions; and the
\* exports to SQLite and JSON.
StoresSound == CacheSound /\ SavesSound /\ ConnectionsSound /\ SessionsSound /\ ExportsSound

\* Orders and partitions of sequences.
SequencesSound == (part = "batch" => BatchesSound) /\ (part = "async" => AsyncQueueSound)

\* A refused request changes no store; an adjustment goes the way of the time; a failed
\* validation is final; a save deletes nothing but executions.
StepsSound ==
    /\ ErrorsChangeNothing /\ AdaptsTheRightWay /\ FailureIsFinal
    /\ DeletesOnlyExecutions
=============================================================================
