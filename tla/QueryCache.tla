----------------------------- MODULE QueryCache ------------------------------
(***************************************************************************)
(* cached_query and QueryCache (ztoq/database_optimizations.py) with the   *)
(* reads and saves of OptimizedDatabaseManager: readers look a project up  *)
(* in the global query_cache, run the query on a miss and store its        *)
(* result; a save commits and invalidates a key of the model_cache, which  *)
(* is another cache.  Time is a counter.                                   *)
(***************************************************************************)
EXTENDS Integers, FiniteSets

CONSTANTS
    Readers,       \* threads calling get_project
    TimeToLive,    \* ttl of the cache (300 s)
    QueryTime,     \* how long a query may take
    MaxClock,      \* bound on time
    MaxVersions    \* bound on the saves

ASSUME CacheAssumption == TimeToLive \in Nat /\ QueryTime \in Nat /\ MaxClock \in Nat /\ MaxVersions \in Nat

VARIABLES
    time,      \* datetime.now()
    version,   \* the row of the project, 0 while there is none
    savedAt,   \* version -> when it was committed
    queryCache,\* entry of the project: [value, stamp], value 0 when absent
    modelCache,\* whether the model cache has the project
    saver,     \* "idle", or "invalidate" after the commit
    reader     \* thread -> [pc, value, began, floor]
cacheVars == <<time, version, savedAt, queryCache, modelCache, saver, reader>>

NoEntry == [value |-> 0, stamp |-> 0]

CacheInit ==
    /\ time = 0 /\ version = 0
    /\ savedAt = [v \in 0 .. MaxVersions |-> 0]
    /\ queryCache = NoEntry /\ modelCache = FALSE
    /\ saver = "idle"
    /\ reader = [r \in Readers |-> [pc |-> "idle", value |-> 0, began |-> 0, floor |-> 0]]

\* The version whose save has returned to its caller.
Acknowledged == IF saver = "idle" THEN version ELSE version - 1

\* Mutant: an entry lives for one more unit of time.
Expired_Late == time - queryCache.stamp > TimeToLive + 1

Expired == time - queryCache.stamp > TimeToLive

\* query_cache.get: an expired entry is deleted; a None, stored for a project
\* that does not exist, is a miss.
GetProject(r) ==
    /\ reader[r].pc \in {"idle", "returned"}
    /\ LET hit == queryCache.value # 0 /\ ~Expired
       IN reader' = [reader EXCEPT ![r] =
              [pc |-> IF hit THEN "returned" ELSE "query", began |-> time, floor |-> Acknowledged,
               value |-> IF hit THEN queryCache.value ELSE 0]]
    /\ queryCache' = IF Expired THEN NoEntry ELSE queryCache
    /\ UNCHANGED <<time, version, savedAt, modelCache, saver>>

RunQuery(r) ==
    /\ reader[r].pc = "query"
    /\ reader' = [reader EXCEPT ![r].pc = "store", ![r].value = version]
    /\ UNCHANGED <<time, version, savedAt, queryCache, modelCache, saver>>

\* query_cache.set, however long ago the query ran.
StoreResult(r) ==
    /\ reader[r].pc = "store"
    /\ queryCache' = [value |-> reader[r].value, stamp |-> time]
    /\ reader' = [reader EXCEPT ![r].pc = "returned"]
    /\ UNCHANGED <<time, version, savedAt, modelCache, saver>>

\* save_project: the commit, then the invalidation.
SaveProject ==
    /\ saver = "idle" /\ version < MaxVersions
    /\ version' = version + 1
    /\ savedAt' = [savedAt EXCEPT ![version + 1] = time]
    /\ saver' = "invalidate"
    /\ UNCHANGED <<time, queryCache, modelCache, reader>>

Invalidate ==
    /\ saver = "invalidate"
    /\ modelCache' = FALSE /\ saver' = "idle"
    /\ UNCHANGED <<time, version, savedAt, queryCache, reader>>

\* cleanup, and clear (reset_performance_tracking).
CleanCache ==
    /\ queryCache' = IF Expired THEN NoEntry ELSE queryCache
    /\ UNCHANGED <<time, version, savedAt, modelCache, saver, reader>>
ClearCache ==
    /\ queryCache' = NoEntry
    /\ UNCHANGED <<time, version, savedAt, modelCache, saver, reader>>

\* Time passes; no call is between its miss and its store for longer than
\* QueryTime.
TimePasses ==
    /\ time < MaxClock
    /\ \A r \in Readers :
          reader[r].pc \in {"query", "store"} => time < reader[r].began + QueryTime
    /\ time' = time + 1
    /\ UNCHANGED <<version, savedAt, queryCache, modelCache, saver, reader>>

CacheNext ==
    \/ \E r \in Readers : GetProject(r) \/ RunQuery(r) \/ StoreResult(r)
    \/ SaveProject \/ Invalidate \/ CleanCache \/ ClearCache \/ TimePasses
CacheSpec == CacheInit /\ [][CacheNext]_cacheVars

---------------------------------------------------------------------------
(* Properties.                                                             *)

\* The type invariant.
CacheTypeOK ==
    /\ time \in 0 .. MaxClock /\ version \in 0 .. MaxVersions
    /\ savedAt \in [0 .. MaxVersions -> 0 .. MaxClock]
    /\ queryCache \in [value : 0 .. MaxVersions, stamp : 0 .. MaxClock]
    /\ modelCache \in BOOLEAN /\ saver \in {"idle", "invalidate"}
    /\ reader \in [Readers -> [pc : {"idle", "query", "store", "returned"},
                               value : 0 .. MaxVersions, began : 0 .. MaxClock,
                               floor : 0 .. MaxVersions]]

\* "No such project" is never an old answer: once a save was committed, no
\* call that begins later is told there is none.
CreationIsSeen ==
    \A r \in Readers : reader[r].pc = "returned" /\ reader[r].floor > 0 => reader[r].value > 0

\* An answer is old by no more than the time to live and the time of one
\* query: the version that replaced it was saved less than that ago.
StalenessBounded ==
    \A r \in Readers :
        reader[r].pc = "returned" /\ reader[r].value < reader[r].floor =>
            savedAt[reader[r].value + 1] + TimeToLive + QueryTime >= reader[r].began

\* How old an answer of the cache may be.
CacheSound == CacheTypeOK /\ CreationIsSeen /\ StalenessBounded
=============================================================================
