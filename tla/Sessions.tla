------------------------------ MODULE Sessions -------------------------------
(***************************************************************************)
(* The two managers of SQLAlchemy sessions: SQLDatabaseManager             *)
(* (ztoq/sql_database_manager.py) and DatabaseConnectionManager            *)
(* (ztoq/database_connection_manager.py).  Threads get the manager, hold   *)
(* sessions, and run transactions in them or in sessions of their own.     *)
(*                                                                         *)
(* SQLAlchemy and the database are external: closing a session rolls back, *)
(* begin_nested sets a savepoint, and pysqlite begins a transaction only   *)
(* with the first write, so that releasing a savepoint that came before it *)
(* commits.                                                                *)
(***************************************************************************)
EXTENDS Integers, Sequences

CONSTANTS
    Workers,   \* threads
    MaxUnits   \* bound on the units of work: writes, transactions, calls

ASSUME SessionsAssumption == MaxUnits \in Nat

VARIABLES
    engine,    \* [manager, dialect]: "sql" or "connection", "postgresql" or "sqlite"
    default,   \* the module's manager, 0 for None, and how many were created
    getter,    \* thread -> where it is in getting the manager, and the one it got
    committed, \* the rows in the database
    session,   \* thread -> its session: [open, pending], the rows not committed yet
    block,     \* thread -> the transaction it is in: [state, own, unit, rows]
    units      \* history: what each unit of work was and how it ended
sessionVars == <<engine, default, getter, committed, session, block, units>>

\* A row: the unit of work that wrote it and its number in it.
RowsOf(unit) == {<<unit, 1>>, <<unit, 2>>}

NoBlock == [state |-> "none", own |-> FALSE, unit |-> 0, rows |-> {}]
NoSession == [open |-> FALSE, pending |-> {}]
BySql == engine.manager = "sql"

SessionsInit ==
    /\ engine \in [manager : {"sql", "connection"}, dialect : {"postgresql", "sqlite"}]
    /\ default = [manager |-> 0, created |-> 0, lock |-> FALSE]
    /\ getter = [t \in Workers |-> [pc |-> "start", manager |-> 0]]
    /\ committed = {} /\ units = <<>>
    /\ session = [t \in Workers |-> NoSession]
    /\ block = [t \in Workers |-> NoBlock]

---------------------------------------------------------------------------
(* get_sql_db_manager, get_connection_manager.                             *)

Moves(t, pc) == getter' = [getter EXCEPT ![t].pc = pc]

\* Mutant: no second look with the lock.
LookForManager_Once(t) ==
    /\ getter[t].pc \in {"start", "locked"}
    /\ IF default.manager # 0 /\ getter[t].pc = "start"
       THEN getter' = [getter EXCEPT ![t] = [pc |-> "got", manager |-> default.manager]]
       ELSE Moves(t, IF BySql \/ getter[t].pc = "locked" THEN "creates" ELSE "waits")
    /\ UNCHANGED <<engine, default, committed, session, block, units>>

\* The manager is there, or it is None: one function goes on to create it, the other one
\* takes the lock and looks again.
LookForManager(t) ==
    /\ \/ getter[t].pc = "start"
       \/ getter[t].pc = "locked"
    /\ IF default.manager # 0
       THEN /\ getter' = [getter EXCEPT ![t] = [pc |-> "got", manager |-> default.manager]]
            /\ default' = [default EXCEPT !.lock = @ /\ getter[t].pc # "locked"]
       ELSE /\ Moves(t, IF BySql \/ getter[t].pc = "locked" THEN "creates" ELSE "waits")
            /\ UNCHANGED default
    /\ UNCHANGED <<engine, committed, session, block, units>>

TakeManagerLock(t) ==
    /\ getter[t].pc = "waits" /\ ~default.lock
    /\ default' = [default EXCEPT !.lock = TRUE]
    /\ Moves(t, "locked")
    /\ UNCHANGED <<engine, committed, session, block, units>>

CreateManager(t) ==
    /\ getter[t].pc = "creates"
    /\ default' = [manager |-> default.created + 1, created |-> default.created + 1,
                   lock |-> FALSE]
    /\ getter' = [getter EXCEPT ![t] = [pc |-> "got", manager |-> default.created + 1]]
    /\ UNCHANGED <<engine, committed, session, block, units>>

---------------------------------------------------------------------------
(* Sessions.                                                               *)

Ready(t) == getter[t].pc = "got" /\ block[t].state = "none"
Idle == UNCHANGED <<engine, default, getter>>
Unit == Len(units) + 1
NewUnit(what, own, end, rows) ==
    Append(units, [what |-> what, own |-> own, end |-> end, rows |-> rows])
EndTransaction(t, how) ==
    /\ units' = [units EXCEPT ![block[t].unit].end = how, ![block[t].unit].rows = block[t].rows]
    /\ block' = [block EXCEPT ![t] = NoBlock]

\* session() of SQLDatabaseManager, or the thread's own session.
OpenSession(t) ==
    /\ Ready(t) /\ ~session[t].open
    /\ session' = [session EXCEPT ![t].open = TRUE]
    /\ UNCHANGED <<committed, block, units>> /\ Idle

\* A write in the open session, also by execute_query with the session given.
Write(t) ==
    /\ Ready(t) /\ session[t].open /\ Unit <= MaxUnits
    /\ session' = [session EXCEPT ![t].pending = @ \cup RowsOf(Unit)]
    /\ units' = NewUnit("write", FALSE, "done", RowsOf(Unit))
    /\ UNCHANGED <<committed, block>> /\ Idle

\* The block of session() ends: commit and close.
CommitSession(t) ==
    /\ Ready(t) /\ session[t].open /\ BySql
    /\ committed' = committed \cup session[t].pending
    /\ session' = [session EXCEPT ![t] = NoSession]
    /\ UNCHANGED <<block, units>> /\ Idle

\* The block raises, or close_thread_session: what was pending is rolled back.
CloseSession(t) ==
    /\ Ready(t) /\ session[t].open
    /\ session' = [session EXCEPT ![t] = NoSession]
    /\ UNCHANGED <<committed, block, units>> /\ Idle

---------------------------------------------------------------------------
(* transaction: a savepoint, in the session given or in a new one.         *)

BeginTransaction(t, own) ==
    /\ Ready(t) /\ Unit <= MaxUnits /\ (own \/ session[t].open)
    /\ block' = [block EXCEPT ![t] = [state |-> "open", own |-> own, unit |-> Unit, rows |-> {}]]
    /\ units' = NewUnit("transaction", own, "open", {})
    /\ UNCHANGED <<committed, session>> /\ Idle

WriteInTransaction(t) ==
    /\ block[t].state = "open"
    /\ \E row \in RowsOf(block[t].unit) \ block[t].rows :
           block' = [block EXCEPT ![t].rows = @ \cup {row}]
    /\ UNCHANGED <<committed, session, units>> /\ Idle

\* Releasing the savepoint on SQLite commits when nothing was written before it.
ReleaseCommits(t) ==
    engine.dialect = "sqlite" /\ (block[t].own \/ session[t].pending = {})

\* SQLDatabaseManager releases the savepoint, and closes a session of its own as it is.
EndSqlTransaction(t) ==
    /\ BySql /\ block[t].state = "open"
    /\ committed' = IF ReleaseCommits(t) THEN committed \cup block[t].rows ELSE committed
    /\ session' = IF block[t].own \/ ReleaseCommits(t) THEN session
                  ELSE [session EXCEPT ![t].pending = @ \cup block[t].rows]
    /\ EndTransaction(t, "done") /\ Idle

\* DatabaseConnectionManager commits the session too, the caller's with all it holds.
EndConnectionTransaction(t) ==
    /\ ~BySql /\ block[t].state = "open"
    /\ committed' = committed \cup block[t].rows \cup
                    (IF block[t].own THEN {} ELSE session[t].pending)
    /\ session' = IF block[t].own THEN session ELSE [session EXCEPT ![t].pending = {}]
    /\ EndTransaction(t, "done") /\ Idle

\* The block raises: back to the savepoint; the caller may go on with its session.
RaiseInTransaction(t) ==
    /\ block[t].state = "open"
    /\ EndTransaction(t, "raised")
    /\ UNCHANGED <<committed, session>> /\ Idle

---------------------------------------------------------------------------
(* Single calls.                                                           *)

\* create, update and delete: a session of their own, committed with or without commit.
CreateUpdateDelete(t) ==
    /\ BySql /\ Ready(t) /\ Unit <= MaxUnits
    /\ \/ /\ committed' = committed \cup RowsOf(Unit)
          /\ units' = NewUnit("create", TRUE, "done", RowsOf(Unit))
       \/ /\ UNCHANGED committed
          /\ units' = NewUnit("create", TRUE, "raised", RowsOf(Unit))
    /\ UNCHANGED <<session, block>> /\ Idle

\* bulk_create, bulk_update and bulk_delete, with two batches: with commit each batch is
\* committed, so that a failure of the second one leaves the first.
Bulk(t, commit) ==
    /\ BySql /\ Ready(t) /\ Unit <= MaxUnits
    /\ \/ /\ committed' = committed \cup RowsOf(Unit)
          /\ units' = NewUnit("bulk", TRUE, "done", RowsOf(Unit))
       \/ /\ committed' = IF commit THEN committed \cup {<<Unit, 1>>} ELSE committed
          /\ units' = NewUnit(IF commit THEN "batches" ELSE "bulk", TRUE, "raised", RowsOf(Unit))
    /\ UNCHANGED <<session, block>> /\ Idle

\* execute_raw_sql and execute_query without a session never commit.
ExecuteUncommitted(t) ==
    /\ Ready(t) /\ Unit <= MaxUnits
    /\ units' = NewUnit("query", TRUE, "lost", RowsOf(Unit))
    /\ UNCHANGED <<committed, session, block>> /\ Idle

\* execute_batch commits the session, or rolls it back and answers False.
ExecuteBatch(t, own) ==
    /\ ~BySql /\ Ready(t) /\ Unit <= MaxUnits /\ (own \/ session[t].open)
    /\ LET held == IF own THEN {} ELSE session[t].pending IN
       \/ /\ committed' = committed \cup RowsOf(Unit) \cup held
          /\ units' = NewUnit("batch", own, "done", RowsOf(Unit))
       \/ /\ UNCHANGED committed
          /\ units' = NewUnit("batch", own, "raised", RowsOf(Unit))
    /\ session' = IF own THEN session ELSE [session EXCEPT ![t].pending = {}]
    /\ UNCHANGED block /\ Idle

SessionsNext ==
    \E t \in Workers :
        \/ LookForManager(t) \/ TakeManagerLock(t) \/ CreateManager(t)
        \/ OpenSession(t) \/ Write(t) \/ CommitSession(t) \/ CloseSession(t)
        \/ WriteInTransaction(t) \/ EndSqlTransaction(t) \/ EndConnectionTransaction(t)
        \/ RaiseInTransaction(t) \/ CreateUpdateDelete(t) \/ ExecuteUncommitted(t)
        \/ \E own \in BOOLEAN : BeginTransaction(t, own) \/ ExecuteBatch(t, own) \/ Bulk(t, own)

SessionsSpec == SessionsInit /\ [][SessionsNext]_sessionVars

---------------------------------------------------------------------------
(***************************** Properties *********************************)

\* What raised, or is still under way, has no row in the database, however the session it
\* ran in ends, and what ended has all or none; the batches of a bulk call are the
\* exception (sql_database_manager.py:229-242, database_connection_manager.py:475-495).
AllOrNothing ==
    \A u \in DOMAIN units :
        LET unit == units[u] IN
        unit.what # "batches" =>
            \/ RowsOf(u) \cap committed = {}
            \/ unit.end = "done" /\ unit.rows \subseteq committed

\* A transaction in a session of its own that ended is in the database; with
\* SQLDatabaseManager this holds on SQLite only, since nothing commits the session
\* (sql_database_manager.py:226-242).
OwnTransactionsKept ==
    \A u \in DOMAIN units :
        LET unit == units[u] IN
        (unit.what = "transaction" /\ unit.own /\ unit.end = "done" /\ unit.rows # {}) =>
            (unit.rows \subseteq committed <=> ~BySql \/ engine.dialect = "sqlite")

\* What a session still holds nobody has committed: the rows of an open session are in the
\* database only when its own commit, or a call that was given the session, put all of them
\* there (database_connection_manager.py:479, 633).
PendingIsPending == \A t \in Workers : session[t].pending \cap committed = {}

\* With the lock and the second look all threads have one manager
\* (database_connection_manager.py:930-936).
OneManager == ~BySql => default.created <= 1

SessionsSound == AllOrNothing /\ OwnTransactionsKept /\ PendingIsPending /\ OneManager
=============================================================================
