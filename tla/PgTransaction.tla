---------------------------- MODULE PgTransaction ----------------------------
(***************************************************************************)
(* PostgreSQLDatabaseManager.execute_transaction and its connection pool   *)
(* (ztoq/pg_database_manager.py): a list of statements on a pooled         *)
(* connection.  The connection goes back to the pool at the end of the     *)
(* with block; the finally clause resets its autocommit flag after that.   *)
(* psycopg2 is external: a connection is handed out to one caller at a     *)
(* time, is rolled back when it comes back with an open transaction, and   *)
(* refuses to change autocommit inside one.                                *)
(***************************************************************************)
EXTENDS Integers, FiniteSets

CONSTANTS
    PgClients,     \* threads calling execute_transaction
    Connections,   \* connections of the pool (max_connections)
    Statements,    \* statements of a transaction
    MaxCalls       \* bound on the calls of a thread

ASSUME PgAssumption == Statements \in Nat \ {0} /\ MaxCalls \in Nat \ {0}

VARIABLES
    free,      \* connections in the pool
    conn,      \* connection -> [auto, open]: autocommit flag, uncommitted work
    pgCall      \* thread -> [pc, on, done, stored, calls]
pgVars == <<free, conn, pgCall>>

None == "none"
NoPgCall == [pc |-> "idle", on |-> None, done |-> 0, stored |-> 0, calls |-> 0]

PgInit ==
    /\ free = Connections
    /\ conn = [c \in Connections |-> [auto |-> FALSE, open |-> FALSE]]
    /\ pgCall = [t \in PgClients |-> NoPgCall]

Conn(t) == conn[pgCall[t].on]

\* getconn takes a connection; autocommit is off from here on.  An empty
\* pool raises at once, before `conn` is bound: the finally clause raises
\* again and the call does not return False.
Connect(t) ==
    /\ pgCall[t].pc = "idle" /\ pgCall[t].calls < MaxCalls
    /\ IF free = {}
       THEN /\ pgCall' = [pgCall EXCEPT ![t] = [NoPgCall EXCEPT !.pc = "raised", !.calls = pgCall[t].calls + 1]]
            /\ UNCHANGED <<free, conn>>
       ELSE \E c \in free :
            /\ free' = free \ {c}
            /\ conn' = [conn EXCEPT ![c].auto = FALSE]
            /\ pgCall' = [pgCall EXCEPT ![t] = [NoPgCall EXCEPT !.pc = "execute", !.on = c,
                                                          !.calls = pgCall[t].calls + 1]]

\* One statement: alone when the flag was turned on meanwhile.
Execute(t) ==
    /\ pgCall[t].pc = "execute" /\ pgCall[t].done < Statements
    /\ pgCall' = [pgCall EXCEPT ![t].done = @ + 1,
                            ![t].stored = IF Conn(t).auto THEN @ + 1 ELSE @]
    /\ conn' = [conn EXCEPT ![pgCall[t].on].open = ~Conn(t).auto]
    /\ UNCHANGED free

\* putconn, at the end of the with block.
PutBack(t) ==
    /\ free' = free \cup {pgCall[t].on}
    /\ conn' = [conn EXCEPT ![pgCall[t].on].open = FALSE]

\* A statement fails: the with block is left by the exception.
StatementFails(t) ==
    /\ pgCall[t].pc = "execute" /\ pgCall[t].done < Statements
    /\ PutBack(t)
    /\ pgCall' = [pgCall EXCEPT ![t].pc = "finallyFalse"]

Commit(t) ==
    /\ pgCall[t].pc = "execute" /\ pgCall[t].done = Statements
    /\ PutBack(t)
    /\ pgCall' = [pgCall EXCEPT ![t].pc = "finallyTrue", ![t].stored = Statements]

\* The finally clause sets autocommit on a connection it no longer has.
Finally(t) ==
    /\ pgCall[t].pc \in {"finallyTrue", "finallyFalse"}
    /\ IF Conn(t).open
       THEN UNCHANGED conn /\ pgCall' = [pgCall EXCEPT ![t].pc = "raised"]
       ELSE /\ conn' = [conn EXCEPT ![pgCall[t].on].auto = TRUE]
            /\ pgCall' = [pgCall EXCEPT ![t].pc = IF @ = "finallyTrue" THEN "true" ELSE "false"]
    /\ UNCHANGED free

NextCall(t) ==
    /\ pgCall[t].pc \in {"true", "false", "raised"} /\ pgCall[t].calls < MaxCalls
    /\ pgCall' = [pgCall EXCEPT ![t].pc = "idle"]
    /\ UNCHANGED <<free, conn>>

PgNext ==
    \E t \in PgClients :
        \/ Connect(t) \/ Execute(t) \/ StatementFails(t) \/ Commit(t) \/ Finally(t)
        \/ NextCall(t)

PgSpec == PgInit /\ [][PgNext]_pgVars

---------------------------------------------------------------------------
(* Properties.                                                             *)

InUse(t) == pgCall[t].pc = "execute"

\* The type invariant.
PgTypeOK ==
    /\ free \subseteq Connections
    /\ conn \in [Connections -> [auto : BOOLEAN, open : BOOLEAN]]
    /\ pgCall \in [PgClients -> [pc : {"idle", "execute", "finallyTrue", "finallyFalse", "true",
                                   "false", "raised"},
                             on : Connections \cup {None}, done : 0 .. Statements,
                             stored : 0 .. Statements, calls : 0 .. MaxCalls]]

\* A connection is in the pool or with exactly one running transaction, and
\* one in the pool has no uncommitted work of an earlier caller.
ConnectionOfOne ==
    /\ \A t \in PgClients : InUse(t) =>
          pgCall[t].on \in Connections \ free /\ \A u \in PgClients \ {t} :
              InUse(u) => pgCall[u].on # pgCall[t].on
    /\ \A c \in Connections : (c \in free <=> \A t \in PgClients : InUse(t) => pgCall[t].on # c)
    /\ \A c \in free : ~conn[c].open

\* True is returned only for a transaction stored as a whole.
TrueIsStored == \A t \in PgClients : pgCall[t].pc = "true" => pgCall[t].stored = Statements

\* Pooled connections serve one transaction, which is whole when it is True.
ConnectionsSound == PgTypeOK /\ ConnectionOfOne /\ TrueIsStored
=============================================================================
