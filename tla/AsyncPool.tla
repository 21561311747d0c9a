----------------------------- MODULE AsyncPool ------------------------------
(***************************************************************************)
(* AsyncConnectionPool and close_connection_pools (ztoq/connection_pool.py)*)
(* One client per base URL; get_client takes the class's re-entrant lock.  *)
(* close_all is a coroutine that holds this lock while it awaits the close *)
(* of each client: other threads wait, other coroutines of the same event  *)
(* loop do not.  close_connection_pools, called inside the running loop,   *)
(* waits for a coroutine that only this loop can run, until its timeout.   *)
(***************************************************************************)
EXTENDS Integers, FiniteSets

CONSTANTS
    BaseUrls,     \* keys of self.clients
    AsyncUsers,   \* coroutines that ask for clients
    OuterUsers,   \* threads without an event loop that ask for clients
    Closers,      \* coroutines that await close_all
    MaxClients    \* bound on the clients created

ASSUME AsyncPoolAssumption == MaxClients \in Nat /\ AsyncUsers \cap OuterUsers = {}

VARIABLES
    clientOf,   \* self.clients: the client of a base URL, 0 if it has none
    made,       \* per client: "none", "open", "closed", "dropped"
    holding,    \* per user: the client it was given last (0: none)
    closing,    \* per close under way: clients of its copy still to close
    main        \* close_connection_pools: where it is and who called it
asyncPoolVars == <<clientOf, made, holding, closing, main>>

Clients == 1..MaxClients
\* Besides Closers: the coroutine that close_connection_pools has queued, and
\* the one it runs in a loop of its own.
AllClosers == Closers \cup {"queued", "own"}

AsyncPoolInit ==
    /\ clientOf = [u \in BaseUrls |-> 0]
    /\ made = [c \in Clients |-> "none"]
    /\ holding = [u \in AsyncUsers \cup OuterUsers |-> 0]
    /\ closing = [k \in AllClosers |-> {0}]     \* {0}: not under way
    /\ main = [pc |-> "idle", queued |-> FALSE]

UnderWay(k) == closing[k] # {0}
HeldByLoop == \E k \in Closers \cup {"queued"} : UnderWay(k)
HeldByMain == UnderWay("own")

\* A coroutine runs while close_connection_pools does not block its loop; it
\* takes the lock while no other thread has it.
LoopRuns == main.pc # "waits" /\ ~HeldByMain

\* get_client: the client of this URL, created when there is none.
GetClient(user, u) ==
    /\ IF user \in AsyncUsers THEN LoopRuns ELSE ~HeldByLoop /\ ~HeldByMain
    /\ IF clientOf[u] # 0
       THEN /\ holding' = [holding EXCEPT ![user] = clientOf[u]]
            /\ UNCHANGED <<clientOf, made>>
       ELSE \E c \in Clients :
              /\ made[c] = "none" /\ \A d \in Clients : d < c => made[d] # "none"
              /\ made' = [made EXCEPT ![c] = "open"]
              /\ clientOf' = [clientOf EXCEPT ![u] = c]
              /\ holding' = [holding EXCEPT ![user] = c]
    /\ UNCHANGED <<closing, main>>

Registered == {clientOf[u] : u \in BaseUrls} \ {0}

\* close_all: copy the clients under the lock ...
BeginClose(k) ==
    /\ k \in Closers \cup {"queued"}
    /\ LoopRuns /\ ~UnderWay(k)
    /\ k = "queued" => main.queued
    /\ closing' = [closing EXCEPT ![k] = Registered]
    /\ main' = IF k = "queued" THEN [main EXCEPT !.queued = FALSE] ELSE main
    /\ UNCHANGED <<clientOf, made, holding>>

\* ... await the close of each (an exception is logged) ...
AwaitClose(k, c) ==
    /\ UnderWay(k) /\ c \in closing[k]
    /\ k = "own" \/ main.pc # "waits"
    /\ closing' = [closing EXCEPT ![k] = @ \ {c}]
    /\ made' = [made EXCEPT ![c] = "closed"]
    /\ UNCHANGED <<clientOf, holding, main>>

Emptied == [u \in BaseUrls |-> 0]
\* A registered client that was not closed has no owner any more.
Dropped == [c \in Clients |-> IF c \in Registered /\ made[c] = "open" THEN "dropped" ELSE made[c]]

\* Mutant: the registry is not emptied.
EndClose_KeepsRegistry(k) ==
    /\ closing[k] = {}
    /\ k = "own" \/ main.pc # "waits"
    /\ closing' = [closing EXCEPT ![k] = {0}]
    /\ main' = IF k = "own" THEN [main EXCEPT !.pc = "returned"] ELSE main
    /\ UNCHANGED <<clientOf, made, holding>>

\* ... and empty the registry, with the clients that were added meanwhile.
EndClose(k) ==
    /\ closing[k] = {}
    /\ k = "own" \/ main.pc # "waits"
    /\ clientOf' = Emptied /\ made' = Dropped
    /\ closing' = [closing EXCEPT ![k] = {0}]
    /\ main' = IF k = "own" THEN [main EXCEPT !.pc = "returned"] ELSE main
    /\ UNCHANGED holding

\* close_connection_pools in a coroutine: queue close_all, block the loop.
ShutdownInLoop ==
    /\ main.pc = "idle" /\ ~HeldByMain
    /\ main' = [pc |-> "waits", queued |-> TRUE]
    /\ UNCHANGED <<clientOf, made, holding, closing>>

\* In a thread that runs no loop: asyncio.run of close_all in a new one.
ShutdownOutside ==
    /\ main.pc = "idle" /\ ~HeldByLoop
    /\ closing' = [closing EXCEPT !["own"] = Registered]
    /\ main' = [main EXCEPT !.pc = "runs"]
    /\ UNCHANGED <<clientOf, made, holding>>

\* The wait of five seconds is over: _close_sync_connections.  An httpx
\* transport of asyncio has no close(), only aclose(): nothing is closed.
\* The queued close_all stays queued.
TimeoutThenSync ==
    /\ main.pc = "waits"
    /\ clientOf' = Emptied /\ made' = Dropped
    /\ main' = [main EXCEPT !.pc = "returned"]
    /\ UNCHANGED <<holding, closing>>

AsyncPoolNext ==
    \/ \E user \in AsyncUsers \cup OuterUsers, u \in BaseUrls : GetClient(user, u)
    \/ \E k \in AllClosers :
         BeginClose(k) \/ EndClose(k) \/ \E c \in Clients : AwaitClose(k, c)
    \/ ShutdownInLoop \/ ShutdownOutside \/ TimeoutThenSync

\* An awaited close ends, the loop runs what is ready, the wait has a timeout.
AsyncPoolFairness ==
    /\ \A k \in AllClosers : WF_asyncPoolVars(EndClose(k) \/ \E c \in Clients : AwaitClose(k, c))
    /\ WF_asyncPoolVars(BeginClose("queued"))
    /\ WF_asyncPoolVars(TimeoutThenSync)

AsyncPoolSpec == AsyncPoolInit /\ [][AsyncPoolNext]_asyncPoolVars /\ AsyncPoolFairness

----------------------------------------------------------------------------
(***************************** Properties *********************************)

\* Types of the registry, the clients and the closes.
AsyncPoolTypeOK ==
    /\ clientOf \in [BaseUrls -> 0..MaxClients]
    /\ made \in [Clients -> {"none", "open", "closed", "dropped"}]
    /\ holding \in [AsyncUsers \cup OuterUsers -> 0..MaxClients]
    /\ closing \in [AllClosers -> SUBSET (0..MaxClients)]
    /\ main.pc \in {"idle", "waits", "runs", "returned"} /\ main.queued \in BOOLEAN

\* get_client hands out a closed client at most while a close is under way:
\* once the closes have ended no closed client is left in the registry,
\* whatever was added or replaced while they awaited.
RegistryOpenAtRest ==
    (\A k \in AllClosers : ~UnderWay(k)) => \A c \in Registered : made[c] = "open"

\* A thread outside the loop never finds a closed client: it waits for the
\* lock that the coroutine keeps across its awaits.
OuterUsersFindOpen ==
    [][\A user \in OuterUsers : holding'[user] # holding[user] =>
            made'[holding'[user]] = "open"]_asyncPoolVars

\* The clientOf never holds a client that was dropped, and one client never
\* serves two URLs: a close that overlaps another one re-registers nothing.
RegistryOwns ==
    /\ \A c \in Registered : made[c] # "dropped"
    /\ \A u, v \in BaseUrls : clientOf[u] = clientOf[v] /\ u # v => clientOf[u] = 0

\* close_connection_pools returns, also from within the loop it waits for,
\* and the close_all it left behind is run.
ClosesReturn ==
    main.pc \in {"waits", "runs"} ~> main.pc = "returned" /\ ~main.queued

\* The registry holds open clients of its own once the closes have ended.
RegistrySound == AsyncPoolTypeOK /\ RegistryOpenAtRest /\ RegistryOwns
=============================================================================
