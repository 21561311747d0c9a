--------------------------- MODULE AsyncWorkQueue ---------------------------
(***************************************************************************)
(* The work queue of ztoq/work_queue.py with worker type ASYNCIO, as       *)
(* run_with_asyncio drives it: start, add the batch, wait for the results. *)
(* Everything runs on one event loop, so a step is what happens between    *)
(* two awaits.                                                             *)
(*                                                                         *)
(* PriorityQueue keeps pairs <negated priority, id> and _get returns the   *)
(* id alone; _process_asyncio_queue unpacks what it gets as a pair.  A     *)
(* uuid does not unpack into two values, so the ValueError reaches the     *)
(* handler of the loop with the id already taken off the queue.  The code  *)
(* behind the unpacking (dependencies, mark_running, _process_asyncio_item)*)
(* is never reached and has no action here.                                *)
(***************************************************************************)
EXTENDS Integers, Sequences, FiniteSets

CONSTANTS
    AsyncItems,       \* ids that add_work may create
    AsyncPriorities   \* priorities that clients ask for

ASSUME AsyncAssumption == IsFiniteSet(AsyncItems) /\ AsyncPriorities \subseteq Int

VARIABLES
    asyncQueue,    \* _queue: sequence of [key, id]
    asyncStatus,   \* id -> status, "none" before add_work
    asyncPending,  \* pending_work_ids
    manager,       \* worker_task: "off", "running", "cancelled"
    runner         \* run_with_asyncio: "start", "add", "wait", "returned"
asyncVars == <<asyncQueue, asyncStatus, asyncPending, manager, runner>>

AsyncInit ==
    /\ asyncQueue = <<>>
    /\ asyncStatus = [i \in AsyncItems |-> "none"]
    /\ asyncPending = {}
    /\ manager = "off" /\ runner = "start"

\* PriorityQueue._put: before the first entry with a smaller key.
Put(q, key, id) ==
    LET smaller == {i \in 1..Len(q) : key > q[i].key}
        at == IF smaller = {} THEN Len(q) + 1
              ELSE CHOOSE i \in smaller : \A j \in smaller : i <= j
    IN SubSeq(q, 1, at - 1) \o <<[key |-> key, id |-> id]>> \o SubSeq(q, at, Len(q))

AsyncStart ==
    /\ runner = "start" /\ manager = "off"
    /\ manager' = "running" /\ runner' = "add"
    /\ UNCHANGED <<asyncQueue, asyncStatus, asyncPending>>

\* add_work of one more item; the batch may end after any item.
AsyncAddWork(i, priority) ==
    /\ runner = "add" /\ asyncStatus[i] = "none"
    /\ asyncStatus' = [asyncStatus EXCEPT ![i] = "pending"]
    /\ asyncPending' = asyncPending \cup {i}
    /\ asyncQueue' = Put(asyncQueue, -priority, i)
    /\ UNCHANGED <<manager, runner>>

BatchAdded ==
    /\ runner = "add" /\ runner' = "wait"
    /\ UNCHANGED <<asyncQueue, asyncStatus, asyncPending, manager>>

\* One round of _process_asyncio_queue: the id is taken, the unpacking fails.
\* (The queue is unbounded: adding the batch does not let the manager run.)
AsyncManagerRound ==
    /\ manager = "running" /\ runner # "add" /\ asyncQueue # <<>>
    /\ asyncQueue' = Tail(asyncQueue)
    /\ UNCHANGED <<asyncStatus, asyncPending, manager, runner>>

\* get_batch_results: wait until every item of the batch settled.
AsyncResults ==
    /\ runner = "wait" /\ \A i \in AsyncItems : asyncStatus[i] # "pending"
    /\ runner' = "returned"
    /\ UNCHANGED <<asyncQueue, asyncStatus, asyncPending, manager>>

\* stop in the finally clause: cancel what is pending and the manager.
AsyncStop ==
    /\ runner = "returned" /\ manager = "running"
    /\ manager' = "cancelled"
    /\ asyncStatus' = [i \in AsyncItems |->
                         IF i \in asyncPending THEN "cancelled" ELSE asyncStatus[i]]
    /\ asyncPending' = {}
    /\ UNCHANGED <<asyncQueue, runner>>

AsyncNext ==
    \/ AsyncStart \/ BatchAdded \/ AsyncManagerRound \/ AsyncResults \/ AsyncStop
    \/ \E i \in AsyncItems, p \in AsyncPriorities : AsyncAddWork(i, p)

\* The loop and the manager task run.
AsyncSpec ==
    /\ AsyncInit /\ [][AsyncNext]_asyncVars
    /\ WF_asyncVars(AsyncStart) /\ WF_asyncVars(BatchAdded)
    /\ WF_asyncVars(AsyncManagerRound)
    /\ WF_asyncVars(AsyncResults) /\ WF_asyncVars(AsyncStop)

----------------------------------------------------------------------------
(***************************** Properties *********************************)

\* Types of the queue and its items.
AsyncTypeOK ==
    /\ asyncQueue \in Seq([key : {-p : p \in AsyncPriorities}, id : AsyncItems])
    /\ asyncStatus \in [AsyncItems -> {"none", "pending", "cancelled"}]
    /\ asyncPending \subseteq AsyncItems
    /\ manager \in {"off", "running", "cancelled"}
    /\ runner \in {"start", "add", "wait", "returned"}

\* The comparison of negated priorities keeps the queue sorted, with the
\* lowest priority in front, and nothing pending is lost before the manager
\* takes it.
LowestFirst ==
    /\ \A i, j \in 1..Len(asyncQueue) : i < j => asyncQueue[i].key >= asyncQueue[j].key
    /\ runner = "add" => asyncPending = {asyncQueue[i].id : i \in 1..Len(asyncQueue)}

\* The queue of the asyncio workers.
AsyncQueueSound == AsyncTypeOK /\ LowestFirst
=============================================================================
