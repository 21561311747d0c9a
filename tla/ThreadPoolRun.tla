---------------------------- MODULE ThreadPoolRun ----------------------------
(***************************************************************************)
(* run_in_thread_pool of ztoq/work_queue.py, the                           *)
(* way the workflow orchestrator uses the queue: a queue of its own is     *)
(* started, the items are added as one batch, get_batch_results polls them *)
(* with raise_on_error=True and no timeout, and the queue is stopped.      *)
(* The queue is the one of WorkQueue; the caller is its only client.       *)
(***************************************************************************)
EXTENDS WorkQueue

VARIABLES
    pc,        \* where the caller is
    waiting,   \* pending_ids of get_batch_results
    todo,      \* ids of the current poll not looked at yet
    results,   \* what the poll has recorded per id
    outcome    \* "none", "returned" or "raised"

callerVars == <<pc, waiting, todo, results, outcome>>
runVars == <<vars, callerVars>>

\* The caller is suspended in a sleep or in stop(), or is gone, so that the
\* manager may run.
CallerSuspended == pc \in {"sleeping", "stopping", "done"}

RunStart ==
    /\ pc = "start"
    /\ start
    /\ pc' = "add"
    /\ UNCHANGED <<waiting, todo, results, outcome>>

\* add_batch(items), then the first poll of get_batch_results.
RunAdd ==
    /\ pc = "add"
    /\ \E s \in [1..Cardinality(Items) -> Items], p \in Priorities :
          AddWithDependencies(s, p, [w \in Items |-> {}])
    /\ pc' = "poll"
    /\ waiting' = Items
    /\ todo' = Items
    /\ UNCHANGED <<results, outcome>>

\* Mutant: the id is still waited for.
Records_KeepsWaiting(w, r) ==
    /\ results' = [results EXCEPT ![w] = r]
    /\ todo' = todo \ {w}
    /\ UNCHANGED waiting

Records(w, r) ==
    /\ results' = [results EXCEPT ![w] = r]
    /\ waiting' = waiting \ {w}
    /\ todo' = todo \ {w}

\* One iteration of the poll's for loop.
PollItem(w) ==
    /\ pc = "poll"
    /\ w \in todo
    /\ \/ /\ w \notin work_items
          /\ Records(w, "missing")
          /\ UNCHANGED <<pc, outcome>>
       \/ /\ w \in work_items /\ status[w] = "completed"
          /\ Records(w, "result")
          /\ UNCHANGED <<pc, outcome>>
       \/ /\ w \in work_items /\ status[w] \in {"failed", "cancelled"}
          /\ Records(w, status[w])
          /\ pc' = "stop"
          /\ outcome' = "raised"
       \/ /\ w \in work_items /\ status[w] \in {"pending", "running"}
          /\ todo' = todo \ {w}
          /\ UNCHANGED <<pc, waiting, results, outcome>>
    /\ UNCHANGED vars

PollEnds ==
    /\ pc = "poll"
    /\ todo = {}
    /\ pc' = IF waiting = {} THEN "stop" ELSE "sleeping"
    /\ outcome' = IF waiting = {} THEN "returned" ELSE outcome
    /\ UNCHANGED <<vars, waiting, todo, results>>

PollAgain ==
    /\ pc = "sleeping"
    /\ LoopFree
    /\ pc' = "poll"
    /\ todo' = waiting
    /\ UNCHANGED <<vars, waiting, results, outcome>>

\* Mutant: the queue is stopped without waiting.
RunStop_NoWait ==
    /\ pc = "stop"
    /\ stop(FALSE)
    /\ pc' = "stopping"
    /\ UNCHANGED <<waiting, todo, results, outcome>>

\* finally: await queue.stop()
RunStop ==
    /\ pc = "stop"
    /\ stop(TRUE)
    /\ pc' = "stopping"
    /\ UNCHANGED <<waiting, todo, results, outcome>>

RunReturns ==
    /\ pc = "stopping"
    /\ ~isRunning
    /\ pc' = "done"
    /\ UNCHANGED <<vars, waiting, todo, results, outcome>>

Caller ==
    \/ RunStart \/ RunAdd \/ PollEnds \/ PollAgain \/ RunStop \/ RunReturns
    \/ \E w \in Items : PollItem(w)

RunInit ==
    /\ Init
    /\ pc = "start" /\ waiting = {} /\ todo = {}
    /\ results = [w \in Items |-> "none"] /\ outcome = "none"

QueueStep ==
    /\ \/ CallerSuspended /\ Manager
       \/ Shutdown
       \/ \E w \in Items : Worker(w)
    /\ UNCHANGED callerVars

RunNext == Caller \/ QueueStep

\* The event loop's ready queue is first in, first out: a task whose sleep is over
\* runs however often the other one does, hence strong fairness for waking up.
\* Every call of the worker function returns.
RunSpec ==
    /\ RunInit /\ [][RunNext]_runVars
    /\ WF_runVars(Caller) /\ SF_runVars(PollAgain)
    /\ SF_runVars(CallerSuspended /\ Manager /\ UNCHANGED callerVars)
    /\ WF_runVars(Shutdown /\ UNCHANGED callerVars)
    /\ \A w \in Items : WF_runVars(Worker(w) /\ UNCHANGED callerVars)

-----------------------------------------------------------------------------
\* When the results are returned every item has completed, and an item without a
\* result is one that was evicted before the poll saw it.
ReturnsAllResults ==
    outcome = "returned" => \A w \in Items :
        /\ status[w] = "completed"
        /\ results[w] = "result" \/ (results[w] = "missing" /\ w \notin work_items)

\* Whether it returns or raises, the caller leaves nothing behind: no call is
\* still being executed and no item is pending or running.
LeavesNothingRunning ==
    pc = "done" => \A w \in Items :
        /\ status[w] \in {"completed", "failed", "cancelled"}
        /\ future[w] \notin {"submitted", "executing", "returned"}

\* The call ends.
Terminates == <>(pc = "done")

\* A failure is raised only when it is final: an item that has attempts left will
\* be retried by the manager and its failure is not the batch's.
RaisesOnlyFinalFailures ==
    outcome = "raised" => \A w \in Items : results[w] = "failed" => attempt[w] = MaxAttempts

\* The outcome of the call: all results, and nothing left running.
OutcomeWhole == ReturnsAllResults /\ LeavesNothingRunning

------------------------------------------------------------------------------
\* run_in_process_pool: the same caller and manager with a ProcessPoolExecutor.

\* A process pool has to pickle the bound method _process_worker_item, hence the
\* queue object with its executor, which cannot be pickled: the future gets the
\* exception and the item is never processed.
PickleFails(w) ==
    /\ future[w] = "submitted"
    /\ future' = [future EXCEPT ![w] = "done"]
    /\ UNCHANGED <<itemVars, trackVars, futures, mgrVars, lifeVars>>

ProcessNext ==
    \/ Caller
    \/ CallerSuspended /\ Manager /\ UNCHANGED callerVars
    \/ Shutdown /\ UNCHANGED callerVars
    \/ \E w \in Items : PickleFails(w) /\ UNCHANGED callerVars

ProcessRunSpec ==
    /\ RunInit /\ [][ProcessNext]_runVars
    /\ WF_runVars(Caller) /\ SF_runVars(PollAgain)
    /\ SF_runVars(CallerSuspended /\ Manager /\ UNCHANGED callerVars)
    /\ WF_runVars(Shutdown /\ UNCHANGED callerVars)
    /\ \A w \in Items : WF_runVars(PickleFails(w) /\ UNCHANGED callerVars)
=============================================================================
