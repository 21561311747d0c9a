------------------------------ MODULE WorkQueue ------------------------------
(***************************************************************************)
(* The work queue of ztoq/work_queue.py with a thread pool (worker type    *)
(* THREAD, the default).  Three kinds of actors share its state:           *)
(*                                                                         *)
(*   - the coroutines of clients (add_work, cancel_work, stop ...) and     *)
(*   - the manager task _manage_executor_queue, which run on one event     *)
(*     loop and interleave only where one of them awaits;                  *)
(*   - the executor's workers, which run at any moment and write the       *)
(*     status of the item they process.                                    *)
(*                                                                         *)
(* Abstractions: a work item is its id; input data, results, callbacks,    *)
(* metadata and timestamps are left out, except the order of completed_at, *)
(* by which old items are evicted.  The dictionary of futures local to the *)
(* manager is a set: the order in which finished futures are handled is    *)
(* left open.  should_stop has no variable: stop() sets it and cancels the *)
(* manager without awaiting in between, so nobody else ever reads it True. *)
(***************************************************************************)
EXTENDS Integers, Sequences, FiniteSets

CONSTANTS
    Items,              \* the ids that add_work can create (uuid4: never reused)
    Priorities,         \* priorities that clients ask for
    MaxAttempts,        \* max_attempts
    MaxWorkers,         \* max_workers
    MaxCompletedItems,  \* max_completed_items
    CleanupInterval,    \* cleanup_interval
    BatchSizes,         \* bound: sizes of the batches clients add
    MaxStarts           \* bound: how often start() launches a manager

ASSUME ItemsAssumption == IsFiniteSet(Items)
ASSUME PrioritiesAssumption == Priorities \subseteq Int /\ Priorities # {}
ASSUME LimitsAssumption ==
    /\ MaxAttempts \in Nat \ {0}
    /\ MaxWorkers \in Nat \ {0}
    /\ MaxCompletedItems \in Nat
    /\ CleanupInterval \in Nat \ {0}
    /\ MaxStarts \in Nat
    /\ BatchSizes \subseteq Nat

VARIABLES
    \* One WorkItem per id; status "none" is an id nobody has created yet.
    status, priority, dependencies, attempt, completed_at,
    \* The tracking collections of the queue object.
    work_items, queue, pending, running, completed, failed,
    \* futures of the queue object (its keys), and the latest future of each id.
    futures, future,
    \* The manager task: where it is, its local futures, the finished ones
    \* it is about to handle.
    mgr, mgrFutures, reap,
    \* is_running, whether the executor accepts work, progress of stop(), and
    \* the number of start()s so far.
    isRunning, executorUp, stopper, starts

itemVars == <<status, priority, dependencies, attempt, completed_at>>
trackVars == <<work_items, queue, pending, running, completed, failed>>
futureVars == <<futures, future>>
mgrVars == <<mgr, mgrFutures, reap>>
lifeVars == <<isRunning, executorUp, stopper, starts>>
vars == <<itemVars, trackVars, futureVars, mgrVars, lifeVars>>

WorkStatus == {"pending", "running", "completed", "failed", "cancelled"}

\* A future is submitted, then executing; "returned" is the moment in which the
\* worker has set the item's status and the future is not done() yet.
FutureState == {"none", "submitted", "executing", "returned", "done", "cancelled"}

-----------------------------------------------------------------------------
(***************************************************************************)
(* Helpers.                                                                *)
(***************************************************************************)
Elems(q) == {q[i] : i \in 1..Len(q)}

\* The places where list.append followed by the stable descending sort by
\* priority puts an element of priority p: behind every element of at least
\* this priority.  There is exactly one when q is sorted, which it always is.
Slots(q, p) ==
    {k \in 0..Len(q) : /\ \A i \in 1..k : priority[q[i]] >= p
                       /\ \A i \in (k + 1)..Len(q) : priority[q[i]] < p}

InsertAfter(q, k, s) == SubSeq(q, 1, k) \o s \o SubSeq(q, k + 1, Len(q))

\* queue' after appending the ids of s, all of priority p, and sorting.
Enqueue(s, p) == \E k \in Slots(queue, p) : queue' = InsertAfter(queue, k, s)

\* q without the element at position i.
Without(q, i) == SubSeq(q, 1, i - 1) \o SubSeq(q, i + 1, Len(q))

\* Mutant: the status is not checked.
is_retriable_AnyStatus(w) == status[w] # "none" /\ attempt[w] < MaxAttempts

\* Mutant: off by one.
is_retriable_OneMore(w) == status[w] = "failed" /\ attempt[w] <= MaxAttempts

is_retriable(w) == status[w] = "failed" /\ attempt[w] < MaxAttempts

\* Mutant: one completed dependency is enough.
DependenciesCompleted_Any(w) ==
    dependencies[w] # {} => \E d \in dependencies[w] : d \in work_items /\ status[d] = "completed"

DependenciesCompleted(w) ==
    \A d \in dependencies[w] : d \in work_items /\ status[d] = "completed"

\* Mutant: sorted the wrong way round.
Oldest_Newest(S, n) ==
    {w \in S : Cardinality({v \in S : completed_at[v] > completed_at[w]}) < n}

\* The n members of S that completed first.
Oldest(S, n) ==
    {w \in S : Cardinality({v \in S : completed_at[v] < completed_at[w]}) < n}

\* What _cleanup_old_completed_items evicts, given the completed ids.
Evicted(done) ==
    IF Cardinality(done) % CleanupInterval = 0 /\ Cardinality(done) > MaxCompletedItems
      THEN Oldest(done, Cardinality(done) - MaxCompletedItems)
      ELSE {}

\* Nobody holds the event loop: the manager is suspended in a sleep (or is not
\* there) and no stop() is blocked in executor.shutdown(wait=True).
LoopFree == mgr \in {"off", "sleep"} /\ stopper # "draining"

-----------------------------------------------------------------------------
(***************************************************************************)
(* Coroutines of the clients.  Each runs without suspending.               *)
(***************************************************************************)
\* add_work, add_batch and add_with_dependencies: new items, in the order s,
\* of one priority, deps[w] being the dependencies of w.
AddItems(s, p, deps) ==
    /\ LoopFree
    /\ \A i \in 1..Len(s) : status[s[i]] = "none"
    /\ status' = [w \in Items |-> IF w \in Elems(s) THEN "pending" ELSE status[w]]
    /\ priority' = [w \in Items |-> IF w \in Elems(s) THEN p ELSE priority[w]]
    /\ dependencies' = [w \in Items |-> IF w \in Elems(s) THEN deps[w] ELSE dependencies[w]]
    /\ work_items' = work_items \cup Elems(s)
    /\ pending' = pending \cup Elems(s)
    /\ Enqueue(s, p)
    /\ UNCHANGED <<attempt, completed_at, running, completed, failed>>
    /\ UNCHANGED <<futureVars, mgrVars, lifeVars>>

\* add_work(priority, dependencies): the dependencies are ids that add_work
\* returned earlier, so they exist or have been evicted.
AddWork(w, p, deps) ==
    /\ \A d \in deps : status[d] # "none"
    /\ AddItems(<<w>>, p, [v \in {w} |-> deps])

\* add_with_dependencies (add_batch when the graph has no edges): all items are
\* added first, then the edges, so a dependency may point at any of them.
AddWithDependencies(s, p, graph) ==
    /\ \A i, j \in 1..Len(s) : s[i] = s[j] => i = j
    /\ AddItems(s, p, graph)

\* queue.remove(w), which takes out the first occurrence.
RemovedFromQueue(w) ==
    IF w \in Elems(queue)
      THEN \E i \in 1..Len(queue) :
              /\ queue[i] = w
              /\ \A j \in 1..(i - 1) : queue[j] # w
              /\ queue' = Without(queue, i)
      ELSE UNCHANGED queue

\* Mutant: running work can be cancelled too.
cancel_work_Running(w) ==
    /\ LoopFree
    /\ w \in work_items
    /\ status[w] \in {"pending", "failed", "running"}
    /\ status' = [status EXCEPT ![w] = "cancelled"]
    /\ pending' = pending \ {w}
    /\ failed' = failed \ {w}
    /\ RemovedFromQueue(w)
    /\ futures' = futures \ {w}
    /\ UNCHANGED <<priority, dependencies, attempt, completed_at, future>>
    /\ UNCHANGED <<work_items, running, completed, mgrVars, lifeVars>>

cancel_work(w) ==
    /\ LoopFree
    /\ w \in work_items
    /\ status[w] \in {"pending", "failed"}
    /\ status' = [status EXCEPT ![w] = "cancelled"]
    /\ pending' = pending \ {w}
    /\ failed' = failed \ {w}
    /\ RemovedFromQueue(w)
    /\ futures' = futures \ {w}
    \* Future.cancel() has an effect only before a worker has taken the item.
    /\ future' = IF w \in futures /\ future[w] = "submitted"
                   THEN [future EXCEPT ![w] = "cancelled"] ELSE future
    /\ UNCHANGED <<priority, dependencies, attempt, completed_at>>
    /\ UNCHANGED <<work_items, running, completed, mgrVars, lifeVars>>

\* Mutant: a status that WorkStatus does not have.
retry_work_Retrying(w) ==
    /\ LoopFree
    /\ w \in work_items
    /\ is_retriable(w)
    /\ status' = [status EXCEPT ![w] = "retrying"]
    /\ failed' = failed \ {w}
    /\ pending' = pending \cup {w}
    /\ Enqueue(<<w>>, priority[w])
    /\ UNCHANGED <<priority, dependencies, attempt, completed_at>>
    /\ UNCHANGED <<work_items, running, completed, futureVars, mgrVars, lifeVars>>

retry_work(w) ==
    /\ LoopFree
    /\ w \in work_items
    /\ is_retriable(w)
    /\ status' = [status EXCEPT ![w] = "pending"]
    /\ failed' = failed \ {w}
    /\ pending' = pending \cup {w}
    /\ Enqueue(<<w>>, priority[w])
    /\ UNCHANGED <<priority, dependencies, attempt, completed_at>>
    /\ UNCHANGED <<work_items, running, completed, futureVars, mgrVars, lifeVars>>

start ==
    /\ LoopFree
    /\ ~isRunning
    /\ starts < MaxStarts
    /\ isRunning' = TRUE
    /\ starts' = starts + 1
    /\ mgr' = "sleep"       \* the task is created, its first step comes later
    /\ mgrFutures' = {}
    /\ UNCHANGED <<itemVars, trackVars, futureVars, reap, executorUp, stopper>>

\* Mutant: every known item is cancelled, not only the pending ones.
stop_CancelsAll(wait_for_completion) ==
    /\ LoopFree
    /\ isRunning
    /\ stopper = "none"
    /\ status' = [w \in Items |-> IF w \in work_items THEN "cancelled" ELSE status[w]]
    /\ pending' = pending \ work_items
    /\ executorUp' = FALSE
    /\ stopper' = IF wait_for_completion THEN "draining" ELSE "cancelling"
    /\ UNCHANGED <<priority, dependencies, attempt, completed_at>>
    /\ UNCHANGED <<work_items, queue, running, completed, failed>>
    /\ UNCHANGED <<futureVars, mgrVars, isRunning, starts>>

\* stop() up to executor.shutdown.  Its wait for running_work_ids never loops,
\* since should_stop is already True when the loop condition is read.
stop(wait_for_completion) ==
    /\ LoopFree
    /\ isRunning
    /\ stopper = "none"
    /\ status' = [w \in Items |-> IF w \in pending \cap work_items THEN "cancelled" ELSE status[w]]
    /\ pending' = pending \ work_items
    /\ executorUp' = FALSE
    /\ stopper' = IF wait_for_completion THEN "draining" ELSE "cancelling"
    /\ UNCHANGED <<priority, dependencies, attempt, completed_at>>
    /\ UNCHANGED <<work_items, queue, running, completed, failed>>
    /\ UNCHANGED <<futureVars, mgrVars, isRunning, starts>>

\* shutdown(wait=True) returns: every submitted call has run.
ShutdownReturns ==
    /\ stopper = "draining"
    /\ \A w \in Items : future[w] \notin {"submitted", "executing", "returned"}
    /\ stopper' = "cancelling"
    /\ UNCHANGED <<itemVars, trackVars, futureVars, mgrVars, isRunning, executorUp, starts>>

\* The manager gets CancelledError in its sleep, leaves its loop and cancels the
\* futures that no worker has taken; stop() returns.
ManagerCancelled ==
    /\ stopper = "cancelling"
    /\ mgr = "sleep"
    /\ mgr' = "off"
    /\ future' = [w \in Items |-> IF w \in mgrFutures /\ future[w] = "submitted"
                                    THEN "cancelled" ELSE future[w]]
    /\ mgrFutures' = {}
    /\ isRunning' = FALSE
    /\ stopper' = "none"
    /\ UNCHANGED <<itemVars, trackVars, futures, reap, executorUp, starts>>

-----------------------------------------------------------------------------
(***************************************************************************)
(* The manager task _manage_executor_queue.  From the moment it wakes up   *)
(* until it sleeps again no client runs; the workers do.                   *)
(***************************************************************************)
\* Top of the loop: the futures that are done() now are handled next.
ManagerScans ==
    /\ \/ mgr = "sleep" /\ stopper = "none"
       \/ mgr = "loop"
    /\ mgr' = "reap"
    /\ reap' = {w \in mgrFutures : future[w] \in {"done", "cancelled"}}
    /\ UNCHANGED <<itemVars, trackVars, futureVars, mgrFutures, lifeVars>>

\* _handle_completed_future, common part: the id leaves running_work_ids and
\* the manager's futures.
Reaps(w) ==
    /\ mgr = "reap"
    /\ w \in reap
    /\ reap' = reap \ {w}
    /\ running' = running \ {w}
    /\ mgrFutures' = mgrFutures \ {w}
    /\ UNCHANGED <<priority, dependencies, attempt, completed_at, mgr, futureVars, lifeVars>>

HandleCompleted(w) ==
    /\ Reaps(w)
    /\ status[w] = "completed"
    /\ LET done == completed \cup {w}
       IN  /\ completed' = done \ Evicted(done)
           /\ work_items' = work_items \ Evicted(done)
    /\ UNCHANGED <<status, queue, pending, failed>>

\* Mutant: the item is not put into pending_work_ids.
HandleRetriable_NotPending(w) ==
    /\ Reaps(w)
    /\ is_retriable(w)
    /\ status' = [status EXCEPT ![w] = "pending"]
    /\ failed' = failed \ {w}
    /\ Enqueue(<<w>>, priority[w])
    /\ UNCHANGED <<work_items, pending, completed>>

\* Mutant: the item is not put back into the queue.
HandleRetriable_NotQueued(w) ==
    /\ Reaps(w)
    /\ is_retriable(w)
    /\ status' = [status EXCEPT ![w] = "pending"]
    /\ pending' = pending \cup {w}
    /\ failed' = failed \ {w}
    /\ UNCHANGED <<work_items, queue, completed>>

HandleRetriable(w) ==
    /\ Reaps(w)
    /\ is_retriable(w)
    /\ status' = [status EXCEPT ![w] = "pending"]
    /\ pending' = pending \cup {w}
    /\ failed' = failed \ {w}
    /\ Enqueue(<<w>>, priority[w])
    /\ UNCHANGED <<work_items, completed>>

HandleFailed(w) ==
    /\ Reaps(w)
    /\ status[w] = "failed"
    /\ ~is_retriable(w)
    /\ failed' = failed \cup {w}
    /\ UNCHANGED <<status, work_items, queue, pending, completed>>

\* A client has cancelled or retried the item since it failed (or, in a process
\* pool, the call never ran): nothing but the common part.
HandleOther(w) ==
    /\ Reaps(w)
    /\ status[w] \notin {"completed", "failed"}
    /\ UNCHANGED <<status, work_items, queue, pending, completed, failed>>

_handle_completed_future(w) ==
    \/ HandleCompleted(w)
    \/ HandleRetriable(w)
    \/ HandleFailed(w)
    \/ HandleOther(w)

\* Mutant: off by one.
Saturated_OneMore == Cardinality(mgrFutures) > MaxWorkers

Saturated == Cardinality(mgrFutures) >= MaxWorkers

ManagerWaits ==
    /\ mgr = "reap" /\ reap = {}
    /\ Saturated \/ queue = <<>>
    /\ mgr' = "sleep"
    /\ UNCHANGED <<itemVars, trackVars, futureVars, mgrFutures, reap, lifeVars>>

\* The manager has a free worker and pops w off the queue.
Pops(w) ==
    /\ mgr = "reap" /\ reap = {}
    /\ ~Saturated
    /\ queue # <<>>
    /\ w = Head(queue)

ManagerSkips(w) ==
    /\ Pops(w)
    /\ w \notin work_items \/ status[w] = "cancelled"
    /\ queue' = Tail(queue)
    /\ mgr' = "loop"
    /\ UNCHANGED <<itemVars, work_items, pending, running, completed, failed>>
    /\ UNCHANGED <<futureVars, mgrFutures, reap, lifeVars>>

\* Mutant: appended, not sorted.
ManagerDefers_Appends(w) ==
    /\ Pops(w)
    /\ w \in work_items /\ status[w] # "cancelled"
    /\ ~DependenciesCompleted(w)
    /\ queue' = Append(Tail(queue), w)
    /\ mgr' = "sleep"
    /\ UNCHANGED <<itemVars, work_items, pending, running, completed, failed>>
    /\ UNCHANGED <<futureVars, mgrFutures, reap, lifeVars>>

ManagerDefers(w) ==
    /\ Pops(w)
    /\ w \in work_items /\ status[w] # "cancelled"
    /\ ~DependenciesCompleted(w)
    /\ \E k \in Slots(Tail(queue), priority[w]) :
          queue' = InsertAfter(Tail(queue), k, <<w>>)
    /\ mgr' = "sleep"
    /\ UNCHANGED <<itemVars, work_items, pending, running, completed, failed>>
    /\ UNCHANGED <<futureVars, mgrFutures, reap, lifeVars>>

\* Mutant: the attempt is not counted.
MarksRunning_NotCounted(w) ==
    /\ Pops(w)
    /\ w \in work_items /\ status[w] # "cancelled"
    /\ DependenciesCompleted(w)
    /\ queue' = Tail(queue)
    /\ status' = [status EXCEPT ![w] = "running"]
    /\ pending' = pending \ {w}
    /\ running' = running \cup {w}
    /\ UNCHANGED <<priority, dependencies, attempt, completed_at>>
    /\ UNCHANGED <<work_items, completed, failed, reap, lifeVars>>

\* mark_running and the bookkeeping before executor.submit.
MarksRunning(w) ==
    /\ Pops(w)
    /\ w \in work_items /\ status[w] # "cancelled"
    /\ DependenciesCompleted(w)
    /\ queue' = Tail(queue)
    /\ status' = [status EXCEPT ![w] = "running"]
    /\ attempt' = [attempt EXCEPT ![w] = @ + 1]
    /\ pending' = pending \ {w}
    /\ running' = running \cup {w}
    /\ UNCHANGED <<priority, dependencies, completed_at>>
    /\ UNCHANGED <<work_items, completed, failed, reap, lifeVars>>

ManagerSubmits(w) ==
    /\ MarksRunning(w)
    /\ executorUp
    /\ mgrFutures' = mgrFutures \cup {w}
    /\ futures' = futures \cup {w}
    /\ future' = [future EXCEPT ![w] = "submitted"]
    /\ mgr' = "loop"

\* The executor was shut down by an earlier stop(): submit raises, the manager
\* logs the error and sleeps.
SubmitRaises(w) ==
    /\ MarksRunning(w)
    /\ ~executorUp
    /\ mgr' = "sleep"
    /\ UNCHANGED <<mgrFutures, futureVars>>

-----------------------------------------------------------------------------
(***************************************************************************)
(* The executor's workers: _process_worker_item and the future around it.  *)
(***************************************************************************)
WorkerTakes(w) ==
    /\ future[w] = "submitted"
    /\ future' = [future EXCEPT ![w] = "executing"]
    /\ UNCHANGED <<itemVars, trackVars, futures, mgrVars, lifeVars>>

WorkerSucceeds(w) ==
    /\ future[w] = "executing"
    /\ status' = [status EXCEPT ![w] = "completed"]
    /\ completed_at' = [completed_at EXCEPT
                          ![w] = Cardinality({v \in Items : status[v] = "completed"}) + 1]
    /\ future' = [future EXCEPT ![w] = "returned"]
    /\ UNCHANGED <<priority, dependencies, attempt, trackVars, futures, mgrVars, lifeVars>>

WorkerFails(w) ==
    /\ future[w] = "executing"
    /\ status' = [status EXCEPT ![w] = "failed"]
    /\ future' = [future EXCEPT ![w] = "returned"]
    /\ UNCHANGED <<priority, dependencies, attempt, completed_at>>
    /\ UNCHANGED <<trackVars, futures, mgrVars, lifeVars>>

FutureDone(w) ==
    /\ future[w] = "returned"
    /\ future' = [future EXCEPT ![w] = "done"]
    /\ UNCHANGED <<itemVars, trackVars, futures, mgrVars, lifeVars>>

-----------------------------------------------------------------------------
Init ==
    /\ status = [w \in Items |-> "none"]
    /\ priority = [w \in Items |-> CHOOSE p \in Priorities : TRUE]
    /\ dependencies = [w \in Items |-> {}]
    /\ attempt = [w \in Items |-> 0]
    /\ completed_at = [w \in Items |-> 0]
    /\ work_items = {} /\ queue = <<>>
    /\ pending = {} /\ running = {} /\ completed = {} /\ failed = {}
    /\ futures = {} /\ future = [w \in Items |-> "none"]
    /\ mgr = "off" /\ mgrFutures = {} /\ reap = {}
    /\ isRunning = FALSE /\ executorUp = TRUE
    /\ stopper = "none" /\ starts = 0

Worker(w) ==
    \/ WorkerTakes(w) \/ WorkerSucceeds(w) \/ WorkerFails(w)
    \/ FutureDone(w)

ManagerStep(w) ==
    \/ _handle_completed_future(w)
    \/ ManagerSkips(w) \/ ManagerDefers(w) \/ ManagerSubmits(w) \/ SubmitRaises(w)

Manager ==
    \/ ManagerScans
    \/ ManagerWaits
    \/ \E w \in Items : ManagerStep(w)

Shutdown == ShutdownReturns \/ ManagerCancelled

Batches == UNION {[1..n -> Items] : n \in BatchSizes}

Adds ==
    \/ \E w \in Items, p \in Priorities, deps \in SUBSET Items : AddWork(w, p, deps)
    \/ \E s \in Batches, p \in Priorities :
          \E graph \in [Elems(s) -> SUBSET Elems(s)] : AddWithDependencies(s, p, graph)

Client ==
    \/ Adds
    \/ \E w \in Items : cancel_work(w) \/ retry_work(w)
    \/ start
    \/ \E wait \in BOOLEAN : stop(wait)

Next == Client \/ Manager \/ Shutdown \/ \E w \in Items : Worker(w)

Spec == Init /\ [][Next]_vars

\* The event loop runs the manager's ready steps, the executor its threads, and
\* every call of the worker function returns; nothing is assumed of clients.
Fairness ==
    /\ WF_vars(Manager)
    /\ WF_vars(Shutdown)
    /\ \A w \in Items : WF_vars(Worker(w))

FairSpec == Spec /\ Fairness

-----------------------------------------------------------------------------
(***************************************************************************)
(* Properties.                                                             *)
(***************************************************************************)
\* Type invariant.
TypeOK ==
    /\ status \in [Items -> WorkStatus \cup {"none"}]
    /\ priority \in [Items -> Priorities]
    /\ dependencies \in [Items -> SUBSET Items]
    /\ attempt \in [Items -> Nat]
    /\ completed_at \in [Items -> Nat]
    /\ work_items \subseteq Items
    /\ queue \in Seq(Items)
    /\ pending \subseteq Items /\ running \subseteq Items
    /\ completed \subseteq Items /\ failed \subseteq Items
    /\ futures \subseteq Items
    /\ future \in [Items -> FutureState]
    /\ mgr \in {"off", "sleep", "loop", "reap"}
    /\ mgrFutures \subseteq Items /\ reap \subseteq Items
    /\ isRunning \in BOOLEAN /\ executorUp \in BOOLEAN
    /\ stopper \in {"none", "draining", "cancelling"}
    /\ starts \in 0..MaxStarts

\* No id is in the queue twice: an item that a client retries while its failure
\* is still unhandled is not queued again by the manager.
NoDuplicates == \A i, j \in 1..Len(queue) : queue[i] = queue[j] => i = j

\* An item is pending exactly when it is tracked as pending, it is then waiting
\* in the queue, and what else waits there was cancelled by stop(): no pending
\* item is ever lost and nothing that is not pending is submitted.
QueueTracksPending ==
    /\ pending = {w \in Items : status[w] = "pending"}
    /\ pending \subseteq Elems(queue)
    /\ \A w \in Elems(queue) : status[w] \in {"pending", "cancelled"}

\* The head of the queue has the highest priority of all waiting items,
\* whatever the order of additions, retries, deferrals and cancellations.
QueueSorted ==
    \A i, j \in 1..Len(queue) : i <= j => priority[queue[i]] >= priority[queue[j]]

\* No more than max_workers calls are submitted to the executor at a time, across
\* retries of unhandled failures and stop().
WorkerLimit ==
    Cardinality({w \in Items : future[w] \in {"submitted", "executing"}}) <= MaxWorkers

\* An item that was ever started has only dependencies that completed, even when
\* they have been evicted since.
DependencyOrder ==
    \A w \in Items : attempt[w] > 0 => \A d \in dependencies[w] : status[d] = "completed"

\* No item is started more than max_attempts times, however the retries of
\* clients and of the manager interleave.
AttemptBound == \A w \in Items : attempt[w] <= MaxAttempts

\* The look-ups and set.remove calls of _handle_completed_future never raise: what
\* the manager has in flight is in work_items and running_work_ids.
InFlightTracked == mgrFutures \subseteq (running \cap work_items)

\* A call that a worker may still execute belongs to a running item, so the
\* status that the worker writes overwrites no decision of a client.
ExecutingIsRunning ==
    \A w \in Items : future[w] \in {"submitted", "executing"} => status[w] = "running"

\* The tracking sets agree with the status: what is filed as completed or failed
\* is so for good, and a completed item in memory is filed or about to be.
TrackingAgrees ==
    /\ \A w \in completed : status[w] = "completed"
    /\ \A w \in failed : status[w] = "failed" /\ attempt[w] >= MaxAttempts
    /\ \A w \in work_items : status[w] = "completed" => w \in completed \cup running

\* Eviction keeps the completed items in memory bounded by the two settings.
CompletedBounded == Cardinality(completed) < MaxCompletedItems + CleanupInterval

\* Eviction takes the oldest: whatever stays filed after a clean-up completed later
\* than everything it removes, in whatever order the manager filed them.
EvictsOldest ==
    [][\A v \in work_items \ work_items', w \in completed' :
          completed_at[v] < completed_at[w]]_vars

\* completed and cancelled are final: no late worker, retry or restart revives
\* the item.
FinalStatus ==
    [][\A w \in Items : status[w] \in {"completed", "cancelled"} => status'[w] = status[w]]_vars

Settled(w) ==
    \/ status[w] \in {"completed", "cancelled"}
    \/ status[w] = "failed" /\ attempt[w] = MaxAttempts

\* While the queue runs, an item whose dependencies are complete is processed:
\* it completes, fails for good or is cancelled, unless stop() or the eviction of
\* a dependency comes first.
ReadyItemsSettle ==
    \A w \in Items :
        (isRunning /\ status[w] = "pending" /\ DependenciesCompleted(w))
            ~> (Settled(w) \/ ~isRunning \/ ~DependenciesCompleted(w))

\* The executor's load and the bookkeeping of the manager are those of the items.
BookkeepingAgrees == WorkerLimit /\ InFlightTracked /\ TrackingAgrees

\* The shape of the queue and of the completed items: sorted and bounded.
QueueShape == QueueSorted /\ CompletedBounded
=============================================================================
