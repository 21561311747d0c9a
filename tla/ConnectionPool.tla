---------------------------- MODULE ConnectionPool ----------------------------
(***************************************************************************)
(* ConnectionPool of ztoq/connection_pool.py: one pool of idle HTTP        *)
(* sessions per base URL, shared by client threads (get_session), by the   *)
(* daemon threads of the periodic clean-up and by close_all.               *)
(*                                                                         *)
(* get_session takes the lock three times, and keeps a reference to the    *)
(* list object of its pool in between, while a clean-up or close_all puts  *)
(* another list (or none) in its place.  A list object is therefore        *)
(* identified by its URL and a generation: lists[u][g] outlives the moment *)
(* at which pools[u] is replaced.  Which of the idle sessions is reused is *)
(* left open, so that a list is a set.  Requests, retries and the counters *)
(* of created, reused and failed connections are left out.                 *)
(***************************************************************************)
EXTENDS Integers, FiniteSets, TLC

CONSTANTS
    Threads,        \* client threads
    Cleaners,       \* clean-up threads that may be alive at the same time
    Urls,           \* base URLs
    Sessions,       \* session objects that can be created
    MaxPoolSize,    \* max_pool_size
    MaxGeneration,  \* bound: list objects per URL
    NoSession

ASSUME SetsAssumption ==
    /\ IsFiniteSet(Sessions) /\ IsFiniteSet(Urls) /\ Urls # {}
    /\ NoSession \notin Sessions
ASSUME BoundsAssumption == MaxPoolSize \in Nat /\ MaxGeneration \in Nat \ {0}

VARIABLES
    lists,       \* lists[u][g]: content of the g-th list object of base URL u
    present,     \* the keys of self.pools
    current,     \* current[u]: generation of the list that self.pools[u] is
    created,     \* session objects created so far
    closed,      \* sessions on which close() was called
    pc, url, ref, held,          \* client threads: position, base_url, pool, session
    due,                         \* the clean-up interval has passed
    cpc, toClose,                \* clean-up threads: position, copied sessions
    active_pools                 \* metrics["active_pools"]

poolVars == <<lists, present, current>>
sessionVars == <<created, closed>>
threadVars == <<pc, url, ref, held>>
cleanVars == <<due, cpc, toClose>>
vars == <<poolVars, sessionVars, threadVars, cleanVars, active_pools>>

Generations == 0..MaxGeneration

\* The list that self.pools[u] is.
Pool(u) == lists[u][current[u]]

\* A session is nobody's as long as no list, thread or clean-up refers to it.
InSomeList(s) == \E u \in Urls, g \in Generations : s \in lists[u][g]

-----------------------------------------------------------------------------
(***************************************************************************)
(* get_session.                                                            *)
(***************************************************************************)
\* _get_pool: under the lock, find or create the pool; keep a reference.
_get_pool(t, u) ==
    /\ pc[t] = "idle"
    /\ \/ /\ u \in present
          /\ ref' = [ref EXCEPT ![t] = current[u]]
          /\ UNCHANGED <<present, current, active_pools>>
       \/ /\ u \notin present
          /\ current[u] < MaxGeneration
          /\ present' = present \cup {u}
          /\ current' = [current EXCEPT ![u] = @ + 1]
          /\ ref' = [ref EXCEPT ![t] = current[u] + 1]
          /\ active_pools' = Cardinality(present \cup {u})
    /\ url' = [url EXCEPT ![t] = u]
    /\ pc' = [pc EXCEPT ![t] = "gotPool"]
    /\ UNCHANGED <<lists, sessionVars, held, cleanVars>>

\* Mutant: the session is used without being taken out of the list.
Reuse_NoPop(t) ==
    /\ pc[t] = "gotPool"
    /\ \E s \in lists[url[t]][ref[t]] : held' = [held EXCEPT ![t] = s]
    /\ pc' = [pc EXCEPT ![t] = "acquired"]
    /\ UNCHANGED <<poolVars, sessionVars, url, ref, cleanVars, active_pools>>

\* Under the lock: pool.pop().
Reuse(t) ==
    /\ pc[t] = "gotPool"
    /\ \E s \in lists[url[t]][ref[t]] :
          /\ lists' = [lists EXCEPT ![url[t]][ref[t]] = @ \ {s}]
          /\ held' = [held EXCEPT ![t] = s]
    /\ pc' = [pc EXCEPT ![t] = "acquired"]
    /\ UNCHANGED <<present, current, sessionVars, url, ref, cleanVars, active_pools>>

\* Under the lock: the pool is empty, _create_session.
Create(t) ==
    /\ pc[t] = "gotPool"
    /\ lists[url[t]][ref[t]] = {}
    /\ \E s \in Sessions \ created :
          /\ created' = created \cup {s}
          /\ held' = [held EXCEPT ![t] = s]
    /\ pc' = [pc EXCEPT ![t] = "acquired"]
    /\ UNCHANGED <<poolVars, closed, url, ref, cleanVars, active_pools>>

\* _maybe_cleanup, the test; the lock is not held.
MaybeCleanup(t) ==
    /\ pc[t] = "acquired"
    /\ pc' = [pc EXCEPT ![t] = IF due THEN "spawning" ELSE "using"]
    /\ UNCHANGED <<poolVars, sessionVars, url, ref, held, cleanVars, active_pools>>

\* _maybe_cleanup, the clean-up thread is started and _last_cleanup set.
SpawnCleanup(t) ==
    /\ pc[t] = "spawning"
    /\ \E c \in Cleaners :
          /\ cpc[c] = "off"
          /\ cpc' = [cpc EXCEPT ![c] = "started"]
    /\ due' = FALSE
    /\ pc' = [pc EXCEPT ![t] = "using"]
    /\ UNCHANGED <<poolVars, sessionVars, url, ref, held, toClose, active_pools>>

\* Mutant: off by one.
Release_OneMore(t) ==
    /\ pc[t] = "using"
    /\ IF Cardinality(lists[url[t]][ref[t]]) <= MaxPoolSize
         THEN lists' = [lists EXCEPT ![url[t]][ref[t]] = @ \cup {held[t]}] /\ UNCHANGED closed
         ELSE closed' = closed \cup {held[t]} /\ UNCHANGED lists
    /\ held' = [held EXCEPT ![t] = NoSession]
    /\ pc' = [pc EXCEPT ![t] = "idle"]
    /\ UNCHANGED <<present, current, created, url, ref, cleanVars, active_pools>>

\* Mutant: the session goes to the pool that self.pools has now, which a stale
\* session must never reach.
Release_CurrentPool(t) ==
    /\ pc[t] = "using"
    /\ IF Cardinality(Pool(url[t])) < MaxPoolSize
         THEN lists' = [lists EXCEPT ![url[t]][current[url[t]]] = @ \cup {held[t]}]
              /\ UNCHANGED closed
         ELSE closed' = closed \cup {held[t]} /\ UNCHANGED lists
    /\ held' = [held EXCEPT ![t] = NoSession]
    /\ pc' = [pc EXCEPT ![t] = "idle"]
    /\ UNCHANGED <<present, current, created, url, ref, cleanVars, active_pools>>

\* The body of the with statement ends: under the lock, the session goes back to
\* the list it came from or, if that is full, is closed.
Release(t) ==
    /\ pc[t] = "using"
    /\ IF Cardinality(lists[url[t]][ref[t]]) < MaxPoolSize
         THEN lists' = [lists EXCEPT ![url[t]][ref[t]] = @ \cup {held[t]}] /\ UNCHANGED closed
         ELSE closed' = closed \cup {held[t]} /\ UNCHANGED lists
    /\ held' = [held EXCEPT ![t] = NoSession]
    /\ pc' = [pc EXCEPT ![t] = "idle"]
    /\ UNCHANGED <<present, current, created, url, ref, cleanVars, active_pools>>

\* Mutant: a position that get_session does not have.
Fail_Stays(t) ==
    /\ pc[t] = "using"
    /\ held' = [held EXCEPT ![t] = NoSession]
    /\ pc' = [pc EXCEPT ![t] = "failed"]
    /\ UNCHANGED <<poolVars, sessionVars, url, ref, cleanVars, active_pools>>

\* The body raises: the session is dropped, neither returned nor closed.
Fail(t) ==
    /\ pc[t] = "using"
    /\ held' = [held EXCEPT ![t] = NoSession]
    /\ pc' = [pc EXCEPT ![t] = "idle"]
    /\ UNCHANGED <<poolVars, sessionVars, url, ref, cleanVars, active_pools>>

-----------------------------------------------------------------------------
(***************************************************************************)
(* _cleanup_idle_connections and close_all.                                *)
(***************************************************************************)
IntervalPasses ==
    /\ ~due
    /\ due' = TRUE
    /\ UNCHANGED <<poolVars, sessionVars, threadVars, cpc, toClose, active_pools>>

\* Mutant: the pool is replaced by the copy instead of an empty list.
CleanupCopies_KeepsCopy(c) ==
    /\ cpc[c] = "started"
    /\ \A u \in present : Pool(u) # {} => current[u] < MaxGeneration
    /\ toClose' = [toClose EXCEPT ![c] = UNION {Pool(u) : u \in present}]
    /\ present' = {u \in present : Pool(u) # {}}
    /\ current' = [u \in Urls |-> IF u \in present /\ Pool(u) # {}
                                    THEN current[u] + 1 ELSE current[u]]
    /\ lists' = [u \in Urls |-> [g \in Generations |->
                    IF u \in present /\ g = current[u] + 1 THEN Pool(u) ELSE lists[u][g]]]
    /\ cpc' = [cpc EXCEPT ![c] = "closing"]
    /\ UNCHANGED <<sessionVars, threadVars, due, active_pools>>

\* Under the lock: copy every pool; a pool with sessions is replaced by a new
\* list, an empty one is deleted.  The old list objects keep their content.
CleanupCopies(c) ==
    /\ cpc[c] = "started"
    /\ \A u \in present : Pool(u) # {} => current[u] < MaxGeneration
    /\ toClose' = [toClose EXCEPT ![c] = UNION {Pool(u) : u \in present}]
    /\ present' = {u \in present : Pool(u) # {}}
    /\ current' = [u \in Urls |-> IF u \in present /\ Pool(u) # {}
                                    THEN current[u] + 1 ELSE current[u]]
    /\ cpc' = [cpc EXCEPT ![c] = "closing"]
    /\ UNCHANGED <<lists, sessionVars, threadVars, due, active_pools>>

\* Outside the lock: close the copied sessions one by one.
CleanupCloses(c, s) ==
    /\ cpc[c] = "closing"
    /\ s \in toClose[c]
    /\ closed' = closed \cup {s}
    /\ toClose' = [toClose EXCEPT ![c] = @ \ {s}]
    /\ UNCHANGED <<poolVars, created, threadVars, due, cpc, active_pools>>

\* Under the lock again: the metrics.
CleanupRecords(c) ==
    /\ cpc[c] = "closing"
    /\ toClose[c] = {}
    /\ active_pools' = Cardinality(present)
    /\ cpc' = [cpc EXCEPT ![c] = "off"]
    /\ UNCHANGED <<poolVars, sessionVars, threadVars, due, toClose>>

\* Under the lock: every idle session is closed and self.pools emptied.
close_all ==
    /\ closed' = closed \cup UNION {Pool(u) : u \in present}
    /\ present' = {}
    /\ active_pools' = 0
    /\ UNCHANGED <<lists, current, created, threadVars, cleanVars>>

-----------------------------------------------------------------------------
Init ==
    /\ lists = [u \in Urls |-> [g \in Generations |-> {}]]
    /\ present = {} /\ current = [u \in Urls |-> 0]
    /\ created = {} /\ closed = {}
    /\ pc = [t \in Threads |-> "idle"]
    /\ url = [t \in Threads |-> CHOOSE u \in Urls : TRUE]
    /\ ref = [t \in Threads |-> 0]
    /\ held = [t \in Threads |-> NoSession]
    /\ due = FALSE
    /\ cpc = [c \in Cleaners |-> "off"] /\ toClose = [c \in Cleaners |-> {}]
    /\ active_pools = 0

Client(t) ==
    \/ \E u \in Urls : _get_pool(t, u)
    \/ Reuse(t) \/ Create(t) \/ MaybeCleanup(t) \/ SpawnCleanup(t)
    \/ Release(t) \/ Fail(t)

Cleaner(c) ==
    \/ CleanupCopies(c)
    \/ \E s \in Sessions : CleanupCloses(c, s)
    \/ CleanupRecords(c)

Next ==
    \/ \E t \in Threads : Client(t)
    \/ \E c \in Cleaners : Cleaner(c)
    \/ IntervalPasses
    \/ close_all

Spec == Init /\ [][Next]_vars

-----------------------------------------------------------------------------
\* Type invariant.
TypeOK ==
    /\ lists \in [Urls -> [Generations -> SUBSET Sessions]]
    /\ present \subseteq Urls /\ current \in [Urls -> Generations]
    /\ created \subseteq Sessions /\ closed \subseteq Sessions
    /\ pc \in [Threads -> {"idle", "gotPool", "acquired", "spawning", "using"}]
    /\ url \in [Threads -> Urls] /\ ref \in [Threads -> Generations]
    /\ held \in [Threads -> Sessions \cup {NoSession}]
    /\ due \in BOOLEAN
    /\ cpc \in [Cleaners -> {"off", "started", "closing"}]
    /\ toClose \in [Cleaners -> SUBSET Sessions]
    /\ active_pools \in Nat

\* A session is used by one thread at a time: no two threads hold it, nor does a
\* thread hold one that some list offers to another thread, lists that were
\* replaced by a clean-up included.
ExclusiveUse ==
    \A t \in Threads : held[t] # NoSession =>
        /\ ~InSomeList(held[t])
        /\ \A v \in Threads \ {t} : held[v] # held[t]

\* No session is in two lists, so that it cannot be handed out twice.
OneList ==
    \A u, v \in Urls : \A g, h \in Generations :
        lists[u][g] \cap lists[v][h] # {} => u = v /\ g = h

\* No list grows beyond max_pool_size, although threads return sessions to lists
\* they looked up long before.
PoolBound == \A u \in Urls, g \in Generations : Cardinality(lists[u][g]) <= MaxPoolSize

\* A thread that asks for a pool now gets open sessions from it: what self.pools
\* offers was neither closed nor copied by a clean-up that is still closing.
LivePoolsOpen ==
    \A u \in present : \A s \in Pool(u) :
        s \notin closed /\ \A c \in Cleaners : s \notin toClose[c]

\* metrics["active_pools"] is the number of pools unless a clean-up is under way,
\* even when several run at once or close_all comes in between.
MetricAgrees == (\A c \in Cleaners : cpc[c] # "closing") => active_pools = Cardinality(present)

\* A thread never gets a session that has been closed.
NeverUsesClosed == \A t \in Threads : pc[t] = "acquired" => held[t] \notin closed

\* Where a session is filed, and what the metric says of it.
FiledOnce == OneList /\ MetricAgrees

\* For TLC: sessions, threads and clean-ups are interchangeable.
Symmetry ==
    Permutations(Threads) \cup Permutations(Cleaners) \cup Permutations(Sessions)
=============================================================================
