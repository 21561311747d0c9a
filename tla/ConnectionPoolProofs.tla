------------------------- MODULE ConnectionPoolProofs -------------------------
(***************************************************************************)
(* Proofs about the pools of connections: ConnectionPool for any number of *)
(* threads, clean-ups, URLs, sessions and generations, and AsyncPool for   *)
(* any number of URLs, coroutines, threads, overlapping closes and clients.*)
(***************************************************************************)
EXTENDS ConnectionPool, AsyncPool, FiniteSetTheorems, TLAPS

Holding(t) == pc[t] \in {"acquired", "spawning", "using"}

\* What thread t has looked up is still the list of self.pools.
UpToDate(t) == url[t] \in present /\ ref[t] = current[url[t]]

\* A thread holds a session exactly between taking it and giving it back.
HeldMatchesPc == \A t \in Threads : held[t] # NoSession <=> Holding(t)

TypeInv == TypeOK /\ HeldMatchesPc

\* Only created sessions are anywhere.
CreatedOnly ==
    /\ \A u \in Urls, g \in Generations : lists[u][g] \subseteq created
    /\ \A t \in Threads : held[t] # NoSession => held[t] \in created
    /\ closed \subseteq created
    /\ \A c \in Cleaners : toClose[c] \subseteq created

\* A list object that self.pools has not used yet is empty and unknown to threads.
FreshLists ==
    /\ \A u \in Urls, g \in Generations : g > current[u] => lists[u][g] = {}
    /\ \A t \in Threads : pc[t] # "idle" => ref[t] <= current[url[t]]

\* The session of a thread with an up-to-date list is open and will stay so.
LiveHeldOpen ==
    \A t \in Threads : Holding(t) /\ UpToDate(t) =>
        held[t] \notin closed /\ \A c \in Cleaners : held[t] \notin toClose[c]

-----------------------------------------------------------------------------
(* Type correctness. *)

LEMMA PresentFinite == ASSUME TypeOK PROVE IsFiniteSet(present) /\ Cardinality(present) \in Nat
BY SetsAssumption, FS_Subset, FS_CardinalityType DEF TypeOK

LEMMA InitType == Init => TypeInv
<1> SUFFICES ASSUME Init PROVE TypeInv
  OBVIOUS
<1>1. \E u \in Urls : TRUE
  BY SetsAssumption
<1>2. (CHOOSE u \in Urls : TRUE) \in Urls
  BY <1>1
<1>3. 0 \in Generations
  BY BoundsAssumption DEF Generations
<1>4. TypeOK
  BY <1>2, <1>3 DEF Init, TypeOK
<1>5. HeldMatchesPc
  BY DEF Init, HeldMatchesPc, Holding
<1> QED
  BY <1>4, <1>5 DEF TypeInv

\* What Release does, without the case distinction in the way.
LEMMA ReleaseCases ==
  ASSUME TypeInv, NEW t \in Threads, Release(t)
  PROVE  /\ held[t] \in Sessions
         /\ \/ /\ Cardinality(lists[url[t]][ref[t]]) < MaxPoolSize
               /\ lists' = [lists EXCEPT ![url[t]][ref[t]] = @ \cup {held[t]}]
               /\ closed' = closed
            \/ /\ closed' = closed \cup {held[t]}
               /\ lists' = lists
<1>1. held[t] # NoSession
  BY DEF TypeInv, HeldMatchesPc, Holding, Release
<1>2. held[t] \in Sessions
  BY <1>1 DEF TypeInv, TypeOK
<1> QED
  BY <1>2 DEF Release

LEMMA NextType == TypeInv /\ [Next]_vars => TypeInv'
<1> SUFFICES ASSUME TypeInv, [Next]_vars PROVE TypeInv'
  OBVIOUS
<1> USE DEF poolVars, sessionVars, threadVars, cleanVars, TypeInv
<1>1. ASSUME NEW t \in Threads, NEW u \in Urls, _get_pool(t, u) PROVE TypeInv'
  <2>1. HeldMatchesPc'
    BY <1>1 DEF _get_pool, TypeOK, HeldMatchesPc, Holding
  <2>2. CASE u \in present
    BY <1>1, <2>1, <2>2 DEF _get_pool, TypeOK
  <2>3. CASE u \notin present
    <3>1. current[u] + 1 \in Generations
      BY <1>1, <2>3, BoundsAssumption DEF _get_pool, TypeOK, Generations
    <3>2. Cardinality(present \cup {u}) \in Nat
      BY PresentFinite, FS_AddElement, FS_CardinalityType
    <3>3. /\ present' = present \cup {u}
          /\ current' = [current EXCEPT ![u] = @ + 1]
          /\ ref' = [ref EXCEPT ![t] = current[u] + 1]
          /\ active_pools' = Cardinality(present \cup {u})
          /\ url' = [url EXCEPT ![t] = u]
          /\ pc' = [pc EXCEPT ![t] = "gotPool"]
          /\ UNCHANGED <<lists, sessionVars, held, cleanVars>>
      BY <1>1, <2>3 DEF _get_pool
    <3>4. active_pools' \in Nat
      BY <3>2, <3>3
    <3>5. /\ current' \in [Urls -> Generations]
          /\ ref' \in [Threads -> Generations]
          /\ url' \in [Threads -> Urls]
          /\ present' \subseteq Urls
      BY <3>1, <3>3 DEF TypeOK
    <3> QED
      BY <2>1, <3>3, <3>4, <3>5 DEF TypeOK
  <2> QED
    BY <2>2, <2>3
<1>2. ASSUME NEW t \in Threads, Reuse(t) PROVE TypeInv'
  <2>1. TypeOK'
    BY <1>2 DEF Reuse, TypeOK
  <2>2. HeldMatchesPc'
    BY <1>2, SetsAssumption DEF Reuse, TypeOK, HeldMatchesPc, Holding
  <2> QED
    BY <2>1, <2>2
<1>3. ASSUME NEW t \in Threads, Create(t) PROVE TypeInv'
  <2>1. TypeOK'
    BY <1>3 DEF Create, TypeOK
  <2>2. HeldMatchesPc'
    BY <1>3, SetsAssumption DEF Create, TypeOK, HeldMatchesPc, Holding
  <2> QED
    BY <2>1, <2>2
<1>4. ASSUME NEW t \in Threads, MaybeCleanup(t) PROVE TypeInv'
  BY <1>4 DEF MaybeCleanup, TypeOK, HeldMatchesPc, Holding
<1>5. ASSUME NEW t \in Threads, SpawnCleanup(t) PROVE TypeInv'
  BY <1>5 DEF SpawnCleanup, TypeOK, HeldMatchesPc, Holding
<1>6. ASSUME NEW t \in Threads, Release(t) PROVE TypeInv'
  <2>1. /\ held' = [held EXCEPT ![t] = NoSession]
        /\ pc' = [pc EXCEPT ![t] = "idle"]
        /\ UNCHANGED <<present, current, created, url, ref, cleanVars, active_pools>>
    BY <1>6 DEF Release
  <2>2. lists' \in [Urls -> [Generations -> SUBSET Sessions]] /\ closed' \subseteq Sessions
    <3>1. url[t] \in Urls /\ ref[t] \in Generations
      BY DEF TypeOK
    <3>2. lists[url[t]][ref[t]] \cup {held[t]} \in SUBSET Sessions
      BY <1>6, <3>1, ReleaseCases DEF TypeOK
    <3>3. CASE lists' = [lists EXCEPT ![url[t]][ref[t]] = @ \cup {held[t]}] /\ closed' = closed
      BY <3>1, <3>2, <3>3 DEF TypeOK
    <3>4. CASE lists' = lists /\ closed' = closed \cup {held[t]}
      BY <1>6, <3>4, ReleaseCases DEF TypeOK
    <3> QED
      BY <1>6, <3>3, <3>4, ReleaseCases
  <2>3. TypeOK'
    BY <2>1, <2>2 DEF TypeOK
  <2>4. HeldMatchesPc'
    BY <2>1 DEF TypeOK, HeldMatchesPc, Holding
  <2> QED
    BY <2>3, <2>4
<1>7. ASSUME NEW t \in Threads, Fail(t) PROVE TypeInv'
  BY <1>7 DEF Fail, TypeOK, HeldMatchesPc, Holding
<1>8. ASSUME NEW c \in Cleaners, CleanupCopies(c) PROVE TypeInv'
  <2>1. current' \in [Urls -> Generations]
    <3> SUFFICES ASSUME NEW u \in Urls
                 PROVE  (IF u \in present /\ Pool(u) # {} THEN current[u] + 1 ELSE current[u])
                           \in Generations
      BY <1>8 DEF CleanupCopies
    <3>1. current[u] \in Generations
      BY DEF TypeOK
    <3>2. u \in present /\ Pool(u) # {} => current[u] < MaxGeneration
      BY <1>8 DEF CleanupCopies
    <3> QED
      BY <3>1, <3>2, BoundsAssumption DEF Generations
  <2>2. UNION {Pool(u) : u \in present} \subseteq Sessions
    BY DEF TypeOK, Pool
  <2>3. TypeOK'
    BY <1>8, <2>1, <2>2 DEF CleanupCopies, TypeOK
  <2>4. HeldMatchesPc'
    BY <1>8 DEF CleanupCopies, HeldMatchesPc, Holding
  <2> QED
    BY <2>3, <2>4
<1>9. ASSUME NEW c \in Cleaners, NEW s \in Sessions, CleanupCloses(c, s) PROVE TypeInv'
  BY <1>9 DEF CleanupCloses, TypeOK, HeldMatchesPc, Holding
<1>10. ASSUME NEW c \in Cleaners, CleanupRecords(c) PROVE TypeInv'
  <2>1. active_pools' \in Nat
    BY <1>10, PresentFinite DEF CleanupRecords
  <2>2. TypeOK'
    BY <1>10, <2>1 DEF CleanupRecords, TypeOK
  <2>3. HeldMatchesPc'
    BY <1>10 DEF CleanupRecords, HeldMatchesPc, Holding
  <2> QED
    BY <2>2, <2>3
<1>11. ASSUME IntervalPasses PROVE TypeInv'
  BY <1>11 DEF IntervalPasses, TypeOK, HeldMatchesPc, Holding
<1>12. ASSUME close_all PROVE TypeInv'
  <2>1. UNION {Pool(u) : u \in present} \subseteq Sessions
    BY DEF TypeOK, Pool
  <2>2. TypeOK'
    BY <1>12, <2>1 DEF close_all, TypeOK
  <2>3. HeldMatchesPc'
    BY <1>12 DEF close_all, HeldMatchesPc, Holding
  <2> QED
    BY <2>2, <2>3
<1>13. CASE UNCHANGED vars
  BY <1>13 DEF vars, TypeOK, HeldMatchesPc, Holding
<1> QED
  BY <1>1, <1>2, <1>3, <1>4, <1>5, <1>6, <1>7, <1>8, <1>9, <1>10, <1>11, <1>12, <1>13
     DEF Next, Client, Cleaner

\* The type invariant of the connection pool, with the fact that makes it
\* inductive: a thread has a session exactly while get_session has yielded one.
THEOREM TypeCorrect == Spec => []TypeOK
<1>1. TypeInv => TypeOK
  BY DEF TypeInv
<1> QED
  BY InitType, NextType, <1>1, PTL DEF Spec

-----------------------------------------------------------------------------
(* Exclusive use of sessions. *)

\* A session is held by one thread or is in one list, not both.
Ownership == ExclusiveUse /\ OneList /\ CreatedOnly

LEMMA NextOwnership == TypeInv /\ Ownership /\ [Next]_vars => Ownership'
<1> SUFFICES ASSUME TypeInv, Ownership, [Next]_vars PROVE Ownership'
  OBVIOUS
<1> USE DEF poolVars, sessionVars, threadVars, cleanVars
<1> DEFINE Frame == UNCHANGED <<lists, created, held>>
<1>0. ASSUME Frame, CreatedOnly' PROVE Ownership'
  BY <1>0 DEF Ownership, ExclusiveUse, OneList, InSomeList
<1>1. ASSUME NEW t \in Threads, NEW u \in Urls, _get_pool(t, u) PROVE Ownership'
  BY <1>0, <1>1 DEF _get_pool, Ownership, CreatedOnly
<1>2. ASSUME NEW t \in Threads, Reuse(t) PROVE Ownership'
  <2>0. url[t] \in Urls /\ ref[t] \in Generations
    BY DEF TypeInv, TypeOK
  <2>1. PICK s \in lists[url[t]][ref[t]] :
              /\ lists' = [lists EXCEPT ![url[t]][ref[t]] = @ \ {s}]
              /\ held' = [held EXCEPT ![t] = s]
    BY <1>2 DEF Reuse
  <2>2. UNCHANGED <<created, closed, toClose>>
    BY <1>2 DEF Reuse
  <2>3. \A u \in Urls, g \in Generations :
           lists'[u][g] = IF u = url[t] /\ g = ref[t] THEN lists[u][g] \ {s} ELSE lists[u][g]
    BY <2>0, <2>1 DEF TypeInv, TypeOK
  <2>4. \A v \in Threads : held'[v] = IF v = t THEN s ELSE held[v]
    BY <2>1 DEF TypeInv, TypeOK
  <2>5. s \in created /\ s \in Sessions
    BY <2>0 DEF Ownership, CreatedOnly, TypeInv, TypeOK
  <2>6. \A u \in Urls, g \in Generations : s \notin lists'[u][g]
    BY <2>0, <2>1, <2>3 DEF Ownership, OneList
  <2>7. \A v \in Threads : held[v] # s
    BY <2>0, <2>5, SetsAssumption DEF Ownership, ExclusiveUse, InSomeList
  <2>a. \A u \in Urls, g \in Generations : lists'[u][g] \subseteq lists[u][g]
    BY <2>3
  <2>8. ExclusiveUse'
    <3> SUFFICES ASSUME NEW v \in Threads, held'[v] # NoSession
                 PROVE  /\ \A u \in Urls, g \in Generations : held'[v] \notin lists'[u][g]
                        /\ \A w \in Threads \ {v} : held'[w] # held'[v]
      BY DEF ExclusiveUse, InSomeList
    <3>1. CASE v = t
      BY <2>4, <2>6, <2>7, <3>1
    <3>2. CASE v # t
      <4>1. held'[v] = held[v] /\ held[v] # NoSession
        BY <2>4, <3>2
      <4>2. \A u \in Urls, g \in Generations : held[v] \notin lists[u][g]
        BY <4>1 DEF Ownership, ExclusiveUse, InSomeList
      <4>3. \A w \in Threads \ {v} : held[w] # held[v]
        BY <4>1 DEF Ownership, ExclusiveUse
      <4> QED
        BY <2>4, <2>7, <2>a, <4>1, <4>2, <4>3
    <3> QED
      BY <3>1, <3>2
  <2>9. OneList'
    <3> SUFFICES ASSUME NEW u \in Urls, NEW v \in Urls, NEW g \in Generations,
                        NEW h \in Generations, lists'[u][g] \cap lists'[v][h] # {}
                 PROVE  u = v /\ g = h
      BY DEF OneList
    <3>1. lists[u][g] \cap lists[v][h] # {}
      BY <2>a
    <3> QED
      BY <3>1 DEF Ownership, OneList
  <2>10. CreatedOnly'
    BY <2>2, <2>a, <2>4, <2>5 DEF Ownership, CreatedOnly
  <2> QED
    BY <2>8, <2>9, <2>10 DEF Ownership
<1>3. ASSUME NEW t \in Threads, Create(t) PROVE Ownership'
  <2>1. PICK s \in Sessions \ created :
              /\ created' = created \cup {s}
              /\ held' = [held EXCEPT ![t] = s]
    BY <1>3 DEF Create
  <2>2. UNCHANGED <<lists, closed, toClose>>
    BY <1>3 DEF Create
  <2>3. \A v \in Threads : held'[v] = IF v = t THEN s ELSE held[v]
    BY <2>1 DEF TypeInv, TypeOK
  <2>4. \A u \in Urls, g \in Generations : s \notin lists[u][g]
    BY <2>1 DEF Ownership, CreatedOnly
  <2>5. \A v \in Threads : held[v] # s
    BY <2>1, SetsAssumption DEF Ownership, CreatedOnly
  <2>6. ExclusiveUse'
    BY <2>2, <2>3, <2>4, <2>5 DEF Ownership, ExclusiveUse, InSomeList
  <2>7. OneList'
    BY <2>2 DEF Ownership, OneList
  <2>8. CreatedOnly'
    BY <2>1, <2>2, <2>3 DEF Ownership, CreatedOnly
  <2> QED
    BY <2>6, <2>7, <2>8 DEF Ownership
<1>4. ASSUME NEW t \in Threads, MaybeCleanup(t) PROVE Ownership'
  BY <1>0, <1>4 DEF MaybeCleanup, Ownership, CreatedOnly
<1>5. ASSUME NEW t \in Threads, SpawnCleanup(t) PROVE Ownership'
  BY <1>0, <1>5 DEF SpawnCleanup, Ownership, CreatedOnly
<1>6. ASSUME NEW t \in Threads, Release(t) PROVE Ownership'
  <2>0. url[t] \in Urls /\ ref[t] \in Generations /\ held[t] \in Sessions
    BY <1>6, ReleaseCases DEF TypeInv, TypeOK
  <2>1. held' = [held EXCEPT ![t] = NoSession] /\ UNCHANGED <<created, toClose>>
    BY <1>6 DEF Release
  <2>2. \A v \in Threads : held'[v] = IF v = t THEN NoSession ELSE held[v]
    BY <2>1 DEF TypeInv, TypeOK
  <2>3. held[t] # NoSession /\ held[t] \in created
    BY <2>0, SetsAssumption DEF Ownership, CreatedOnly
  <2>4. CASE lists' = [lists EXCEPT ![url[t]][ref[t]] = @ \cup {held[t]}] /\ closed' = closed
    <3>1. \A u \in Urls, g \in Generations :
             lists'[u][g] = IF u = url[t] /\ g = ref[t] THEN lists[u][g] \cup {held[t]}
                                                        ELSE lists[u][g]
      BY <2>0, <2>4 DEF TypeInv, TypeOK
    <3>2. \A u \in Urls, g \in Generations : held[t] \notin lists[u][g]
      BY <2>3 DEF Ownership, ExclusiveUse, InSomeList
    <3>3. \A v \in Threads \ {t} : held[v] # held[t]
      BY <2>3 DEF Ownership, ExclusiveUse
    <3>a. \A u \in Urls, g \in Generations : \A x \in lists'[u][g] :
             x \in lists[u][g] \/ (x = held[t] /\ u = url[t] /\ g = ref[t])
      <4> TAKE u \in Urls, g \in Generations
      <4>1. CASE u = url[t] /\ g = ref[t]
        <5>1. lists'[u][g] = lists[u][g] \cup {held[t]}
          BY <3>1, <4>1
        <5> QED
          BY <4>1, <5>1
      <4>2. CASE ~(u = url[t] /\ g = ref[t])
        <5>1. lists'[u][g] = lists[u][g]
          BY <3>1, <4>2
        <5> QED
          BY <5>1
      <4> QED
        BY <4>1, <4>2
    <3>4. ExclusiveUse'
      <4> SUFFICES ASSUME NEW v \in Threads, held'[v] # NoSession
                   PROVE  /\ \A u \in Urls, g \in Generations : held'[v] \notin lists'[u][g]
                          /\ \A w \in Threads \ {v} : held'[w] # held'[v]
        BY DEF ExclusiveUse, InSomeList
      <4>1. v # t /\ held'[v] = held[v] /\ held[v] # NoSession
        BY <2>2
      <4>2. \A u \in Urls, g \in Generations : held[v] \notin lists[u][g]
        BY <4>1 DEF Ownership, ExclusiveUse, InSomeList
      <4>3. \A w \in Threads \ {v} : held[w] # held[v]
        BY <4>1 DEF Ownership, ExclusiveUse
      <4> QED
        BY <2>2, <3>3, <3>a, <4>1, <4>2, <4>3
    <3>5. OneList'
      <4> SUFFICES ASSUME NEW u \in Urls, NEW v \in Urls, NEW g \in Generations,
                          NEW h \in Generations, NEW s \in lists'[u][g] \cap lists'[v][h]
                   PROVE  u = v /\ g = h
        BY DEF OneList
      <4>1. CASE s = held[t]
        BY <3>a, <3>2, <4>1
      <4>2. CASE s # held[t]
        <5>1. lists[u][g] \cap lists[v][h] # {}
          BY <3>a, <4>2
        <5> QED
          BY <5>1 DEF Ownership, OneList
      <4> QED
        BY <4>1, <4>2
    <3>6. CreatedOnly'
      BY <2>1, <2>2, <2>3, <2>4, <3>1 DEF Ownership, CreatedOnly
    <3> QED
      BY <3>4, <3>5, <3>6 DEF Ownership
  <2>5. CASE lists' = lists /\ closed' = closed \cup {held[t]}
    <3>1. ExclusiveUse'
      BY <2>2, <2>5 DEF Ownership, ExclusiveUse, InSomeList
    <3>2. OneList'
      BY <2>5 DEF Ownership, OneList
    <3>3. CreatedOnly'
      BY <2>1, <2>2, <2>3, <2>5 DEF Ownership, CreatedOnly
    <3> QED
      BY <3>1, <3>2, <3>3 DEF Ownership
  <2> QED
    BY <1>6, <2>4, <2>5, ReleaseCases
<1>7. ASSUME NEW t \in Threads, Fail(t) PROVE Ownership'
  <2>1. /\ \A v \in Threads : held'[v] = IF v = t THEN NoSession ELSE held[v]
        /\ UNCHANGED <<lists, created, closed, toClose>>
    BY <1>7 DEF Fail, TypeInv, TypeOK
  <2>2. ExclusiveUse'
    BY <2>1 DEF Ownership, ExclusiveUse, InSomeList
  <2>3. OneList'
    BY <2>1 DEF Ownership, OneList
  <2>4. CreatedOnly'
    BY <2>1 DEF Ownership, CreatedOnly
  <2> QED
    BY <2>2, <2>3, <2>4 DEF Ownership
<1>8. ASSUME NEW c \in Cleaners, CleanupCopies(c) PROVE Ownership'
  <2>1. UNION {Pool(u) : u \in present} \subseteq created
    BY DEF TypeInv, TypeOK, Pool, Ownership, CreatedOnly
  <2>2. CreatedOnly'
    BY <1>8, <2>1 DEF CleanupCopies, Ownership, CreatedOnly, TypeInv, TypeOK
  <2> QED
    BY <1>0, <1>8, <2>2 DEF CleanupCopies
<1>9. ASSUME NEW c \in Cleaners, NEW s \in Sessions, CleanupCloses(c, s) PROVE Ownership'
  <2>1. CreatedOnly'
    BY <1>9 DEF CleanupCloses, Ownership, CreatedOnly, TypeInv, TypeOK
  <2> QED
    BY <1>0, <1>9, <2>1 DEF CleanupCloses
<1>10. ASSUME NEW c \in Cleaners, CleanupRecords(c) PROVE Ownership'
  BY <1>0, <1>10 DEF CleanupRecords, Ownership, CreatedOnly
<1>11. ASSUME IntervalPasses PROVE Ownership'
  BY <1>0, <1>11 DEF IntervalPasses, Ownership, CreatedOnly
<1>12. ASSUME close_all PROVE Ownership'
  <2>1. UNION {Pool(u) : u \in present} \subseteq created
    BY DEF TypeInv, TypeOK, Pool, Ownership, CreatedOnly
  <2>2. CreatedOnly'
    BY <1>12, <2>1 DEF close_all, Ownership, CreatedOnly
  <2> QED
    BY <1>0, <1>12, <2>2 DEF close_all
<1>13. CASE UNCHANGED vars
  BY <1>0, <1>13 DEF vars, Ownership, CreatedOnly
<1> QED
  BY <1>1, <1>2, <1>3, <1>4, <1>5, <1>6, <1>7, <1>8, <1>9, <1>10, <1>11, <1>12, <1>13
     DEF Next, Client, Cleaner

LEMMA InitOwnership == Init => Ownership
BY DEF Init, Ownership, ExclusiveUse, OneList, CreatedOnly, InSomeList

\* For any number of threads and clean-ups, whatever they interleave: a session is
\* in use by one thread at most, and while in use no list, current or replaced,
\* offers it to another thread.
THEOREM SessionsExclusive == Spec => []ExclusiveUse
<1>1. Ownership => ExclusiveUse
  BY DEF Ownership
<1> QED
  BY InitType, NextType, InitOwnership, NextOwnership, <1>1, PTL DEF Spec

-----------------------------------------------------------------------------
(* The pools in use offer open sessions. *)

Openness == FreshLists /\ LivePoolsOpen /\ LiveHeldOpen

LEMMA InitOpenness == Init => Openness
BY DEF Init, Openness, FreshLists, LivePoolsOpen, LiveHeldOpen, Holding, Pool

LEMMA NextOpenness == TypeInv /\ Ownership /\ Openness /\ [Next]_vars => Openness'
<1> SUFFICES ASSUME TypeInv, Ownership, Openness, [Next]_vars PROVE Openness'
  OBVIOUS
<1> USE DEF poolVars, sessionVars, threadVars, cleanVars
<1>t. TypeOK /\ HeldMatchesPc
  BY DEF TypeInv
<1>1. ASSUME NEW t \in Threads, NEW u \in Urls, _get_pool(t, u) PROVE Openness'
  <2>1. UNCHANGED <<lists, created, closed, held, toClose>>
    BY <1>1 DEF _get_pool
  <2>2. /\ \A v \in Threads : v # t => pc'[v] = pc[v] /\ url'[v] = url[v] /\ ref'[v] = ref[v]
        /\ pc'[t] = "gotPool" /\ url'[t] = u
    BY <1>1, <1>t DEF _get_pool, TypeOK
  <2>3. CASE u \in present
    <3>1. UNCHANGED <<present, current>> /\ ref'[t] = current[u]
      BY <1>1, <1>t, <2>3 DEF _get_pool, TypeOK
    <3>2. FreshLists'
      <4>1. current[u] \in Nat
        BY <1>t, BoundsAssumption DEF TypeOK, Generations
      <4>2. ASSUME NEW v \in Threads, pc'[v] # "idle" PROVE ref'[v] <= current[url'[v]]
        <5>1. CASE v = t
          BY <2>2, <3>1, <4>1, <5>1
        <5>2. CASE v # t
          BY <2>2, <4>2, <5>2 DEF Openness, FreshLists
        <5> QED
          BY <5>1, <5>2
      <4> QED
        BY <2>1, <3>1, <4>2 DEF Openness, FreshLists
    <3>3. LivePoolsOpen'
      BY <2>1, <3>1 DEF Openness, LivePoolsOpen, Pool
    <3>4. LiveHeldOpen'
      BY <2>1, <2>2, <3>1 DEF Openness, LiveHeldOpen, Holding, UpToDate
    <3> QED
      BY <3>2, <3>3, <3>4 DEF Openness
  <2>4. CASE u \notin present
    <3>1. /\ present' = present \cup {u}
          /\ current[u] < MaxGeneration
          /\ \A v \in Urls : current'[v] = IF v = u THEN current[u] + 1 ELSE current[v]
          /\ ref'[t] = current[u] + 1
      BY <1>1, <1>t, <2>4 DEF _get_pool, TypeOK
    <3>2. current[u] \in Nat /\ current[u] + 1 \in Generations
      BY <1>t, <3>1, BoundsAssumption DEF TypeOK, Generations
    <3>3. lists[u][current[u] + 1] = {}
      BY <3>2 DEF Openness, FreshLists
    <3>4. FreshLists'
      <4>1. ASSUME NEW v \in Urls, NEW g \in Generations, g > current'[v]
            PROVE  lists'[v][g] = {}
        <5>a. current[v] \in Nat /\ g \in Int
          BY <1>t, BoundsAssumption DEF TypeOK, Generations
        <5>b. current'[v] = current[v] + 1 \/ current'[v] = current[v]
          BY <3>1
        <5>1. g > current[v]
          BY <4>1, <5>a, <5>b
        <5> QED
          BY <2>1, <4>1, <5>1 DEF Openness, FreshLists
      <4>2. ASSUME NEW v \in Threads, pc'[v] # "idle" PROVE ref'[v] <= current'[url'[v]]
        <5>1. CASE v = t
          BY <2>2, <3>1, <3>2, <5>1
        <5>2. CASE v # t
          <6>1. ref[v] <= current[url[v]]
            BY <2>2, <4>2, <5>2 DEF Openness, FreshLists
          <6> QED
            BY <1>t, <2>2, <3>1, <3>2, <5>2, <6>1, BoundsAssumption DEF TypeOK, Generations
        <5> QED
          BY <5>1, <5>2
      <4> QED
        BY <4>1, <4>2 DEF FreshLists
    <3>5. LivePoolsOpen'
      BY <2>1, <3>1, <3>3 DEF Openness, LivePoolsOpen, Pool, TypeInv, TypeOK
    <3>6. LiveHeldOpen'
      <4> SUFFICES ASSUME NEW v \in Threads, Holding(v)', UpToDate(v)'
                   PROVE  held[v] \notin closed /\ \A c \in Cleaners : held[v] \notin toClose[c]
        BY <2>1 DEF LiveHeldOpen
      <4>1. v # t /\ Holding(v)
        BY <2>2 DEF Holding
      <4>2. ref[v] <= current[url[v]] /\ url[v] \in Urls
        BY <1>t, <4>1 DEF Openness, FreshLists, Holding, TypeOK
      <4>3. url[v] # u
        BY <2>2, <3>1, <3>2, <4>1, <4>2 DEF UpToDate
      <4>4. UpToDate(v)
        BY <2>2, <3>1, <4>1, <4>2, <4>3 DEF UpToDate
      <4> QED
        BY <4>1, <4>4 DEF Openness, LiveHeldOpen
    <3> QED
      BY <3>4, <3>5, <3>6 DEF Openness
  <2> QED
    BY <2>3, <2>4
<1>2. ASSUME NEW t \in Threads, Reuse(t) PROVE Openness'
  <2>0. url[t] \in Urls /\ ref[t] \in Generations
    BY <1>t DEF TypeOK
  <2>1. PICK s \in lists[url[t]][ref[t]] :
              /\ lists' = [lists EXCEPT ![url[t]][ref[t]] = @ \ {s}]
              /\ held' = [held EXCEPT ![t] = s]
    BY <1>2 DEF Reuse
  <2>2. /\ UNCHANGED <<present, current, created, closed, url, ref, toClose>>
        /\ pc[t] = "gotPool" /\ pc' = [pc EXCEPT ![t] = "acquired"]
    BY <1>2 DEF Reuse
  <2>3. \A u \in Urls, g \in Generations : lists'[u][g] \subseteq lists[u][g]
    BY <1>t, <2>0, <2>1 DEF TypeOK
  <2>4. FreshLists'
    BY <1>t, <2>2, <2>3 DEF Openness, FreshLists, TypeOK
  <2>5. LivePoolsOpen'
    BY <1>t, <2>2, <2>3 DEF Openness, LivePoolsOpen, Pool, TypeOK
  <2>6. LiveHeldOpen'
    <3> SUFFICES ASSUME NEW v \in Threads, Holding(v)', UpToDate(v)'
                 PROVE  held'[v] \notin closed /\ \A c \in Cleaners : held'[v] \notin toClose[c]
      BY <2>2 DEF LiveHeldOpen
    <3>1. CASE v = t
      <4>1. held'[v] = s /\ url[t] \in present /\ s \in Pool(url[t])
        BY <1>t, <2>1, <2>2, <3>1 DEF UpToDate, Pool, TypeOK
      <4> QED
        BY <4>1 DEF Openness, LivePoolsOpen
    <3>2. CASE v # t
      BY <1>t, <2>1, <2>2, <3>2 DEF Openness, LiveHeldOpen, Holding, UpToDate, TypeOK
    <3> QED
      BY <3>1, <3>2
  <2> QED
    BY <2>4, <2>5, <2>6 DEF Openness
<1>3. ASSUME NEW t \in Threads, Create(t) PROVE Openness'
  <2>1. PICK s \in Sessions \ created : held' = [held EXCEPT ![t] = s]
    BY <1>3 DEF Create
  <2>2. /\ UNCHANGED <<lists, present, current, closed, url, ref, toClose>>
        /\ pc[t] = "gotPool" /\ pc' = [pc EXCEPT ![t] = "acquired"]
    BY <1>3 DEF Create
  <2>3. s \notin closed /\ \A c \in Cleaners : s \notin toClose[c]
    BY <2>1 DEF Ownership, CreatedOnly
  <2>4. FreshLists'
    BY <1>t, <2>2 DEF Openness, FreshLists, TypeOK
  <2>5. LivePoolsOpen'
    BY <2>2 DEF Openness, LivePoolsOpen, Pool
  <2>6. LiveHeldOpen'
    BY <1>t, <2>1, <2>2, <2>3 DEF Openness, LiveHeldOpen, Holding, UpToDate, TypeOK
  <2> QED
    BY <2>4, <2>5, <2>6 DEF Openness
<1>4. ASSUME NEW t \in Threads, MaybeCleanup(t) PROVE Openness'
  BY <1>4, <1>t DEF MaybeCleanup, Openness, FreshLists, LivePoolsOpen, LiveHeldOpen,
                    Holding, UpToDate, Pool, TypeOK
<1>5. ASSUME NEW t \in Threads, SpawnCleanup(t) PROVE Openness'
  BY <1>5, <1>t DEF SpawnCleanup, Openness, FreshLists, LivePoolsOpen, LiveHeldOpen,
                    Holding, UpToDate, Pool, TypeOK
<1>6. ASSUME NEW t \in Threads, Release(t) PROVE Openness'
  <2>0. url[t] \in Urls /\ ref[t] \in Generations /\ held[t] \in Sessions
    BY <1>6, <1>t, ReleaseCases DEF TypeOK
  <2>1. /\ UNCHANGED <<present, current, created, url, ref, toClose>>
        /\ pc[t] = "using" /\ pc' = [pc EXCEPT ![t] = "idle"]
        /\ held' = [held EXCEPT ![t] = NoSession]
    BY <1>6 DEF Release
  <2>2. held[t] # NoSession /\ ref[t] <= current[url[t]] /\ Holding(t)
    BY <2>0, <2>1, SetsAssumption DEF Openness, FreshLists, Holding
  <2>3. CASE lists' = [lists EXCEPT ![url[t]][ref[t]] = @ \cup {held[t]}] /\ closed' = closed
    <3>1. \A u \in Urls, g \in Generations :
             (u # url[t] \/ g # ref[t]) => lists'[u][g] = lists[u][g]
      BY <1>t, <2>0, <2>3 DEF TypeOK
    <3>2. lists'[url[t]][ref[t]] = lists[url[t]][ref[t]] \cup {held[t]}
      BY <1>t, <2>0, <2>3 DEF TypeOK
    <3>3. FreshLists'
      <4>1. ASSUME NEW u \in Urls, NEW g \in Generations, g > current[u]
            PROVE  lists'[u][g] = {}
        <5>1. u # url[t] \/ g # ref[t]
          BY <1>t, <2>0, <2>2, <4>1, BoundsAssumption DEF TypeOK, Generations
        <5> QED
          BY <3>1, <4>1, <5>1 DEF Openness, FreshLists
      <4>2. ASSUME NEW v \in Threads, pc'[v] # "idle" PROVE ref[v] <= current[url[v]]
        BY <1>t, <2>1, <4>2 DEF Openness, FreshLists, TypeOK
      <4> QED
        BY <2>1, <4>1, <4>2 DEF FreshLists
    <3>4. LivePoolsOpen'
      <4> SUFFICES ASSUME NEW u \in present, NEW s \in lists'[u][current[u]]
                   PROVE  s \notin closed /\ \A c \in Cleaners : s \notin toClose[c]
        BY <2>1, <2>3 DEF LivePoolsOpen, Pool
      <4>0. u \in Urls /\ current[u] \in Generations
        BY <1>t DEF TypeOK
      <4>1. CASE s \in lists[u][current[u]]
        BY <4>1 DEF Openness, LivePoolsOpen, Pool
      <4>2. CASE s \notin lists[u][current[u]]
        <5>1. u = url[t] /\ current[u] = ref[t]
          BY <3>1, <4>0, <4>2
        <5>2. s = held[t]
          BY <3>2, <4>2, <5>1
        <5> QED
          BY <2>2, <5>1, <5>2 DEF Openness, LiveHeldOpen, UpToDate
      <4> QED
        BY <4>1, <4>2
    <3>5. LiveHeldOpen'
      BY <1>t, <2>1, <2>3 DEF Openness, LiveHeldOpen, Holding, UpToDate, TypeOK
    <3> QED
      BY <3>3, <3>4, <3>5 DEF Openness
  <2>4. CASE lists' = lists /\ closed' = closed \cup {held[t]}
    <3>1. FreshLists'
      BY <1>t, <2>1, <2>4 DEF Openness, FreshLists, TypeOK
    <3>2. LivePoolsOpen'
      <4>1. \A u \in present : held[t] \notin Pool(u)
        BY <1>t, <2>2 DEF Ownership, ExclusiveUse, InSomeList, Pool, TypeOK
      <4> QED
        BY <2>1, <2>4, <4>1 DEF Openness, LivePoolsOpen, Pool
    <3>3. LiveHeldOpen'
      <4> SUFFICES ASSUME NEW v \in Threads, Holding(v)', UpToDate(v)'
                   PROVE  held'[v] \notin closed' /\ \A c \in Cleaners : held'[v] \notin toClose[c]
        BY <2>1 DEF LiveHeldOpen
      <4>1. v # t /\ Holding(v) /\ UpToDate(v) /\ held'[v] = held[v]
        BY <1>t, <2>1 DEF Holding, UpToDate, TypeOK
      <4>2. held[v] # held[t]
        BY <2>2, <4>1 DEF Ownership, ExclusiveUse
      <4> QED
        BY <2>4, <4>1, <4>2 DEF Openness, LiveHeldOpen
    <3> QED
      BY <3>1, <3>2, <3>3 DEF Openness
  <2> QED
    BY <1>6, <2>3, <2>4, ReleaseCases
<1>7. ASSUME NEW t \in Threads, Fail(t) PROVE Openness'
  BY <1>7, <1>t DEF Fail, Openness, FreshLists, LivePoolsOpen, LiveHeldOpen,
                    Holding, UpToDate, Pool, TypeOK
<1>8. ASSUME NEW c \in Cleaners, CleanupCopies(c) PROVE Openness'
  <2>1. /\ UNCHANGED <<lists, created, closed, pc, url, ref, held>>
        /\ present' = {u \in present : Pool(u) # {}}
        /\ \A u \in present' : current[u] < MaxGeneration /\ current'[u] = current[u] + 1
        /\ \A u \in Urls \ present' : current'[u] = current[u]
    BY <1>8, <1>t DEF CleanupCopies, TypeOK
  <2>2. \A u \in Urls : current[u] \in Nat /\ current[u] <= MaxGeneration
    BY <1>t, BoundsAssumption DEF TypeOK, Generations
  <2>3. present' \subseteq Urls
    BY <1>t, <2>1 DEF TypeOK
  <2>4. \A u \in Urls : current'[u] \in Nat /\ current[u] <= current'[u]
    BY <2>1, <2>2, <2>3
  <2>5. FreshLists'
    <3>1. ASSUME NEW u \in Urls, NEW g \in Generations, g > current'[u]
          PROVE  lists[u][g] = {}
      <4>1. g > current[u]
        BY <2>2, <2>4, <3>1, BoundsAssumption DEF Generations
      <4> QED
        BY <4>1 DEF Openness, FreshLists
    <3>2. ASSUME NEW v \in Threads, pc[v] # "idle" PROVE ref[v] <= current'[url[v]]
      <4>1. ref[v] \in Nat /\ url[v] \in Urls /\ ref[v] <= current[url[v]]
        BY <1>t, <3>2, BoundsAssumption DEF TypeOK, Generations, Openness, FreshLists
      <4> QED
        BY <2>2, <2>4, <4>1
    <3> QED
      BY <2>1, <3>1, <3>2 DEF FreshLists
  <2>6. LivePoolsOpen'
    <3> SUFFICES ASSUME NEW u \in present' PROVE lists[u][current'[u]] = {}
      BY <2>1 DEF LivePoolsOpen, Pool
    <3>1. current'[u] > current[u] /\ current'[u] \in Generations
      BY <2>1, <2>2, <2>3, BoundsAssumption DEF Generations
    <3> QED
      BY <2>3, <3>1 DEF Openness, FreshLists
  <2>7. LiveHeldOpen'
    <3> SUFFICES ASSUME NEW v \in Threads, Holding(v), url[v] \in present',
                        ref[v] = current'[url[v]]
                 PROVE  FALSE
      BY <2>1 DEF LiveHeldOpen, Holding, UpToDate
    <3>1. url[v] \in Urls /\ ref[v] <= current[url[v]]
      BY <1>t DEF TypeOK, Openness, FreshLists, Holding
    <3> QED
      BY <2>1, <2>2, <3>1
  <2> QED
    BY <2>5, <2>6, <2>7 DEF Openness
<1>9. ASSUME NEW c \in Cleaners, NEW s \in Sessions, CleanupCloses(c, s) PROVE Openness'
  <2>1. /\ UNCHANGED <<lists, present, current, pc, url, ref, held>>
        /\ closed' = closed \cup {s} /\ s \in toClose[c]
        /\ \A d \in Cleaners : toClose'[d] \subseteq toClose[d]
    BY <1>9, <1>t DEF CleanupCloses, TypeOK
  <2>2. FreshLists'
    BY <2>1 DEF Openness, FreshLists
  <2>3. LivePoolsOpen'
    BY <2>1 DEF Openness, LivePoolsOpen, Pool
  <2>4. LiveHeldOpen'
    BY <2>1 DEF Openness, LiveHeldOpen, Holding, UpToDate
  <2> QED
    BY <2>2, <2>3, <2>4 DEF Openness
<1>10. ASSUME NEW c \in Cleaners, CleanupRecords(c) PROVE Openness'
  BY <1>10 DEF CleanupRecords, Openness, FreshLists, LivePoolsOpen, LiveHeldOpen,
               Holding, UpToDate, Pool
<1>11. ASSUME IntervalPasses PROVE Openness'
  BY <1>11 DEF IntervalPasses, Openness, FreshLists, LivePoolsOpen, LiveHeldOpen,
               Holding, UpToDate, Pool
<1>12. ASSUME close_all PROVE Openness'
  BY <1>12 DEF close_all, Openness, FreshLists, LivePoolsOpen, LiveHeldOpen, UpToDate
<1>13. CASE UNCHANGED vars
  BY <1>13 DEF vars, Openness, FreshLists, LivePoolsOpen, LiveHeldOpen, Holding, UpToDate, Pool
<1> QED
  BY <1>1, <1>2, <1>3, <1>4, <1>5, <1>6, <1>7, <1>8, <1>9, <1>10, <1>11, <1>12, <1>13
     DEF Next, Client, Cleaner

\* A thread that looks a pool up finds open sessions in it: no session of a pool
\* that self.pools refers to was closed or is about to be closed by a clean-up.
\* (A thread that looked the pool up before the clean-up has no such guarantee.)
THEOREM PoolsOpen == Spec => []LivePoolsOpen
<1>1. Openness => LivePoolsOpen
  BY DEF Openness
<1> QED
  BY InitType, NextType, InitOwnership, NextOwnership, InitOpenness, NextOpenness, <1>1, PTL
     DEF Spec

-----------------------------------------------------------------------------
(* The size of the lists. *)

LEMMA ListFinite ==
  ASSUME TypeOK, NEW u \in Urls, NEW g \in Generations
  PROVE  IsFiniteSet(lists[u][g]) /\ Cardinality(lists[u][g]) \in Nat
<1>1. lists[u][g] \subseteq Sessions
  BY DEF TypeOK
<1> QED
  BY <1>1, SetsAssumption, FS_Subset, FS_CardinalityType

LEMMA NextBound == TypeInv /\ PoolBound /\ [Next]_vars => PoolBound'
<1> SUFFICES ASSUME TypeInv, PoolBound, [Next]_vars PROVE PoolBound'
  OBVIOUS
<1> USE DEF poolVars, sessionVars, threadVars, cleanVars
<1>t. TypeOK
  BY DEF TypeInv
<1>0. CASE UNCHANGED lists
  BY <1>0 DEF PoolBound
<1>1. ASSUME NEW t \in Threads, Reuse(t) PROVE PoolBound'
  <2>1. url[t] \in Urls /\ ref[t] \in Generations
    BY <1>t DEF TypeOK
  <2>2. PICK s \in lists[url[t]][ref[t]] :
              lists' = [lists EXCEPT ![url[t]][ref[t]] = @ \ {s}]
    BY <1>1 DEF Reuse
  <2>3. ASSUME NEW u \in Urls, NEW g \in Generations
        PROVE  Cardinality(lists'[u][g]) <= MaxPoolSize
    <3>1. lists'[u][g] \subseteq lists[u][g]
      BY <1>t, <2>1, <2>2 DEF TypeOK
    <3>2. Cardinality(lists'[u][g]) \in Nat
          /\ Cardinality(lists'[u][g]) <= Cardinality(lists[u][g])
      BY <1>t, <3>1, ListFinite, FS_Subset, FS_CardinalityType
    <3>3. Cardinality(lists[u][g]) <= MaxPoolSize /\ Cardinality(lists[u][g]) \in Nat
      BY <1>t, ListFinite DEF PoolBound
    <3> QED
      BY <3>2, <3>3, BoundsAssumption
  <2> QED
    BY <2>3 DEF PoolBound
<1>2. ASSUME NEW t \in Threads, Release(t) PROVE PoolBound'
  <2>1. url[t] \in Urls /\ ref[t] \in Generations
    BY <1>t DEF TypeOK
  <2>2. CASE /\ Cardinality(lists[url[t]][ref[t]]) < MaxPoolSize
             /\ lists' = [lists EXCEPT ![url[t]][ref[t]] = @ \cup {held[t]}]
    <3>1. ASSUME NEW u \in Urls, NEW g \in Generations
          PROVE  Cardinality(lists'[u][g]) <= MaxPoolSize
      <4>1. CASE u = url[t] /\ g = ref[t]
        <5>1. lists'[u][g] = lists[u][g] \cup {held[t]}
          BY <1>t, <2>1, <2>2, <4>1 DEF TypeOK
        <5>2. IsFiniteSet(lists[u][g]) /\ Cardinality(lists[u][g]) \in Nat
          BY <1>t, ListFinite
        <5>3. \/ Cardinality(lists[u][g] \cup {held[t]}) = Cardinality(lists[u][g])
              \/ Cardinality(lists[u][g] \cup {held[t]}) = Cardinality(lists[u][g]) + 1
          BY <5>2, FS_AddElement
        <5>4. Cardinality(lists[u][g]) < MaxPoolSize
          BY <2>2, <4>1
        <5> QED
          BY <5>1, <5>2, <5>3, <5>4, BoundsAssumption
      <4>2. CASE ~(u = url[t] /\ g = ref[t])
        <5>1. lists'[u][g] = lists[u][g]
          BY <1>t, <2>1, <2>2, <4>2 DEF TypeOK
        <5> QED
          BY <5>1 DEF PoolBound
      <4> QED
        BY <4>1, <4>2
    <3> QED
      BY <3>1 DEF PoolBound
  <2>3. CASE lists' = lists
    BY <1>0, <2>3
  <2> QED
    BY <1>2, <2>2, <2>3, ReleaseCases
<1>3. ASSUME NEW t \in Threads, Client(t) PROVE PoolBound'
  BY <1>0, <1>1, <1>2, <1>3
     DEF Client, _get_pool, Create, MaybeCleanup, SpawnCleanup, Fail
<1>4. ASSUME NEW c \in Cleaners, Cleaner(c) PROVE PoolBound'
  BY <1>0, <1>4 DEF Cleaner, CleanupCopies, CleanupCloses, CleanupRecords
<1>5. ASSUME IntervalPasses \/ close_all PROVE PoolBound'
  BY <1>0, <1>5 DEF IntervalPasses, close_all
<1>6. CASE UNCHANGED vars
  BY <1>0, <1>6 DEF vars
<1> QED
  BY <1>3, <1>4, <1>5, <1>6 DEF Next

\* Neither the pools nor the lists that clean-ups have replaced ever hold more than
\* max_pool_size idle sessions.
THEOREM PoolsBounded == Spec => []PoolBound
<1>1. Init => PoolBound
  <2> SUFFICES ASSUME Init PROVE PoolBound
    OBVIOUS
  <2>1. Cardinality({}) = 0
    BY FS_EmptySet
  <2> QED
    BY <2>1, BoundsAssumption DEF Init, PoolBound
<1> QED
  BY InitType, NextType, <1>1, NextBound, PTL DEF Spec

-----------------------------------------------------------------------------
(* Where a session is filed, and what the metric says of it. *)

\* Between copying and recording, a clean-up is closing: whoever changes the pools without
\* the metric keeps MetricAgrees waiting until CleanupRecords.
LEMMA NextMetric == TypeInv /\ MetricAgrees /\ [Next]_vars => MetricAgrees'
<1> SUFFICES ASSUME TypeInv, MetricAgrees, [Next]_vars PROVE MetricAgrees'
  OBVIOUS
<1>0. TypeOK
  BY DEF TypeInv
<1>1. ASSUME NEW t \in Threads, NEW u \in Urls, _get_pool(t, u) PROVE MetricAgrees'
  <2>1. cpc' = cpc
    BY <1>1 DEF _get_pool, cleanVars
  <2>2. CASE u \in present
    BY <1>1, <2>1, <2>2 DEF _get_pool, MetricAgrees
  <2>3. CASE u \notin present
    BY <1>1, <2>3 DEF _get_pool, MetricAgrees
  <2> QED
    BY <2>2, <2>3
<1>2. ASSUME NEW t \in Threads, SpawnCleanup(t) PROVE MetricAgrees'
  <2>1. PICK c \in Cleaners : cpc[c] = "off" /\ cpc' = [cpc EXCEPT ![c] = "started"]
    BY <1>2 DEF SpawnCleanup
  <2>2. \A d \in Cleaners : cpc'[d] = "closing" <=> cpc[d] = "closing"
    BY <1>0, <2>1 DEF TypeOK
  <2> QED
    BY <1>2, <2>2 DEF SpawnCleanup, poolVars, MetricAgrees
<1>3. ASSUME NEW t \in Threads, Reuse(t) \/ Create(t) \/ MaybeCleanup(t) \/ Release(t) \/ Fail(t)
      PROVE  MetricAgrees'
  BY <1>3 DEF Reuse, Create, MaybeCleanup, Release, Fail, poolVars, cleanVars, MetricAgrees
<1>4. ASSUME NEW c \in Cleaners, CleanupCopies(c) PROVE MetricAgrees'
  BY <1>0, <1>4 DEF CleanupCopies, TypeOK, MetricAgrees
<1>5. ASSUME NEW c \in Cleaners, NEW s \in Sessions, CleanupCloses(c, s) PROVE MetricAgrees'
  BY <1>5 DEF CleanupCloses, poolVars, MetricAgrees
<1>6. ASSUME NEW c \in Cleaners, CleanupRecords(c) PROVE MetricAgrees'
  BY <1>6 DEF CleanupRecords, poolVars, MetricAgrees
<1>7. CASE IntervalPasses
  BY <1>7 DEF IntervalPasses, poolVars, MetricAgrees
<1>8. CASE close_all
  BY <1>8, FS_EmptySet DEF close_all, cleanVars, MetricAgrees
<1>9. CASE UNCHANGED vars
  BY <1>9 DEF vars, poolVars, cleanVars, MetricAgrees
<1> QED
  BY <1>1, <1>2, <1>3, <1>4, <1>5, <1>6, <1>7, <1>8, <1>9 DEF Next, Client, Cleaner

\* However threads, clean-ups and close_all interleave, no session is in two lists, and the
\* metric counts the pools whenever no clean-up is between its two critical sections.
THEOREM SessionsFiledOnce == Spec => []FiledOnce
<1>1. Init => MetricAgrees
  BY FS_EmptySet DEF Init, MetricAgrees
<1>2. Ownership /\ MetricAgrees => FiledOnce
  BY DEF Ownership, FiledOnce
<1> QED
  BY InitType, NextType, InitOwnership, NextOwnership, <1>1, NextMetric, <1>2, PTL DEF Spec

-----------------------------------------------------------------------------
(***************************************************************************)
(* The registry of AsyncPool.                                              *)
(***************************************************************************)
PoolTypes ==
    /\ clientOf \in [BaseUrls -> 0..MaxClients]
    /\ made \in [Clients -> {"none", "open", "closed", "dropped"}]
    /\ holding \in [AsyncUsers \cup OuterUsers -> 0..MaxClients]
    /\ closing \in [AllClosers -> SUBSET (0..MaxClients)]
    /\ main \in [pc : {"idle", "waits", "runs", "returned"}, queued : BOOLEAN]

\* A close under way has no 0 in its copy, which would make it look ended.
CopiesHoldClients == \A k \in AllClosers : UnderWay(k) => 0 \notin closing[k]

\* A registered client is open, or closed by a close that still has to empty
\* the registry.  Without the second half RegistryOpenAtRest is not inductive.
RegisteredLive ==
    \A u \in BaseUrls : clientOf[u] # 0 =>
        \/ made[clientOf[u]] = "open"
        \/ made[clientOf[u]] = "closed" /\ \E k \in AllClosers : UnderWay(k)

\* One client never serves two URLs.
OneUrlEach == \A u, v \in BaseUrls : clientOf[u] = clientOf[v] /\ u # v => clientOf[u] = 0

PoolInv == PoolTypes /\ CopiesHoldClients /\ RegisteredLive /\ OneUrlEach

-----------------------------------------------------------------------------

LEMMA PoolInvImpliesSound == PoolInv => RegistrySound
<1> SUFFICES ASSUME PoolInv PROVE RegistrySound
  OBVIOUS
<1>1. AsyncPoolTypeOK
  BY DEF PoolInv, PoolTypes, AsyncPoolTypeOK
<1>2. RegistryOpenAtRest
  BY DEF PoolInv, RegisteredLive, RegistryOpenAtRest, Registered
<1>3. RegistryOwns
  BY DEF PoolInv, RegisteredLive, OneUrlEach, RegistryOwns, Registered
<1> QED
  BY <1>1, <1>2, <1>3 DEF RegistrySound

LEMMA InitPool == AsyncPoolInit => PoolInv
<1> SUFFICES ASSUME AsyncPoolInit PROVE PoolInv
  OBVIOUS
<1>1. PoolTypes
  BY AsyncPoolAssumption DEF AsyncPoolInit, PoolTypes
<1>2. CopiesHoldClients /\ RegisteredLive /\ OneUrlEach
  BY DEF AsyncPoolInit, CopiesHoldClients, RegisteredLive, OneUrlEach, UnderWay
<1> QED
  BY <1>1, <1>2 DEF PoolInv

\* The registered clients are clients: the copy of a close never holds 0.
LEMMA RegisteredType == PoolTypes => Registered \in SUBSET (1..MaxClients)
BY AsyncPoolAssumption DEF PoolTypes, Registered

LEMMA GetClientKeeps ==
  ASSUME PoolInv, NEW user \in AsyncUsers \cup OuterUsers, NEW u \in BaseUrls, GetClient(user, u)
  PROVE  PoolInv'
<1>1. CASE clientOf[u] # 0
  BY <1>1 DEF GetClient, PoolInv, PoolTypes, CopiesHoldClients, RegisteredLive, OneUrlEach, UnderWay
<1>2. CASE clientOf[u] = 0
  <2>1. PICK c \in Clients :
           /\ made[c] = "none" /\ made' = [made EXCEPT ![c] = "open"]
           /\ clientOf' = [clientOf EXCEPT ![u] = c]
           /\ holding' = [holding EXCEPT ![user] = c]
    BY <1>2 DEF GetClient
  <2>2. UNCHANGED <<closing, main>>
    BY DEF GetClient
  <2>3. PoolTypes'
    BY <2>1, <2>2, AsyncPoolAssumption DEF PoolInv, PoolTypes, Clients
  <2>4. CopiesHoldClients'
    BY <2>2 DEF PoolInv, CopiesHoldClients, UnderWay
  <2>5. \A v \in BaseUrls : clientOf[v] # c
    BY <2>1, AsyncPoolAssumption DEF PoolInv, RegisteredLive, Clients
  <2>6. RegisteredLive'
    <3> SUFFICES ASSUME NEW v \in BaseUrls, clientOf'[v] # 0
                 PROVE  \/ made'[clientOf'[v]] = "open"
                        \/ /\ made'[clientOf'[v]] = "closed"
                           /\ \E k \in AllClosers : closing'[k] # {0}
      BY DEF RegisteredLive, UnderWay
    <3>1. CASE v = u
      BY <2>1, <3>1 DEF PoolInv, PoolTypes
    <3>2. CASE v # u
      <4>1. clientOf'[v] = clientOf[v] /\ clientOf[v] \in Clients
        BY <2>1, <3>2, AsyncPoolAssumption DEF PoolInv, PoolTypes, Clients
      <4>2. made'[clientOf[v]] = made[clientOf[v]]
        BY <2>1, <2>5, <4>1 DEF PoolInv, PoolTypes
      <4> QED
        BY <2>2, <4>1, <4>2 DEF PoolInv, RegisteredLive, UnderWay
    <3> QED
      BY <3>1, <3>2
  <2>7. OneUrlEach'
    BY <2>1, <2>5 DEF PoolInv, PoolTypes, OneUrlEach
  <2> QED
    BY <2>3, <2>4, <2>6, <2>7 DEF PoolInv
<1> QED
  BY <1>1, <1>2

\* A close begins: the loop's own, a queued one, or that of another thread.
LEMMA BeginningKeeps ==
  ASSUME PoolInv, NEW k \in AllClosers, closing' = [closing EXCEPT ![k] = Registered],
         UNCHANGED <<clientOf, made, holding>>,
         main' \in [pc : {"idle", "waits", "runs", "returned"}, queued : BOOLEAN]
  PROVE  PoolInv'
<1>1. Registered \in SUBSET (1..MaxClients)
  BY RegisteredType DEF PoolInv
<1>2. PoolTypes'
  BY <1>1, AsyncPoolAssumption DEF PoolInv, PoolTypes
<1>3. \A j \in AllClosers : j # k => closing'[j] = closing[j]
  BY DEF PoolInv, PoolTypes
<1>4. closing'[k] = Registered /\ Registered # {0}
  BY <1>1, AsyncPoolAssumption DEF PoolInv, PoolTypes
<1>5. CopiesHoldClients'
  BY <1>1, <1>3, <1>4 DEF PoolInv, CopiesHoldClients, UnderWay
<1>6. RegisteredLive'
  BY <1>3, <1>4 DEF PoolInv, RegisteredLive, UnderWay
<1>7. OneUrlEach'
  BY DEF PoolInv, OneUrlEach
<1> QED
  BY <1>2, <1>5, <1>6, <1>7 DEF PoolInv

LEMMA AwaitCloseKeeps ==
  ASSUME PoolInv, NEW k \in AllClosers, NEW c \in Clients, AwaitClose(k, c)
  PROVE  PoolInv'
<1>1. PoolTypes'
  BY DEF AwaitClose, PoolInv, PoolTypes
<1>2. closing'[k] = closing[k] \ {c} /\ 0 \notin closing[k]
  BY DEF AwaitClose, PoolInv, PoolTypes, CopiesHoldClients
<1>3. \A j \in AllClosers : j # k => closing'[j] = closing[j]
  BY DEF AwaitClose, PoolInv, PoolTypes
<1>4. CopiesHoldClients'
  BY <1>2, <1>3 DEF PoolInv, CopiesHoldClients, UnderWay
<1>5. \E j \in AllClosers : closing'[j] # {0}
  BY <1>2
<1>6. RegisteredLive'
  <2> SUFFICES ASSUME NEW u \in BaseUrls, clientOf[u] # 0
               PROVE  made'[clientOf[u]] \in {"open", "closed"}
    BY <1>5 DEF AwaitClose, RegisteredLive, UnderWay
  <2>1. clientOf[u] \in Clients /\ made[clientOf[u]] \in {"open", "closed"}
    BY AsyncPoolAssumption DEF PoolInv, PoolTypes, RegisteredLive, Clients
  <2> QED
    BY <2>1 DEF AwaitClose, PoolInv, PoolTypes
<1>7. OneUrlEach'
  BY DEF AwaitClose, PoolInv, OneUrlEach
<1> QED
  BY <1>1, <1>4, <1>6, <1>7 DEF PoolInv

\* The registry is emptied: a close ends, or the shutdown gave up waiting.
LEMMA EmptyingKeeps ==
  ASSUME PoolInv, (\E k \in AllClosers : EndClose(k)) \/ TimeoutThenSync PROVE PoolInv'
<1>1. clientOf' = [u \in BaseUrls |-> 0] /\ made' = Dropped /\ UNCHANGED holding
  BY DEF EndClose, TimeoutThenSync, Emptied
<1>2. made' \in [Clients -> {"none", "open", "closed", "dropped"}]
  BY <1>1 DEF Dropped, PoolInv, PoolTypes
<1>3. /\ closing' \in [AllClosers -> SUBSET (0..MaxClients)]
      /\ main' \in [pc : {"idle", "waits", "runs", "returned"}, queued : BOOLEAN]
  BY AsyncPoolAssumption DEF EndClose, TimeoutThenSync, PoolInv, PoolTypes
<1>4. PoolTypes'
  BY <1>1, <1>2, <1>3, AsyncPoolAssumption DEF PoolInv, PoolTypes
<1>5. CopiesHoldClients'
  <2> SUFFICES ASSUME NEW j \in AllClosers, closing'[j] # {0} PROVE 0 \notin closing'[j]
    BY DEF CopiesHoldClients, UnderWay
  <2>1. closing'[j] = closing[j]
    BY DEF EndClose, TimeoutThenSync, PoolInv, PoolTypes
  <2> QED
    BY <2>1 DEF PoolInv, CopiesHoldClients, UnderWay
<1>6. RegisteredLive' /\ OneUrlEach'
  BY <1>1 DEF RegisteredLive, OneUrlEach
<1> QED
  BY <1>4, <1>5, <1>6 DEF PoolInv

LEMMA PoolInvStep == PoolInv /\ [AsyncPoolNext]_asyncPoolVars => PoolInv'
<1> SUFFICES ASSUME PoolInv, [AsyncPoolNext]_asyncPoolVars PROVE PoolInv'
  OBVIOUS
<1>1. ASSUME NEW k \in AllClosers, BeginClose(k) PROVE PoolInv'
  BY <1>1, BeginningKeeps DEF BeginClose, PoolInv, PoolTypes
<1>2. CASE ShutdownInLoop
  BY <1>2 DEF ShutdownInLoop, PoolInv, PoolTypes, CopiesHoldClients, RegisteredLive, OneUrlEach, UnderWay
<1>3. CASE ShutdownOutside
  BY <1>3, BeginningKeeps DEF ShutdownOutside, PoolInv, PoolTypes, AllClosers
<1>4. CASE UNCHANGED asyncPoolVars
  BY <1>4 DEF asyncPoolVars, PoolInv, PoolTypes, CopiesHoldClients, RegisteredLive, OneUrlEach, UnderWay
<1> QED
  BY <1>1, <1>2, <1>3, <1>4, GetClientKeeps, AwaitCloseKeeps, EmptyingKeeps DEF AsyncPoolNext

-----------------------------------------------------------------------------
(* Results. *)

LEMMA PoolInvariant == AsyncPoolSpec => []PoolInv
BY InitPool, PoolInvStep, PTL DEF AsyncPoolSpec

\* AsyncConnectionPool: whatever closes overlap, and whatever is asked for
\* while they await, the registry holds open clients of its own once they have
\* ended, never one that was dropped and never one client for two URLs.
THEOREM RegistryIsSound == AsyncPoolSpec => []RegistrySound
BY PoolInvariant, PoolInvImpliesSound, PTL

\* get_client in a thread without an event loop waits for the lock that
\* close_all keeps across its awaits, and so returns an open client.
THEOREM ThreadsFindOpen == AsyncPoolSpec => OuterUsersFindOpen
<1>1. PoolInv /\ [AsyncPoolNext]_asyncPoolVars =>
        [\A user \in OuterUsers : holding'[user] # holding[user] =>
            made'[holding'[user]] = "open"]_asyncPoolVars
  <2> SUFFICES ASSUME PoolInv, AsyncPoolNext, NEW user \in OuterUsers,
                      holding'[user] # holding[user]
               PROVE  made'[holding'[user]] = "open"
    BY DEF asyncPoolVars
  <2>1. PICK asker \in AsyncUsers \cup OuterUsers, u \in BaseUrls : GetClient(asker, u)
    BY DEF AsyncPoolNext, BeginClose, EndClose, AwaitClose, ShutdownInLoop, ShutdownOutside,
           TimeoutThenSync
  <2>2. asker = user
    BY <2>1 DEF GetClient, PoolInv, PoolTypes
  <2>3. CASE clientOf[u] # 0
    <3>1. holding'[user] = clientOf[u] /\ UNCHANGED made
      BY <2>1, <2>2, <2>3 DEF GetClient, PoolInv, PoolTypes
    <3>2. ~HeldByLoop /\ ~HeldByMain
      BY <2>1, <2>2, AsyncPoolAssumption DEF GetClient
    <3>3. \A k \in AllClosers : ~UnderWay(k)
      BY <3>2 DEF HeldByLoop, HeldByMain, AllClosers
    <3> QED
      BY <2>3, <3>1, <3>3 DEF PoolInv, RegisteredLive
  <2>4. CASE clientOf[u] = 0
    BY <2>1, <2>2, <2>4 DEF GetClient, PoolInv, PoolTypes
  <2> QED
    BY <2>3, <2>4
<1> QED
  BY <1>1, PoolInvariant, PTL DEF AsyncPoolSpec, OuterUsersFindOpen
=============================================================================
