---------------------------- MODULE StoresProofs ----------------------------
(***************************************************************************)
(* Proofs about what threads share: the query cache, saves with shared     *)
(* labels, the connections of execute_transaction, and the sessions of     *)
(* the two session managers, for any number of threads, labels,            *)
(* connections and calls; about the exports, the mock server, the adaptive *)
(* batch size and the validation manager; and their composition in         *)
(* MCStores.                                                               *)
(***************************************************************************)
EXTENDS MCStores, FiniteSetTheorems, SequenceTheorems, WellFoundedInduction, TLAPS

-----------------------------------------------------------------------------
(***************************************************************************)
(* The query cache.                                                        *)
(***************************************************************************)

\* The version after v, if there is one, was saved at moment m or later.
ReplacedSince(v, m) == v < version => savedAt[v + 1] >= m

\* An entry was current when its query ran, at most QueryTime before its stamp.
EntryWasCurrent ==
    queryCache.value # 0 =>
        /\ queryCache.value <= version /\ queryCache.stamp <= time
        /\ ReplacedSince(queryCache.value, queryCache.stamp - QueryTime)

\* A call between its miss and its store holds a version that was current after
\* the call began, and is not older than QueryTime.
CallsAreYoung ==
    \A r \in Readers :
        /\ reader[r].floor <= version
        /\ reader[r].pc \in {"query", "store"} =>
             reader[r].began <= time /\ time <= reader[r].began + QueryTime
        /\ reader[r].pc = "store" =>
             /\ reader[r].floor <= reader[r].value /\ reader[r].value <= version
             /\ ReplacedSince(reader[r].value, reader[r].began)

\* A save that invalidates has committed a version.
SaverHasSaved == saver = "invalidate" => version > 0

CacheInv == CacheSound /\ EntryWasCurrent /\ CallsAreYoung /\ SaverHasSaved

\* The answer given to reader r.
AnswerSound(r) ==
    reader[r].pc = "returned" =>
        /\ reader[r].floor > 0 => reader[r].value > 0
        /\ reader[r].value < reader[r].floor =>
             savedAt[reader[r].value + 1] + TimeToLive + QueryTime >= reader[r].began

LEMMA AnswersSound == CreationIsSeen /\ StalenessBounded <=> \A r \in Readers : AnswerSound(r)
BY DEF CreationIsSeen, StalenessBounded, AnswerSound

-----------------------------------------------------------------------------

LEMMA InitCache == CacheInit => CacheInv
<1> SUFFICES ASSUME CacheInit PROVE CacheInv
  OBVIOUS
<1>1. CacheTypeOK
  <2>0. 0 \in 0..MaxClock /\ 0 \in 0..MaxVersions
    BY CacheAssumption
  <2>1. /\ time \in 0..MaxClock /\ version \in 0..MaxVersions
        /\ savedAt \in [0..MaxVersions -> 0..MaxClock]
    BY <2>0 DEF CacheInit
  <2>3. queryCache \in [value : 0..MaxVersions, stamp : 0..MaxClock]
    BY <2>0 DEF CacheInit, NoEntry
  <2>4. modelCache \in BOOLEAN /\ saver \in {"idle", "invalidate"}
    BY DEF CacheInit
  <2>2. reader \in [Readers -> [pc : {"idle", "query", "store", "returned"},
                               value : 0..MaxVersions, began : 0..MaxClock,
                               floor : 0..MaxVersions]]
    BY CacheAssumption DEF CacheInit
  <2> QED
    BY <2>1, <2>2, <2>3, <2>4 DEF CacheTypeOK
<1>2. CreationIsSeen /\ StalenessBounded /\ EntryWasCurrent /\ CallsAreYoung /\ SaverHasSaved
  BY CacheAssumption
     DEF CacheInit, CreationIsSeen, StalenessBounded, EntryWasCurrent, CallsAreYoung, NoEntry,
         SaverHasSaved
<1> QED
  BY <1>1, <1>2 DEF CacheInv, CacheSound

\* A hit is as old as the entry, a miss begins a query.
LEMMA GetProjectKeeps == ASSUME CacheInv, NEW r \in Readers, GetProject(r) PROVE CacheInv'
<1> DEFINE hit == queryCache.value # 0 /\ ~Expired
           now == [pc |-> IF hit THEN "returned" ELSE "query", began |-> time,
                   floor |-> Acknowledged, value |-> IF hit THEN queryCache.value ELSE 0]
<1>1. /\ reader' = [reader EXCEPT ![r] = now]
      /\ queryCache' = IF Expired THEN NoEntry ELSE queryCache
      /\ UNCHANGED <<time, version, savedAt, modelCache, saver>>
  BY DEF GetProject
<1>2. Acknowledged \in 0..MaxVersions /\ Acknowledged <= version
  BY CacheAssumption DEF Acknowledged, CacheInv, CacheSound, CacheTypeOK, SaverHasSaved
<1>3. /\ now.pc = IF hit THEN "returned" ELSE "query"
      /\ now.began = time /\ now.floor = Acknowledged
      /\ now.value = IF hit THEN queryCache.value ELSE 0
      /\ now \in [pc : {"idle", "query", "store", "returned"}, value : 0 .. MaxVersions,
                  began : 0 .. MaxClock, floor : 0 .. MaxVersions]
  BY <1>2, CacheAssumption DEF CacheInv, CacheSound, CacheTypeOK
<1> HIDE DEF now
<1>4. reader'[r] = now /\ \A s \in Readers : s # r => reader'[s] = reader[s]
  BY <1>1 DEF CacheInv, CacheSound, CacheTypeOK
<1>5. CacheTypeOK'
  <2>1. CacheTypeOK
    BY DEF CacheInv, CacheSound
  <2>2. queryCache' \in [value : 0..MaxVersions, stamp : 0..MaxClock]
    BY <1>1, <2>1, CacheAssumption DEF CacheTypeOK, NoEntry
  <2>3. reader' \in [Readers -> [pc : {"idle", "query", "store", "returned"}, value : 0..MaxVersions,
                                began : 0..MaxClock, floor : 0..MaxVersions]]
    BY <1>1, <1>3, <2>1 DEF CacheTypeOK
  <2> QED
    BY <1>1, <2>1, <2>2, <2>3 DEF CacheTypeOK
<1>6. EntryWasCurrent'
  BY <1>1, CacheAssumption DEF CacheInv, EntryWasCurrent, ReplacedSince, NoEntry
<1>7. CallsAreYoung'
  <2> SUFFICES ASSUME NEW s \in Readers
               PROVE  /\ reader'[s].floor <= version
                      /\ reader'[s].pc \in {"query", "store"} =>
                           reader'[s].began <= time /\ time <= reader'[s].began + QueryTime
                      /\ reader'[s].pc = "store" =>
                           /\ reader'[s].floor <= reader'[s].value /\ reader'[s].value <= version
                           /\ reader'[s].value < version =>
                                savedAt[reader'[s].value + 1] >= reader'[s].began
    BY <1>1 DEF CallsAreYoung, ReplacedSince
  <2>1. CASE s = r
    <3>1. time \in Nat
      BY DEF CacheInv, CacheSound, CacheTypeOK
    <3> QED
      BY <1>2, <1>3, <1>4, <2>1, <3>1, CacheAssumption
  <2>2. CASE s # r
    BY <1>4, <2>2 DEF CacheInv, CallsAreYoung, ReplacedSince
  <2> QED
    BY <2>1, <2>2
<1>8. AnswerSound(r)'
  <2>1. CASE hit
    <3>1. queryCache.value \in 0..MaxVersions /\ queryCache.stamp \in 0..MaxClock
          /\ time \in 0..MaxClock /\ version \in 0..MaxVersions
      BY DEF CacheInv, CacheSound, CacheTypeOK
    <3>2. time - queryCache.stamp <= TimeToLive /\ queryCache.value > 0
      BY <2>1, <3>1, CacheAssumption DEF Expired
    <3>3. ASSUME queryCache.value < version
          PROVE  savedAt[queryCache.value + 1] + TimeToLive + QueryTime >= time
      <4>1. savedAt[queryCache.value + 1] >= queryCache.stamp - QueryTime
        BY <2>1, <3>3 DEF CacheInv, EntryWasCurrent, ReplacedSince
      <4>2. savedAt[queryCache.value + 1] \in 0..MaxClock
        <5>1. savedAt \in [0..MaxVersions -> 0..MaxClock]
          BY DEF CacheInv, CacheSound, CacheTypeOK
        <5>2. queryCache.value + 1 \in 0..MaxVersions
          BY <3>1, <3>3, CacheAssumption
        <5> QED
          BY <5>1, <5>2
      <4> QED
        BY <3>1, <3>2, <4>1, <4>2, CacheAssumption
    <3> QED
      BY <1>1, <1>2, <1>3, <1>4, <2>1, <3>1, <3>2, <3>3, CacheAssumption DEF AnswerSound
  <2>2. CASE ~hit
    BY <1>3, <1>4, <2>2 DEF AnswerSound
  <2> QED
    BY <2>1, <2>2
<1>9. \A s \in Readers : AnswerSound(s)'
  BY <1>1, <1>4, <1>8, AnswersSound DEF CacheInv, CacheSound, AnswerSound
<1>10. CreationIsSeen' /\ StalenessBounded'
  BY <1>9 DEF AnswerSound, CreationIsSeen, StalenessBounded
<1> QED
  BY <1>1, <1>5, <1>6, <1>7, <1>10 DEF CacheInv, CacheSound, SaverHasSaved

\* The query sees the last committed version.
LEMMA RunQueryKeeps == ASSUME CacheInv, NEW r \in Readers, RunQuery(r) PROVE CacheInv'
<1>1. /\ reader[r].pc = "query" /\ UNCHANGED <<time, version, savedAt, queryCache, modelCache, saver>>
      /\ reader' = [reader EXCEPT ![r] = [reader[r] EXCEPT !.pc = "store", !.value = version]]
  BY DEF RunQuery, CacheInv, CacheSound, CacheTypeOK
<1>2. /\ reader'[r].pc = "store" /\ reader'[r].value = version
      /\ reader'[r].began = reader[r].began /\ reader'[r].floor = reader[r].floor
      /\ \A s \in Readers : s # r => reader'[s] = reader[s]
  BY <1>1 DEF CacheInv, CacheSound, CacheTypeOK
<1>3. CacheTypeOK'
  BY <1>1 DEF CacheInv, CacheSound, CacheTypeOK
<1>4. EntryWasCurrent' /\ SaverHasSaved'
  BY <1>1 DEF CacheInv, EntryWasCurrent, ReplacedSince, SaverHasSaved
<1>5. CallsAreYoung'
  BY <1>1, <1>2 DEF CacheInv, CacheSound, CacheTypeOK, CallsAreYoung, ReplacedSince
<1>6. CreationIsSeen' /\ StalenessBounded'
  BY <1>1, <1>2 DEF CacheInv, CacheSound, CreationIsSeen, StalenessBounded
<1> QED
  BY <1>3, <1>4, <1>5, <1>6 DEF CacheInv, CacheSound

LEMMA StoreResultKeeps == ASSUME CacheInv, NEW r \in Readers, StoreResult(r) PROVE CacheInv'
<1>1. /\ reader[r].pc = "store" /\ UNCHANGED <<time, version, savedAt, modelCache, saver>>
      /\ queryCache' = [value |-> reader[r].value, stamp |-> time]
      /\ reader' = [reader EXCEPT ![r] = [reader[r] EXCEPT !.pc = "returned"]]
  BY DEF StoreResult, CacheInv, CacheSound, CacheTypeOK
<1>2. /\ reader'[r].pc = "returned" /\ reader'[r].value = reader[r].value
      /\ reader'[r].began = reader[r].began /\ reader'[r].floor = reader[r].floor
      /\ \A s \in Readers : s # r => reader'[s] = reader[s]
  BY <1>1 DEF CacheInv, CacheSound, CacheTypeOK
<1>3. CacheTypeOK'
  BY <1>1 DEF CacheInv, CacheSound, CacheTypeOK
<1>4. EntryWasCurrent'
  <2>1. /\ reader[r].value \in 0..MaxVersions /\ reader[r].began \in 0..MaxClock
        /\ time \in 0..MaxClock /\ version \in 0..MaxVersions
        /\ reader[r].value < version => savedAt[reader[r].value + 1] \in 0..MaxClock
    <3>1. /\ reader[r].value \in 0..MaxVersions /\ reader[r].began \in 0..MaxClock
          /\ time \in 0..MaxClock /\ version \in 0..MaxVersions
          /\ savedAt \in [0..MaxVersions -> 0..MaxClock]
      BY DEF CacheInv, CacheSound, CacheTypeOK
    <3>2. reader[r].value < version => reader[r].value + 1 \in 0..MaxVersions
      BY <3>1, CacheAssumption, SMTT(20)
    <3> QED
      BY <3>1, <3>2
  <2>2. /\ reader[r].value <= version /\ time <= reader[r].began + QueryTime
        /\ reader[r].value < version => savedAt[reader[r].value + 1] >= reader[r].began
    BY <1>1 DEF CacheInv, CallsAreYoung, ReplacedSince
  <2>3. queryCache'.value = reader[r].value /\ queryCache'.stamp = time
    BY <1>1
  <2> QED
    BY <1>1, <2>1, <2>2, <2>3, CacheAssumption DEF EntryWasCurrent, ReplacedSince
<1>5. CallsAreYoung' /\ SaverHasSaved'
  BY <1>1, <1>2 DEF CacheInv, CacheSound, CacheTypeOK, CallsAreYoung, ReplacedSince, SaverHasSaved
<1>6. reader[r].floor <= reader[r].value
      /\ reader[r].floor \in 0..MaxVersions /\ reader[r].value \in 0..MaxVersions
  BY <1>1, CacheAssumption DEF CacheInv, CacheSound, CacheTypeOK, CallsAreYoung
<1>7. CreationIsSeen' /\ StalenessBounded'
  BY <1>1, <1>2, <1>6, CacheAssumption DEF CacheInv, CacheSound, CreationIsSeen, StalenessBounded
<1> QED
  BY <1>3, <1>4, <1>5, <1>7 DEF CacheInv, CacheSound

\* A save stamps the new version with the time it is committed: whatever was
\* current until then is replaced now, and not earlier.
LEMMA SaveProjectKeeps == ASSUME CacheInv, SaveProject PROVE CacheInv'
<1>1. /\ version' = version + 1 /\ version \in 0..MaxVersions /\ version < MaxVersions
      /\ savedAt' = [savedAt EXCEPT ![version + 1] = time] /\ saver' = "invalidate"
      /\ UNCHANGED <<time, queryCache, modelCache, reader>>
  BY DEF SaveProject, CacheInv, CacheSound, CacheTypeOK
<1>2. CacheTypeOK'
  BY <1>1, CacheAssumption DEF CacheInv, CacheSound, CacheTypeOK
<1>3. /\ savedAt'[version + 1] = time
      /\ \A v \in 0..MaxVersions : v < version => savedAt'[v + 1] = savedAt[v + 1]
  BY <1>1, CacheAssumption DEF CacheInv, CacheSound, CacheTypeOK
<1>4. ASSUME NEW v \in 0..MaxVersions, NEW m \in Int, v <= version, m <= time, ReplacedSince(v, m)
      PROVE  ReplacedSince(v, m)'
  BY <1>1, <1>3, <1>4, CacheAssumption DEF ReplacedSince, CacheInv, CacheSound, CacheTypeOK
<1>5. EntryWasCurrent'
  <2>1. queryCache.value \in 0..MaxVersions /\ queryCache.stamp \in 0..MaxClock
    BY DEF CacheInv, CacheSound, CacheTypeOK
  <2>2. queryCache.value # 0 => queryCache.stamp - QueryTime <= time
    BY <2>1, CacheAssumption DEF CacheInv, CacheSound, CacheTypeOK, EntryWasCurrent
  <2> QED
    BY <1>1, <1>4, <2>1, <2>2, CacheAssumption
       DEF EntryWasCurrent, CacheInv, CacheSound, CacheTypeOK
<1>6. CallsAreYoung' /\ SaverHasSaved'
  <2>1. \A r \in Readers : /\ reader[r].value \in 0..MaxVersions /\ reader[r].began \in 0..MaxClock
                           /\ reader[r].floor \in 0..MaxVersions
    BY DEF CacheInv, CacheSound, CacheTypeOK
  <2> QED
    BY <1>1, <1>4, <2>1 DEF CacheInv, CallsAreYoung, SaverHasSaved
<1>7. CreationIsSeen' /\ StalenessBounded'
  <2>1. \A r \in Readers : /\ reader[r].value \in 0..MaxVersions /\ reader[r].floor \in 0..MaxVersions
                           /\ reader[r].floor <= version
    BY DEF CacheInv, CacheSound, CacheTypeOK, CallsAreYoung
  <2> QED
    BY <1>1, <1>3, <2>1 DEF CacheInv, CacheSound, CreationIsSeen, StalenessBounded
<1> QED
  BY <1>2, <1>5, <1>6, <1>7 DEF CacheInv, CacheSound

LEMMA TimePassesKeeps == ASSUME CacheInv, TimePasses PROVE CacheInv'
<1>1. /\ time' = time + 1 /\ time \in 0..MaxClock /\ time < MaxClock
      /\ UNCHANGED <<version, savedAt, queryCache, modelCache, saver, reader>>
  BY DEF TimePasses, CacheInv, CacheSound, CacheTypeOK
<1>2. CacheTypeOK'
  BY <1>1, CacheAssumption DEF CacheInv, CacheSound, CacheTypeOK
<1>3. EntryWasCurrent' /\ SaverHasSaved' /\ CreationIsSeen' /\ StalenessBounded'
  BY <1>1, CacheAssumption DEF CacheInv, CacheTypeOK, CacheSound, EntryWasCurrent, ReplacedSince, SaverHasSaved,
              CreationIsSeen, StalenessBounded
<1>4. CallsAreYoung'
  <2>1. \A r \in Readers : reader[r].began \in 0..MaxClock
    BY DEF CacheInv, CacheSound, CacheTypeOK
  <2> QED
    BY <1>1, <2>1, CacheAssumption DEF TimePasses, CacheInv, CallsAreYoung, ReplacedSince
<1> QED
  BY <1>2, <1>3, <1>4 DEF CacheInv, CacheSound

\* The cache is cleaned or cleared, or a save invalidates the other cache.
LEMMA CacheShrinks == ASSUME CacheInv, CleanCache \/ ClearCache \/ Invalidate PROVE CacheInv'
<1>1. /\ queryCache' = queryCache \/ queryCache' = NoEntry
      /\ UNCHANGED <<time, version, savedAt, reader>>
      /\ saver' = saver \/ saver' = "idle"
      /\ modelCache' \in BOOLEAN
  BY DEF CleanCache, ClearCache, Invalidate, CacheInv, CacheSound, CacheTypeOK
<1>2. CacheTypeOK'
  <2>1. CacheTypeOK
    BY DEF CacheInv, CacheSound
  <2>2. queryCache' \in [value : 0..MaxVersions, stamp : 0..MaxClock]
    BY <1>1, <2>1, CacheAssumption DEF CacheTypeOK, NoEntry
  <2> QED
    BY <1>1, <2>1, <2>2 DEF CacheTypeOK
<1>4. EntryWasCurrent' /\ SaverHasSaved'
  BY <1>1 DEF CacheInv, EntryWasCurrent, ReplacedSince, SaverHasSaved, NoEntry
<1>5. CallsAreYoung'
  BY <1>1 DEF CacheInv, CallsAreYoung, ReplacedSince
<1>6. CreationIsSeen' /\ StalenessBounded'
  BY <1>1 DEF CacheInv, CacheSound, CreationIsSeen, StalenessBounded
<1>3. EntryWasCurrent' /\ CallsAreYoung' /\ SaverHasSaved' /\ CreationIsSeen' /\ StalenessBounded'
  BY <1>4, <1>5, <1>6
<1> QED
  BY <1>2, <1>3 DEF CacheInv, CacheSound

LEMMA CacheInvStep == CacheInv /\ [CacheNext]_cacheVars => CacheInv'
<1> SUFFICES ASSUME CacheInv, [CacheNext]_cacheVars PROVE CacheInv'
  OBVIOUS
<1>1. CASE UNCHANGED cacheVars
  BY <1>1 DEF cacheVars, CacheInv, CacheSound, CacheTypeOK, EntryWasCurrent, CallsAreYoung,
     ReplacedSince, SaverHasSaved, CreationIsSeen, StalenessBounded
<1> QED
  BY <1>1, GetProjectKeeps, RunQueryKeeps, StoreResultKeeps, SaveProjectKeeps, TimePassesKeeps,
     CacheShrinks DEF CacheNext

-----------------------------------------------------------------------------

\* cached_query over QueryCache: nothing invalidates an entry when a project is
\* saved, so an answer may be old, but by no more than the time to live and the
\* time of one query, and it is never a stale "no such project".
THEOREM CacheIsSound == CacheSpec => []CacheSound
<1>1. CacheSpec => []CacheInv
  BY InitCache, CacheInvStep, PTL DEF CacheSpec
<1>2. CacheInv => CacheSound
  BY DEF CacheInv
<1> QED
  BY <1>1, <1>2, PTL

-----------------------------------------------------------------------------
(***************************************************************************)
(* Saves with shared labels.  What a session has attached is in the table, *)
(* inserted by itself or lost in a rollback; and before a rollback nothing *)
(* is lost, so that a case that is still written loses nothing.            *)
(***************************************************************************)
Txn == [pc : {"idle", "labels", "insert", "returned", "raised"}, row : BOOLEAN,
        labels : SUBSET Labels, lost : SUBSET Labels, attached : SUBSET Labels,
        next : Nat, saves : 0..MaxSaves]

TxnFine(s) ==
    /\ txn[s].next \in 1..(Len(LabelsOf(s)) + 1)
    /\ txn[s].pc = "insert" => txn[s].next <= Len(LabelsOf(s))
    /\ txn[s].row => txn[s].lost = {}
    /\ txn[s].attached \subseteq table.labels \cup txn[s].labels \cup txn[s].lost
    /\ \A n \in 1..(txn[s].next - 1) : LabelsOf(s)[n] \in txn[s].attached

SqlRecords ==
    /\ table \in [cases : SUBSET Savers, stale : SUBSET Savers, labels : SUBSET Labels,
                  attached : SUBSET (Savers \X Labels), steps : SUBSET Savers]
    /\ txn \in [Savers -> Txn]
    /\ migration \in [exists : BOOLEAN, status : [Updaters -> UpdateStatuses \cup {"not_started"}]]
    /\ update \in [Updaters -> [pc : {"idle", "read"}, seen : BOOLEAN,
                                last : UpdateStatuses \cup {"not_started"}]]

SqlInv ==
    /\ SqlRecords /\ \A s \in Savers : TxnFine(s)
    /\ LabelsUnique /\ SavedWhole /\ CasesWithStepsStored /\ PhasesKept

\* A step that changes only the session of one saver, and no table.
SessionMoves(s, c) == txn' = [txn EXCEPT ![s] = c] /\ UNCHANGED <<table, migration, update>>

LEMMA SessionKeeps ==
  ASSUME SqlInv, NEW s \in Savers, NEW c \in Txn, SessionMoves(s, c),
         TxnFine(s)', c.pc # "returned",
         c.labels \cap table.labels = {},
         \A o \in Savers \ {s} : c.labels \cap txn[o].labels = {}
  PROVE  SqlInv'
<1>1. /\ txn' \in [Savers -> Txn] /\ txn'[s] = c /\ \A o \in Savers \ {s} : txn'[o] = txn[o]
      /\ table' = table /\ migration' = migration /\ update' = update
  BY DEF SqlInv, SqlRecords, SessionMoves
<1>2. SqlRecords'
  BY <1>1 DEF SqlInv, SqlRecords
<1>3. \A o \in Savers : TxnFine(o)'
  BY <1>1 DEF SqlInv, TxnFine
<1>4. LabelsUnique'
  BY <1>1 DEF SqlInv, LabelsUnique
<1>5. SavedWhole'
  <2>1. \A o \in Savers : txn'[o].pc = "returned" => txn[o].pc = "returned"
    BY <1>1
  <2>2. table.cases \subseteq Savers /\ SavedWhole
    BY DEF SqlInv, SqlRecords
  <2> QED
    BY <1>1, <2>1, <2>2 DEF SavedWhole
<1>6. CasesWithStepsStored' /\ PhasesKept'
  BY <1>1 DEF SqlInv, CasesWithStepsStored, PhasesKept
<1> QED
  BY <1>2, <1>3, <1>4, <1>5, <1>6 DEF SqlInv

LEMMA SqlInitial == SqlInit => SqlInv
<1> SUFFICES ASSUME SqlInit PROVE SqlInv
  OBVIOUS
<1>1. NoTxn \in Txn
  BY SqlAssumption DEF NoTxn, Txn
<1>2. SqlRecords
  BY <1>1 DEF SqlInit, SqlRecords
<1>3. ASSUME NEW s \in Savers PROVE TxnFine(s)
  <2>1. Len(LabelsOf(s)) \in Nat
    BY SqlAssumption, LenProperties
  <2> QED
    BY <2>1 DEF SqlInit, TxnFine, NoTxn
<1>4. LabelsUnique /\ SavedWhole /\ CasesWithStepsStored /\ PhasesKept
  BY DEF SqlInit, LabelsUnique, SavedWhole, CasesWithStepsStored, PhasesKept, NoTxn
<1> QED
  BY <1>2, <1>3, <1>4 DEF SqlInv

LEMMA RaiseKeepsSql ==
  ASSUME SqlInv, NEW s \in Savers, RaiseSave(s), UNCHANGED <<table, migration, update>>
  PROVE  SqlInv'
<1> DEFINE c == [NoTxn EXCEPT !.pc = "raised", !.saves = txn[s].saves]
<1>1. c \in Txn /\ c.labels = {} /\ c.pc = "raised" /\ SessionMoves(s, c)
  BY DEF SqlInv, SqlRecords, RaiseSave, SessionMoves, NoTxn, Txn
<1>2. c.attached = {} /\ c.next = 1 /\ c.row = FALSE /\ c.lost = {}
  BY DEF NoTxn
<1>3. txn'[s] = c /\ Len(LabelsOf(s)) \in Nat
  BY <1>1, SqlAssumption, LenProperties DEF SessionMoves, SqlInv, SqlRecords
<1> HIDE DEF c
<1>4. TxnFine(s)'
  BY <1>1, <1>2, <1>3 DEF TxnFine
<1> QED
  BY <1>1, <1>4, SessionKeeps

LEMMA BeginKeeps == ASSUME SqlInv, NEW s \in Savers, BeginSave(s) PROVE SqlInv'
<1> DEFINE c == [NoTxn EXCEPT !.pc = "labels", !.row = TRUE, !.saves = txn[s].saves + 1]
<1>1. txn[s].saves \in 0..MaxSaves /\ txn[s].saves < MaxSaves
  BY DEF SqlInv, SqlRecords, Txn, BeginSave
<1>2. c \in Txn /\ c.labels = {} /\ c.pc = "labels" /\ SessionMoves(s, c)
  <2>2. txn[s].saves + 1 \in 0..MaxSaves
    BY <1>1, SqlAssumption
  <2>1. NoTxn \in Txn /\ NoTxn.labels = {}
    BY SqlAssumption DEF NoTxn, Txn
  <2>3. SessionMoves(s, c)
    BY DEF BeginSave, SessionMoves
  <2>4. c \in Txn /\ c.labels = {} /\ c.pc = "labels"
    BY <2>1, <2>2 DEF Txn
  <2> QED
    BY <2>3, <2>4
<1>3. c.attached = {} /\ c.next = 1 /\ c.lost = {}
  BY DEF NoTxn
<1>4. txn'[s] = c /\ Len(LabelsOf(s)) \in Nat
  BY <1>2, SqlAssumption, LenProperties DEF SessionMoves, SqlInv, SqlRecords
<1> HIDE DEF c
<1>5. TxnFine(s)'
  BY <1>2, <1>3, <1>4 DEF TxnFine
<1> QED
  BY <1>2, <1>5, SessionKeeps

LEMMA NextCaseKeeps == ASSUME SqlInv, NEW s \in Savers, NextCase(s) PROVE SqlInv'
<1> DEFINE c == [txn[s] EXCEPT !.pc = "idle"]
<1>1. c \in Txn /\ c.pc = "idle" /\ SessionMoves(s, c)
  <2>1. txn[s] \in Txn
    BY DEF SqlInv, SqlRecords
  <2>2. c \in Txn /\ c.pc = "idle"
    BY <2>1 DEF Txn
  <2>3. SessionMoves(s, c)
    BY DEF NextCase, SessionMoves
  <2> QED
    BY <2>2, <2>3
<1>2. /\ c.labels = txn[s].labels /\ c.attached = txn[s].attached /\ c.next = txn[s].next
      /\ c.row = txn[s].row /\ c.lost = txn[s].lost
  BY DEF SqlInv, SqlRecords, Txn
<1>3. txn'[s] = c /\ table' = table
  BY <1>1 DEF SessionMoves, SqlInv, SqlRecords
<1> HIDE DEF c
<1>4. TxnFine(s)'
  BY <1>1, <1>2, <1>3 DEF TxnFine, SqlInv
<1>5. c.labels \cap table.labels = {} /\ \A o \in Savers \ {s} : c.labels \cap txn[o].labels = {}
  BY <1>2 DEF SqlInv, LabelsUnique
<1> QED
  BY <1>1, <1>4, <1>5, SessionKeeps

\* A label is attached; what was inserted before may be lost with the rollback.
LEMMA AttachedKeeps ==
  ASSUME SqlInv, NEW s \in Savers, txn[s].next <= Len(LabelsOf(s)),
         NEW c \in Txn, SessionMoves(s, c), c.pc = "labels",
         c.attached = txn[s].attached \cup {Wanted(s)}, c.next = txn[s].next + 1,
         c.row => c.lost = {},
         Wanted(s) \in table.labels \cup c.labels,
         txn[s].labels \cup txn[s].lost \subseteq c.labels \cup c.lost,
         c.labels \cap table.labels = {},
         \A o \in Savers \ {s} : c.labels \cap txn[o].labels = {}
  PROVE  SqlInv'
<1>1. txn'[s] = c /\ table' = table /\ Len(LabelsOf(s)) \in Nat /\ TxnFine(s) /\ txn[s].next \in Nat
  BY SqlAssumption, LenProperties DEF SessionMoves, SqlInv, SqlRecords, Txn
<1>2. /\ c.next \in 1..(Len(LabelsOf(s)) + 1)
      /\ c.attached \subseteq table.labels \cup c.labels \cup c.lost
  BY <1>1 DEF TxnFine
<1>3. \A n \in 1..(c.next - 1) : LabelsOf(s)[n] \in c.attached
  <2> SUFFICES ASSUME NEW n \in 1..txn[s].next PROVE LabelsOf(s)[n] \in c.attached
    BY <1>1
  <2>1. CASE n = txn[s].next
    BY <2>1 DEF Wanted
  <2>2. CASE n # txn[s].next
    <3>1. n \in 1..(txn[s].next - 1)
      BY <1>1, <2>2
    <3> QED
      BY <1>1, <3>1 DEF TxnFine
  <2> QED
    BY <2>1, <2>2
<1>4. TxnFine(s)'
  BY <1>1, <1>2, <1>3 DEF TxnFine
<1> QED
  BY <1>4, SessionKeeps

LEMMA WantedIsLabel ==
  ASSUME SqlInv, NEW s \in Savers, txn[s].next <= Len(LabelsOf(s))
  PROVE  Wanted(s) \in Labels /\ txn[s] \in Txn /\ txn[s].next \in Nat
<1>1. txn[s].next \in 1..Len(LabelsOf(s)) /\ LabelsOf(s) \in Seq(Labels)
  BY SqlAssumption, LenProperties DEF SqlInv, TxnFine
<1> QED
  BY <1>1, ElementOfSeq DEF Wanted, SqlInv, SqlRecords

LEMMA AttachIs ==
  ASSUME NEW s, NEW label \in Labels, txn[s] \in Txn
  PROVE  /\ Attach(s, label) \in Txn
         /\ Attach(s, label).pc = "labels" /\ Attach(s, label).row = txn[s].row
         /\ Attach(s, label).labels = txn[s].labels /\ Attach(s, label).lost = txn[s].lost
         /\ Attach(s, label).attached = txn[s].attached \cup {label}
         /\ Attach(s, label).next = txn[s].next + 1
<1>1. txn[s].attached \cup {label} \in SUBSET Labels /\ txn[s].next + 1 \in Nat
  BY DEF Txn
<1> QED
  BY <1>1 DEF Attach, Txn

LEMMA FindKeeps == ASSUME SqlInv, NEW s \in Savers, FindLabel(s) PROVE SqlInv'
<1>1. Wanted(s) \in Labels /\ txn[s] \in Txn /\ txn[s].next \in Nat
  BY WantedIsLabel DEF FindLabel
<1>2. txn[s].pc = "labels" /\ txn[s].next <= Len(LabelsOf(s))
  BY DEF FindLabel
<1>3. CASE Wanted(s) \in Visible(s)
  <2> DEFINE c == Attach(s, Wanted(s))
  <2>1. /\ c \in Txn /\ c.pc = "labels" /\ c.attached = txn[s].attached \cup {Wanted(s)}
        /\ c.next = txn[s].next + 1 /\ c.row = txn[s].row /\ c.lost = txn[s].lost
        /\ c.labels = txn[s].labels
    BY <1>1, AttachIs DEF Txn
  <2>2. SessionMoves(s, c)
    BY <1>3 DEF FindLabel, SessionMoves, SqlInv, SqlRecords
  <2> HIDE DEF c
  <2>3. (c.row => c.lost = {}) /\ Wanted(s) \in table.labels \cup c.labels
        /\ txn[s].labels \cup txn[s].lost \subseteq c.labels \cup c.lost
    BY <1>3, <2>1 DEF SqlInv, TxnFine, Visible
  <2>4. c.labels \cap table.labels = {} /\ \A o \in Savers \ {s} : c.labels \cap txn[o].labels = {}
    BY <2>1 DEF SqlInv, LabelsUnique
  <2> QED
    BY <1>2, <2>1, <2>2, <2>3, <2>4, AttachedKeeps
<1>4. CASE Wanted(s) \notin Visible(s)
  <2> DEFINE c == [txn[s] EXCEPT !.pc = "insert"]
  <2>1. /\ c \in Txn /\ c.pc = "insert" /\ c.attached = txn[s].attached
        /\ c.next = txn[s].next /\ c.row = txn[s].row /\ c.lost = txn[s].lost
        /\ c.labels = txn[s].labels
    BY <1>1 DEF Txn
  <2>2. SessionMoves(s, c)
    BY <1>4 DEF FindLabel, SessionMoves, SqlInv, SqlRecords
  <2>3. txn'[s] = c /\ table' = table
    BY <2>2 DEF SessionMoves, SqlInv, SqlRecords
  <2> HIDE DEF c
  <2>4. TxnFine(s)'
    BY <1>2, <2>1, <2>3 DEF TxnFine, SqlInv
  <2>5. c.labels \cap table.labels = {} /\ \A o \in Savers \ {s} : c.labels \cap txn[o].labels = {}
    BY <2>1 DEF SqlInv, LabelsUnique
  <2> QED
    BY <2>1, <2>2, <2>4, <2>5, SessionKeeps
<1> QED
  BY <1>3, <1>4

LEMMA InsertKeeps == ASSUME SqlInv, NEW s \in Savers, InsertLabel(s) PROVE SqlInv'
<1>1. txn[s].pc = "insert" /\ txn[s].next <= Len(LabelsOf(s)) /\ Blockers(s) = {}
  BY DEF InsertLabel, SqlInv, TxnFine
<1>2. Wanted(s) \in Labels /\ txn[s] \in Txn /\ txn[s].next \in Nat
  BY <1>1, WantedIsLabel
<1>3. \A o \in Savers \ {s} : Wanted(s) \notin txn[o].labels
  BY <1>1 DEF Blockers, Inserts
<1>4. CASE Wanted(s) \in table.labels
  <2> DEFINE c == [Attach(s, Wanted(s)) EXCEPT !.row = FALSE, !.labels = {},
                                               !.lost = @ \cup txn[s].labels]
  <2>1. /\ c \in Txn /\ c.pc = "labels" /\ c.attached = txn[s].attached \cup {Wanted(s)}
        /\ c.next = txn[s].next + 1 /\ c.row = FALSE /\ c.lost = txn[s].lost \cup txn[s].labels
        /\ c.labels = {}
    <3>1. txn[s].labels \in SUBSET Labels /\ txn[s].lost \in SUBSET Labels
      BY <1>2 DEF Txn
    <3> DEFINE a == Attach(s, Wanted(s))
    <3>2. a \in Txn
      BY <1>2, AttachIs
    <3>3. a.labels = txn[s].labels /\ a.lost = txn[s].lost /\ a.row = txn[s].row
          /\ a.pc = "labels" /\ a.attached = txn[s].attached \cup {Wanted(s)} /\ a.next = txn[s].next + 1
      BY <1>2, AttachIs
    <3>4. txn[s].lost \cup txn[s].labels \in SUBSET Labels
          /\ txn[s].labels \cup {Wanted(s)} \in SUBSET Labels /\ {} \in SUBSET Labels
      BY <1>2, <3>1
    <3>5. c = [a EXCEPT !.row = FALSE, !.labels = {}, !.lost = txn[s].lost \cup txn[s].labels]
      BY <3>3
    <3> HIDE DEF a, c
    <3> QED
      BY <3>2, <3>3, <3>4, <3>5 DEF Txn
  <2>2. SessionMoves(s, c)
    BY <1>4 DEF InsertLabel, SessionMoves
  <2> HIDE DEF c
  <2> QED
    BY <1>1, <1>4, <2>1, <2>2, AttachedKeeps
<1>5. CASE Wanted(s) \notin table.labels
  <2> DEFINE c == [Attach(s, Wanted(s)) EXCEPT !.labels = @ \cup {Wanted(s)}]
  <2>1. /\ c \in Txn /\ c.pc = "labels" /\ c.attached = txn[s].attached \cup {Wanted(s)}
        /\ c.next = txn[s].next + 1 /\ c.row = txn[s].row /\ c.lost = txn[s].lost
        /\ c.labels = txn[s].labels \cup {Wanted(s)}
    <3>1. txn[s].labels \in SUBSET Labels /\ txn[s].lost \in SUBSET Labels
      BY <1>2 DEF Txn
    <3> DEFINE a == Attach(s, Wanted(s))
    <3>2. a \in Txn
      BY <1>2, AttachIs
    <3>3. a.labels = txn[s].labels /\ a.lost = txn[s].lost /\ a.row = txn[s].row
          /\ a.pc = "labels" /\ a.attached = txn[s].attached \cup {Wanted(s)} /\ a.next = txn[s].next + 1
      BY <1>2, AttachIs
    <3>4. txn[s].lost \cup txn[s].labels \in SUBSET Labels
          /\ txn[s].labels \cup {Wanted(s)} \in SUBSET Labels /\ {} \in SUBSET Labels
      BY <1>2, <3>1
    <3>5. c = [a EXCEPT !.labels = txn[s].labels \cup {Wanted(s)}]
      BY <3>3
    <3> HIDE DEF a, c
    <3> QED
      BY <3>2, <3>3, <3>4, <3>5 DEF Txn
  <2>2. SessionMoves(s, c)
    BY <1>5 DEF InsertLabel, SessionMoves
  <2> HIDE DEF c
  <2>3. c.row => c.lost = {}
    BY <2>1 DEF SqlInv, TxnFine
  <2>4. c.labels \cap table.labels = {} /\ \A o \in Savers \ {s} : c.labels \cap txn[o].labels = {}
    BY <1>3, <1>5, <2>1 DEF SqlInv, LabelsUnique
  <2> QED
    BY <1>1, <2>1, <2>2, <2>3, <2>4, AttachedKeeps
<1> QED
  BY <1>4, <1>5

\* What a save stores: its labels are new to every other session.
LEMMA EndKeeps == ASSUME SqlInv, NEW s \in Savers, EndSave(s), ~Refused(s) PROVE SqlInv'
<1> DEFINE known == txn[s].row \/ s \in table.cases
           labels == IF known THEN txn[s].attached ELSE {}
           c == [NoTxn EXCEPT !.pc = "returned", !.saves = txn[s].saves]
<1>1. /\ txn[s] \in Txn /\ TxnFine(s) /\ txn[s].pc = "labels" /\ txn[s].next > Len(LabelsOf(s))
      /\ Blockers(s) = {} /\ Len(LabelsOf(s)) \in Nat
  BY SqlAssumption, LenProperties DEF SqlInv, SqlRecords, EndSave
<1>2. /\ c \in Txn /\ c.pc = "returned" /\ c.labels = {} /\ c.lost = {} /\ c.attached = {}
      /\ c.next = 1 /\ c.row = FALSE
  BY <1>1 DEF NoTxn, Txn
<1>3. /\ txn' \in [Savers -> Txn] /\ txn'[s] = c /\ \A o \in Savers \ {s} : txn'[o] = txn[o]
      /\ migration' = migration /\ update' = update
  BY <1>2 DEF EndSave, SqlInv, SqlRecords
<1>4. /\ table'.cases = IF known THEN table.cases \cup {s} ELSE table.cases
      /\ table'.stale = IF known /\ ~txn[s].row THEN table.stale \cup {s} ELSE table.stale \ {s}
      /\ table'.labels = table.labels \cup txn[s].labels \cup labels
      /\ table'.attached = {a \in table.attached : a[1] # s} \cup ({s} \X labels)
      /\ table'.steps = IF HasSteps(s) THEN table.steps \cup {s} ELSE table.steps
  BY DEF EndSave, Stored
<1>5. table' = [cases |-> table'.cases, stale |-> table'.stale, labels |-> table'.labels,
                attached |-> table'.attached, steps |-> table'.steps]
  BY DEF EndSave, Stored
<1>6. labels \subseteq Labels /\ txn[s].labels \subseteq Labels
  BY <1>1 DEF Txn
<1>7. HasSteps(s) => known
  BY DEF Refused
<1>8. \A o \in Savers \ {s} : labels \cap txn[o].labels = {}
  <2> SUFFICES ASSUME known, NEW o \in Savers \ {s}, NEW a \in txn[s].attached, a \in txn[o].labels
               PROVE  FALSE
    OBVIOUS
  <2>1. a \in table.labels \cup txn[s].labels \cup txn[s].lost
    BY <1>1 DEF TxnFine
  <2>2. a \notin table.labels /\ a \notin txn[s].labels
    BY DEF SqlInv, LabelsUnique
  <2>3. a \in txn[s].lost /\ s \in table.cases
    BY <1>1, <2>1, <2>2 DEF TxnFine
  <2>4. Inserts(s) = txn[s].lost
    BY <1>1, <2>3 DEF Inserts
  <2> QED
    BY <1>1, <2>3, <2>4 DEF Blockers
<1>9. \A n \in 1..Len(LabelsOf(s)) : LabelsOf(s)[n] \in txn[s].attached
  <2>1. txn[s].next - 1 = Len(LabelsOf(s))
    BY <1>1 DEF TxnFine
  <2> QED
    BY <1>1, <2>1 DEF TxnFine
<1> HIDE DEF known, labels, c
<1>10. SqlRecords'
  <2>1. table.attached \in SUBSET (Savers \X Labels) /\ table.cases \in SUBSET Savers
        /\ table.stale \in SUBSET Savers /\ table.labels \in SUBSET Labels /\ table.steps \in SUBSET Savers
    BY DEF SqlInv, SqlRecords
  <2>2. table'.cases \in SUBSET Savers /\ table'.stale \in SUBSET Savers /\ table'.steps \in SUBSET Savers
    BY <1>4, <2>1
  <2>3. table'.labels \in SUBSET Labels
    BY <1>4, <1>6, <2>1
  <2>4. table'.attached \in SUBSET (Savers \X Labels)
    BY <1>4, <1>6, <2>1
  <2>5. table' \in [cases : SUBSET Savers, stale : SUBSET Savers, labels : SUBSET Labels,
                    attached : SUBSET (Savers \X Labels), steps : SUBSET Savers]
    BY <1>5, <2>2, <2>3, <2>4
  <2> QED
    BY <1>3, <2>5 DEF SqlInv, SqlRecords
<1>11. \A o \in Savers : TxnFine(o)'
  <2>1. TxnFine(s)'
    BY <1>1, <1>2, <1>3 DEF TxnFine
  <2>2. ASSUME NEW o \in Savers \ {s} PROVE TxnFine(o)'
    BY <1>3, <1>4 DEF SqlInv, TxnFine
  <2> QED
    BY <2>1, <2>2
<1>12. LabelsUnique'
  <2>1. txn'[s].labels = {}
    BY <1>2, <1>3
  <2>2. ASSUME NEW o \in Savers \ {s} PROVE txn'[o].labels \cap table'.labels = {}
    <3>1. txn[o].labels \cap table.labels = {} /\ txn[o].labels \cap txn[s].labels = {}
      BY DEF SqlInv, LabelsUnique
    <3> QED
      BY <1>3, <1>4, <1>8, <3>1
  <2> QED
    BY <1>3, <2>1, <2>2 DEF SqlInv, LabelsUnique
<1>13. SavedWhole'
  <2>1. table'.steps \subseteq table'.cases
    BY <1>4, <1>7 DEF SqlInv, SavedWhole
  <2>2. table'.attached \subseteq table'.cases \X table'.labels
    <3>1. table.attached \subseteq table'.cases \X table'.labels
      BY <1>4 DEF SqlInv, SavedWhole
    <3>2. {s} \X labels \subseteq table'.cases \X table'.labels
      BY <1>4 DEF labels
    <3> QED
      BY <1>4, <3>1, <3>2
  <2>3. ASSUME NEW o \in table'.cases, txn'[o].pc = "returned", NEW n \in 1..Len(LabelsOf(o))
        PROVE  <<o, LabelsOf(o)[n]>> \in table'.attached
    <3>1. CASE o = s /\ known
      BY <1>4, <1>9, <2>3, <3>1 DEF labels
    <3>2. CASE o = s /\ ~known
      <4>1. o \notin table.cases
        BY <3>2 DEF known
      <4> QED
        BY <1>4, <2>3, <3>2, <4>1
    <3>3. CASE o # s
      <4>1. o \in table.cases /\ txn[o].pc = "returned"
        BY <1>3, <1>4, <2>3, <3>3 DEF SqlInv, SqlRecords
      <4>2. <<o, LabelsOf(o)[n]>> \in table.attached
        BY <2>3, <4>1 DEF SqlInv, SavedWhole
      <4> QED
        BY <1>4, <3>3, <4>2
    <3> QED
      BY <3>1, <3>2, <3>3
  <2> QED
    BY <2>1, <2>2, <2>3 DEF SavedWhole
<1>14. CasesWithStepsStored'
  BY <1>3, <1>4, <1>7 DEF SqlInv, CasesWithStepsStored
<1>15. PhasesKept'
  BY <1>3 DEF SqlInv, PhasesKept
<1> QED
  BY <1>10, <1>11, <1>12, <1>13, <1>14, <1>15 DEF SqlInv

LEMMA UpdateKeeps ==
  ASSUME SqlInv, NEW u \in Updaters,
         ReadState(u) \/ \E new \in UpdateStatuses : WriteState(u, new)
  PROVE  SqlInv'
<1>1. /\ update \in [Updaters -> [pc : {"idle", "read"}, seen : BOOLEAN,
                                 last : UpdateStatuses \cup {"not_started"}]]
      /\ migration \in [exists : BOOLEAN, status : [Updaters -> UpdateStatuses \cup {"not_started"}]]
  BY DEF SqlInv, SqlRecords
<1>2. table' = table /\ txn' = txn
  BY DEF ReadState, WriteState
<1>3. /\ update' \in [Updaters -> [pc : {"idle", "read"}, seen : BOOLEAN,
                                  last : UpdateStatuses \cup {"not_started"}]]
      /\ migration' \in [exists : BOOLEAN, status : [Updaters -> UpdateStatuses \cup {"not_started"}]]
      /\ \A v \in Updaters : migration'.status[v] = update'[v].last
  <2>0. \A v \in Updaters : migration.status[v] = update[v].last
    BY DEF SqlInv, PhasesKept
  <2>1. CASE ReadState(u)
    <3>1. migration' = migration /\ migration.exists \in BOOLEAN
      BY <1>1, <2>1 DEF ReadState
    <3>2. update' = [update EXCEPT ![u] = [update[u] EXCEPT !.pc = "read", !.seen = migration.exists]]
      BY <1>1, <2>1 DEF ReadState
    <3> DEFINE Update == [pc : {"idle", "read"}, seen : BOOLEAN, last : UpdateStatuses \cup {"not_started"}]
               c == [update[u] EXCEPT !.pc = "read", !.seen = migration.exists]
    <3>3. c \in Update /\ c.last = update[u].last
      <4>1. PICK b \in BOOLEAN : b = migration.exists
        BY <3>1
      <4>2. update[u] \in Update
        BY <1>1
      <4>3. c = [update[u] EXCEPT !.pc = "read", !.seen = b]
        BY <4>1
      <4> HIDE DEF c
      <4> QED
        BY <4>2, <4>3
    <3> HIDE DEF c
    <3> QED
      BY <1>1, <2>0, <3>1, <3>2, <3>3 DEF c
  <2>2. ASSUME NEW new \in UpdateStatuses, WriteState(u, new)
        PROVE  <1>3!:
    <3>1. CASE ~update[u].seen /\ migration.exists
      BY <1>1, <2>2, <3>1 DEF WriteState, SqlInv, PhasesKept
    <3>2. CASE ~(~update[u].seen /\ migration.exists)
      <4>1. /\ update' = [update EXCEPT ![u] = [pc |-> "idle", seen |-> update[u].seen, last |-> new]]
            /\ migration' = [exists |-> TRUE, status |-> [migration.status EXCEPT ![u] = new]]
        BY <1>1, <2>2, <3>2 DEF WriteState
      <4>2. [pc |-> "idle", seen |-> update[u].seen, last |-> new]
               \in [pc : {"idle", "read"}, seen : BOOLEAN, last : UpdateStatuses \cup {"not_started"}]
        BY <1>1
      <4>3. [migration.status EXCEPT ![u] = new] \in [Updaters -> UpdateStatuses \cup {"not_started"}]
        BY <1>1
      <4> QED
        BY <1>1, <2>0, <4>1, <4>2, <4>3
    <3> QED
      BY <3>1, <3>2
  <2> QED
    BY <2>1, <2>2
<1>4. SqlRecords' /\ PhasesKept'
  BY <1>2, <1>3 DEF SqlInv, SqlRecords, PhasesKept
<1>5. (\A s \in Savers : TxnFine(s))' /\ LabelsUnique' /\ SavedWhole' /\ CasesWithStepsStored'
  BY <1>2 DEF SqlInv, TxnFine, LabelsUnique, SavedWhole, CasesWithStepsStored
<1> QED
  BY <1>4, <1>5 DEF SqlInv

LEMMA SqlStep == SqlInv /\ [SqlNext]_sqlVars => SqlInv'
<1> SUFFICES ASSUME SqlInv, [SqlNext]_sqlVars PROVE SqlInv'
  OBVIOUS
<1>1. CASE UNCHANGED sqlVars
  BY <1>1 DEF sqlVars, SqlInv, SqlRecords, TxnFine, LabelsUnique, SavedWhole,
              CasesWithStepsStored, PhasesKept
<1>2. ASSUME NEW s \in Savers, BreakDeadlock(s) PROVE SqlInv'
  BY <1>2, RaiseKeepsSql DEF BreakDeadlock
<1>3. ASSUME NEW s \in Savers, EndSave(s) PROVE SqlInv'
  BY <1>3, EndKeeps, RaiseKeepsSql DEF EndSave
<1> QED
  BY <1>1, <1>2, <1>3, BeginKeeps, FindKeeps, InsertKeeps, NextCaseKeeps, UpdateKeeps DEF SqlNext

LEMMA SqlInvMeans == SqlInv => SavesSound
<1> SUFFICES ASSUME SqlInv PROVE SavesSound
  OBVIOUS
<1>1. SqlTypeOK
  BY DEF SqlInv, SqlRecords, Txn, SqlTypeOK
<1> QED
  BY <1>1 DEF SqlInv, SavesSound

\* SavesSound for any threads, labels and phases: whatever get_or_create rolls back and
\* whichever deadlocks are broken.
THEOREM SavesAreSound == SqlSpec => []SavesSound
<1> QED
  BY SqlInitial, SqlStep, SqlInvMeans, PTL DEF SqlSpec

-----------------------------------------------------------------------------
(***************************************************************************)
(* execute_transaction.  A call knows its connection to the end, also when *)
(* it has given it back; what it counts as stored of a transaction that    *)
(* has committed is all of it.                                             *)
(***************************************************************************)
ConnState == [auto : BOOLEAN, open : BOOLEAN]

PgCall == [pc : {"idle", "execute", "finallyTrue", "finallyFalse", "true", "false", "raised"},
           on : Connections \cup {None}, done : 0..Statements, stored : 0..Statements,
           calls : 0..MaxCalls]

PgCallFine(c) ==
    /\ c.stored <= c.done
    /\ c.pc \in {"execute", "finallyTrue", "finallyFalse"} => c.on \in Connections
    /\ c.pc \in {"finallyTrue", "true"} => c.stored = Statements

PgRecords ==
    /\ free \in SUBSET Connections /\ conn \in [Connections -> ConnState]
    /\ pgCall \in [PgClients -> PgCall]

PgInv == PgRecords /\ ConnectionOfOne /\ \A t \in PgClients : PgCallFine(pgCall[t])

\* What a thread does that neither takes nor returns a connection.
LEMMA PgStays ==
  ASSUME PgInv, NEW t \in PgClients, NEW c \in PgCall, PgCallFine(c),
         pgCall' = [pgCall EXCEPT ![t] = c], free' = free, conn' \in [Connections -> ConnState],
         c.pc = "execute" <=> pgCall[t].pc = "execute", c.pc = "execute" => c.on = pgCall[t].on,
         \A d \in free : ~conn'[d].open
  PROVE  PgInv'
<1>1. pgCall' \in [PgClients -> PgCall] /\ pgCall'[t] = c
      /\ \A u \in PgClients \ {t} : pgCall'[u] = pgCall[u]
  BY DEF PgInv, PgRecords
<1>2. \A u \in PgClients : (InUse(u)' <=> InUse(u)) /\ (InUse(u) => pgCall'[u].on = pgCall[u].on)
  BY <1>1 DEF InUse
<1>3. ConnectionOfOne'
  BY <1>2 DEF PgInv, ConnectionOfOne
<1>4. PgRecords' /\ \A u \in PgClients : PgCallFine(pgCall'[u])
  BY <1>1 DEF PgInv, PgRecords
<1> QED
  BY <1>3, <1>4 DEF PgInv

LEMMA PgInitial == PgInit => PgInv
<1> SUFFICES ASSUME PgInit PROVE PgInv
  OBVIOUS
<1>1. NoPgCall \in PgCall /\ PgCallFine(NoPgCall) /\ NoPgCall.pc = "idle"
  <2>1. 0 \in 0..Statements /\ 0 \in 0..MaxCalls
    BY PgAssumption
  <2>2. NoPgCall \in PgCall
    BY <2>1 DEF NoPgCall, PgCall
  <2> QED
    BY <2>2 DEF NoPgCall, PgCallFine
<1>2. PgRecords
  BY <1>1 DEF PgInit, PgRecords, ConnState
<1>3. \A t \in PgClients : PgCallFine(pgCall[t]) /\ ~InUse(t)
  BY <1>1 DEF PgInit, InUse
<1>4. ConnectionOfOne
  BY <1>3 DEF PgInit, ConnectionOfOne
<1> QED
  BY <1>2, <1>3, <1>4 DEF PgInv

LEMMA ConnectKeeps == ASSUME PgInv, NEW t \in PgClients, Connect(t) PROVE PgInv'
<1>1. /\ pgCall[t] \in PgCall /\ pgCall[t].pc = "idle" /\ pgCall[t].calls + 1 \in 0..MaxCalls
      /\ 0 \in 0..Statements
  <2>1. pgCall[t] \in PgCall
    BY DEF PgInv, PgRecords
  <2>2. pgCall[t].calls \in 0..MaxCalls /\ pgCall[t].calls < MaxCalls /\ pgCall[t].pc = "idle"
    BY <2>1 DEF PgCall, Connect
  <2> QED
    BY <2>1, <2>2, PgAssumption
<1>2. NoPgCall \in PgCall /\ NoPgCall.done = 0 /\ NoPgCall.stored = 0
  BY <1>1, PgAssumption DEF NoPgCall, PgCall
<1>3. CASE free = {}
  <2> DEFINE c == [NoPgCall EXCEPT !.pc = "raised", !.calls = pgCall[t].calls + 1]
  <2>1. c \in PgCall /\ c.pc = "raised" /\ c.done = 0 /\ c.stored = 0
    BY <1>1, <1>2 DEF PgCall
  <2>2. pgCall' = [pgCall EXCEPT ![t] = c] /\ free' = free /\ conn' = conn
    BY <1>3 DEF Connect
  <2> HIDE DEF c
  <2>3. PgCallFine(c)
    BY <2>1 DEF PgCallFine
  <2> QED
    BY <1>1, <2>1, <2>2, <2>3, PgStays DEF PgInv, PgRecords, ConnectionOfOne
<1>4. CASE free # {}
  <2>1. PICK d \in free : /\ free' = free \ {d} /\ conn' = [conn EXCEPT ![d].auto = FALSE]
                          /\ pgCall' = [pgCall EXCEPT ![t] =
                               [NoPgCall EXCEPT !.pc = "execute", !.on = d,
                                                !.calls = pgCall[t].calls + 1]]
    BY <1>4 DEF Connect
  <2> DEFINE c == [NoPgCall EXCEPT !.pc = "execute", !.on = d, !.calls = pgCall[t].calls + 1]
  <2>2. d \in Connections
    BY DEF PgInv, PgRecords
  <2>3. c \in PgCall /\ c.pc = "execute" /\ c.done = 0 /\ c.stored = 0 /\ c.on = d
    BY <1>1, <1>2, <2>2 DEF PgCall
  <2>4. pgCall' = [pgCall EXCEPT ![t] = c]
    BY <2>1
  <2> HIDE DEF c
  <2>5. /\ pgCall' \in [PgClients -> PgCall] /\ pgCall'[t] = c
        /\ \A u \in PgClients \ {t} : pgCall'[u] = pgCall[u]
    BY <2>3, <2>4 DEF PgInv, PgRecords
  <2>6. /\ conn' \in [Connections -> ConnState]
        /\ \A e \in Connections : conn'[e].open = conn[e].open
    BY <2>1, <2>2 DEF PgInv, PgRecords, ConnState
  <2>7. \A u \in PgClients : InUse(u)' <=> InUse(u) \/ u = t
    BY <2>3, <2>5 DEF InUse
  <2>8. \A u \in PgClients : InUse(u) => pgCall[u].on # d /\ u # t
    BY <1>1 DEF PgInv, PgRecords, ConnectionOfOne, InUse
  <2>9. ConnectionOfOne'
    <3>1. ASSUME NEW u \in PgClients, InUse(u)'
          PROVE  pgCall'[u].on \in Connections \ free' /\ \A v \in PgClients \ {u} :
                    InUse(v)' => pgCall'[v].on # pgCall'[u].on
      BY <2>1, <2>2, <2>3, <2>5, <2>7, <2>8, <3>1 DEF PgInv, ConnectionOfOne
    <3>2. ASSUME NEW e \in Connections
          PROVE  e \in free' <=> \A u \in PgClients : InUse(u)' => pgCall'[u].on # e
      BY <2>1, <2>2, <2>3, <2>5, <2>7, <2>8 DEF PgInv, ConnectionOfOne
    <3>3. \A e \in free' : ~conn'[e].open
      BY <2>1, <2>6 DEF PgInv, PgRecords, ConnectionOfOne
    <3> QED
      BY <3>1, <3>2, <3>3 DEF ConnectionOfOne
  <2>10. \A u \in PgClients : PgCallFine(pgCall'[u])
    <3>1. PgCallFine(c)
      BY <2>2, <2>3 DEF PgCallFine
    <3> QED
      BY <2>5, <3>1 DEF PgInv
  <2>11. PgRecords'
    BY <2>1, <2>5, <2>6 DEF PgInv, PgRecords
  <2> QED
    BY <2>9, <2>10, <2>11 DEF PgInv
<1> QED
  BY <1>3, <1>4

\* The connection goes back, rolled back if need be.
LEMMA PutBackKeeps ==
  ASSUME PgInv, NEW t \in PgClients, InUse(t), PutBack(t), NEW c \in PgCall, PgCallFine(c),
         c.pc # "execute", pgCall' = [pgCall EXCEPT ![t] = c]
  PROVE  PgInv'
<1> DEFINE d == pgCall[t].on
<1>1. d \in Connections /\ d \notin free
  BY DEF PgInv, ConnectionOfOne
<1>2. free' = free \cup {d} /\ conn' = [conn EXCEPT ![d].open = FALSE]
  BY DEF PutBack
<1> HIDE DEF d
<1>3. /\ pgCall' \in [PgClients -> PgCall] /\ pgCall'[t] = c
      /\ \A u \in PgClients \ {t} : pgCall'[u] = pgCall[u]
  BY DEF PgInv, PgRecords
<1>4. /\ conn' \in [Connections -> ConnState] /\ ~conn'[d].open
      /\ \A e \in Connections \ {d} : conn'[e] = conn[e]
  BY <1>1, <1>2 DEF PgInv, PgRecords, ConnState
<1>5. \A u \in PgClients : InUse(u)' <=> InUse(u) /\ u # t
  BY <1>3 DEF InUse
<1>6. \A u \in PgClients \ {t} : InUse(u) => pgCall[u].on # d
  BY DEF PgInv, ConnectionOfOne, d
<1>7. ConnectionOfOne'
  <2>1. ASSUME NEW u \in PgClients, InUse(u)'
        PROVE  pgCall'[u].on \in Connections \ free' /\ \A v \in PgClients \ {u} :
                  InUse(v)' => pgCall'[v].on # pgCall'[u].on
    BY <1>2, <1>3, <1>5, <1>6, <2>1 DEF PgInv, ConnectionOfOne
  <2>2. ASSUME NEW e \in Connections
        PROVE  e \in free' <=> \A u \in PgClients : InUse(u)' => pgCall'[u].on # e
    <3>1. CASE e = d
      BY <1>2, <1>3, <1>5, <1>6, <3>1
    <3>2. CASE e # d
      <4>1. e \in free' <=> e \in free
        BY <1>2, <3>2
      <4>2. e \in free <=> \A u \in PgClients : InUse(u) => pgCall[u].on # e
        BY DEF PgInv, ConnectionOfOne
      <4> QED
        BY <1>3, <1>5, <3>2, <4>1, <4>2 DEF d
    <3> QED
      BY <3>1, <3>2
  <2>3. \A e \in free' : ~conn'[e].open
    BY <1>2, <1>4 DEF PgInv, PgRecords, ConnectionOfOne
  <2> QED
    BY <2>1, <2>2, <2>3 DEF ConnectionOfOne
<1>8. PgRecords' /\ \A u \in PgClients : PgCallFine(pgCall'[u])
  BY <1>1, <1>2, <1>3, <1>4 DEF PgInv, PgRecords
<1> QED
  BY <1>7, <1>8 DEF PgInv

LEMMA PgStep == PgInv /\ [PgNext]_pgVars => PgInv'
<1> SUFFICES ASSUME PgInv, [PgNext]_pgVars PROVE PgInv'
  OBVIOUS
<1>1. CASE UNCHANGED pgVars
  BY <1>1 DEF pgVars, PgInv, PgRecords, ConnectionOfOne, InUse
<1>2. ASSUME NEW t \in PgClients,
             Execute(t) \/ StatementFails(t) \/ Commit(t) \/ Finally(t) \/ NextCall(t)
      PROVE  PgInv'
  <2>1. /\ pgCall[t] \in PgCall /\ PgCallFine(pgCall[t]) /\ pgCall \in [PgClients -> PgCall]
        /\ conn \in [Connections -> ConnState] /\ Statements \in Nat /\ free \in SUBSET Connections
        /\ \A d \in free : ~conn[d].open
    BY PgAssumption DEF PgInv, PgRecords, ConnectionOfOne
  <2>2. CASE Execute(t)
    <3> DEFINE n == IF Conn(t).auto THEN pgCall[t].stored + 1 ELSE pgCall[t].stored
               c == [pgCall[t] EXCEPT !.done = @ + 1, !.stored = n]
    <3>1. pgCall[t].done + 1 \in 0..Statements /\ n \in 0..Statements /\ n <= pgCall[t].done + 1
          /\ pgCall[t].pc = "execute"
      BY <2>1, <2>2 DEF Execute, PgCall, PgCallFine
    <3>2. pgCall' = [pgCall EXCEPT ![t] = c] /\ free' = free
      BY <2>1, <2>2 DEF Execute
    <3> HIDE DEF n
    <3>3. /\ c \in PgCall /\ c.pc = "execute" /\ c.on = pgCall[t].on
          /\ c.done = pgCall[t].done + 1 /\ c.stored = n
      BY <2>1, <3>1 DEF PgCall
    <3>4. pgCall[t].on \in Connections \ free
      BY <2>1, <3>1 DEF PgInv, ConnectionOfOne, InUse
    <3>5. conn' \in [Connections -> ConnState] /\ \A d \in free : conn'[d] = conn[d]
      <4>1. PICK b \in BOOLEAN : b = ~Conn(t).auto
        BY <2>1, <3>4 DEF Conn, ConnState
      <4>2. conn' = [conn EXCEPT ![pgCall[t].on] = [conn[pgCall[t].on] EXCEPT !.open = b]]
        BY <2>2, <4>1 DEF Execute
      <4>3. conn[pgCall[t].on] \in ConnState
        BY <2>1, <3>4
      <4>4. [conn[pgCall[t].on] EXCEPT !.open = b] \in ConnState
        BY <4>3 DEF ConnState
      <4> QED
        BY <2>1, <3>4, <4>2, <4>4
    <3> HIDE DEF c
    <3>6. PgCallFine(c)
      BY <2>1, <3>1, <3>3, <3>4 DEF PgCallFine
    <3> QED
      BY <2>1, <3>1, <3>2, <3>3, <3>5, <3>6, PgStays
  <2>3. CASE StatementFails(t)
    <3> DEFINE c == [pgCall[t] EXCEPT !.pc = "finallyFalse"]
    <3>1. c \in PgCall /\ c.pc = "finallyFalse" /\ c.on = pgCall[t].on /\ c.done = pgCall[t].done
          /\ c.stored = pgCall[t].stored /\ pgCall' = [pgCall EXCEPT ![t] = c]
          /\ pgCall[t].pc = "execute"
      BY <2>1, <2>3 DEF StatementFails, PgCall
    <3> HIDE DEF c
    <3>2. PgCallFine(c)
      BY <2>1, <3>1 DEF PgCallFine
    <3> QED
      BY <2>3, <3>1, <3>2, PutBackKeeps DEF StatementFails, InUse
  <2>4. CASE Commit(t)
    <3> DEFINE c == [pgCall[t] EXCEPT !.pc = "finallyTrue", !.stored = Statements]
    <3>1. /\ c \in PgCall /\ c.pc = "finallyTrue" /\ c.on = pgCall[t].on /\ c.done = Statements
          /\ c.stored = Statements /\ pgCall[t].pc = "execute"
      BY <2>1, <2>4 DEF Commit, PgCall
    <3>2. pgCall' = [pgCall EXCEPT ![t] = c]
      BY <2>4 DEF Commit
    <3> HIDE DEF c
    <3>3. PgCallFine(c)
      BY <2>1, <3>1 DEF PgCallFine
    <3> QED
      BY <2>4, <3>1, <3>2, <3>3, PutBackKeeps DEF Commit, InUse
  <2>5. CASE Finally(t)
    <3>1. pgCall[t].pc \in {"finallyTrue", "finallyFalse"} /\ free' = free
          /\ pgCall[t].on \in Connections
      BY <2>1, <2>5 DEF Finally, PgCallFine
    <3>2. PICK p \in {"raised", "true", "false"} :
             /\ pgCall' = [pgCall EXCEPT ![t] = [pgCall[t] EXCEPT !.pc = p]]
             /\ p = "true" => pgCall[t].pc = "finallyTrue"
      <4>1. CASE Conn(t).open
        BY <2>5, <4>1 DEF Finally
      <4>2. CASE ~Conn(t).open
        BY <2>5, <4>2, <3>1 DEF Finally
      <4> QED
        BY <4>1, <4>2
    <3>3. conn' \in [Connections -> ConnState] /\ \A d \in free : ~conn'[d].open
      <4>1. CASE Conn(t).open
        BY <2>1, <2>5, <4>1 DEF Finally
      <4>2. CASE ~Conn(t).open
        <5>1. conn' = [conn EXCEPT ![pgCall[t].on].auto = TRUE]
          BY <2>5, <4>2 DEF Finally
        <5> QED
          BY <2>1, <3>1, <5>1 DEF ConnState
      <4> QED
        BY <4>1, <4>2
    <3> DEFINE c == [pgCall[t] EXCEPT !.pc = p]
    <3>4. c \in PgCall /\ c.pc = p /\ c.on = pgCall[t].on /\ c.done = pgCall[t].done
          /\ c.stored = pgCall[t].stored
      BY <2>1 DEF PgCall
    <3>5. pgCall' = [pgCall EXCEPT ![t] = c]
      BY <3>2
    <3> HIDE DEF c
    <3>6. PgCallFine(c)
      BY <2>1, <3>2, <3>4 DEF PgCallFine
    <3> QED
      BY <3>1, <3>3, <3>4, <3>5, <3>6, PgStays
  <2>6. CASE NextCall(t)
    <3> DEFINE c == [pgCall[t] EXCEPT !.pc = "idle"]
    <3>1. /\ c \in PgCall /\ c.pc = "idle" /\ c.done = pgCall[t].done
          /\ c.stored = pgCall[t].stored /\ pgCall[t].pc # "execute"
      BY <2>1, <2>6 DEF NextCall, PgCall
    <3>2. pgCall' = [pgCall EXCEPT ![t] = c] /\ free' = free /\ conn' = conn
      BY <2>6 DEF NextCall
    <3> HIDE DEF c
    <3>3. PgCallFine(c)
      BY <2>1, <3>1 DEF PgCallFine
    <3> QED
      BY <2>1, <3>1, <3>2, <3>3, PgStays
  <2> QED
    BY <1>2, <2>2, <2>3, <2>4, <2>5, <2>6
<1> QED
  BY <1>1, <1>2, ConnectKeeps DEF PgNext

LEMMA PgInvMeans == PgInv => ConnectionsSound
<1> SUFFICES ASSUME PgInv PROVE ConnectionsSound
  OBVIOUS
<1>1. PgTypeOK
  BY DEF PgInv, PgRecords, ConnState, PgCall, PgTypeOK
<1>2. TrueIsStored
  BY DEF PgInv, PgCallFine, TrueIsStored
<1> QED
  BY <1>1, <1>2 DEF PgInv, ConnectionsSound

\* ConnectionsSound for any threads, connections, statements and calls.
THEOREM ConnectionsAreSound == PgSpec => []ConnectionsSound
<1> QED
  BY PgInitial, PgStep, PgInvMeans, PTL DEF PgSpec

-----------------------------------------------------------------------------
(***************************************************************************)
(* Sessions and transactions.  A place is the database or what a session   *)
(* has pending: no row is in two places, every place has all or none of    *)
(* the rows of a unit of work, and a unit that is under way or raised has  *)
(* none anywhere.                                                          *)
(***************************************************************************)
UnitRows == (1..Len(units)) \X {1, 2}

UnitRecord == [what : {"write", "transaction", "create", "bulk", "batches", "query", "batch"},
               own : BOOLEAN, end : {"open", "done", "raised", "lost"},
               rows : SUBSET (Nat \X {1, 2})]

SessionRecords ==
    /\ units \in Seq(UnitRecord)
    /\ session \in [Workers -> [open : BOOLEAN, pending : SUBSET UnitRows]]
    /\ block \in [Workers -> [state : {"none", "open"}, own : BOOLEAN, unit : Nat,
                              rows : SUBSET UnitRows]]
    /\ committed \in SUBSET UnitRows

Whole(place) ==
    \A u \in 1..Len(units) :
        units[u].what # "batches" =>
            \/ RowsOf(u) \cap place = {}
            \/ units[u].end = "done" /\ units[u].rows \subseteq place

UnitsOwnTheirRows == \A u \in 1..Len(units) : units[u].rows \subseteq RowsOf(u)

BlocksAreOpen ==
    \A t \in Workers : block[t].state = "open" =>
        /\ block[t].unit \in 1..Len(units) /\ block[t].rows \subseteq RowsOf(block[t].unit)
        /\ units[block[t].unit].what = "transaction" /\ units[block[t].unit].end = "open"
        /\ units[block[t].unit].own = block[t].own
        /\ \A o \in Workers \ {t} : block[o].state = "open" => block[o].unit # block[t].unit

PlacesApart ==
    \A t \in Workers :
        /\ session[t].pending \cap committed = {}
        /\ \A o \in Workers \ {t} : session[t].pending \cap session[o].pending = {}

\* The rows of a transaction in a session of its own are pending in nobody else's.
OwnNotPending ==
    \A u \in 1..Len(units) :
        units[u].what = "transaction" /\ units[u].own =>
            \A t \in Workers : RowsOf(u) \cap session[t].pending = {}

\* For the manager with the lock: who is past the lock has it, alone, and whoever creates
\* finds no manager.
GettersInv ==
    /\ default \in [manager : Nat, created : Nat, lock : BOOLEAN]
    /\ getter \in [Workers -> [pc : {"start", "waits", "locked", "creates", "got"}, manager : Nat]]
    /\ default.manager = 0 <=> default.created = 0
    /\ ~BySql =>
          /\ default.created <= 1
          /\ \A t \in Workers :
                /\ getter[t].pc \in {"locked", "creates"} => default.lock
                /\ getter[t].pc = "creates" => default.manager = 0
                /\ getter[t].pc \in {"locked", "creates"} =>
                      \A o \in Workers \ {t} : getter[o].pc \notin {"locked", "creates"}

RowsInv ==
    /\ SessionRecords /\ UnitsOwnTheirRows /\ BlocksAreOpen /\ PlacesApart /\ OwnNotPending
    /\ Whole(committed) /\ (\A t \in Workers : Whole(session[t].pending))
    /\ OwnTransactionsKept

SessionsInv == RowsInv /\ GettersInv

LEMMA RowsOfUnit == ASSUME NEW u \in 1..Len(units) PROVE RowsOf(u) \subseteq UnitRows
BY DEF RowsOf, UnitRows

\* Units have rows of their own.
LEMMA RowsDiffer == ASSUME NEW u, NEW v, u # v PROVE RowsOf(u) \cap RowsOf(v) = {}
BY DEF RowsOf

LEMMA NewRows == ASSUME units \in Seq(UnitRecord)
                 PROVE  RowsOf(Unit) \cap UnitRows = {} /\ Unit \in Nat /\ Unit >= 1
<1>1. Len(units) \in Nat
  BY LenProperties
<1> QED
  BY <1>1 DEF RowsOf, UnitRows, Unit

\* A step may give R, rows of a unit that has rows nowhere yet, to the database (C) or to
\* the session of t (D); that session keeps what it has pending (G), drops it, or hands it
\* to the database (H).
RowsGo(t, R, C, D, H, G) ==
    /\ C \in {{}, R} /\ D \in {{}, R} /\ (C = {} \/ D = {})
    /\ H \in {{}, session[t].pending} /\ G \in {{}, session[t].pending} /\ (H = {} \/ G = {})
    /\ committed' = committed \cup C \cup H
    /\ \E open \in BOOLEAN : session' = [session EXCEPT ![t] = [open |-> open, pending |-> G \cup D]]
    /\ engine' = engine

\* The unit x, new or under way until now, goes with the rows R.
UnitTakes(x, R, C, D) ==
    /\ units' \in Seq(UnitRecord) /\ Len(units') \in Nat /\ Len(units) \in Nat
    /\ Len(units') >= Len(units) /\ x \in Nat
    /\ \A u \in 1..Len(units') : u # x => (u \in 1..Len(units) /\ units'[u] = units[u])
    /\ RowsOf(x) \cap committed = {}
    /\ \A w \in Workers : RowsOf(x) \cap session[w].pending = {}
    /\ R \subseteq RowsOf(x)
    /\ R # {} => x \in 1..Len(units')
    /\ x \in 1..Len(units') =>
            /\ units'[x].rows \subseteq RowsOf(x)
            /\ \/ R = {} \/ units'[x].what = "batches"
               \/ units'[x].end = "done" /\ units'[x].rows = R
            /\ (units'[x].what = "transaction" /\ units'[x].own) => D = {}
            /\ (units'[x].what = "transaction" /\ units'[x].own /\ units'[x].end = "done"
                   /\ units'[x].rows # {})
                  => (C = units'[x].rows <=> (~BySql \/ engine.dialect = "sqlite"))

BlocksAfter ==
    /\ block' \in [Workers -> [state : {"none", "open"}, own : BOOLEAN, unit : Nat,
                               rows : SUBSET UnitRows']]
    /\ BlocksAreOpen'

LEMMA RowsMove ==
  ASSUME RowsInv, NEW t \in Workers, NEW x, NEW R, NEW C, NEW D, NEW H, NEW G,
         UnitTakes(x, R, C, D), RowsGo(t, R, C, D, H, G), BlocksAfter
  PROVE  RowsInv'
<1> USE DEF UnitTakes
<1>0. /\ C \in {{}, R} /\ D \in {{}, R} /\ (C = {} \/ D = {})
      /\ H \in {{}, session[t].pending} /\ G \in {{}, session[t].pending} /\ (H = {} \/ G = {})
      /\ committed' = committed \cup C \cup H /\ engine' = engine
  BY DEF RowsGo
<1> PICK open \in BOOLEAN : session' = [session EXCEPT ![t] = [open |-> open, pending |-> G \cup D]]
  BY DEF RowsGo
<1> USE <1>0
<1>1. /\ session \in [Workers -> [open : BOOLEAN, pending : SUBSET UnitRows]]
      /\ committed \in SUBSET UnitRows
  BY DEF RowsInv, SessionRecords
<1>2. UnitRows \subseteq UnitRows'
  BY DEF UnitRows
<1>3. C \subseteq RowsOf(x) /\ D \subseteq RowsOf(x) /\ H \subseteq session[t].pending /\ G \subseteq session[t].pending
  OBVIOUS
<1>4. R \subseteq UnitRows'
  <2>1. CASE x \in 1..Len(units')
    BY <2>1 DEF RowsOf, UnitRows
  <2> QED
    BY <2>1
<1>5. G \cup D \in SUBSET UnitRows' /\ committed' \in SUBSET UnitRows'
  BY <1>1, <1>2, <1>3, <1>4
<1>6. /\ session' \in [Workers -> [open : BOOLEAN, pending : SUBSET UnitRows']]
      /\ session'[t].pending = G \cup D
      /\ \A o \in Workers \ {t} : session'[o].pending = session[o].pending
  <2>1. \A o \in Workers : session[o] \in [open : BOOLEAN, pending : SUBSET UnitRows']
    <3>1. \A o \in Workers : session[o] \in [open : BOOLEAN, pending : SUBSET UnitRows]
      BY <1>1
    <3> QED
      BY <1>2, <3>1
  <2>2. [open |-> open, pending |-> G \cup D] \in [open : BOOLEAN, pending : SUBSET UnitRows']
    BY <1>5
  <2> QED
    BY <1>1, <2>1, <2>2
<1>7. SessionRecords'
  BY <1>5, <1>6 DEF SessionRecords, BlocksAfter
<1>8. \A u \in 1..Len(units') : u # x => RowsOf(u) \cap C = {} /\ RowsOf(u) \cap D = {}
  BY <1>3, RowsDiffer
<1>9. UnitsOwnTheirRows'
  BY DEF RowsInv, UnitsOwnTheirRows, RowsOf
<1>10. Whole(committed)'
  <2> SUFFICES ASSUME NEW u \in 1..Len(units'), units'[u].what # "batches"
               PROVE  \/ RowsOf(u) \cap committed' = {}
                      \/ units'[u].end = "done" /\ units'[u].rows \subseteq committed'
    BY DEF Whole, RowsOf
  <2>1. CASE u = x
    <3>1. RowsOf(x) \cap committed' = C
      BY <1>3
    <3> QED
      BY <2>1, <3>1
  <2>2. CASE u # x
    <3>1. u \in 1..Len(units) /\ units'[u] = units[u]
      BY <2>2
    <3>2. /\ RowsOf(u) \cap committed = {} \/ (units[u].end = "done" /\ units[u].rows \subseteq committed)
          /\ RowsOf(u) \cap H = {} \/ (units[u].end = "done" /\ units[u].rows \subseteq H)
      BY <3>1 DEF RowsInv, Whole
    <3> QED
      BY <1>8, <2>2, <3>1, <3>2
  <2> QED
    BY <2>1, <2>2
<1>11. ASSUME NEW w \in Workers PROVE Whole(session[w].pending)'
  <2> SUFFICES ASSUME NEW u \in 1..Len(units'), units'[u].what # "batches"
               PROVE  \/ RowsOf(u) \cap session'[w].pending = {}
                      \/ units'[u].end = "done" /\ units'[u].rows \subseteq session'[w].pending
    BY DEF Whole, RowsOf
  <2>1. CASE u = x
    <3>1. RowsOf(x) \cap session'[w].pending \in {{}, D}
      BY <1>3, <1>6
    <3>2. RowsOf(x) \cap session'[w].pending = {} \/ (D = R /\ D \subseteq session'[w].pending)
      BY <1>6, <3>1
    <3> QED
      BY <2>1, <3>2
  <2>2. CASE u # x
    <3>1. u \in 1..Len(units) /\ units'[u] = units[u]
      BY <2>2
    <3>2. /\ RowsOf(u) \cap session[w].pending = {}
                \/ (units[u].end = "done" /\ units[u].rows \subseteq session[w].pending)
          /\ RowsOf(u) \cap G = {} \/ (units[u].end = "done" /\ units[u].rows \subseteq G)
      BY <3>1 DEF RowsInv, Whole
    <3> QED
      BY <1>6, <1>8, <2>2, <3>1, <3>2
  <2> QED
    BY <2>1, <2>2
<1>12. PlacesApart'
  <2>1. \A w \in Workers : session[w].pending \cap committed = {} /\
           \A o \in Workers \ {w} : session[w].pending \cap session[o].pending = {}
    BY DEF RowsInv, PlacesApart
  <2>2. \A w \in Workers : session'[w].pending \cap committed' = {}
    BY <1>3, <1>6, <2>1
  <2>3. \A w \in Workers : \A o \in Workers \ {w} : session'[w].pending \cap session'[o].pending = {}
    BY <1>3, <1>6, <2>1
  <2> QED
    BY <2>2, <2>3 DEF PlacesApart
<1>13. OwnNotPending'
  <2> SUFFICES ASSUME NEW u \in 1..Len(units'), units'[u].what = "transaction", units'[u].own,
                      NEW w \in Workers
               PROVE  RowsOf(u) \cap session'[w].pending = {}
    BY DEF OwnNotPending, RowsOf
  <2>1. CASE u = x
    BY <1>3, <1>6, <2>1
  <2>2. CASE u # x
    <3>1. RowsOf(u) \cap session[w].pending = {} /\ RowsOf(u) \cap session[t].pending = {}
      BY <2>2 DEF RowsInv, OwnNotPending
    <3> QED
      BY <1>3, <1>6, <1>8, <2>2, <3>1
  <2> QED
    BY <2>1, <2>2
<1>14. OwnTransactionsKept'
  <2> SUFFICES ASSUME NEW u \in 1..Len(units'), units'[u].what = "transaction", units'[u].own,
                      units'[u].end = "done", units'[u].rows # {}
               PROVE  units'[u].rows \subseteq committed' <=> ~BySql \/ engine.dialect = "sqlite"
    <3>1. DOMAIN units' = 1..Len(units')
      BY LenProperties
    <3> QED
      BY <3>1 DEF OwnTransactionsKept, BySql
  <2>1. CASE u = x
    <3>1. RowsOf(x) \cap committed' = C /\ units'[x].rows \subseteq RowsOf(x)
      BY <1>3, <2>1
    <3>2. R = {} \/ units'[x].rows = R
      BY <2>1
    <3> QED
      BY <2>1, <3>1, <3>2
  <2>2. CASE u # x
    <3>1. u \in 1..Len(units) /\ units'[u] = units[u] /\ u \in DOMAIN units
      BY <2>2, LenProperties DEF RowsInv, SessionRecords
    <3>2. RowsOf(u) \cap session[t].pending = {} /\ units[u].rows \subseteq RowsOf(u)
      BY <3>1 DEF RowsInv, OwnNotPending, UnitsOwnTheirRows
    <3>3. units[u].rows \subseteq committed <=> ~BySql \/ engine.dialect = "sqlite"
      BY <3>1 DEF RowsInv, OwnTransactionsKept
    <3>4. units[u].rows \subseteq committed' <=> units[u].rows \subseteq committed
      BY <1>3, <1>8, <2>2, <3>2
    <3> QED
      BY <3>1, <3>3, <3>4
  <2> QED
    BY <2>1, <2>2
<1> QED
  BY <1>7, <1>9, <1>10, <1>11, <1>12, <1>13, <1>14 DEF RowsInv, BlocksAfter


\* A new unit: what was there stays, and its rows are nowhere yet.
LEMMA UnitAppended ==
  ASSUME RowsInv, NEW unit \in UnitRecord, unit.rows \subseteq RowsOf(Unit),
         units' = Append(units, unit)
  PROVE  /\ units' \in Seq(UnitRecord) /\ Len(units') \in Nat /\ Len(units) \in Nat
         /\ Len(units') = Len(units) + 1 /\ Unit \in 1..Len(units') /\ Unit \in Nat
         /\ units'[Unit] = unit
         /\ \A u \in 1..Len(units') : u # Unit => (u \in 1..Len(units) /\ units'[u] = units[u])
         /\ RowsOf(Unit) \cap committed = {}
         /\ \A w \in Workers : RowsOf(Unit) \cap session[w].pending = {}
         /\ block \in [Workers -> [state : {"none", "open"}, own : BOOLEAN, unit : Nat,
                                   rows : SUBSET UnitRows']]
<1>1. units \in Seq(UnitRecord)
  BY DEF RowsInv, SessionRecords
<1>2. Len(units) \in Nat
  BY <1>1, LenProperties
<1>5. /\ units' \in Seq(UnitRecord) /\ Len(units') = Len(units) + 1
      /\ \A i \in 1..Len(units) : units'[i] = units[i]
      /\ units'[Len(units) + 1] = unit
  BY <1>1, AppendProperties
<1>6. RowsOf(Unit) \cap UnitRows = {}
  BY <1>1, NewRows
<1>7. committed \subseteq UnitRows /\ \A w \in Workers : session[w].pending \subseteq UnitRows
  BY DEF RowsInv, SessionRecords
<1>8. UnitRows \subseteq UnitRows'
  BY <1>2, <1>5 DEF UnitRows
<1>9. block \in [Workers -> [state : {"none", "open"}, own : BOOLEAN, unit : Nat,
                            rows : SUBSET UnitRows']]
  <2>1. \A w \in Workers : block[w] \in [state : {"none", "open"}, own : BOOLEAN, unit : Nat,
                                          rows : SUBSET UnitRows]
    BY DEF RowsInv, SessionRecords
  <2>2. \A w \in Workers : block[w] \in [state : {"none", "open"}, own : BOOLEAN, unit : Nat,
                                          rows : SUBSET UnitRows']
    BY <1>8, <2>1
  <2> QED
    BY <2>2 DEF RowsInv, SessionRecords
<1>10. \A u \in 1..Len(units') : u # Unit => (u \in 1..Len(units) /\ units'[u] = units[u])
  BY <1>2, <1>5 DEF Unit
<1>11. Unit \in 1..Len(units') /\ Unit \in Nat /\ units'[Unit] = unit
  BY <1>2, <1>5 DEF Unit
<1> QED
  BY <1>2, <1>5, <1>6, <1>7, <1>9, <1>10, <1>11

\* A call that is one unit of work: its rows go to the database, to the session, or are
\* lost, and so may what the session had pending.
LEMMA UnitMoves ==
  ASSUME RowsInv, NEW t \in Workers, NEW unit \in UnitRecord, NEW R, NEW C, NEW D, NEW H, NEW G,
         unit.rows \subseteq RowsOf(Unit), unit.what # "transaction",
         R \subseteq RowsOf(Unit),
         R = {} \/ unit.what = "batches" \/ (unit.end = "done" /\ unit.rows = R),
         units' = Append(units, unit), RowsGo(t, R, C, D, H, G), block' = block
  PROVE  RowsInv'
<1>1. /\ units' \in Seq(UnitRecord) /\ Len(units') \in Nat /\ Len(units) \in Nat
      /\ Len(units') = Len(units) + 1 /\ Unit \in 1..Len(units') /\ Unit \in Nat
      /\ units'[Unit] = unit
      /\ \A u \in 1..Len(units') : u # Unit => (u \in 1..Len(units) /\ units'[u] = units[u])
      /\ RowsOf(Unit) \cap committed = {}
      /\ \A w \in Workers : RowsOf(Unit) \cap session[w].pending = {}
      /\ block \in [Workers -> [state : {"none", "open"}, own : BOOLEAN, unit : Nat,
                                rows : SUBSET UnitRows']]
  BY UnitAppended
<1>2. BlocksAfter
  <2>1. BlocksAreOpen
    BY DEF RowsInv
  <2>2. \A u \in 1..Len(units) : u \in 1..Len(units') /\ u # Unit /\ units'[u] = units[u]
    BY <1>1 DEF Unit
  <2>3. BlocksAreOpen'
    BY <2>1, <2>2 DEF BlocksAreOpen, RowsOf
  <2> QED
    BY <1>1, <2>3 DEF BlocksAfter
<1>3. Len(units') >= Len(units)
  BY <1>1
<1>4. UnitTakes(Unit, R, C, D)
  BY <1>1, <1>3 DEF UnitTakes
<1> QED
  BY <1>2, <1>4, RowsMove

\* A step of a session that adds no unit and writes no row.
LEMMA SessionEnds ==
  ASSUME RowsInv, NEW t \in Workers, NEW H, NEW G, units' = units, RowsGo(t, {}, {}, {}, H, G),
         BlocksAfter
  PROVE  RowsInv'
<1>1. units \in Seq(UnitRecord) /\ Len(units) \in Nat
  BY LenProperties DEF RowsInv, SessionRecords
<1>2. Unit \in Nat /\ Unit \notin 1..Len(units)
  BY <1>1 DEF Unit
<1>3. committed \subseteq UnitRows /\ \A w \in Workers : session[w].pending \subseteq UnitRows
  BY DEF RowsInv, SessionRecords
<1>4. RowsOf(Unit) \cap committed = {} /\ \A w \in Workers : RowsOf(Unit) \cap session[w].pending = {}
  BY <1>1, <1>3, NewRows
<1>5. UnitTakes(Unit, {}, {}, {})
  BY <1>1, <1>2, <1>4 DEF UnitTakes
<1> QED
  BY <1>5, RowsMove

LEMMA SessionSplit ==
  ASSUME RowsInv, NEW t \in Workers
  PROVE  /\ session[t].open \in BOOLEAN /\ session[t].pending \subseteq UnitRows
         /\ session = [session EXCEPT ![t] = [open |-> session[t].open,
                                             pending |-> session[t].pending]]
         /\ \A P : [session EXCEPT ![t].pending = P]
                     = [session EXCEPT ![t] = [open |-> session[t].open, pending |-> P]]
         /\ \A b : [session EXCEPT ![t].open = b]
                     = [session EXCEPT ![t] = [open |-> b, pending |-> session[t].pending]]
<1>1. session \in [Workers -> [open : BOOLEAN, pending : SUBSET UnitRows]]
  BY DEF RowsInv, SessionRecords
<1>2. session[t] \in [open : BOOLEAN, pending : SUBSET UnitRows]
  BY <1>1
<1>3. session[t] = [open |-> session[t].open, pending |-> session[t].pending]
  BY <1>2
<1>4. \A P : [session[t] EXCEPT !.pending = P] = [open |-> session[t].open, pending |-> P]
  BY <1>2
<1>5. \A b : [session[t] EXCEPT !.open = b] = [open |-> b, pending |-> session[t].pending]
  BY <1>2
<1> QED
  BY <1>1, <1>2, <1>3, <1>4, <1>5

\* The session keeps what it has, and no row is written.
LEMMA RowsStay ==
  ASSUME RowsInv, NEW t \in Workers, UNCHANGED <<committed, session, engine>>
  PROVE  RowsGo(t, {}, {}, {}, {}, session[t].pending)
<1>1. /\ session[t].open \in BOOLEAN
      /\ session' = [session EXCEPT ![t] = [open |-> session[t].open,
                                           pending |-> session[t].pending \cup {}]]
  BY SessionSplit
<1> QED
  BY <1>1 DEF RowsGo

LEMMA BlocksStay == ASSUME RowsInv, UNCHANGED <<units, block>> PROVE BlocksAfter
BY DEF RowsInv, SessionRecords, BlocksAreOpen, BlocksAfter, UnitRows

\* A transaction ends or raises.
LEMMA TransactionEnds ==
  ASSUME RowsInv, NEW t \in Workers, NEW how \in {"done", "raised"}, NEW R, NEW C, NEW D, NEW H, NEW G,
         block[t].state = "open", EndTransaction(t, how), RowsGo(t, R, C, D, H, G),
         R = {} \/ (how = "done" /\ R = block[t].rows), block[t].own => D = {},
         (block[t].own /\ how = "done" /\ block[t].rows # {})
             => (C = block[t].rows <=> (~BySql \/ engine.dialect = "sqlite"))
  PROVE  RowsInv'
<1> DEFINE x == block[t].unit
           after == [units[x] EXCEPT !.end = how, !.rows = block[t].rows]
<1>1. units \in Seq(UnitRecord) /\ Len(units) \in Nat
  BY LenProperties DEF RowsInv, SessionRecords
<1>2. /\ x \in 1..Len(units) /\ block[t].rows \subseteq RowsOf(x)
      /\ units[x].what = "transaction" /\ units[x].end = "open" /\ units[x].own = block[t].own
      /\ \A o \in Workers \ {t} : block[o].state = "open" => block[o].unit # x
  BY DEF RowsInv, BlocksAreOpen
<1>3. units[x] \in UnitRecord /\ x \in Nat /\ x \in DOMAIN units
  BY <1>1, <1>2, LenProperties, ElementOfSeq
<1>4. block[t].rows \in SUBSET (Nat \X {1, 2})
  BY <1>2, <1>3 DEF RowsOf
<1>5. /\ after \in UnitRecord /\ after.end = how /\ after.rows = block[t].rows
      /\ after.what = "transaction" /\ after.own = block[t].own
  BY <1>2, <1>3, <1>4 DEF UnitRecord
<1>6. units' = [units EXCEPT ![x] = after]
  BY <1>1, <1>3 DEF EndTransaction
<1> HIDE DEF x, after
<1>7. /\ units' \in Seq(UnitRecord) /\ Len(units') = Len(units)
      /\ \A u \in 1..Len(units) : units'[u] = IF u = x THEN after ELSE units[u]
  BY <1>1, <1>2, <1>5, <1>6, ExceptSeq
<1>8. UnitTakes(x, R, C, D)
  <2>1. RowsOf(x) \cap committed = {}
    BY <1>2 DEF RowsInv, Whole
  <2>2. \A w \in Workers : RowsOf(x) \cap session[w].pending = {}
    BY <1>2 DEF RowsInv, Whole
  <2>3. units'[x] = after /\ x \in 1..Len(units')
    BY <1>2, <1>7
  <2>4. R \subseteq RowsOf(x) /\ block[t].rows \subseteq RowsOf(x)
    BY <1>2
  <2>5. \A u \in 1..Len(units') : u # x => (u \in 1..Len(units) /\ units'[u] = units[u])
    BY <1>7
  <2>6. Len(units') \in Nat /\ Len(units') >= Len(units)
    BY <1>1, <1>7
  <2>7. \/ R = {} \/ units'[x].what = "batches"
        \/ units'[x].end = "done" /\ units'[x].rows = R
    BY <1>5, <2>3
  <2>8. (units'[x].what = "transaction" /\ units'[x].own) => D = {}
    BY <1>5, <2>3
  <2>9. (units'[x].what = "transaction" /\ units'[x].own /\ units'[x].end = "done"
                   /\ units'[x].rows # {})
                  => (C = units'[x].rows <=> (~BySql \/ engine.dialect = "sqlite"))
    BY <1>5, <2>3
  <2>10. units'[x].rows \subseteq RowsOf(x)
    BY <1>5, <2>3, <2>4
  <2> QED
    BY <1>1, <1>3, <1>7, <2>1, <2>2, <2>3, <2>4, <2>5, <2>6, <2>7, <2>8, <2>9, <2>10 DEF UnitTakes
<1>9. BlocksAfter
  <2>1. block \in [Workers -> [state : {"none", "open"}, own : BOOLEAN, unit : Nat,
                              rows : SUBSET UnitRows]]
    BY DEF RowsInv, SessionRecords
  <2>2. UnitRows' = UnitRows
    BY <1>7 DEF UnitRows
  <2>3. NoBlock \in [state : {"none", "open"}, own : BOOLEAN, unit : Nat, rows : SUBSET UnitRows]
    BY DEF NoBlock
  <2>4. /\ block' \in [Workers -> [state : {"none", "open"}, own : BOOLEAN, unit : Nat,
                                  rows : SUBSET UnitRows]]
        /\ block'[t].state = "none" /\ \A o \in Workers \ {t} : block'[o] = block[o]
    BY <2>1, <2>3 DEF EndTransaction, NoBlock
  <2>5. BlocksAreOpen'
    <3> SUFFICES ASSUME NEW o \in Workers, block'[o].state = "open"
                 PROVE  /\ block'[o].unit \in 1..Len(units') /\ block'[o].rows \subseteq RowsOf(block'[o].unit)
                        /\ units'[block'[o].unit].what = "transaction" /\ units'[block'[o].unit].end = "open"
                        /\ units'[block'[o].unit].own = block'[o].own
                        /\ \A p \in Workers \ {o} : block'[p].state = "open" => block'[p].unit # block'[o].unit
      BY DEF BlocksAreOpen, RowsOf
    <3>1. o # t /\ block'[o] = block[o]
      BY <2>4
    <3>2. /\ block[o].unit \in 1..Len(units) /\ block[o].rows \subseteq RowsOf(block[o].unit)
          /\ units[block[o].unit].what = "transaction" /\ units[block[o].unit].end = "open"
          /\ units[block[o].unit].own = block[o].own
          /\ \A p \in Workers \ {o} : block[p].state = "open" => block[p].unit # block[o].unit
      BY <3>1 DEF RowsInv, BlocksAreOpen
    <3>3. units'[block[o].unit] = units[block[o].unit]
      BY <1>2, <1>7, <3>1, <3>2
    <3>4. \A p \in Workers \ {o} : block'[p].state = "open" => block'[p].unit # block[o].unit
      BY <2>4, <3>2
    <3> QED
      BY <1>7, <3>1, <3>2, <3>3, <3>4
  <2> QED
    BY <2>2, <2>4, <2>5 DEF BlocksAfter
<1> QED
  BY <1>8, <1>9, RowsMove

LEMMA WriteInTransactionKeeps ==
  ASSUME RowsInv, NEW t \in Workers, WriteInTransaction(t) PROVE RowsInv'
<1>1. UNCHANGED <<committed, session, units, engine>> /\ block[t].state = "open"
  BY DEF WriteInTransaction, Idle
<1> DEFINE u == block[t].unit
<1>2. u \in 1..Len(units) /\ block[t].rows \subseteq RowsOf(u) /\ u \in Nat
  BY <1>1 DEF RowsInv, BlocksAreOpen
<1>3. PICK new \in RowsOf(u) : block' = [block EXCEPT ![t].rows = @ \cup {new}]
  BY DEF WriteInTransaction
<1>4. RowsOf(u) \subseteq UnitRows
  BY <1>2, RowsOfUnit
<1>5. block' = [block EXCEPT ![t].rows = @ \cup {new}]
  BY <1>3
<1>6. block \in [Workers -> [state : {"none", "open"}, own : BOOLEAN, unit : Nat, rows : SUBSET UnitRows]]
  BY DEF RowsInv, SessionRecords
<1>7. block[t].rows \cup {new} \in SUBSET UnitRows
  BY <1>2, <1>3, <1>4
<1>8. block' \in [Workers -> [state : {"none", "open"}, own : BOOLEAN, unit : Nat, rows : SUBSET UnitRows]]
  BY <1>5, <1>6, <1>7
<1>9. \A o \in Workers : /\ block'[o].state = block[o].state /\ block'[o].own = block[o].own
                         /\ block'[o].unit = block[o].unit
                         /\ block'[o].rows = IF o = t THEN block[o].rows \cup {new} ELSE block[o].rows
  BY <1>5, <1>6
<1>10. BlocksAreOpen'
  <2> SUFFICES ASSUME NEW o \in Workers, block'[o].state = "open"
               PROVE  /\ block'[o].unit \in 1..Len(units') /\ block'[o].rows \subseteq RowsOf(block'[o].unit)
                      /\ units'[block'[o].unit].what = "transaction" /\ units'[block'[o].unit].end = "open"
                      /\ units'[block'[o].unit].own = block'[o].own
                      /\ \A p \in Workers \ {o} : block'[p].state = "open" => block'[p].unit # block'[o].unit
    BY DEF BlocksAreOpen, RowsOf
  <2>1. /\ block[o].unit \in 1..Len(units) /\ block[o].rows \subseteq RowsOf(block[o].unit)
        /\ units[block[o].unit].what = "transaction" /\ units[block[o].unit].end = "open"
        /\ units[block[o].unit].own = block[o].own
        /\ \A p \in Workers \ {o} : block[p].state = "open" => block[p].unit # block[o].unit
    BY <1>9 DEF RowsInv, BlocksAreOpen
  <2>2. block'[o].rows \subseteq RowsOf(block[o].unit)
    BY <1>3, <1>9, <2>1
  <2> QED
    BY <1>1, <1>9, <2>1, <2>2
<1>11. BlocksAfter
  BY <1>1, <1>8, <1>10 DEF BlocksAfter, UnitRows
<1> QED
  BY <1>1, <1>11, RowsStay, SessionEnds

LEMMA BeginTransactionKeeps ==
  ASSUME RowsInv, NEW t \in Workers, NEW own \in BOOLEAN, BeginTransaction(t, own) PROVE RowsInv'
<1> DEFINE unit == [what |-> "transaction", own |-> own, end |-> "open", rows |-> {}]
           open == [state |-> "open", own |-> own, unit |-> Unit, rows |-> {}]
<1>1. UNCHANGED <<committed, session, engine>>
  BY DEF BeginTransaction, Idle
<1>2. unit \in UnitRecord /\ unit.rows \subseteq RowsOf(Unit)
  BY DEF UnitRecord
<1>3. units' = Append(units, unit) /\ block' = [block EXCEPT ![t] = open]
  BY DEF BeginTransaction, NewUnit
<1>4. unit.what = "transaction" /\ unit.own = own /\ unit.end = "open" /\ unit.rows = {}
  OBVIOUS
<1> HIDE DEF unit
<1>5. /\ units' \in Seq(UnitRecord) /\ Len(units') \in Nat /\ Len(units) \in Nat
      /\ Len(units') = Len(units) + 1 /\ Unit \in 1..Len(units') /\ Unit \in Nat
      /\ units'[Unit] = unit
      /\ \A u \in 1..Len(units') : u # Unit => (u \in 1..Len(units) /\ units'[u] = units[u])
      /\ RowsOf(Unit) \cap committed = {}
      /\ \A w \in Workers : RowsOf(Unit) \cap session[w].pending = {}
      /\ block \in [Workers -> [state : {"none", "open"}, own : BOOLEAN, unit : Nat,
                                rows : SUBSET UnitRows']]
  BY <1>2, <1>3, UnitAppended
<1>6. UnitTakes(Unit, {}, {}, {})
  BY <1>4, <1>5 DEF UnitTakes
<1>7. open \in [state : {"none", "open"}, own : BOOLEAN, unit : Nat, rows : SUBSET UnitRows']
      /\ open.unit = Unit /\ open.own = own /\ open.rows = {}
  BY <1>5
<1> HIDE DEF open
<1>8. block' \in [Workers -> [state : {"none", "open"}, own : BOOLEAN, unit : Nat, rows : SUBSET UnitRows']]
      /\ block'[t] = open /\ \A o \in Workers \ {t} : block'[o] = block[o]
  BY <1>3, <1>5, <1>7
<1>9. BlocksAreOpen'
  <2> SUFFICES ASSUME NEW o \in Workers, block'[o].state = "open"
               PROVE  /\ block'[o].unit \in 1..Len(units') /\ block'[o].rows \subseteq RowsOf(block'[o].unit)
                      /\ units'[block'[o].unit].what = "transaction" /\ units'[block'[o].unit].end = "open"
                      /\ units'[block'[o].unit].own = block'[o].own
                      /\ \A p \in Workers \ {o} : block'[p].state = "open" => block'[p].unit # block'[o].unit
    BY DEF BlocksAreOpen, RowsOf
  <2>1. \A w \in Workers \ {t} : block'[w].state = "open" =>
            /\ block[w].unit \in 1..Len(units) /\ block[w].rows \subseteq RowsOf(block[w].unit)
            /\ units[block[w].unit].what = "transaction" /\ units[block[w].unit].end = "open"
            /\ units[block[w].unit].own = block[w].own
            /\ \A p \in Workers \ {w} : block[p].state = "open" => block[p].unit # block[w].unit
    BY <1>8 DEF RowsInv, BlocksAreOpen
  <2>2. \A u \in 1..Len(units) : u \in 1..Len(units') /\ u # Unit /\ units'[u] = units[u]
    BY <1>5 DEF Unit
  <2>3. CASE o = t
    <3>1. /\ block'[o].unit = Unit /\ block'[o].own = own /\ block'[o].rows = {}
          /\ units'[Unit] = unit /\ Unit \in 1..Len(units')
      BY <1>5, <1>7, <1>8, <2>3
    <3>2. \A p \in Workers \ {o} : block'[p].state = "open" => block'[p].unit # Unit
      BY <1>8, <2>1, <2>2, <2>3
    <3> QED
      BY <1>4, <3>1, <3>2
  <2>4. CASE o # t
    <3>1. /\ block'[o] = block[o] /\ block[o].unit \in 1..Len(units) /\ block[o].unit # Unit
          /\ units'[block[o].unit] = units[block[o].unit]
      BY <1>8, <2>1, <2>2, <2>4
    <3>2. \A p \in Workers \ {o} : block'[p].state = "open" => block'[p].unit # block[o].unit
      BY <1>7, <1>8, <2>1, <2>4, <3>1
    <3> QED
      BY <1>8, <2>1, <2>2, <2>4, <3>1, <3>2
  <2> QED
    BY <2>3, <2>4
<1>10. BlocksAfter
  BY <1>8, <1>9 DEF BlocksAfter
<1> QED
  BY <1>1, <1>6, <1>10, RowsStay, RowsMove

LEMMA WriteKeeps == ASSUME RowsInv, NEW t \in Workers, Write(t) PROVE RowsInv'
<1> DEFINE unit == [what |-> "write", own |-> FALSE, end |-> "done", rows |-> RowsOf(Unit)]
<1>1. units \in Seq(UnitRecord)
  BY DEF RowsInv, SessionRecords
<1>2. unit \in UnitRecord /\ unit.rows = RowsOf(Unit) /\ unit.end = "done" /\ unit.what = "write"
  BY <1>1, NewRows DEF UnitRecord, RowsOf
<1>3. units' = Append(units, unit) /\ UNCHANGED <<committed, block, engine>>
  BY DEF Write, NewUnit, Idle
<1>4. session' = [session EXCEPT ![t] = [open |-> session[t].open,
                                         pending |-> session[t].pending \cup RowsOf(Unit)]]
  BY SessionSplit DEF Write
<1> HIDE DEF unit
<1>5. RowsGo(t, RowsOf(Unit), {}, RowsOf(Unit), {}, session[t].pending)
  BY <1>3, <1>4, SessionSplit DEF RowsGo
<1> QED
  BY <1>2, <1>3, <1>5, UnitMoves

\* create, update, delete, the bulk calls and queries: the session is not theirs.
LEMMA CallKeeps ==
  ASSUME RowsInv, NEW t \in Workers, NEW unit \in UnitRecord, unit.rows = RowsOf(Unit),
         unit.what # "transaction", NEW R, R \subseteq RowsOf(Unit),
         R = {} \/ unit.what = "batches" \/ (unit.end = "done" /\ R = RowsOf(Unit)),
         units' = Append(units, unit), committed' = committed \cup R,
         UNCHANGED <<session, block, engine>>
  PROVE  RowsInv'
<1>1. session' = [session EXCEPT ![t] = [open |-> session[t].open, pending |-> session[t].pending \cup {}]]
      /\ session[t].open \in BOOLEAN
  BY SessionSplit
<1>2. RowsGo(t, R, R, {}, {}, session[t].pending)
  BY <1>1 DEF RowsGo
<1> QED
  BY <1>2, UnitMoves

LEMMA CallsKeep ==
  ASSUME RowsInv, NEW t \in Workers,
         \/ CreateUpdateDelete(t) \/ ExecuteUncommitted(t)
         \/ \E commit \in BOOLEAN : Bulk(t, commit)
  PROVE  RowsInv'
<1> DEFINE CallKinds == {"create", "bulk", "batches", "query"}
           Called(what, end) == [what |-> what, own |-> TRUE, end |-> end, rows |-> RowsOf(Unit)]
<1>1. units \in Seq(UnitRecord)
  BY DEF RowsInv, SessionRecords
<1>2. ASSUME NEW what \in CallKinds, NEW end \in {"done", "raised", "lost"}
      PROVE  /\ Called(what, end) \in UnitRecord /\ Called(what, end).rows = RowsOf(Unit)
             /\ Called(what, end).end = end /\ Called(what, end).what = what
  BY <1>1, NewRows DEF UnitRecord, RowsOf
<1>3. /\ UNCHANGED <<session, block, engine>>
      /\ \E what \in CallKinds : \E end \in {"done", "raised", "lost"} : \E R \in SUBSET RowsOf(Unit) :
            /\ units' = Append(units, Called(what, end)) /\ committed' = committed \cup R
            /\ R = {} \/ what = "batches" \/ (end = "done" /\ R = RowsOf(Unit))
  <2>1. CASE CreateUpdateDelete(t)
    BY <2>1 DEF CreateUpdateDelete, NewUnit, Idle
  <2>2. CASE ExecuteUncommitted(t)
    BY <2>2 DEF ExecuteUncommitted, NewUnit, Idle
  <2>3. ASSUME NEW commit \in BOOLEAN, Bulk(t, commit)
        PROVE  /\ UNCHANGED <<session, block, engine>>
               /\ \E what \in CallKinds : \E end \in {"done", "raised", "lost"} : \E R \in SUBSET RowsOf(Unit) :
                     /\ units' = Append(units, Called(what, end)) /\ committed' = committed \cup R
                     /\ R = {} \/ what = "batches" \/ (end = "done" /\ R = RowsOf(Unit))
    <3>1. {<<Unit, 1>>} \subseteq RowsOf(Unit)
      BY DEF RowsOf
    <3>2. CASE commit
      BY <2>3, <3>1, <3>2 DEF Bulk, NewUnit, Idle
    <3>3. CASE ~commit
      BY <2>3, <3>1, <3>3 DEF Bulk, NewUnit, Idle
    <3> QED
      BY <3>2, <3>3
  <2> QED
    BY <2>1, <2>2, <2>3
<1>4. PICK what \in CallKinds, end \in {"done", "raised", "lost"}, R \in SUBSET RowsOf(Unit) :
            /\ units' = Append(units, Called(what, end)) /\ committed' = committed \cup R
            /\ R = {} \/ what = "batches" \/ (end = "done" /\ R = RowsOf(Unit))
  BY <1>3
<1> DEFINE unit == Called(what, end)
<1>5. /\ unit \in UnitRecord /\ unit.rows = RowsOf(Unit) /\ unit.end = end /\ unit.what = what
      /\ unit.what # "transaction" /\ units' = Append(units, unit) /\ R \subseteq RowsOf(Unit)
  <2>1. /\ unit \in UnitRecord /\ unit.rows = RowsOf(Unit) /\ unit.end = end /\ unit.what = what
    BY <1>2, ZenonT(30)
  <2>2. units' = Append(units, unit) /\ R \subseteq RowsOf(Unit)
    BY <1>4
  <2>3. what # "transaction"
    OBVIOUS
  <2> HIDE DEF unit, Called
  <2> QED
    BY <2>1, <2>2, <2>3
<1> HIDE DEF unit, Called, CallKinds
<1> QED
  BY <1>3, <1>4, <1>5, CallKeeps

LEMMA ExecuteBatchKeeps ==
  ASSUME RowsInv, NEW t \in Workers, NEW own \in BOOLEAN, ExecuteBatch(t, own) PROVE RowsInv'
<1> DEFINE held == IF own THEN {} ELSE session[t].pending
           left == IF own THEN session[t].pending ELSE {}
           Batch(end) == [what |-> "batch", own |-> own, end |-> end, rows |-> RowsOf(Unit)]
<1>1. units \in Seq(UnitRecord)
  BY DEF RowsInv, SessionRecords
<1>2. ASSUME NEW end \in {"done", "raised"}
      PROVE  /\ Batch(end) \in UnitRecord /\ Batch(end).rows = RowsOf(Unit) /\ Batch(end).end = end
             /\ Batch(end).what = "batch"
  BY <1>1, NewRows DEF UnitRecord, RowsOf
<1>3. UNCHANGED <<block, engine>>
  BY DEF ExecuteBatch, Idle
<1>4. /\ session' = [session EXCEPT ![t] = [open |-> session[t].open, pending |-> left \cup {}]]
      /\ session[t].open \in BOOLEAN
  <2>1. /\ session[t].open \in BOOLEAN
        /\ session = [session EXCEPT ![t] = [open |-> session[t].open, pending |-> session[t].pending]]
        /\ [session EXCEPT ![t].pending = {}]
              = [session EXCEPT ![t] = [open |-> session[t].open, pending |-> {}]]
    BY SessionSplit
  <2>2. left \cup {} = left
    OBVIOUS
  <2>3. session' = IF own THEN session ELSE [session EXCEPT ![t].pending = {}]
    BY DEF ExecuteBatch
  <2> QED
    BY <2>1, <2>2, <2>3
<1>5. /\ held \in {{}, session[t].pending} /\ left \in {{}, session[t].pending}
      /\ held = {} \/ left = {}
  OBVIOUS
<1>6. \/ units' = Append(units, Batch("done")) /\ committed' = committed \cup RowsOf(Unit) \cup held
      \/ units' = Append(units, Batch("raised")) /\ committed' = committed
  BY DEF ExecuteBatch, NewUnit
<1> HIDE DEF held, left, Batch
<1>7. CASE units' = Append(units, Batch("done")) /\ committed' = committed \cup RowsOf(Unit) \cup held
  <2>1. RowsGo(t, RowsOf(Unit), RowsOf(Unit), {}, held, left)
    BY <1>3, <1>4, <1>5, <1>7 DEF RowsGo
  <2> QED
    BY <1>2, <1>3, <1>7, <2>1, UnitMoves
<1>8. CASE units' = Append(units, Batch("raised")) /\ committed' = committed
  <2>1. RowsGo(t, {}, {}, {}, {}, left)
    BY <1>3, <1>4, <1>5, <1>8 DEF RowsGo
  <2> QED
    BY <1>2, <1>3, <1>8, <2>1, UnitMoves
<1> QED
  BY <1>6, <1>7, <1>8

LEMMA OpenCommitCloseKeep ==
  ASSUME RowsInv, NEW t \in Workers, OpenSession(t) \/ CommitSession(t) \/ CloseSession(t)
  PROVE  RowsInv'
<1>1. UNCHANGED <<units, block, engine>>
  BY DEF OpenSession, CommitSession, CloseSession, Idle
<1>2. BlocksAfter
  BY <1>1, BlocksStay
<1>3. CASE OpenSession(t)
  <2>1. session' = [session EXCEPT ![t] = [open |-> TRUE, pending |-> session[t].pending \cup {}]]
    <3>1. session' = [session EXCEPT ![t] = [open |-> TRUE, pending |-> session[t].pending]]
      BY <1>3, SessionSplit DEF OpenSession
    <3>2. session[t].pending \cup {} = session[t].pending
      OBVIOUS
    <3> QED
      BY <3>1, <3>2
  <2>2. RowsGo(t, {}, {}, {}, {}, session[t].pending)
    BY <1>1, <1>3, <2>1 DEF RowsGo, OpenSession
  <2> QED
    BY <1>1, <1>2, <2>2, SessionEnds
<1>4. CASE CommitSession(t)
  <2>1. session' = [session EXCEPT ![t] = [open |-> FALSE, pending |-> {} \cup {}]]
    BY <1>4 DEF CommitSession, NoSession
  <2>2. RowsGo(t, {}, {}, {}, session[t].pending, {})
    BY <1>1, <1>4, <2>1 DEF RowsGo, CommitSession
  <2> QED
    BY <1>1, <1>2, <2>2, SessionEnds
<1>5. CASE CloseSession(t)
  <2>1. session' = [session EXCEPT ![t] = [open |-> FALSE, pending |-> {} \cup {}]]
    BY <1>5 DEF CloseSession, NoSession
  <2>2. RowsGo(t, {}, {}, {}, {}, {})
    BY <1>1, <1>5, <2>1 DEF RowsGo, CloseSession
  <2> QED
    BY <1>1, <1>2, <2>2, SessionEnds
<1> QED
  BY <1>3, <1>4, <1>5

LEMMA EndSqlTransactionKeeps == ASSUME RowsInv, NEW t \in Workers, EndSqlTransaction(t) PROVE RowsInv'
<1> DEFINE gone == block[t].rows
           same == session[t].pending
<1>1. /\ BySql /\ block[t].state = "open" /\ EndTransaction(t, "done") /\ engine' = engine
      /\ committed' = IF ReleaseCommits(t) THEN committed \cup gone ELSE committed
      /\ session' = IF block[t].own \/ ReleaseCommits(t) THEN session
                    ELSE [session EXCEPT ![t].pending = @ \cup gone]
  BY DEF EndSqlTransaction, Idle
<1>2. block[t].own \in BOOLEAN
  BY DEF RowsInv, SessionRecords
<1>3. /\ session = [session EXCEPT ![t] = [open |-> session[t].open, pending |-> same \cup {}]]
      /\ session[t].open \in BOOLEAN
  BY SessionSplit
<1>4. CASE ReleaseCommits(t)
  <2>1. RowsGo(t, gone, gone, {}, {}, same)
    BY <1>1, <1>3, <1>4 DEF RowsGo
  <2>2. engine.dialect = "sqlite"
    BY <1>4 DEF ReleaseCommits
  <2> QED
    BY <1>1, <2>1, <2>2, TransactionEnds
<1>5. CASE ~ReleaseCommits(t) /\ block[t].own
  <2>1. RowsGo(t, {}, {}, {}, {}, same)
    BY <1>1, <1>3, <1>5 DEF RowsGo
  <2>2. engine.dialect # "sqlite"
    BY <1>5 DEF ReleaseCommits
  <2> QED
    BY <1>1, <2>1, <2>2, TransactionEnds
<1>6. CASE ~ReleaseCommits(t) /\ ~block[t].own
  <2>1. session' = [session EXCEPT ![t] = [open |-> session[t].open, pending |-> same \cup gone]]
    BY <1>1, <1>6, SessionSplit
  <2>2. RowsGo(t, gone, {}, gone, {}, same)
    BY <1>1, <1>3, <1>6, <2>1 DEF RowsGo
  <2> QED
    BY <1>1, <1>6, <2>2, TransactionEnds
<1> QED
  BY <1>2, <1>4, <1>5, <1>6

LEMMA EndConnectionTransactionKeeps ==
  ASSUME RowsInv, NEW t \in Workers, EndConnectionTransaction(t) PROVE RowsInv'
<1> DEFINE gone == block[t].rows
           held == IF block[t].own THEN {} ELSE session[t].pending
           left == IF block[t].own THEN session[t].pending ELSE {}
<1>1. /\ ~BySql /\ block[t].state = "open" /\ EndTransaction(t, "done") /\ engine' = engine
      /\ committed' = committed \cup gone \cup held
      /\ session' = IF block[t].own THEN session ELSE [session EXCEPT ![t].pending = {}]
  BY DEF EndConnectionTransaction, Idle
<1>2. block[t].own \in BOOLEAN
  BY DEF RowsInv, SessionRecords
<1>3. /\ session' = [session EXCEPT ![t] = [open |-> session[t].open, pending |-> left \cup {}]]
      /\ session[t].open \in BOOLEAN
  <2>1. /\ session[t].open \in BOOLEAN
        /\ session = [session EXCEPT ![t] = [open |-> session[t].open, pending |-> session[t].pending]]
        /\ [session EXCEPT ![t].pending = {}]
              = [session EXCEPT ![t] = [open |-> session[t].open, pending |-> {}]]
    BY SessionSplit
  <2>2. left \cup {} = left
    OBVIOUS
  <2>3. session' = IF block[t].own THEN session ELSE [session EXCEPT ![t].pending = {}]
    BY <1>1
  <2> QED
    BY <2>1, <2>2, <2>3
<1>4. RowsGo(t, gone, gone, {}, held, left)
  BY <1>1, <1>3 DEF RowsGo
<1> QED
  BY <1>1, <1>4, TransactionEnds

LEMMA RaiseInTransactionKeeps ==
  ASSUME RowsInv, NEW t \in Workers, RaiseInTransaction(t) PROVE RowsInv'
<1>1. UNCHANGED <<committed, session, engine>> /\ block[t].state = "open" /\ EndTransaction(t, "raised")
  BY DEF RaiseInTransaction, Idle
<1> QED
  BY <1>1, RowsStay, TransactionEnds

LEMMA GettersKeepRows ==
  ASSUME RowsInv, UNCHANGED <<engine, committed, session, block, units>> PROVE RowsInv'
<1>1. SessionRecords' /\ UnitsOwnTheirRows'
  BY DEF RowsInv, SessionRecords, UnitsOwnTheirRows, UnitRows, RowsOf
<1>2. BlocksAreOpen'
  BY DEF RowsInv, BlocksAreOpen, RowsOf
<1>3. PlacesApart' /\ OwnNotPending'
  BY DEF RowsInv, PlacesApart, OwnNotPending, RowsOf
<1>4. Whole(committed)' /\ \A t \in Workers : Whole(session[t].pending)'
  BY DEF RowsInv, Whole, RowsOf
<1>5. OwnTransactionsKept'
  BY DEF RowsInv, OwnTransactionsKept, BySql
<1> QED
  BY <1>1, <1>2, <1>3, <1>4, <1>5 DEF RowsInv

-----------------------------------------------------------------------------
LEMMA SessionsInitial == SessionsInit => SessionsInv
<1> SUFFICES ASSUME SessionsInit PROVE SessionsInv
  OBVIOUS
<1>1. /\ committed = {} /\ units = <<>> /\ session = [t \in Workers |-> NoSession]
      /\ block = [t \in Workers |-> NoBlock]
  BY DEF SessionsInit
<1>2. units \in Seq(UnitRecord) /\ Len(units) = 0 /\ 1..Len(units) = {} /\ DOMAIN units = {}
  BY <1>1, EmptySeq
<1>3. SessionRecords
  BY <1>1, <1>2 DEF SessionRecords, NoSession, NoBlock
<1>4. RowsInv
  BY <1>1, <1>2, <1>3 DEF RowsInv, UnitsOwnTheirRows, BlocksAreOpen, PlacesApart, OwnNotPending, Whole,
       OwnTransactionsKept, NoSession, NoBlock
<1>5. GettersInv
  BY DEF SessionsInit, GettersInv
<1> QED
  BY <1>4, <1>5 DEF SessionsInv

LEMMA GettersKept ==
  ASSUME GettersInv, NEW t \in Workers, engine' = engine,
         LookForManager(t) \/ TakeManagerLock(t) \/ CreateManager(t)
  PROVE  GettersInv'
<1> USE DEF GettersInv, BySql
<1>1. CASE LookForManager(t)
  <2>1. CASE default.manager # 0 /\ getter[t].pc = "start"
    <3>1. /\ getter' = [getter EXCEPT ![t] = [pc |-> "got", manager |-> default.manager]]
          /\ default' = [default EXCEPT !.lock = @ /\ getter[t].pc # "locked"]
      BY <1>1, <2>1 DEF LookForManager
    <3>2. default' = default
      BY <2>1, <3>1
    <3> QED
      BY <2>1, <3>1, <3>2
  <2>2. CASE default.manager # 0 /\ getter[t].pc # "start"
    <3>1. /\ getter' = [getter EXCEPT ![t] = [pc |-> "got", manager |-> default.manager]]
          /\ default' = [default EXCEPT !.lock = FALSE] /\ getter[t].pc = "locked"
      BY <1>1, <2>2 DEF LookForManager
    <3> QED
      BY <2>2, <3>1
  <2>3. CASE default.manager = 0
    <3>1. PICK pc \in {"creates", "waits"} :
             /\ getter' = [getter EXCEPT ![t].pc = pc]
             /\ pc = "creates" <=> BySql \/ getter[t].pc = "locked"
      BY <1>1, <2>3 DEF LookForManager, Moves
    <3>2. default' = default /\ getter[t].pc \in {"start", "locked"}
      BY <1>1, <2>3 DEF LookForManager
    <3>3. getter' \in [Workers -> [pc : {"start", "waits", "locked", "creates", "got"}, manager : Nat]]
      BY <3>1
    <3> QED
      BY <2>3, <3>1, <3>2, <3>3
  <2> QED
    BY <2>1, <2>2, <2>3
<1>2. CASE TakeManagerLock(t)
  BY <1>2 DEF TakeManagerLock, Moves
<1>3. CASE CreateManager(t)
  BY <1>3 DEF CreateManager
<1> QED
  BY <1>1, <1>2, <1>3

LEMMA SessionsStep == SessionsInv /\ [SessionsNext]_sessionVars => SessionsInv'
<1> SUFFICES ASSUME SessionsInv, [SessionsNext]_sessionVars PROVE SessionsInv'
  OBVIOUS
<1>0. RowsInv /\ GettersInv
  BY DEF SessionsInv
<1>1. ASSUME NEW t \in Workers, LookForManager(t) \/ TakeManagerLock(t) \/ CreateManager(t)
      PROVE  SessionsInv'
  <2>1. UNCHANGED <<engine, committed, session, block, units>>
    BY <1>1 DEF LookForManager, TakeManagerLock, CreateManager
  <2> QED
    BY <1>0, <1>1, <2>1, GettersKeepRows, GettersKept DEF SessionsInv
<1>2. ASSUME UNCHANGED <<engine, default, getter>>, RowsInv' PROVE SessionsInv'
  BY <1>0, <1>2 DEF SessionsInv, GettersInv, BySql
<1>3. ASSUME NEW t \in Workers, OpenSession(t) \/ CommitSession(t) \/ CloseSession(t) PROVE SessionsInv'
  <2>1. Idle
    BY <1>3 DEF OpenSession, CommitSession, CloseSession
  <2> QED
    BY <1>0, <1>2, <1>3, <2>1, OpenCommitCloseKeep DEF Idle
<1>4. ASSUME NEW t \in Workers, Write(t) PROVE SessionsInv'
  BY <1>0, <1>2, <1>4, WriteKeeps DEF Idle, Write
<1>5. ASSUME NEW t \in Workers, WriteInTransaction(t) PROVE SessionsInv'
  BY <1>0, <1>2, <1>5, WriteInTransactionKeeps DEF Idle, WriteInTransaction
<1>6. ASSUME NEW t \in Workers, EndSqlTransaction(t) PROVE SessionsInv'
  BY <1>0, <1>2, <1>6, EndSqlTransactionKeeps DEF Idle, EndSqlTransaction
<1>7. ASSUME NEW t \in Workers, EndConnectionTransaction(t) PROVE SessionsInv'
  BY <1>0, <1>2, <1>7, EndConnectionTransactionKeeps DEF Idle, EndConnectionTransaction
<1>8. ASSUME NEW t \in Workers, RaiseInTransaction(t) PROVE SessionsInv'
  BY <1>0, <1>2, <1>8, RaiseInTransactionKeeps DEF Idle, RaiseInTransaction
<1>9. ASSUME NEW t \in Workers,
             \/ CreateUpdateDelete(t) \/ ExecuteUncommitted(t)
             \/ \E commit \in BOOLEAN : Bulk(t, commit)
      PROVE  SessionsInv'
  <2>1. Idle
    BY <1>9 DEF CreateUpdateDelete, ExecuteUncommitted, Bulk
  <2> QED
    BY <1>0, <1>2, <1>9, <2>1, CallsKeep DEF Idle
<1>10. ASSUME NEW t \in Workers, NEW own \in BOOLEAN, BeginTransaction(t, own) PROVE SessionsInv'
  BY <1>0, <1>2, <1>10, BeginTransactionKeeps DEF Idle, BeginTransaction
<1>11. ASSUME NEW t \in Workers, NEW own \in BOOLEAN, ExecuteBatch(t, own) PROVE SessionsInv'
  BY <1>0, <1>2, <1>11, ExecuteBatchKeeps DEF Idle, ExecuteBatch
<1>12. CASE UNCHANGED sessionVars
  BY <1>0, <1>2, <1>12, GettersKeepRows DEF sessionVars
<1> QED
  BY <1>1, <1>3, <1>4, <1>5, <1>6, <1>7, <1>8, <1>9, <1>10, <1>11, <1>12 DEF SessionsNext

LEMMA SessionsInvMeans == SessionsInv => SessionsSound
<1> SUFFICES ASSUME SessionsInv PROVE SessionsSound
  OBVIOUS
<1>1. DOMAIN units = 1..Len(units)
  BY LenProperties DEF SessionsInv, RowsInv, SessionRecords
<1>2. AllOrNothing
  BY <1>1 DEF SessionsInv, RowsInv, Whole, AllOrNothing
<1>3. OwnTransactionsKept /\ PendingIsPending
  BY DEF SessionsInv, RowsInv, PlacesApart, PendingIsPending
<1>4. OneManager
  BY DEF SessionsInv, GettersInv, OneManager
<1> QED
  BY <1>2, <1>3, <1>4 DEF SessionsSound

\* What a transaction or a call of the two session managers wrote is in the database whole
\* or not at all, a transaction in a session of its own is left where the code commits it,
\* nothing pending is committed, and the locked getter makes one manager.
THEOREM SessionsAreSound == SessionsSpec => []SessionsSound
<1>1. SessionsInit => SessionsInv
  BY SessionsInitial
<1>2. SessionsInv /\ [SessionsNext]_sessionVars => SessionsInv'
  BY SessionsStep
<1>3. SessionsInv => SessionsSound
  BY SessionsInvMeans
<1> QED
  BY <1>1, <1>2, <1>3, PTL DEF SessionsSpec

-----------------------------------------------------------------------------
(***************************************************************************)
(* The exporter.                                                           *)
(***************************************************************************)
Entities == Exportable \cup ExportPlans
Stages == {"idle", "metadata", "folders", "cases", "cycles", "fetching", "executions"}
StoreTypes == [rows : SUBSET Entities, broken : SUBSET Kinds]
ExportRecords ==
    [pc : Stages, fetched : SUBSET Exportable, left : SUBSET (TreeFolders \cup ExportCycles),
     failed : SUBSET ExportCycles, ordered : BOOLEAN, outcome : {"none", "raised", "completed"}]

ExportTypes ==
    /\ output \in {"json", "sqlite"}
    /\ zephyr \subseteq Exportable
    /\ stored \in StoreTypes
    /\ unsaved \subseteq Entities
    /\ export \in ExportRecords

\* With a folder the set has the one above it; no row refers to one that is not there.
FoldersUp(set) == \A f \in set \cap TreeFolders : Super(f) \in set \cup {NoFolder}
RefsHold(result) ==
    /\ FoldersUp(result)
    /\ \A x \in result \cap Runs : {CaseOf(x), CycleOf(x)} \subseteq result

\* SQLite breaks no file and no reference.
SqlHolds == output = "sqlite" => RefsHold(stored.rows) /\ stored.broken = {}

\* In the block of the folders: those that are saved stay saved as long as none came before
\* its parent, since what a parent deletes is below it.
SavedFolders == (export.fetched \cap TreeFolders) \ export.left
FoldersHold ==
    Goes("folders") =>
        /\ zephyr \cap TreeFolders \subseteq export.fetched
        /\ export.fetched \subseteq TreeFolders \cup ExportMeta
        /\ FoldersUp(export.fetched)
        /\ export.left \subseteq export.fetched \cap TreeFolders
        /\ output = "sqlite" => RefsHold(unsaved)
        /\ output = "sqlite" /\ export.ordered =>
               /\ SavedFolders \subseteq unsaved
               /\ \A f \in SavedFolders : Super(f) \notin export.left
               /\ stored.rows \ unsaved \subseteq TreeFolders

\* What the blocks before a stage have written is there, and in JSON nothing else of its kinds.
WrittenKinds(pc) ==
    {TreeFolders, ExportMeta} \cup (IF pc = "cases" THEN {} ELSE {ExportCases})
                              \cup (IF pc \in {"cases", "cycles"} THEN {} ELSE {ExportCycles})
Written(pc) ==
    TreeFolders \cup ExportMeta \cup (IF pc = "cases" THEN {} ELSE ExportCases)
                                \cup (IF pc \in {"cases", "cycles"} THEN {} ELSE ExportCycles)
WritesHold ==
    export.pc \in {"cases", "cycles", "fetching", "executions"} =>
        /\ export.fetched \subseteq Written(export.pc)
               \cup (IF export.pc \in {"cases", "cycles"} THEN {} ELSE Runs)
        /\ output = "sqlite" /\ export.ordered => export.fetched \ Runs \subseteq stored.rows
        /\ output = "json" => /\ stored.rows \cap Written(export.pc) = export.fetched \ Runs
                              /\ stored.broken \cap WrittenKinds(export.pc) = {}

\* The executions fetched are those of the cycles that answered.
Answered == (export.fetched \cap ExportCycles) \ (export.left \cup export.failed)
FetchesHold ==
    /\ export.pc \in {"metadata", "folders", "cases", "cycles"} => export.failed = {}
    /\ export.pc \in {"fetching", "executions"} =>
           /\ export.left \subseteq export.fetched /\ export.left \cap export.failed = {}
           /\ \A x \in export.fetched \cap Runs : CycleOf(x) \in Answered
           /\ \A x \in zephyr \cap Runs : CycleOf(x) \in Answered => x \in export.fetched
           /\ Goes("executions") => export.left = {}

ExportInv ==
    /\ ExportTypes /\ FoldersUp(zephyr)
    /\ SqlHolds /\ FoldersHold /\ WritesHold /\ FetchesHold /\ CompletedIsWhole

LEMMA KindsApart ==
    /\ TreeFolders \cap (ExportMeta \cup ExportCases \cup ExportCycles \cup ExportPlans \cup Runs) = {}
    /\ ExportMeta \cap (ExportCases \cup ExportCycles \cup ExportPlans \cup Runs) = {}
    /\ ExportCases \cap (ExportCycles \cup ExportPlans \cup Runs) = {}
    /\ ExportCycles \cap (ExportPlans \cup Runs) = {}
    /\ ExportPlans \cap Runs = {}
    /\ NoFolder \notin Entities
<1> DEFINE kinds == <<TreeFolders, ExportMeta, ExportCases, ExportCycles, ExportPlans, Runs, {NoFolder}>>
<1>1. \A i, j \in 1..7 : i # j => kinds[i] \cap kinds[j] = {}
  BY KindsAssumption
<1>2. /\ kinds[1] \cap kinds[2] = {} /\ kinds[1] \cap kinds[3] = {} /\ kinds[1] \cap kinds[4] = {}
      /\ kinds[1] \cap kinds[5] = {} /\ kinds[1] \cap kinds[6] = {} /\ kinds[1] \cap kinds[7] = {}
      /\ kinds[2] \cap kinds[3] = {} /\ kinds[2] \cap kinds[4] = {} /\ kinds[2] \cap kinds[5] = {}
      /\ kinds[2] \cap kinds[6] = {} /\ kinds[2] \cap kinds[7] = {}
      /\ kinds[3] \cap kinds[4] = {} /\ kinds[3] \cap kinds[5] = {} /\ kinds[3] \cap kinds[6] = {}
      /\ kinds[3] \cap kinds[7] = {}
      /\ kinds[4] \cap kinds[5] = {} /\ kinds[4] \cap kinds[6] = {} /\ kinds[4] \cap kinds[7] = {}
      /\ kinds[5] \cap kinds[6] = {} /\ kinds[5] \cap kinds[7] = {} /\ kinds[6] \cap kinds[7] = {}
  <2> HIDE DEF kinds
  <2> QED BY <1>1
<1> QED BY <1>2 DEF Entities, Exportable

LEMMA BelowCloses ==
    ASSUME NEW f \in TreeFolders
    PROVE  /\ Below(f) \subseteq TreeFolders /\ f \notin Below(f)
           /\ \A g \in TreeFolders : Super(g) \in Below(f) \cup {f} => g \in Below(f)
<1>1. Below(f) \subseteq TreeFolders /\ f \notin Below(f)
  BY ExporterAssumption DEF Below
<1>2. ASSUME NEW g \in TreeFolders, Super(g) \in Below(f) \cup {f} PROVE g \in Below(f)
  <2> SUFFICES ASSUME NEW down \in SUBSET TreeFolders, Children(f) \subseteq down,
                      \A d \in down : Children(d) \subseteq down
               PROVE  g \in down
    BY DEF Below
  <2>1. Super(g) \in down \cup {f}
    BY <1>2 DEF Below
  <2> QED BY <2>1 DEF Children
<1> QED BY <1>1, <1>2

LEMMA BelowIsLeast ==
    ASSUME NEW f \in TreeFolders, NEW down \in SUBSET TreeFolders,
           \A g \in TreeFolders : Super(g) \in down \cup {f} => g \in down
    PROVE  Below(f) \subseteq down
BY DEF Below, Children

LEMMA NotRefused == ASSUME NEW result \in SUBSET Entities PROVE result # ExportRefused
BY KindsApart DEF ExportRefused

LEMMA RunsRefer == \A x \in Runs : CaseOf(x) \in ExportCases /\ CycleOf(x) \in ExportCycles
BY ExporterAssumption

LEMMA SaveFolderHolds ==
    ASSUME NEW result \in SUBSET Entities, NEW f \in TreeFolders, RefsHold(result),
           Super(f) \in result \cup {NoFolder}
    PROVE  RefsHold((result \ Below(f)) \cup {f})
<1> DEFINE after == (result \ Below(f)) \cup {f}
<1>1. ASSUME NEW g \in after \cap TreeFolders PROVE Super(g) \in after \cup {NoFolder}
  <2>1. CASE g = f
    <3>1. Super(f) \notin Below(f)
      BY BelowCloses
    <3> QED BY <2>1, <3>1
  <2>2. CASE g # f
    <3>1. g \in result /\ g \notin Below(f)
      BY <2>2, <1>1
    <3>2. Super(g) \in result \cup {NoFolder}
      BY <3>1, <1>1 DEF RefsHold, FoldersUp
    <3>3. Super(g) \notin Below(f)
      BY <3>1, BelowCloses, <1>1
    <3> QED BY <3>2, <3>3
  <2> QED BY <2>1, <2>2
<1>2. ASSUME NEW x \in after \cap Runs PROVE {CaseOf(x), CycleOf(x)} \subseteq after
  <2>1. x \in result
    BY <1>2, KindsApart
  <2>2. {CaseOf(x), CycleOf(x)} \subseteq result
    BY <2>1, <1>2 DEF RefsHold
  <2>3. CaseOf(x) \notin TreeFolders /\ CycleOf(x) \notin TreeFolders
    BY <1>2, RunsRefer, KindsApart
  <2> QED BY <2>2, <2>3, BelowCloses
<1> QED BY <1>1, <1>2 DEF RefsHold, FoldersUp

LEMMA SaveOthersHold ==
    ASSUME NEW result \in SUBSET Entities, RefsHold(result)
    PROVE  /\ \A items \in SUBSET ExportMeta : RefsHold(SqlSaveMetadata(result, items))
           /\ \A items \in SUBSET ExportPlans : RefsHold(SqlSavePlans(result, items))
           /\ \A items \in SUBSET ExportCycles : RefsHold(SqlSaveCycles(result, items))
           /\ \A items \in SUBSET ExportCases :
                  SqlSaveCases(result, items) = ExportRefused \/ RefsHold(SqlSaveCases(result, items))
           /\ \A items \in SUBSET Runs :
                  SqlSaveExecutions(result, items) = ExportRefused \/ RefsHold(SqlSaveExecutions(result, items))
<1>1. \A items \in SUBSET ExportMeta : RefsHold(SqlSaveMetadata(result, items))
  BY KindsApart DEF SqlSaveMetadata, RefsHold, FoldersUp
<1>2. \A items \in SUBSET ExportPlans : RefsHold(SqlSavePlans(result, items))
  BY KindsApart DEF SqlSavePlans, RefsHold, FoldersUp
<1>3. ASSUME NEW items \in SUBSET ExportCycles PROVE RefsHold(SqlSaveCycles(result, items))
  <2> DEFINE after == SqlSaveCycles(result, items)
  <2>1. after = {e \in result : e \in Runs => CycleOf(e) \notin items} \cup items
    BY DEF SqlSaveCycles
  <2> HIDE DEF after
  <2>2. result \ Runs \subseteq after /\ after \cap Runs \subseteq result /\ after \cap TreeFolders \subseteq result
    BY <2>1, KindsApart
  <2>3. FoldersUp(after)
    <3> SUFFICES ASSUME NEW f \in after \cap TreeFolders PROVE Super(f) \in after \cup {NoFolder}
      BY DEF FoldersUp
    <3>1. Super(f) \in result \cup {NoFolder}
      BY <2>2 DEF RefsHold, FoldersUp
    <3>2. Super(f) \notin Runs
      BY ExporterAssumption, KindsApart, <3>1 DEF Entities, Exportable
    <3> QED BY <3>1, <3>2, <2>2
  <2>4. ASSUME NEW x \in after \cap Runs PROVE {CaseOf(x), CycleOf(x)} \subseteq after
    <3>1. {CaseOf(x), CycleOf(x)} \subseteq result
      BY <2>2 DEF RefsHold
    <3>2. CaseOf(x) \notin Runs /\ CycleOf(x) \notin Runs
      BY RunsRefer, KindsApart
    <3> QED BY <3>1, <3>2, <2>2
  <2> QED BY <2>3, <2>4 DEF RefsHold, after
<1>4. ASSUME NEW items \in SUBSET ExportCases, SqlSaveCases(result, items) # ExportRefused
      PROVE  RefsHold(SqlSaveCases(result, items))
  <2> DEFINE after == SqlSaveCases(result, items)
  <2>1. after = {e \in result : e \in Runs => CaseOf(e) \notin items} \cup items
    BY <1>4 DEF SqlSaveCases
  <2> HIDE DEF after
  <2>2. result \ Runs \subseteq after /\ after \cap Runs \subseteq result /\ after \cap TreeFolders \subseteq result
    BY <2>1, KindsApart
  <2>3. FoldersUp(after)
    <3> SUFFICES ASSUME NEW f \in after \cap TreeFolders PROVE Super(f) \in after \cup {NoFolder}
      BY DEF FoldersUp
    <3>1. Super(f) \in result \cup {NoFolder}
      BY <2>2 DEF RefsHold, FoldersUp
    <3>2. Super(f) \notin Runs
      BY ExporterAssumption, KindsApart, <3>1 DEF Entities, Exportable
    <3> QED BY <3>1, <3>2, <2>2
  <2>4. ASSUME NEW x \in after \cap Runs PROVE {CaseOf(x), CycleOf(x)} \subseteq after
    <3>1. {CaseOf(x), CycleOf(x)} \subseteq result
      BY <2>2 DEF RefsHold
    <3>2. CaseOf(x) \notin Runs /\ CycleOf(x) \notin Runs
      BY RunsRefer, KindsApart
    <3> QED BY <3>1, <3>2, <2>2
  <2> QED BY <2>3, <2>4 DEF RefsHold, after
<1>5. ASSUME NEW items \in SUBSET Runs, SqlSaveExecutions(result, items) # ExportRefused
      PROVE  RefsHold(SqlSaveExecutions(result, items))
  <2>1. /\ SqlSaveExecutions(result, items) = result \cup items
        /\ \A x \in items : {CaseOf(x), CycleOf(x)} \subseteq result
    BY <1>5 DEF SqlSaveExecutions
  <2>2. FoldersUp(result \cup items)
    BY KindsApart DEF RefsHold, FoldersUp
  <2> QED BY <2>1, <2>2 DEF RefsHold
<1> QED BY <1>1, <1>2, <1>3, <1>4, <1>5

SqlResults == (SUBSET Entities) \cup {ExportRefused}

LEMMA SqlSaveTypes ==
    ASSUME NEW result \in SUBSET Entities
    PROVE  /\ \A items \in SUBSET ExportMeta : SqlSaveMetadata(result, items) \in SUBSET Entities
           /\ \A items \in SUBSET ExportPlans : SqlSavePlans(result, items) \in SUBSET Entities
           /\ \A items \in SUBSET ExportCycles : SqlSaveCycles(result, items) \in SUBSET Entities
           /\ \A items \in SUBSET ExportCases :
                  SqlSaveCases(result, items) \in SqlResults
           /\ \A items \in SUBSET Runs :
                  SqlSaveExecutions(result, items) \in SqlResults
<1>1. \A items \in SUBSET ExportMeta : SqlSaveMetadata(result, items) \in SUBSET Entities
  BY DEF SqlSaveMetadata, Entities, Exportable
<1>2. \A items \in SUBSET ExportPlans : SqlSavePlans(result, items) \in SUBSET Entities
  BY DEF SqlSavePlans, Entities, Exportable
<1>3. \A items \in SUBSET ExportCycles : SqlSaveCycles(result, items) \in SUBSET Entities
  BY DEF SqlSaveCycles, Entities, Exportable
<1>4. \A items \in SUBSET ExportCases : SqlSaveCases(result, items) \in SqlResults
  BY DEF SqlSaveCases, Entities, Exportable, SqlResults
<1>5. \A items \in SUBSET Runs : SqlSaveExecutions(result, items) \in SqlResults
  BY DEF SqlSaveExecutions, Entities, Exportable, SqlResults
<1> QED BY <1>1, <1>2, <1>3, <1>4, <1>5

LEMMA KindsEntities == \A kind \in Kinds : kind \subseteq Entities
BY DEF Kinds, Entities, Exportable

LEMMA JsonSaves ==
    ASSUME NEW st \in StoreTypes, NEW kind \in Kinds, NEW items \in SUBSET kind
    PROVE  /\ Unreadable(st, kind) \in StoreTypes
           /\ JsonSave(st, kind, items) \in StoreTypes
           /\ \A e \in kind : JsonSaveOne(st, kind, e) \in StoreTypes
<1>1. kind \subseteq Entities
  BY KindsEntities
<1>2. Unreadable(st, kind) \in StoreTypes
  BY DEF Unreadable, StoreTypes
<1>3. JsonSave(st, kind, items) \in StoreTypes
  BY <1>1, <1>2 DEF JsonSave, StoreTypes
<1>4. \A e \in kind : JsonSaveOne(st, kind, e) \in StoreTypes
  BY <1>1, <1>2 DEF JsonSaveOne, StoreTypes
<1> QED BY <1>2, <1>3, <1>4

LEMMA Commits ==
    ASSUME stored \in StoreTypes, NEW result \in SqlResults, CommitBlock(result)
    PROVE  /\ stored' \in StoreTypes /\ stored'.broken = stored.broken
           /\ result = ExportRefused => stored' = stored
           /\ result # ExportRefused => stored'.rows = result
BY DEF CommitBlock, StoreTypes, SqlResults

LEMMA BlockHolds ==
    ASSUME ExportTypes, SqlHolds, NEW kind \in Kinds, NEW items \in SUBSET kind,
           NEW result \in SqlResults, output = "sqlite" => (result = ExportRefused \/ RefsHold(result)),
           NEW next, Block(kind, items, result, next), output' = output
    PROVE  /\ stored' \in StoreTypes /\ SqlHolds'
           /\ \/ export' = Ends("raised")
              \/ /\ export' = next
                 /\ output = "json" => /\ stored'.rows = (stored.rows \ kind) \cup items
                                       /\ stored'.broken = stored.broken \ {kind}
                 /\ output = "sqlite" => result # ExportRefused /\ stored'.rows = result
<1>1. stored \in StoreTypes /\ output \in {"json", "sqlite"}
  BY DEF ExportTypes, StoreTypes
<1>2. CASE output = "json"
  <2>1. stored' = JsonSave(stored, kind, items) /\ export' = IF items \cap Dated # {} THEN Ends("raised") ELSE next
    BY <1>2 DEF Block
  <2>2. stored' \in StoreTypes /\ SqlHolds'
    BY <1>1, <1>2, <2>1, JsonSaves DEF SqlHolds
  <2>3. items \cap Dated = {} => /\ stored'.rows = (stored.rows \ kind) \cup items
                                 /\ stored'.broken = stored.broken \ {kind}
    BY <2>1 DEF JsonSave
  <2> QED BY <1>2, <2>1, <2>2, <2>3
<1>3. CASE output = "sqlite"
  <2>1. CommitBlock(result) /\ export' = IF result = ExportRefused THEN Ends("raised") ELSE next
    BY <1>3 DEF Block
  <2>2. /\ stored' \in StoreTypes /\ stored'.broken = stored.broken
        /\ result = ExportRefused => stored' = stored
        /\ result # ExportRefused => stored'.rows = result
    BY <1>1, <2>1, Commits
  <2>3. SqlHolds'
    BY <1>3, <2>2 DEF SqlHolds, RefsHold, FoldersUp
  <2> QED BY <1>3, <2>1, <2>2, <2>3
<1> QED BY <1>1, <1>2, <1>3

\* Outside an export, and before its first block, only what always holds has to.
LEMMA QuietHolds ==
    ASSUME ExportTypes', FoldersUp(zephyr)', SqlHolds', export'.pc \in {"idle", "metadata"},
           export'.pc = "idle" \/ export'.failed = {}, export'.outcome # "completed"
    PROVE  ExportInv'
BY DEF ExportInv, FoldersHold, WritesHold, FetchesHold, CompletedIsWhole, Goes

LEMMA EndsTypes ==
    ASSUME ExportTypes, NEW outcome \in {"none", "raised", "completed"}
    PROVE  /\ Ends(outcome) \in ExportRecords
           /\ Ends(outcome).pc = "idle" /\ Ends(outcome).outcome = outcome
           /\ Ends(outcome).fetched = export.fetched /\ Ends(outcome).ordered = export.ordered
BY DEF ExportTypes, ExportRecords, Ends, Stages

LEMMA RaisesHolds ==
    ASSUME ExportInv, export' = Ends("raised"), output' = output, zephyr' = zephyr,
           unsaved' \in SUBSET Entities, stored' \in StoreTypes, SqlHolds'
    PROVE  ExportInv'
<1>1. ExportTypes'
  BY EndsTypes DEF ExportInv, ExportTypes, StoreTypes
<1>2. FoldersUp(zephyr)'
  BY DEF ExportInv, FoldersUp
<1> QED BY <1>1, <1>2, EndsTypes, QuietHolds DEF ExportInv

LEMMA StartHolds == ExportInv /\ StartExport => ExportInv'
<1> SUFFICES ASSUME ExportInv, StartExport PROVE ExportInv'
  OBVIOUS
<1>1. /\ export'.pc = "metadata" /\ export'.outcome = "none" /\ export'.failed = {}
      /\ export' \in ExportRecords
  BY DEF StartExport, ExportRecords, NoExport, Stages
<1>2. UNCHANGED <<output, zephyr, stored, unsaved>>
  BY DEF StartExport
<1> QED BY <1>1, <1>2, QuietHolds DEF ExportInv, ExportTypes, SqlHolds, FoldersUp, RefsHold

LEMMA StopsHold == ExportInv /\ (ExportRaises \/ Killed) => ExportInv'
<1>1. ASSUME ExportInv, ExportRaises PROVE ExportInv'
  <2>1. export' = Ends("raised") /\ UNCHANGED <<output, zephyr, stored, unsaved>>
    BY <1>1 DEF ExportRaises, InBlock
  <2>2. stored' \in StoreTypes /\ unsaved' \in SUBSET Entities /\ SqlHolds'
    BY <1>1, <2>1 DEF ExportInv, ExportTypes, StoreTypes, SqlHolds, RefsHold, FoldersUp
  <2> QED BY <1>1, <2>1, <2>2, RaisesHolds
<1>2. ASSUME ExportInv, Killed PROVE ExportInv'
  <2>1. export' = Ends("raised") /\ UNCHANGED <<output, zephyr, unsaved>>
    BY <1>2 DEF Killed, InBlock
  <2>2. PICK kind \in Kinds : stored' = IF output = "json" THEN Unreadable(stored, kind) ELSE stored
    BY <1>2 DEF Killed, Kinds
  <2>3. stored \in StoreTypes /\ unsaved' \in SUBSET Entities
    BY <1>2, <2>1 DEF ExportInv, ExportTypes, StoreTypes
  <2>4. stored' \in StoreTypes
    BY <2>2, <2>3, JsonSaves
  <2>5. SqlHolds'
    BY <1>2, <2>1, <2>2 DEF ExportInv, SqlHolds, RefsHold, FoldersUp
  <2> QED BY <1>2, <2>1, <2>3, <2>4, <2>5, RaisesHolds
<1> QED BY <1>1, <1>2

LEMMA FetchMetadataHolds == ExportInv /\ FetchMetadata => ExportInv'
<1> SUFFICES ASSUME ExportInv, FetchMetadata PROVE ExportInv'
  OBVIOUS
<1>1. /\ UNCHANGED <<output, zephyr, stored>> /\ unsaved' = stored.rows
      /\ export' = [export EXCEPT !.pc = "folders", !.left = zephyr \cap TreeFolders,
                                  !.fetched = zephyr \cap (TreeFolders \cup ExportMeta)]
  BY DEF FetchMetadata
<1>2. export \in ExportRecords /\ zephyr \subseteq Exportable
  BY DEF ExportInv, ExportTypes, ExportRecords
<1>3. /\ export'.pc = "folders" /\ export'.left = zephyr \cap TreeFolders
      /\ export'.fetched = zephyr \cap (TreeFolders \cup ExportMeta)
      /\ export'.failed = export.failed /\ export'.ordered = export.ordered
  BY <1>1, <1>2 DEF ExportRecords
<1>4. ExportTypes'
  <2>1. export' \in ExportRecords
    <3>1. "folders" \in Stages
      BY DEF Stages
    <3>2. /\ zephyr \cap TreeFolders \in SUBSET (TreeFolders \cup ExportCycles)
          /\ zephyr \cap (TreeFolders \cup ExportMeta) \in SUBSET Exportable
      BY <1>2
    <3> QED BY <1>1, <1>2, <3>1, <3>2 DEF ExportRecords
  <2> QED BY <1>1, <2>1 DEF ExportInv, ExportTypes, StoreTypes
<1>5. FoldersUp(zephyr)' /\ SqlHolds'
  BY <1>1 DEF ExportInv, FoldersUp, SqlHolds, RefsHold
<1>6. FoldersHold'
  <2>1. FoldersUp(export.fetched)'
    BY <1>3, ExporterAssumption DEF ExportInv, FoldersUp
  <2>2. output' = "sqlite" => RefsHold(unsaved)'
    BY <1>1 DEF ExportInv, SqlHolds, RefsHold, FoldersUp
  <2> QED BY <1>1, <1>3, <2>1, <2>2 DEF FoldersHold, SavedFolders
<1>7. WritesHold' /\ FetchesHold' /\ CompletedIsWhole'
  <2>1. export.failed = {}
    BY DEF ExportInv, FetchesHold, FetchMetadata, Goes
  <2> QED BY <1>3, <2>1 DEF WritesHold, FetchesHold, CompletedIsWhole, Goes
<1> QED BY <1>4, <1>5, <1>6, <1>7 DEF ExportInv

\* What a folder deletes below it was not saved by this block when its parent was not
\* still to come.
LEMMA BelowIsUnsaved ==
    ASSUME ExportInv, Goes("folders"), output = "sqlite", export.ordered,
           NEW f \in export.left, Super(f) \notin export.left
    PROVE  Below(f) \cap SavedFolders = {}
<1> DEFINE down == TreeFolders \ SavedFolders
<1>1. /\ f \in TreeFolders /\ FoldersUp(export.fetched)
      /\ \A s \in SavedFolders : Super(s) \notin export.left
  BY DEF ExportInv, FoldersHold
<1>2. ASSUME NEW g \in TreeFolders, Super(g) \in down \cup {f} PROVE g \in down
  <2> SUFFICES ASSUME g \in SavedFolders PROVE FALSE
    OBVIOUS
  <2>1. Super(g) \notin export.left
    BY <1>1
  <2>2. Super(g) \in export.fetched \cup {NoFolder}
    BY <1>1 DEF SavedFolders, FoldersUp
  <2>3. Super(g) # f
    BY <2>1
  <2>4. Super(g) \in TreeFolders /\ Super(g) \notin SavedFolders
    BY <1>2, <2>3
  <2>5. Super(g) # NoFolder
    BY <2>4, KindsApart DEF Entities, Exportable
  <2> QED BY <2>1, <2>2, <2>4, <2>5 DEF SavedFolders
<1>3. Below(f) \subseteq down
  <2> HIDE DEF down
  <2>1. down \in SUBSET TreeFolders
    BY DEF down
  <2> QED BY <1>1, <1>2, <2>1, BelowIsLeast
<1> QED BY <1>3

LEMMA SaveFolderStep ==
    ASSUME ExportInv, NEW f \in TreeFolders, SaveFolder(f)
    PROVE  ExportInv'
<1>1. /\ Goes("folders") /\ output = "sqlite" /\ f \in export.left
      /\ UNCHANGED <<output, zephyr, stored>>
  BY DEF SaveFolder
<1>2. /\ export \in ExportRecords /\ unsaved \in SUBSET Entities /\ stored \in StoreTypes
      /\ RefsHold(unsaved) /\ FoldersUp(export.fetched)
      /\ export.left \subseteq export.fetched \cap TreeFolders
      /\ zephyr \cap TreeFolders \subseteq export.fetched
      /\ export.fetched \subseteq TreeFolders \cup ExportMeta
  BY <1>1 DEF ExportInv, ExportTypes, ExportRecords, FoldersHold, StoreTypes
<1>3. FoldersUp(zephyr)' /\ SqlHolds'
  BY <1>1 DEF ExportInv, FoldersUp, SqlHolds, RefsHold
<1>4. CASE Super(f) \notin unsaved \cup {NoFolder}
  <2>1. export' = Ends("raised") /\ UNCHANGED unsaved
    BY <1>4 DEF SaveFolder, SqlSaveFolder
  <2> QED BY <1>1, <1>2, <1>3, <2>1, RaisesHolds
<1>5. CASE Super(f) \in unsaved \cup {NoFolder}
  <2> DEFINE after == (unsaved \ Below(f)) \cup {f}
  <2>1. after \in SUBSET Entities /\ RefsHold(after)
    BY <1>2, <1>5, SaveFolderHolds DEF Entities, Exportable
  <2>2. SqlSaveFolder(unsaved, f) = after
    BY <1>5 DEF SqlSaveFolder
  <2>3. after # ExportRefused
    BY <2>1, NotRefused
  <2>4. /\ unsaved' = after
        /\ export' = [export EXCEPT !.left = @ \ {f}, !.ordered = @ /\ Super(f) \notin export.left]
    BY <2>2, <2>3 DEF SaveFolder
  <2> HIDE DEF after
  <2>5. /\ export'.pc = "folders" /\ export'.left = export.left \ {f}
        /\ export'.fetched = export.fetched /\ export'.failed = export.failed
        /\ export'.ordered = (export.ordered /\ Super(f) \notin export.left)
    BY <1>1, <1>2, <2>4 DEF ExportRecords, Goes
  <2>6. ExportTypes'
    <3>1. export.left \ {f} \in SUBSET (TreeFolders \cup ExportCycles)
          /\ (export.ordered /\ Super(f) \notin export.left) \in BOOLEAN
      BY <1>2 DEF ExportRecords
    <3>2. export' \in ExportRecords
      BY <1>2, <2>4, <3>1 DEF ExportRecords
    <3> QED BY <1>1, <2>1, <2>4, <3>2 DEF ExportInv, ExportTypes, ExportRecords
  <2>7. FoldersHold'
    <3>1. SavedFolders' = SavedFolders \cup {f}
      BY <1>1, <1>2, <2>5 DEF SavedFolders
    <3>2. ASSUME export'.ordered
          PROVE  /\ SavedFolders' \subseteq unsaved'
                 /\ \A s \in SavedFolders' : Super(s) \notin export'.left
                 /\ stored'.rows \ unsaved' \subseteq TreeFolders
      <4>1. export.ordered /\ Super(f) \notin export.left
        BY <2>5, <3>2
      <4>2. /\ SavedFolders \subseteq unsaved
            /\ \A s \in SavedFolders : Super(s) \notin export.left
            /\ stored.rows \ unsaved \subseteq TreeFolders
        BY <1>1, <4>1 DEF ExportInv, FoldersHold
      <4>3. Below(f) \cap SavedFolders = {}
        BY <1>1, <4>1, BelowIsUnsaved
      <4>4. Below(f) \subseteq TreeFolders
        BY BelowCloses
      <4> QED BY <1>1, <2>4, <2>5, <3>1, <4>1, <4>2, <4>3, <4>4 DEF after
    <3>3. FoldersUp(export.fetched)' /\ RefsHold(unsaved)'
      BY <1>2, <2>1, <2>4, <2>5 DEF FoldersUp, RefsHold
    <3> QED BY <1>1, <1>2, <2>5, <3>2, <3>3 DEF FoldersHold
  <2>8. WritesHold' /\ FetchesHold' /\ CompletedIsWhole'
    <3>1. export.failed = {}
      BY <1>1 DEF ExportInv, FetchesHold, Goes
    <3> QED BY <2>5, <3>1 DEF WritesHold, FetchesHold, CompletedIsWhole, Goes
  <2> QED BY <1>3, <2>6, <2>7, <2>8 DEF ExportInv
<1> QED BY <1>4, <1>5

LEMMA SaveMetadataHolds == ExportInv /\ SaveMetadata => ExportInv'
<1> SUFFICES ASSUME ExportInv, SaveMetadata PROVE ExportInv'
  OBVIOUS
<1> DEFINE folders == export.fetched \cap TreeFolders
           meta == export.fetched \cap ExportMeta
<1>1. /\ Goes("folders")
      /\ output = "sqlite" => export.left = {}
      /\ UNCHANGED <<output, zephyr, unsaved>>
      /\ export' = [export EXCEPT !.pc = "cases", !.left = {}]
      /\ IF output = "json"
         THEN stored' = JsonSave(JsonSave(stored, TreeFolders, folders), ExportMeta, meta)
         ELSE CommitBlock(SqlSaveMetadata(unsaved, meta))
  BY DEF SaveMetadata, InBlock
<1>2. /\ export \in ExportRecords /\ unsaved \in SUBSET Entities /\ stored \in StoreTypes
      /\ output \in {"json", "sqlite"}
      /\ export.fetched \subseteq TreeFolders \cup ExportMeta
  BY <1>1 DEF ExportInv, ExportTypes, ExportRecords, FoldersHold, StoreTypes
<1>3. /\ export'.pc = "cases" /\ export'.fetched = export.fetched /\ export'.ordered = export.ordered
      /\ export' \in ExportRecords /\ export'.failed = {}
  <2> export.failed = {}
    BY <1>1 DEF ExportInv, FetchesHold, Goes
  <2>1. "cases" \in Stages /\ {} \in SUBSET (TreeFolders \cup ExportCycles)
    BY DEF Stages
  <2> QED BY <1>1, <1>2, <2>1 DEF ExportRecords
<1>4. CASE output = "json"
  <2>1. TreeFolders \in Kinds /\ ExportMeta \in Kinds
    BY DEF Kinds
  <2>2. folders \cap Dated = {} /\ meta \cap Dated = {}
    BY ExporterAssumption
  <2> DEFINE between == JsonSave(stored, TreeFolders, folders)
  <2>3. between \in StoreTypes
    BY <1>2, <2>1, JsonSaves
  <2>4. /\ between.rows = (stored.rows \ TreeFolders) \cup folders
        /\ between.broken = stored.broken \ {TreeFolders}
    BY <2>2 DEF JsonSave
  <2>5. stored' = JsonSave(between, ExportMeta, meta)
    BY <1>1, <1>4
  <2> HIDE DEF between
  <2>6. stored' \in StoreTypes
    BY <2>1, <2>3, <2>5, JsonSaves
  <2>7. /\ stored'.rows = (between.rows \ ExportMeta) \cup meta
        /\ stored'.broken = between.broken \ {ExportMeta}
    BY <2>2, <2>5 DEF JsonSave
  <2>8. stored'.rows \cap (TreeFolders \cup ExportMeta) = export.fetched
    BY <1>2, <2>4, <2>7, KindsApart
  <2>9. export.fetched \cap Runs = {}
    BY <1>2, KindsApart
  <2>10. WritesHold'
    BY <1>1, <1>2, <1>3, <1>4, <2>4, <2>7, <2>8, <2>9 DEF WritesHold, Written, WrittenKinds
  <2>11. SqlHolds'
    BY <1>1, <1>4 DEF SqlHolds
  <2> QED BY <1>1, <1>3, <2>6, <2>10, <2>11
          DEF ExportInv, ExportTypes, ExportRecords, StoreTypes, FoldersUp, FoldersHold, FetchesHold,
              CompletedIsWhole, Goes
<1>5. CASE output = "sqlite"
  <2> DEFINE result == SqlSaveMetadata(unsaved, meta)
  <2>1. result \in SUBSET Entities /\ result = unsaved \cup meta
    BY <1>2, SqlSaveTypes DEF SqlSaveMetadata
  <2>2. result # ExportRefused /\ result \in SqlResults
    BY <2>1, NotRefused DEF SqlResults
  <2>3. CommitBlock(result)
    BY <1>1, <1>5
  <2>4. RefsHold(unsaved)
    BY <1>1, <1>5 DEF ExportInv, FoldersHold
  <2>5. RefsHold(result)
    BY <1>2, <2>4, SaveOthersHold
  <2> HIDE DEF result
  <2>6. stored' \in StoreTypes /\ stored'.broken = stored.broken /\ stored'.rows = result
    BY <1>2, <2>2, <2>3, Commits
  <2>7. SqlHolds'
    BY <1>1, <1>5, <2>5, <2>6 DEF ExportInv, SqlHolds, RefsHold, FoldersUp
  <2>8. export.ordered => export.fetched \subseteq stored'.rows
    <3>1. export.ordered => SavedFolders \subseteq unsaved
      BY <1>1, <1>5 DEF ExportInv, FoldersHold
    <3> QED BY <1>1, <1>2, <1>5, <2>1, <2>6, <3>1 DEF SavedFolders
  <2>9. WritesHold'
    BY <1>1, <1>2, <1>3, <1>5, <2>8 DEF WritesHold, Written
  <2> QED BY <1>1, <1>3, <2>6, <2>7, <2>9
          DEF ExportInv, ExportTypes, ExportRecords, StoreTypes, FoldersUp, FoldersHold, FetchesHold,
              CompletedIsWhole, Goes
<1> QED BY <1>2, <1>4, <1>5

\* Nothing is asked of the folders' block, nor of the last export, in the later stages.
LEMMA StageHolds ==
    ASSUME ExportInv, UNCHANGED <<output, zephyr, unsaved>>, stored' \in StoreTypes, SqlHolds',
           export' \in ExportRecords, export'.pc \in {"cases", "cycles", "fetching", "executions"},
           WritesHold', FetchesHold'
    PROVE  ExportInv'
BY DEF ExportInv, ExportTypes, ExportRecords, StoreTypes, FoldersUp, FoldersHold, CompletedIsWhole, Goes

LEMMA TestCasesHold == ExportInv /\ ExportTestCases => ExportInv'
<1> SUFFICES ASSUME ExportInv, ExportTestCases PROVE ExportInv'
  OBVIOUS
<1> DEFINE cases == zephyr \cap ExportCases
           result == SqlSaveCases(stored.rows, cases)
           next == [export EXCEPT !.pc = "cycles", !.fetched = @ \cup cases]
<1>1. /\ Goes("cases") /\ UNCHANGED <<output, zephyr, unsaved>>
      /\ Block(ExportCases, cases, result, next)
  BY DEF ExportTestCases, InBlock
<1>2. /\ export \in ExportRecords /\ stored \in StoreTypes /\ stored.rows \in SUBSET Entities
      /\ output \in {"json", "sqlite"} /\ unsaved' \in SUBSET Entities
  BY <1>1 DEF ExportInv, ExportTypes, ExportRecords, StoreTypes
<1>3. result \in SqlResults
  BY <1>2, SqlSaveTypes
<1>4. output = "sqlite" => (result = ExportRefused \/ RefsHold(result))
  BY <1>2, SaveOthersHold DEF ExportInv, SqlHolds
<1>5. ExportCases \in Kinds /\ cases \in SUBSET ExportCases
  BY DEF Kinds
<1>6. result # ExportRefused => stored.rows \ Runs \subseteq result /\ cases \subseteq result
  BY DEF SqlSaveCases
<1>7. /\ next.pc = "cycles" /\ next.fetched = export.fetched \cup cases /\ next.failed = export.failed
      /\ next.ordered = export.ordered /\ next \in ExportRecords
  <2>1. "cycles" \in Stages /\ export.fetched \cup cases \in SUBSET Exportable
    BY <1>2 DEF Stages, ExportRecords, Exportable
  <2> QED BY <1>2, <2>1 DEF ExportRecords
<1> HIDE DEF result, next
<1>8. /\ stored' \in StoreTypes /\ SqlHolds'
      /\ \/ export' = Ends("raised")
         \/ /\ export' = next
            /\ output = "json" => /\ stored'.rows = (stored.rows \ ExportCases) \cup cases
                                  /\ stored'.broken = stored.broken \ {ExportCases}
            /\ output = "sqlite" => result # ExportRefused /\ stored'.rows = result
  BY <1>1, <1>2, <1>3, <1>4, <1>5, BlockHolds DEF ExportInv
<1>9. CASE export' = Ends("raised")
  BY <1>1, <1>2, <1>8, <1>9, RaisesHolds
<1>10. CASE export' # Ends("raised")
  <2>1. export' = next /\ export'.pc = "cycles" /\ export'.fetched = export.fetched \cup cases
        /\ export'.ordered = export.ordered
    BY <1>7, <1>8, <1>10
  <2>2. /\ export.fetched \subseteq TreeFolders \cup ExportMeta
        /\ output = "sqlite" /\ export.ordered => export.fetched \ Runs \subseteq stored.rows
        /\ output = "json" =>
               /\ stored.rows \cap (TreeFolders \cup ExportMeta) = export.fetched \ Runs
               /\ stored.broken \cap {TreeFolders, ExportMeta} = {}
    BY <1>1 DEF ExportInv, WritesHold, Written, WrittenKinds, Goes
  <2>3. export'.fetched \subseteq TreeFolders \cup ExportMeta \cup ExportCases
    BY <2>1, <2>2
  <2>4. output = "sqlite" /\ export.ordered => export'.fetched \ Runs \subseteq stored'.rows
    BY <1>6, <1>8, <1>10, <2>1, <2>2
  <2>5. ASSUME output = "json"
        PROVE  /\ stored'.rows \cap (TreeFolders \cup ExportMeta \cup ExportCases) = export'.fetched \ Runs
               /\ stored'.broken \cap {TreeFolders, ExportMeta, ExportCases} = {}
    <3>1. /\ stored'.rows = (stored.rows \ ExportCases) \cup cases
          /\ stored'.broken = stored.broken \ {ExportCases}
      BY <1>8, <1>10, <2>5
    <3>2. stored'.broken \cap {TreeFolders, ExportMeta, ExportCases} = {}
      BY <2>2, <2>5, <3>1
    <3>3. stored'.rows \cap (TreeFolders \cup ExportMeta \cup ExportCases) = export'.fetched \ Runs
      BY <2>1, <2>2, <2>5, <3>1, KindsApart
    <3> QED BY <3>2, <3>3
  <2>6. WritesHold'
    BY <1>1, <2>1, <2>3, <2>4, <2>5 DEF WritesHold, Written, WrittenKinds
  <2>7. FetchesHold'
    BY <1>1, <1>7, <2>1 DEF ExportInv, FetchesHold, Goes
  <2> QED BY <1>1, <1>7, <1>8, <2>1, <2>6, <2>7, StageHolds
<1> QED BY <1>9, <1>10

LEMMA TestCyclesHold == ExportInv /\ ExportTestCycles => ExportInv'
<1> SUFFICES ASSUME ExportInv, ExportTestCycles PROVE ExportInv'
  OBVIOUS
<1> DEFINE cycles == zephyr \cap ExportCycles
           result == SqlSaveCycles(stored.rows, cycles)
           next == [export EXCEPT !.pc = "fetching", !.fetched = @ \cup cycles, !.left = cycles]
<1>1. /\ Goes("cycles") /\ UNCHANGED <<output, zephyr, unsaved>>
      /\ Block(ExportCycles, cycles, result, next)
  BY DEF ExportTestCycles, InBlock
<1>2. /\ export \in ExportRecords /\ stored \in StoreTypes /\ stored.rows \in SUBSET Entities
      /\ output \in {"json", "sqlite"} /\ unsaved' \in SUBSET Entities
  BY <1>1 DEF ExportInv, ExportTypes, ExportRecords, StoreTypes
<1>3. result \in SUBSET Entities /\ result \in SqlResults
  BY <1>2, SqlSaveTypes DEF SqlResults
<1>4. output = "sqlite" => (result = ExportRefused \/ RefsHold(result))
  BY <1>2, SaveOthersHold DEF ExportInv, SqlHolds
<1>5. ExportCycles \in Kinds /\ cycles \in SUBSET ExportCycles
  BY DEF Kinds
<1>6. stored.rows \ Runs \subseteq result /\ cycles \subseteq result
  BY DEF SqlSaveCycles
<1>7. /\ next.pc = "fetching" /\ next.fetched = export.fetched \cup cycles
      /\ next.left = cycles /\ next.failed = export.failed
      /\ next.ordered = export.ordered /\ next \in ExportRecords
  <2>1. /\ "fetching" \in Stages /\ export.fetched \cup cycles \in SUBSET Exportable
        /\ cycles \in SUBSET (TreeFolders \cup ExportCycles)
    BY <1>2 DEF Stages, ExportRecords, Exportable
  <2> QED BY <1>2, <2>1 DEF ExportRecords
<1> HIDE DEF result, next
<1>8. /\ stored' \in StoreTypes /\ SqlHolds'
      /\ \/ export' = Ends("raised")
         \/ /\ export' = next
            /\ output = "json" => /\ stored'.rows = (stored.rows \ ExportCycles) \cup cycles
                                  /\ stored'.broken = stored.broken \ {ExportCycles}
            /\ output = "sqlite" => result # ExportRefused /\ stored'.rows = result
  BY <1>1, <1>2, <1>3, <1>4, <1>5, BlockHolds DEF ExportInv
<1>9. CASE export' = Ends("raised")
  BY <1>1, <1>2, <1>8, <1>9, RaisesHolds
<1>10. CASE export' # Ends("raised")
  <2>1. /\ export' = next /\ export'.pc = "fetching" /\ export'.fetched = export.fetched \cup cycles
        /\ export'.left = cycles /\ export'.failed = export.failed /\ export'.ordered = export.ordered
    BY <1>7, <1>8, <1>10
  <2>2. /\ export.fetched \subseteq TreeFolders \cup ExportMeta \cup ExportCases
        /\ output = "sqlite" /\ export.ordered => export.fetched \ Runs \subseteq stored.rows
        /\ output = "json" =>
               /\ stored.rows \cap (TreeFolders \cup ExportMeta \cup ExportCases) = export.fetched \ Runs
               /\ stored.broken \cap {TreeFolders, ExportMeta, ExportCases} = {}
    BY <1>1 DEF ExportInv, WritesHold, Written, WrittenKinds, Goes
  <2>3. export'.fetched \subseteq TreeFolders \cup ExportMeta \cup ExportCases \cup ExportCycles
    BY <2>1, <2>2
  <2>4. output = "sqlite" /\ export.ordered => export'.fetched \ Runs \subseteq stored'.rows
    BY <1>6, <1>8, <1>10, <2>1, <2>2
  <2>5. ASSUME output = "json"
        PROVE  /\ stored'.rows \cap (TreeFolders \cup ExportMeta \cup ExportCases \cup ExportCycles)
                      = export'.fetched \ Runs
               /\ stored'.broken \cap {TreeFolders, ExportMeta, ExportCases, ExportCycles} = {}
    <3>1. /\ stored'.rows = (stored.rows \ ExportCycles) \cup cycles
          /\ stored'.broken = stored.broken \ {ExportCycles}
      BY <1>8, <1>10, <2>5
    <3>2. stored'.broken \cap {TreeFolders, ExportMeta, ExportCases, ExportCycles} = {}
      BY <2>2, <2>5, <3>1
    <3>3. stored'.rows \cap (TreeFolders \cup ExportMeta \cup ExportCases \cup ExportCycles)
              = export'.fetched \ Runs
      BY <2>1, <2>2, <2>5, <3>1, KindsApart
    <3> QED BY <3>2, <3>3
  <2>6. WritesHold'
    BY <1>1, <2>1, <2>3, <2>4, <2>5 DEF WritesHold, Written, WrittenKinds
  <2>7. FetchesHold'
    <3>1. export'.fetched \cap Runs = {} /\ export'.fetched \cap ExportCycles = cycles
      BY <2>1, <2>2, KindsApart
    <3>2. export.failed = {}
      BY <1>1 DEF ExportInv, FetchesHold, Goes
    <3> QED BY <2>1, <3>1, <3>2 DEF FetchesHold, Answered, Goes
  <2> QED BY <1>1, <1>7, <1>8, <2>1, <2>6, <2>7, StageHolds
<1> QED BY <1>9, <1>10

LEMMA FetchExecutionsHold ==
    ASSUME ExportInv, NEW y \in ExportCycles, FetchExecutions(y)
    PROVE  ExportInv'
<1>1. /\ Goes("fetching") /\ y \in export.left /\ UNCHANGED <<output, zephyr, stored, unsaved>>
  BY DEF FetchExecutions, InBlock
<1>2. /\ export \in ExportRecords /\ stored' \in StoreTypes /\ SqlHolds'
      /\ zephyr \subseteq Exportable
  BY <1>1 DEF ExportInv, ExportTypes, ExportRecords, StoreTypes, SqlHolds, RefsHold, FoldersUp
<1>3. /\ export.left \subseteq export.fetched /\ export.left \cap export.failed = {}
      /\ \A x \in export.fetched \cap Runs : CycleOf(x) \in Answered
      /\ \A x \in zephyr \cap Runs : CycleOf(x) \in Answered => x \in export.fetched
  BY <1>1 DEF ExportInv, FetchesHold, Goes
<1> DEFINE got == {x \in zephyr \cap Runs : CycleOf(x) = y}
<1>4. CASE export' = [export EXCEPT !.left = @ \ {y}, !.fetched = @ \cup got]
  <2>1. export.left \ {y} \in SUBSET (TreeFolders \cup ExportCycles) /\ export.fetched \cup got \in SUBSET Exportable
    BY <1>2 DEF ExportRecords
  <2>2. /\ export' \in ExportRecords /\ export'.pc = export.pc /\ export'.left = export.left \ {y}
        /\ export'.fetched = export.fetched \cup got /\ export'.failed = export.failed
        /\ export'.ordered = export.ordered
    BY <1>2, <1>4, <2>1 DEF ExportRecords
  <2>3. export'.fetched \ Runs = export.fetched \ Runs
    BY <2>2
  <2>4. WritesHold'
    BY <1>1, <2>2, <2>3 DEF ExportInv, WritesHold, Written, Goes
  <2>5. Answered' = Answered \cup ({y} \cap (export.fetched \ export.failed)) /\ y \notin Answered
    BY <1>1, <2>2, KindsApart DEF Answered
  <2>6. FetchesHold'
    <3>1. y \in export.fetched /\ y \notin export.failed
      BY <1>1, <1>3
    <3> QED BY <1>1, <1>3, <2>2, <2>5, <3>1 DEF FetchesHold, Goes
  <2> QED BY <1>1, <1>2, <2>2, <2>4, <2>6, StageHolds DEF Goes
<1>5. CASE export' = [export EXCEPT !.left = @ \ {y}, !.failed = @ \cup {y}]
  <2>1. export.left \ {y} \in SUBSET (TreeFolders \cup ExportCycles) /\ export.failed \cup {y} \in SUBSET ExportCycles
    BY <1>2 DEF ExportRecords
  <2>2. /\ export' \in ExportRecords /\ export'.pc = export.pc /\ export'.left = export.left \ {y}
        /\ export'.fetched = export.fetched /\ export'.failed = export.failed \cup {y}
        /\ export'.ordered = export.ordered
    BY <1>2, <1>5, <2>1 DEF ExportRecords
  <2>4. WritesHold'
    BY <1>1, <2>2 DEF ExportInv, WritesHold, Written, WrittenKinds, Goes
  <2>5. Answered' = Answered
    BY <1>1, <2>2 DEF Answered
  <2>6. FetchesHold'
    BY <1>1, <1>3, <2>2, <2>5 DEF FetchesHold, Goes
  <2> QED BY <1>1, <1>2, <2>2, <2>4, <2>6, StageHolds DEF Goes
<1> QED BY <1>4, <1>5 DEF FetchExecutions

LEMMA AllFetchedHolds == ExportInv /\ AllFetched => ExportInv'
<1> SUFFICES ASSUME ExportInv, AllFetched PROVE ExportInv'
  OBVIOUS
<1>1. /\ Goes("fetching") /\ export.left = {} /\ UNCHANGED <<output, zephyr, stored, unsaved>>
      /\ export' = [export EXCEPT !.pc = "executions"]
  BY DEF AllFetched, InBlock
<1>2. /\ export \in ExportRecords /\ stored' \in StoreTypes /\ SqlHolds'
  BY <1>1 DEF ExportInv, ExportTypes, ExportRecords, StoreTypes, SqlHolds, RefsHold, FoldersUp
<1>3. /\ export' \in ExportRecords /\ export'.pc = "executions" /\ export'.left = export.left
      /\ export'.fetched = export.fetched /\ export'.failed = export.failed
      /\ export'.ordered = export.ordered
  BY <1>1, <1>2 DEF ExportRecords, Stages
<1>4. WritesHold'
  BY <1>1, <1>3 DEF ExportInv, WritesHold, Written, WrittenKinds, Goes
<1>5. FetchesHold'
  BY <1>1, <1>3 DEF ExportInv, FetchesHold, Answered, Goes
<1> QED BY <1>1, <1>2, <1>3, <1>4, <1>5, StageHolds

LEMMA TestExecutionsHold == ExportInv /\ ExportTestExecutions => ExportInv'
<1> SUFFICES ASSUME ExportInv, ExportTestExecutions PROVE ExportInv'
  OBVIOUS
<1> DEFINE executions == export.fetched \cap Runs
           result == SqlSaveExecutions(stored.rows, executions)
<1>1. /\ Goes("executions") /\ UNCHANGED <<output, zephyr, unsaved>>
      /\ Block(Runs, executions, result, Ends("completed"))
  BY DEF ExportTestExecutions, InBlock
<1>2. /\ export \in ExportRecords /\ stored \in StoreTypes /\ stored.rows \in SUBSET Entities
      /\ output \in {"json", "sqlite"} /\ unsaved' \in SUBSET Entities
  BY <1>1 DEF ExportInv, ExportTypes, ExportRecords, StoreTypes
<1>3. result \in SqlResults
  BY <1>2, SqlSaveTypes
<1>4. output = "sqlite" => (result = ExportRefused \/ RefsHold(result))
  BY <1>2, SaveOthersHold DEF ExportInv, SqlHolds
<1>5. Runs \in Kinds /\ executions \in SUBSET Runs
  BY DEF Kinds
<1>6. result # ExportRefused => result = stored.rows \cup executions
  BY DEF SqlSaveExecutions
<1> HIDE DEF result
<1>8. /\ stored' \in StoreTypes /\ SqlHolds'
      /\ \/ export' = Ends("raised")
         \/ /\ export' = Ends("completed")
            /\ output = "json" => /\ stored'.rows = (stored.rows \ Runs) \cup executions
                                  /\ stored'.broken = stored.broken \ {Runs}
            /\ output = "sqlite" => result # ExportRefused /\ stored'.rows = result
  BY <1>1, <1>2, <1>3, <1>4, <1>5, BlockHolds DEF ExportInv
<1>9. CASE export' = Ends("raised")
  BY <1>1, <1>2, <1>8, <1>9, RaisesHolds
<1>10. CASE export' # Ends("raised")
  <2>1. /\ export' = Ends("completed") /\ export' \in ExportRecords /\ export'.pc = "idle"
        /\ export'.fetched = export.fetched /\ export'.ordered = export.ordered
    BY <1>8, <1>10, EndsTypes DEF ExportInv, ExportRecords
  <2>2. /\ export.fetched \subseteq Exportable
        /\ output = "sqlite" /\ export.ordered => export.fetched \ Runs \subseteq stored.rows
        /\ output = "json" =>
               /\ stored.rows \cap (TreeFolders \cup ExportMeta \cup ExportCases \cup ExportCycles)
                      = export.fetched \ Runs
               /\ stored.broken \cap {TreeFolders, ExportMeta, ExportCases, ExportCycles} = {}
    BY <1>1, <1>2 DEF ExportInv, WritesHold, Written, WrittenKinds, ExportRecords, Goes
  <2>3. CompletedIsWhole'
    <3>1. CASE output = "sqlite"
      <4>1. stored'.broken = {}
        BY <1>1, <1>8, <3>1 DEF SqlHolds
      <4>2. export.ordered => export.fetched \subseteq stored'.rows
        BY <1>6, <1>8, <1>10, <2>2, <3>1
      <4> QED BY <1>1, <2>1, <3>1, <4>1, <4>2 DEF CompletedIsWhole
    <3>2. CASE output = "json"
      <4>1. /\ stored'.rows = (stored.rows \ Runs) \cup executions
            /\ stored'.broken = stored.broken \ {Runs}
        BY <1>8, <1>10, <3>2
      <4>2. stored.broken \subseteq Kinds
        BY <1>2 DEF StoreTypes
      <4>3. stored'.broken \subseteq {ExportPlans}
        BY <2>2, <3>2, <4>1, <4>2 DEF Kinds
      <4>4. stored'.rows \ ExportPlans = export.fetched
        BY <1>2, <2>2, <3>2, <4>1, KindsApart DEF Entities, Exportable
      <4> QED BY <1>1, <2>1, <3>2, <4>3, <4>4 DEF CompletedIsWhole
    <3> QED BY <1>2, <3>1, <3>2
  <2> QED BY <1>1, <1>2, <1>8, <2>1, <2>3
          DEF ExportInv, ExportTypes, ExportRecords, StoreTypes, FoldersUp, FoldersHold, WritesHold,
              FetchesHold, Goes
<1> QED BY <1>9, <1>10

LEMMA StoreOneHolds == ExportInv /\ StoreOne => ExportInv'
<1> SUFFICES ASSUME ExportInv, StoreOne PROVE ExportInv'
  OBVIOUS
<1>1. /\ Goes("idle") /\ UNCHANGED <<output, zephyr, unsaved>>
      /\ export' = [export EXCEPT !.outcome = "none"]
  BY DEF StoreOne
<1>2. PICK kind \in {ExportCases, ExportCycles, ExportPlans, Runs} : \E e \in kind :
          IF output = "json" THEN stored' = JsonSaveOne(stored, kind, e)
          ELSE CommitBlock(SqlSave(kind, {e}))
  BY DEF StoreOne
<1>3. PICK e \in kind :
          IF output = "json" THEN stored' = JsonSaveOne(stored, kind, e)
          ELSE CommitBlock(SqlSave(kind, {e}))
  BY <1>2
<1>4. /\ export \in ExportRecords /\ stored \in StoreTypes /\ stored.rows \in SUBSET Entities
      /\ output \in {"json", "sqlite"} /\ unsaved' \in SUBSET Entities
  BY <1>1 DEF ExportInv, ExportTypes, ExportRecords, StoreTypes
<1>5. stored' \in StoreTypes /\ SqlHolds'
  <2>1. CASE output = "json"
    BY <1>1, <1>2, <1>3, <1>4, <2>1, JsonSaves DEF SqlHolds, Kinds
  <2>2. CASE output = "sqlite"
    <3> DEFINE result == SqlSave(kind, {e})
    <3>1. CommitBlock(result)
      BY <1>3, <2>2
    <3>2. RefsHold(stored.rows) /\ stored.broken = {}
      BY <2>2 DEF ExportInv, SqlHolds
    <3>3. result \in SqlResults /\ (result = ExportRefused \/ RefsHold(result))
      <4>1. CASE kind = ExportCases
        <5>1. result = SqlSaveCases(stored.rows, {e})
          BY <4>1, <1>3, KindsApart DEF SqlSave
        <5> QED BY <5>1, <4>1, <1>3, <1>4, <3>2, SqlSaveTypes, SaveOthersHold
      <4>2. CASE kind = ExportCycles
        <5>1. result = SqlSaveCycles(stored.rows, {e})
          BY <4>2, <1>3, KindsApart DEF SqlSave
        <5> QED BY <5>1, <4>2, <1>3, <1>4, <3>2, SqlSaveTypes, SaveOthersHold DEF SqlResults
      <4>3. CASE kind = ExportPlans
        <5>1. result = SqlSavePlans(stored.rows, {e})
          BY <4>3, <1>3, KindsApart DEF SqlSave
        <5> QED BY <5>1, <4>3, <1>3, <1>4, <3>2, SqlSaveTypes, SaveOthersHold DEF SqlResults
      <4>4. CASE kind = Runs
        <5>1. result = SqlSaveExecutions(stored.rows, {e})
          BY <4>4, <1>3, KindsApart DEF SqlSave
        <5> QED BY <5>1, <4>4, <1>3, <1>4, <3>2, SqlSaveTypes, SaveOthersHold
      <4> QED BY <1>2, <4>1, <4>2, <4>3, <4>4
    <3> HIDE DEF result
    <3>4. /\ stored' \in StoreTypes /\ stored'.broken = stored.broken
          /\ result = ExportRefused => stored' = stored
          /\ result # ExportRefused => stored'.rows = result
      BY <1>4, <3>1, <3>3, Commits
    <3> QED BY <3>2, <3>3, <3>4 DEF SqlHolds
  <2> QED BY <1>4, <2>1, <2>2
<1>6. export' \in ExportRecords /\ export'.pc = "idle" /\ export'.outcome = "none"
  BY <1>1, <1>4 DEF ExportRecords, Goes
<1> QED BY <1>1, <1>4, <1>5, <1>6, QuietHolds DEF ExportInv, ExportTypes, ExportRecords, StoreTypes, FoldersUp

LEMMA ZephyrDeletesHolds == ExportInv /\ ZephyrDeletes => ExportInv'
<1> SUFFICES ASSUME ExportInv, ZephyrDeletes PROVE ExportInv'
  OBVIOUS
<1>1. UNCHANGED <<output, stored, unsaved, export>>
  BY DEF ZephyrDeletes
<1>2. PICK e \in zephyr \ ExportMeta :
          zephyr' = {o \in zephyr : /\ o # e
                                    /\ e \in TreeFolders => o \notin Below(e)
                                    /\ o \in Runs => e \notin {CaseOf(o), CycleOf(o)}}
  BY DEF ZephyrDeletes
<1>3. zephyr' \subseteq zephyr
  BY <1>2
<1>4. FoldersUp(zephyr)'
  <2> SUFFICES ASSUME NEW f \in zephyr' \cap TreeFolders PROVE Super(f) \in zephyr' \cup {NoFolder}
    BY DEF FoldersUp
  <2>1. Super(f) \in zephyr \cup {NoFolder} /\ Super(f) \in TreeFolders \cup {NoFolder}
    BY <1>3, ExporterAssumption DEF ExportInv, FoldersUp
  <2>2. e \in TreeFolders => Super(f) \notin Below(e) \cup {e}
    BY <1>2, BelowCloses
  <2>3. Super(f) \in TreeFolders => Super(f) \notin Runs
    BY KindsApart
  <2> QED BY <1>2, <2>1, <2>2, <2>3
<1>5. ExportTypes' /\ SqlHolds' /\ FoldersHold' /\ WritesHold' /\ FetchesHold' /\ CompletedIsWhole'
  <2>1. ExportTypes' /\ SqlHolds' /\ CompletedIsWhole'
    BY <1>1, <1>3 DEF ExportInv, ExportTypes, SqlHolds, RefsHold, FoldersUp, CompletedIsWhole, Goes
  <2>2. FoldersHold'
    BY <1>1, <1>3 DEF ExportInv, FoldersHold, RefsHold, FoldersUp, SavedFolders, Goes
  <2>3. WritesHold'
    BY <1>1 DEF ExportInv, WritesHold, Written, WrittenKinds
  <2>4. FetchesHold'
    BY <1>1, <1>3 DEF ExportInv, FetchesHold, Answered, Goes
  <2> QED BY <2>1, <2>2, <2>3, <2>4
<1> QED BY <1>4, <1>5 DEF ExportInv

LEMMA ExportInitHolds == ExportInit => ExportInv
<1> SUFFICES ASSUME ExportInit PROVE ExportInv
  OBVIOUS
<1>1. ExportTypes
  BY DEF ExportInit, ExportTypes, ExportRecords, StoreTypes, NoExport, Stages
<1>2. FoldersUp(zephyr)
  <2>1. Versioned \cap TreeFolders = {} /\ NoFolder \notin TreeFolders
    BY ExporterAssumption, KindsApart DEF Entities, Exportable
  <2>2. TreeFolders \subseteq zephyr
    BY <2>1 DEF ExportInit, Exportable
  <2> QED BY <2>2, ExporterAssumption DEF FoldersUp
<1>3. SqlHolds
  BY DEF ExportInit, SqlHolds, RefsHold, FoldersUp
<1>4. FoldersHold /\ WritesHold /\ FetchesHold /\ CompletedIsWhole
  BY DEF ExportInit, NoExport, FoldersHold, WritesHold, FetchesHold, CompletedIsWhole, Goes
<1> QED BY <1>1, <1>2, <1>3, <1>4 DEF ExportInv

LEMMA ExportStepHolds == ExportInv /\ [ExportNext]_exportVars => ExportInv'
<1> SUFFICES ASSUME ExportInv, [ExportNext]_exportVars PROVE ExportInv'
  OBVIOUS
<1>1. CASE UNCHANGED exportVars
  BY <1>1 DEF exportVars, ExportInv, ExportTypes, FoldersUp, SqlHolds, RefsHold, FoldersHold, SavedFolders,
              WritesHold, Written, WrittenKinds, FetchesHold, Answered, CompletedIsWhole, Goes
<1> QED
  BY <1>1, StartHolds, StopsHold, FetchMetadataHolds, SaveFolderStep, SaveMetadataHolds, TestCasesHold,
     TestCyclesHold, FetchExecutionsHold, AllFetchedHolds, TestExecutionsHold, StoreOneHolds,
     ZephyrDeletesHolds DEF ExportNext

LEMMA ExportInvIsSound == ExportInv => ExportsSound
<1> SUFFICES ASSUME ExportInv PROVE ExportsSound
  OBVIOUS
<1>1. ExportReferencesHold
  BY DEF ExportInv, SqlHolds, RefsHold, FoldersUp, ExportReferencesHold
<1>2. MissesOnlyFailed
  <2> SUFFICES ASSUME Goes("executions"), NEW x \in zephyr \cap Runs,
                      {CaseOf(x), CycleOf(x)} \subseteq export.fetched
               PROVE  x \in export.fetched <=> CycleOf(x) \notin export.failed
    BY DEF MissesOnlyFailed
  <2>1. export.left = {} /\ CycleOf(x) \in ExportCycles
    BY RunsRefer DEF ExportInv, FetchesHold, Goes
  <2> QED BY <2>1 DEF ExportInv, FetchesHold, Answered, Goes
<1> QED BY <1>1, <1>2 DEF ExportInv, ExportsSound

\* Whatever is stored on its own, deleted in Zephyr, refused or killed in between: no row of
\* the database refers to a missing one, a completed export left what it fetched, and only
\* the executions of cycles that did not answer are missing.
THEOREM ExportsAreSound == ExportSpec => []ExportsSound
<1>1. ExportInit => ExportInv
  BY ExportInitHolds
<1>2. ExportInv /\ [ExportNext]_exportVars => ExportInv'
  BY ExportStepHolds
<1> QED BY <1>1, <1>2, ExportInvIsSound, PTL DEF ExportSpec

\* The deletions that DeletesOnlyExecutions allows a step.
DeletesRightly ==
    (output = "sqlite" /\ ~Goes("idle") /\ export'.ordered) =>
        LET deleted == stored.rows \ stored'.rows IN
        /\ deleted \cap zephyr \subseteq Runs
        /\ deleted \cap Runs # {} => Goes("cases") \/ Goes("cycles")
        /\ deleted \cap TreeFolders # {} => Goes("folders")

LEMMA KeptRows == ASSUME stored.rows \subseteq stored'.rows PROVE DeletesRightly
BY DEF DeletesRightly

LEMMA StepDeletesRightly == ExportInv /\ ExportNext => DeletesRightly
<1> SUFFICES ASSUME ExportInv, ExportNext, output = "sqlite", ~Goes("idle"), export'.ordered
             PROVE  DeletesRightly
  BY DEF DeletesRightly
<1>1. /\ export \in ExportRecords /\ stored \in StoreTypes /\ stored.rows \in SUBSET Entities
      /\ unsaved \in SUBSET Entities
  BY DEF ExportInv, ExportTypes, ExportRecords, StoreTypes
<1>2. CASE \/ StartExport \/ ExportRaises \/ Killed \/ FetchMetadata \/ AllFetched \/ StoreOne \/ ZephyrDeletes
           \/ (\E y \in ExportCycles : FetchExecutions(y)) \/ (\E f \in TreeFolders : SaveFolder(f))
  <2>1. UNCHANGED stored
    BY <1>2 DEF StartExport, ExportRaises, Killed, FetchMetadata, AllFetched, StoreOne, ZephyrDeletes,
                FetchExecutions, SaveFolder
  <2> QED BY <2>1, KeptRows
<1>3. CASE SaveMetadata
  <2> DEFINE meta == export.fetched \cap ExportMeta
             result == SqlSaveMetadata(unsaved, meta)
  <2>1. Goes("folders") /\ export.left = {} /\ CommitBlock(result) /\ export'.ordered = export.ordered
    BY <1>1, <1>3 DEF SaveMetadata, ExportRecords
  <2>2. result \in SUBSET Entities /\ result = unsaved \cup meta
    BY <1>1, SqlSaveTypes DEF SqlSaveMetadata
  <2>3. result # ExportRefused /\ result \in SqlResults
    BY <2>2, NotRefused DEF SqlResults
  <2> HIDE DEF result
  <2>4. stored'.rows = result
    BY <1>1, <2>1, <2>3, Commits
  <2>5. /\ SavedFolders \subseteq unsaved /\ stored.rows \ unsaved \subseteq TreeFolders
        /\ zephyr \cap TreeFolders \subseteq export.fetched
    BY <2>1 DEF ExportInv, FoldersHold
  <2>6. zephyr \cap TreeFolders \subseteq unsaved
    BY <2>1, <2>5 DEF SavedFolders
  <2> QED BY <2>1, <2>2, <2>4, <2>5, <2>6, KindsApart DEF DeletesRightly
<1>4. CASE ExportTestCases
  <2> DEFINE cases == zephyr \cap ExportCases
             result == SqlSaveCases(stored.rows, cases)
  <2>1. Goes("cases") /\ CommitBlock(result)
    BY <1>4 DEF ExportTestCases, Block
  <2>2. result \in SqlResults
    BY <1>1, SqlSaveTypes
  <2>3. result # ExportRefused => stored.rows \ Runs \subseteq result
    BY DEF SqlSaveCases
  <2> HIDE DEF result
  <2>4. stored.rows \ stored'.rows \subseteq Runs
    BY <1>1, <2>1, <2>2, <2>3, Commits
  <2> QED BY <2>1, <2>4, KindsApart DEF DeletesRightly
<1>5. CASE ExportTestCycles
  <2> DEFINE cycles == zephyr \cap ExportCycles
             result == SqlSaveCycles(stored.rows, cycles)
  <2>1. Goes("cycles") /\ CommitBlock(result)
    BY <1>5 DEF ExportTestCycles, Block
  <2>2. result \in SqlResults
    BY <1>1, SqlSaveTypes DEF SqlResults
  <2>3. stored.rows \ Runs \subseteq result
    BY DEF SqlSaveCycles
  <2> HIDE DEF result
  <2>4. stored.rows \ stored'.rows \subseteq Runs
    BY <1>1, <2>1, <2>2, <2>3, Commits
  <2> QED BY <2>1, <2>4, KindsApart DEF DeletesRightly
<1>6. CASE ExportTestExecutions
  <2> DEFINE executions == export.fetched \cap Runs
             result == SqlSaveExecutions(stored.rows, executions)
  <2>1. CommitBlock(result)
    BY <1>6 DEF ExportTestExecutions, Block
  <2>2. result \in SqlResults
    BY <1>1, SqlSaveTypes
  <2>3. result # ExportRefused => stored.rows \subseteq result
    BY DEF SqlSaveExecutions
  <2> HIDE DEF result
  <2>4. stored.rows \subseteq stored'.rows
    BY <1>1, <2>1, <2>2, <2>3, Commits
  <2> QED BY <2>4, KeptRows
<1> QED BY <1>2, <1>3, <1>4, <1>5, <1>6 DEF ExportNext

\* An export deletes folders that are gone in Zephyr, and executions only where it replaces
\* their cases and cycles.
THEOREM DeletionsAreSound == ExportSpec => DeletesOnlyExecutions
<1>1. ExportInit => ExportInv
  BY ExportInitHolds
<1>2. ExportInv /\ [ExportNext]_exportVars => ExportInv'
  BY ExportStepHolds
<1>3. ExportInv /\ [ExportNext]_exportVars => [DeletesRightly]_exportVars
  BY StepDeletesRightly
<1>4. DeletesOnlyExecutions <=> [][DeletesRightly]_exportVars
  BY DEF DeletesOnlyExecutions, DeletesRightly
<1> QED BY <1>1, <1>2, <1>3, <1>4, PTL DEF ExportSpec

-----------------------------------------------------------------------------
(***************************************************************************)
(* The mock server.                                                        *)
(***************************************************************************)
\* The largest id of a table is there, since ids are bounded.
LEMMA SmallestOf == ASSUME NEW T \in SUBSET Nat, T # {} PROVE \E m \in T : \A n \in T : m <= n
<1> DEFINE R == OpToRel(<, Nat)
<1>1. IsWellFoundedOn(R, Nat)
  BY NatLessThanWellFounded
<1>2. \A x, y \in Nat : x < y => <<x, y>> \in R
  BY DEF OpToRel
<1> HIDE DEF R
<1>3. PICK m \in T : \A n \in T : ~ (<<n, m>> \in R)
  BY <1>1, WFMin
<1>4. ASSUME NEW n \in T PROVE m <= n
  <2>1. ~ (n < m)
    BY <1>2, <1>3
  <2> QED BY <2>1
<1> QED
  BY <1>4

LEMMA LargestOf ==
    ASSUME NEW S \in SUBSET Nat, S # {}, NEW b \in Nat, \A n \in S : n <= b
    PROVE  Max(S) \in S /\ \A n \in S : n <= Max(S)
<1> DEFINE T == {m \in Nat : \E n \in S : m = b - n}
<1>1. T \in SUBSET Nat /\ T # {}
  <2>1. PICK n \in S : TRUE
    OBVIOUS
  <2>2. b - n \in Nat
    OBVIOUS
  <2> QED BY <2>2
<1>2. PICK m \in T : \A n \in T : m <= n
  <2> HIDE DEF T
  <2> QED BY <1>1, SmallestOf
<1>3. PICK x \in S : m = b - x
  BY <1>2
<1>4. ASSUME NEW n \in S PROVE x >= n
  <2>1. b - n \in T
    OBVIOUS
  <2>2. b - x <= b - n
    BY <1>2, <1>3, <2>1
  <2> QED BY <2>2
<1>5. Max(S) \in S /\ \A n \in S : Max(S) >= n
  BY <1>4 DEF Max
<1> QED BY <1>5

Records(b) == [proj : ProjectIds \cup {0}, ref : Nat, birth : 1..b, refBirth : 0..b,
               status : {"NEW", "Automation"} \cup LogStates, steps : SUBSET Nat]

\* A table has records under positive ids, of which one is the largest.
Table(tab, b) ==
    /\ DOMAIN tab \subseteq Nat \ {0}
    /\ \A id \in DOMAIN tab : tab[id] \in Records(b)
    /\ \E m \in Nat : \A id \in DOMAIN tab : id <= m
Typed(s, b) == DOMAIN s = MockKinds /\ \A k \in MockKinds : Table(s[k], b)

\* What a record refers to: the record it was made for, if that was there.
RefersTo(s, kind, r) == r.ref \in IdsOf(s, kind) /\ s[kind][r.ref].birth = r.refBirth
AllRefer(s, from, to) == \A id \in IdsOf(s, from) : RefersTo(s, to, s[from][id])
KnownRefer(s, from, to) ==
    \A id \in IdsOf(s, from) : s[from][id].refBirth # 0 => RefersTo(s, to, s[from][id])
RecordsRefer(s) ==
    /\ KnownRefer(s, "cycle", "release") /\ KnownRefer(s, "run", "case")
    /\ AllRefer(s, "row", "dataset") /\ AllRefer(s, "value", "parameter") /\ AllRefer(s, "step", "case")

\* The steps of a log are those of its run's case.
StepsFit(s, log) ==
    log.steps # {} =>
        /\ log.ref \in IdsOf(s, "run")
        /\ s["run"][log.ref].refBirth # 0 =>
               \A step \in log.steps :
                   step \in IdsOf(s, "step") /\ s["step"][step].refBirth = s["run"][log.ref].refBirth
LogsFit(s) == \A l \in IdsOf(s, "log") : StepsFit(s, s["log"][l])

\* A run shows its newest log.
OwnLogs(s, r) == {l \in ChildrenOf(s, "log", r) : s["log"][l].refBirth = s["run"][r].birth}
RunsShow(s) ==
    \A r \in IdsOf(s, "run") : \A l \in OwnLogs(s, r) :
        (\A m \in OwnLogs(s, r) : m <= l) => s["run"][r].status = s["log"][l].status

\* A log made by this request for a run that is there has its birth.
NewLogsHaveRuns(s, b) == \A l \in IdsOf(s, "log") : s["log"][l].refBirth = b => s["log"][l].ref \in IdsOf(s, "run")

\* The stores s in the course of a request at moment b.
StoresHold(s, b) ==
    /\ Typed(s, b) /\ RunsShow(s) /\ NewLogsHaveRuns(s, b)
    /\ NoProjectDeleted => RecordsRefer(s) /\ (mode.validation => LogsFit(s))

MockCodes == {"ok", "400", "401", "404", "429", "500"}
MockInv ==
    /\ requests \in Nat /\ answer.code \in MockCodes
    /\ Typed(store, requests + 1) /\ RunsShow(store)
    /\ NoProjectDeleted => RecordsRefer(store) /\ (mode.validation => LogsFit(store))

-----------------------------------------------------------------------------

LEMMA NextIdIsNew ==
    ASSUME NEW s, NEW b, Typed(s, b), NEW k \in MockKinds \ {"rule", "feature"}
    PROVE  /\ NextId(s, k) \in Nat \ {0} /\ NextId(s, k) \notin IdsOf(s, k)
           /\ \A id \in IdsOf(s, k) : id < NextId(s, k)
<1> DEFINE ids == IdsOf(s, k) \cup {0}
<1>1. /\ IdsOf(s, k) \in SUBSET (Nat \ {0})
      /\ \E m \in Nat : \A id \in IdsOf(s, k) : id <= m
  BY DEF Typed, Table, IdsOf
<1>2. PICK m \in Nat : \A id \in IdsOf(s, k) : id <= m
  BY <1>1
<1>3. ids \in SUBSET Nat /\ ids # {} /\ \A n \in ids : n <= m
  BY <1>1, <1>2
<1>4. Max(ids) \in ids /\ \A n \in ids : n <= Max(ids)
  <2> HIDE DEF ids
  <2> QED BY <1>3, LargestOf
<1>5. NextId(s, k) = Max(ids) + 1
  BY DEF NextId
<1> HIDE DEF ids
<1>6. Max(ids) \in Nat
  BY <1>3, <1>4
<1>7. \A n \in ids : n < Max(ids) + 1
  BY <1>3, <1>4, <1>6
<1> QED BY <1>1, <1>5, <1>6, <1>7 DEF ids

LEMMA NextIdTyped ==
    ASSUME NEW s, NEW b, Typed(s, b), NEW k \in MockKinds, requests \in Nat
    PROVE  NextId(s, k) \in Nat \ {0}
<1>1. CASE k \in {"rule", "feature"}
  BY <1>1 DEF NextId
<1> QED BY <1>1, NextIdIsNew

LEMMA WithTyped ==
    ASSUME NEW tab, NEW b, Table(tab, b), NEW id \in Nat \ {0}, NEW r \in Records(b)
    PROVE  Table(With(tab, id, r), b)
<1> DEFINE after == With(tab, id, r)
<1>1. DOMAIN after = DOMAIN tab \cup {id} /\ \A i \in DOMAIN after : after[i] = IF i = id THEN r ELSE tab[i]
  BY DEF With
<1> HIDE DEF after
<1>2. PICK m \in Nat : \A i \in DOMAIN tab : i <= m
  BY DEF Table
<1>3. m + id \in Nat /\ \A i \in DOMAIN after : i <= m + id
  BY <1>1, <1>2 DEF Table
<1>4. DOMAIN after \subseteq Nat \ {0} /\ \A i \in DOMAIN after : after[i] \in Records(b)
  BY <1>1 DEF Table
<1> QED BY <1>3, <1>4 DEF Table, after

\* The store t has table k with a record more than s.
Brings(s, t, k, id, r) ==
    /\ IdsOf(t, k) = IdsOf(s, k) \cup {id} /\ t[k][id] = r
    /\ \A i \in IdsOf(s, k) \ {id} : t[k][i] = s[k][i]
    /\ \A j \in MockKinds \ {k} : t[j] = s[j]

LEMMA InsertAdds ==
    ASSUME NEW s, NEW b, Typed(s, b), NEW k \in MockKinds, requests \in Nat, NEW r \in Records(b)
    PROVE  Typed(Insert(s, k, r), b) /\ Brings(s, Insert(s, k, r), k, NextId(s, k), r)
<1> DEFINE id == NextId(s, k)
           tab == With(s[k], id, r)
<1>1. id \in Nat \ {0}
  BY NextIdTyped
<1>2. Table(tab, b)
  BY <1>1, WithTyped DEF Typed
<1>3. Insert(s, k, r) = [s EXCEPT ![k] = tab]
  BY DEF Insert
<1>4. /\ DOMAIN tab = DOMAIN s[k] \cup {id} /\ tab[id] = r
      /\ \A i \in DOMAIN s[k] \ {id} : tab[i] = s[k][i]
  BY DEF With
<1> HIDE DEF tab, id
<1>5. /\ Typed(Insert(s, k, r), b) /\ Insert(s, k, r)[k] = tab
      /\ \A j \in MockKinds \ {k} : Insert(s, k, r)[j] = s[j]
  BY <1>2, <1>3 DEF Typed
<1> QED
  BY <1>4, <1>5 DEF Brings, IdsOf, id

\* The records of s are in t with what they refer to.
Keeps(s, t, k) ==
    /\ IdsOf(s, k) \subseteq IdsOf(t, k)
    /\ \A id \in IdsOf(s, k) :
           /\ t[k][id].ref = s[k][id].ref /\ t[k][id].refBirth = s[k][id].refBirth
           /\ t[k][id].birth = s[k][id].birth /\ t[k][id].steps = s[k][id].steps
ReferKinds == {"cycle", "release", "run", "case", "row", "dataset", "value", "parameter", "step", "log"}
KeepsAll(s, t) == \A k \in ReferKinds : Keeps(s, t, k)
NewIds(s, t, k) == IdsOf(t, k) \ IdsOf(s, k)

LEMMA TheMockKinds ==
    {"project", "module", "case", "step", "cycle", "run", "log", "release", "attachment", "field",
     "parameter", "value", "dataset", "row", "rule", "trigger", "action", "constant", "feature"} = MockKinds
BY DEF MockKinds, ManagerKinds, ParameterKinds, PulseKinds

LEMMA KeptReference ==
    ASSUME NEW s, NEW t, NEW k, Keeps(s, t, k), NEW r, NEW q, RefersTo(s, k, r),
           q.ref = r.ref, q.refBirth = r.refBirth
    PROVE  RefersTo(t, k, q)
BY DEF Keeps, RefersTo

LEMMA AllStillRefer ==
    ASSUME NEW s, NEW t, NEW from, NEW to, Keeps(s, t, from), Keeps(s, t, to), AllRefer(s, from, to),
           \A id \in NewIds(s, t, from) : RefersTo(t, to, t[from][id])
    PROVE  AllRefer(t, from, to)
<1> SUFFICES ASSUME NEW id \in IdsOf(s, from) PROVE RefersTo(t, to, t[from][id])
  BY DEF AllRefer, NewIds
<1>1. RefersTo(s, to, s[from][id])
  BY DEF AllRefer
<1>2. t[from][id].ref = s[from][id].ref /\ t[from][id].refBirth = s[from][id].refBirth
  BY DEF Keeps
<1> QED BY <1>1, <1>2, KeptReference

LEMMA KnownStillRefer ==
    ASSUME NEW s, NEW t, NEW from, NEW to, Keeps(s, t, from), Keeps(s, t, to), KnownRefer(s, from, to),
           \A id \in NewIds(s, t, from) : t[from][id].refBirth # 0 => RefersTo(t, to, t[from][id])
    PROVE  KnownRefer(t, from, to)
<1> SUFFICES ASSUME NEW id \in IdsOf(s, from), t[from][id].refBirth # 0 PROVE RefersTo(t, to, t[from][id])
  BY DEF KnownRefer, NewIds
<1>1. t[from][id].ref = s[from][id].ref /\ t[from][id].refBirth = s[from][id].refBirth
  BY DEF Keeps
<1>2. RefersTo(s, to, s[from][id])
  BY <1>1 DEF KnownRefer
<1> QED BY <1>1, <1>2, KeptReference

NewRefer(s, t) ==
    /\ \A id \in NewIds(s, t, "cycle") : t["cycle"][id].refBirth # 0 => RefersTo(t, "release", t["cycle"][id])
    /\ \A id \in NewIds(s, t, "run") : t["run"][id].refBirth # 0 => RefersTo(t, "case", t["run"][id])
    /\ \A id \in NewIds(s, t, "row") : RefersTo(t, "dataset", t["row"][id])
    /\ \A id \in NewIds(s, t, "value") : RefersTo(t, "parameter", t["value"][id])
    /\ \A id \in NewIds(s, t, "step") : RefersTo(t, "case", t["step"][id])

LEMMA StillRefer ==
    ASSUME NEW s, NEW t, KeepsAll(s, t), NewRefer(s, t), RecordsRefer(s)
    PROVE  RecordsRefer(t)
<1>1. /\ Keeps(s, t, "cycle") /\ Keeps(s, t, "release") /\ Keeps(s, t, "run") /\ Keeps(s, t, "case")
      /\ Keeps(s, t, "row") /\ Keeps(s, t, "dataset") /\ Keeps(s, t, "value") /\ Keeps(s, t, "parameter")
      /\ Keeps(s, t, "step")
  BY DEF KeepsAll, ReferKinds
<1>2. KnownRefer(t, "cycle", "release") /\ KnownRefer(t, "run", "case")
  BY <1>1, KnownStillRefer DEF NewRefer, RecordsRefer
<1>3. AllRefer(t, "row", "dataset") /\ AllRefer(t, "value", "parameter") /\ AllRefer(t, "step", "case")
  BY <1>1, AllStillRefer DEF NewRefer, RecordsRefer
<1> QED BY <1>2, <1>3 DEF RecordsRefer

LEMMA LogsStillFit ==
    ASSUME NEW s, NEW t, KeepsAll(s, t), LogsFit(s),
           \A l \in NewIds(s, t, "log") : StepsFit(t, t["log"][l])
    PROVE  LogsFit(t)
<1>1. Keeps(s, t, "log") /\ Keeps(s, t, "run") /\ Keeps(s, t, "step")
  BY DEF KeepsAll, ReferKinds
<1> SUFFICES ASSUME NEW l \in IdsOf(s, "log"), t["log"][l].steps # {} PROVE StepsFit(t, t["log"][l])
  BY DEF LogsFit, NewIds, StepsFit
<1> DEFINE log == s["log"][l]
<1>2. t["log"][l].ref = log.ref /\ t["log"][l].steps = log.steps
  BY <1>1 DEF Keeps
<1>3. StepsFit(s, log) /\ log.steps # {}
  BY <1>2 DEF LogsFit
<1>4. log.ref \in IdsOf(t, "run") /\ t["run"][log.ref].refBirth = s["run"][log.ref].refBirth
  BY <1>1, <1>3 DEF Keeps, StepsFit
<1>5. \A step \in log.steps : step \in IdsOf(s, "step") =>
          step \in IdsOf(t, "step") /\ t["step"][step].refBirth = s["step"][step].refBirth
  BY <1>1 DEF Keeps
<1> HIDE DEF log
<1> QED BY <1>2, <1>3, <1>4, <1>5 DEF StepsFit

\* Runs and logs stay, and what is new refers to something that is there.
LEMMA RestHolds ==
    ASSUME NEW s, NEW t, NEW b, StoresHold(s, b), Typed(t, b), KeepsAll(s, t), NewRefer(s, t),
           t["run"] = s["run"], t["log"] = s["log"]
    PROVE  StoresHold(t, b)
<1>1. RunsShow(t) /\ NewLogsHaveRuns(t, b)
  <2>1. \A r : OwnLogs(t, r) = OwnLogs(s, r)
    BY DEF OwnLogs, ChildrenOf, IdsOf
  <2> QED BY <2>1 DEF StoresHold, RunsShow, NewLogsHaveRuns, IdsOf
<1>2. ASSUME NoProjectDeleted PROVE RecordsRefer(t) /\ (mode.validation => LogsFit(t))
  <2>1. RecordsRefer(t)
    BY <1>2, StillRefer DEF StoresHold
  <2>2. NewIds(s, t, "log") = {}
    BY DEF NewIds, IdsOf
  <2>3. mode.validation => LogsFit(t)
    BY <1>2, <2>2, LogsStillFit DEF StoresHold
  <2> QED BY <2>1, <2>3
<1> QED BY <1>1, <1>2 DEF StoresHold

LEMMA SameKeeps == ASSUME NEW s, NEW t, NEW k, t[k] = s[k] PROVE Keeps(s, t, k) /\ NewIds(s, t, k) = {}
BY DEF Keeps, NewIds, IdsOf

\* No kind is touched that refers to another or is referred to.
LEMMA OthersHold ==
    ASSUME NEW s, NEW t, NEW b, StoresHold(s, b), Typed(t, b), \A k \in ReferKinds : t[k] = s[k]
    PROVE  StoresHold(t, b)
<1>1. \A k \in ReferKinds : Keeps(s, t, k) /\ NewIds(s, t, k) = {}
  BY SameKeeps
<1>2. KeepsAll(s, t) /\ NewRefer(s, t)
  BY <1>1 DEF KeepsAll, NewRefer, ReferKinds
<1> QED BY <1>2, RestHolds DEF ReferKinds

LEMMA AddsKeeps ==
    ASSUME NEW s, NEW t, NEW k \in MockKinds, NEW id, NEW r, Brings(s, t, k, id, r), id \notin IdsOf(s, k)
    PROVE  /\ \A j \in MockKinds : Keeps(s, t, j)
           /\ NewIds(s, t, k) = {id} /\ \A j \in MockKinds \ {k} : NewIds(s, t, j) = {}
<1>1. Keeps(s, t, k) /\ NewIds(s, t, k) = {id}
  BY DEF Brings, Keeps, NewIds
<1>2. \A j \in MockKinds \ {k} : Keeps(s, t, j) /\ NewIds(s, t, j) = {}
  BY SameKeeps DEF Brings
<1> QED BY <1>1, <1>2

\* A record of a kind that is not a run's nor a log's comes to what it refers to.
LEMMA AddedHolds ==
    ASSUME NEW s, NEW t, NEW b, StoresHold(s, b), Typed(t, b), NEW k \in ReferKinds \ {"run", "log"},
           NEW id, NEW r, Brings(s, t, k, id, r), id \notin IdsOf(s, k),
           k = "cycle" /\ r.refBirth # 0 => RefersTo(s, "release", r),
           k = "row" => RefersTo(s, "dataset", r),
           k = "value" => RefersTo(s, "parameter", r),
           k = "step" => RefersTo(s, "case", r)
    PROVE  StoresHold(t, b)
<1>1. ReferKinds \subseteq MockKinds
  BY TheMockKinds DEF ReferKinds
<1>2. /\ \A j \in MockKinds : Keeps(s, t, j)
      /\ NewIds(s, t, k) = {id} /\ \A j \in MockKinds \ {k} : NewIds(s, t, j) = {}
  BY <1>1, AddsKeeps
<1>3. t[k][id] = r /\ \A j \in MockKinds \ {k} : t[j] = s[j]
  BY DEF Brings
<1>4. \A to \in MockKinds \ {k} : RefersTo(s, to, r) => RefersTo(t, to, r)
  BY <1>3 DEF RefersTo, IdsOf
<1>5. NewRefer(s, t)
  BY <1>1, <1>2, <1>3, <1>4 DEF NewRefer, ReferKinds
<1>6. KeepsAll(s, t)
  BY <1>1, <1>2 DEF KeepsAll
<1>7. t["run"] = s["run"] /\ t["log"] = s["log"]
  BY <1>1, <1>3 DEF ReferKinds
<1> QED BY <1>5, <1>6, <1>7, RestHolds

LEMMA BirthRefers ==
    ASSUME NEW s, NEW k, NEW r, r.refBirth = BirthOf(s, k, r.ref), r.refBirth # 0
    PROVE  RefersTo(s, k, r)
BY DEF BirthOf, RefersTo

\* A run comes, and no log is its own.
LEMMA RunAdded ==
    ASSUME NEW s, NEW t, NEW b, StoresHold(s, b), Typed(t, b), NEW id, NEW r, Brings(s, t, "run", id, r),
           id \notin IdsOf(s, "run"), r.birth = b, r.refBirth # 0 => RefersTo(s, "case", r)
    PROVE  StoresHold(t, b)
<1>0. "run" \in MockKinds /\ "log" \in MockKinds /\ "case" \in MockKinds /\ ReferKinds \subseteq MockKinds
  BY TheMockKinds DEF ReferKinds
<1>1. /\ \A j \in MockKinds : Keeps(s, t, j)
      /\ NewIds(s, t, "run") = {id} /\ \A j \in MockKinds \ {"run"} : NewIds(s, t, j) = {}
  BY <1>0, AddsKeeps
<1>2. /\ t["log"] = s["log"] /\ t["case"] = s["case"] /\ t["run"][id] = r
      /\ IdsOf(t, "run") = IdsOf(s, "run") \cup {id}
      /\ \A i \in IdsOf(s, "run") : t["run"][i] = s["run"][i]
  BY <1>0 DEF Brings
<1>3. KeepsAll(s, t)
  BY <1>0, <1>1 DEF KeepsAll
<1>4. NewRefer(s, t)
  <2>1. r.refBirth # 0 => RefersTo(t, "case", r)
    BY <1>2 DEF RefersTo, IdsOf
  <2> QED BY <1>0, <1>1, <1>2, <2>1 DEF NewRefer, ReferKinds
<1>5. RunsShow(t)
  <2> SUFFICES ASSUME NEW i \in IdsOf(t, "run"), NEW l \in OwnLogs(t, i), \A m \in OwnLogs(t, i) : m <= l
               PROVE  t["run"][i].status = t["log"][l].status
    BY DEF RunsShow
  <2>1. CASE i = id
    <3>1. l \in IdsOf(s, "log") /\ s["log"][l].ref = id /\ s["log"][l].refBirth = b
      BY <1>2, <2>1 DEF OwnLogs, ChildrenOf, IdsOf
    <3> QED BY <3>1 DEF StoresHold, NewLogsHaveRuns
  <2>2. CASE i # id
    <3>1. i \in IdsOf(s, "run") /\ OwnLogs(t, i) = OwnLogs(s, i)
      BY <1>2, <2>2 DEF OwnLogs, ChildrenOf, IdsOf
    <3> QED BY <1>2, <3>1 DEF StoresHold, RunsShow
  <2> QED BY <2>1, <2>2
<1>6. NewLogsHaveRuns(t, b)
  BY <1>2 DEF StoresHold, NewLogsHaveRuns, IdsOf
<1>7. ASSUME NoProjectDeleted PROVE RecordsRefer(t) /\ (mode.validation => LogsFit(t))
  <2>1. RecordsRefer(t)
    BY <1>3, <1>4, <1>7, StillRefer DEF StoresHold
  <2>2. NewIds(s, t, "log") = {}
    BY <1>0, <1>1
  <2>3. mode.validation => LogsFit(t)
    BY <1>3, <1>7, <2>2, LogsStillFit DEF StoresHold
  <2> QED BY <2>1, <2>3
<1> QED BY <1>5, <1>6, <1>7 DEF StoresHold

\* A log comes for a run that is there, which shows it.
LEMMA LogAdded ==
    ASSUME NEW s, NEW u, NEW b, StoresHold(s, b), Typed(u, b), NEW l, NEW log, Brings(s, u, "log", l, log),
           \A m \in IdsOf(s, "log") : m < l, l \in Nat, NEW run \in IdsOf(s, "run"), NEW outcome,
           outcome \in LogStates, log.ref = run, log.refBirth = s["run"][run].birth, log.status = outcome,
           NoProjectDeleted /\ mode.validation => StepsFit(s, log)
    PROVE  StoresHold(WithStatus(u, run, outcome), b)
<1> DEFINE t == WithStatus(u, run, outcome)
<1>0. "run" \in MockKinds /\ "log" \in MockKinds /\ ReferKinds \subseteq MockKinds /\ "run" \in DOMAIN u
  BY TheMockKinds DEF ReferKinds, Typed
<1>1. /\ IdsOf(u, "log") = IdsOf(s, "log") \cup {l} /\ u["log"][l] = log /\ l \notin IdsOf(s, "log")
      /\ \A i \in IdsOf(s, "log") : u["log"][i] = s["log"][i]
      /\ u["run"] = s["run"] /\ \A j \in MockKinds \ {"log"} : u[j] = s[j]
  <2>1. IdsOf(s, "log") \subseteq Nat
    BY <1>0 DEF StoresHold, Typed, Table, IdsOf
  <2> QED BY <1>0, <2>1 DEF Brings
<1>2. /\ DOMAIN t = DOMAIN u /\ \A j \in DOMAIN u \ {"run"} : t[j] = u[j]
      /\ t["run"] = [u["run"] EXCEPT ![run].status = outcome]
  BY <1>0 DEF WithStatus
<1>3. /\ IdsOf(t, "run") = IdsOf(s, "run")
      /\ \A i \in IdsOf(s, "run") \ {run} : t["run"][i] = s["run"][i]
      /\ t["run"][run] = [s["run"][run] EXCEPT !.status = outcome]
  BY <1>1, <1>2 DEF IdsOf
<1>4. s["run"][run] \in Records(b)
  BY <1>0 DEF StoresHold, Typed, Table, IdsOf
<1>5. /\ t["run"][run] \in Records(b) /\ t["run"][run].status = outcome
      /\ t["run"][run].ref = s["run"][run].ref /\ t["run"][run].refBirth = s["run"][run].refBirth
      /\ t["run"][run].birth = s["run"][run].birth /\ t["run"][run].steps = s["run"][run].steps
  BY <1>3, <1>4 DEF Records
<1>6. Typed(t, b)
  <2>1. Table(t["run"], b)
    BY <1>0, <1>1, <1>3, <1>5 DEF StoresHold, Typed, Table, IdsOf
  <2> QED BY <1>2, <2>1 DEF Typed
<1> HIDE DEF t
<1>7. t["log"] = u["log"] /\ IdsOf(t, "log") = IdsOf(s, "log") \cup {l}
  BY <1>0, <1>1, <1>2 DEF IdsOf, Typed
<1>8. \A j \in MockKinds : Keeps(s, t, j)
  <2>1. Keeps(s, t, "run")
    BY <1>3, <1>5 DEF Keeps
  <2>2. Keeps(s, t, "log")
    BY <1>1, <1>7 DEF Keeps
  <2>3. \A j \in MockKinds \ {"run", "log"} : t[j] = s[j]
    BY <1>1, <1>2 DEF Typed
  <2> QED BY <2>1, <2>2, <2>3, SameKeeps
<1>9. NewRefer(s, t)
  <2>1. \A j \in MockKinds \ {"log"} : NewIds(s, t, j) = {}
    <3>1. \A j \in MockKinds \ {"run", "log"} : t[j] = s[j]
      BY <1>1, <1>2 DEF Typed
    <3> QED BY <1>3, <3>1, SameKeeps DEF NewIds
  <2> QED BY <1>0, <2>1 DEF NewRefer, ReferKinds
<1>10. RunsShow(t)
  <2> SUFFICES ASSUME NEW i \in IdsOf(s, "run"), NEW m \in OwnLogs(t, i), \A n \in OwnLogs(t, i) : n <= m
               PROVE  t["run"][i].status = t["log"][m].status
    BY <1>3 DEF RunsShow
  <2>1. CASE i = run
    <3>1. l \in OwnLogs(t, i)
      BY <1>1, <1>5, <1>7, <2>1 DEF OwnLogs, ChildrenOf
    <3>2. m = l
      <4>1. m \in IdsOf(s, "log") \cup {l} /\ l <= m
        BY <1>7, <3>1 DEF OwnLogs, ChildrenOf
      <4>2. IdsOf(s, "log") \subseteq Nat
        BY <1>0 DEF StoresHold, Typed, Table, IdsOf
      <4> QED BY <4>1, <4>2
    <3> QED BY <1>1, <1>5, <1>7, <2>1, <3>2
  <2>2. CASE i # run
    <3>1. t["run"][i] = s["run"][i]
      BY <1>3, <2>2
    <3>2. OwnLogs(t, i) = OwnLogs(s, i)
      BY <1>1, <1>7, <2>2, <3>1 DEF OwnLogs, ChildrenOf
    <3>3. m \in IdsOf(s, "log")
      BY <3>2 DEF OwnLogs, ChildrenOf
    <3> QED BY <1>1, <1>7, <3>1, <3>2, <3>3 DEF StoresHold, RunsShow
  <2> QED BY <2>1, <2>2
<1>11. NewLogsHaveRuns(t, b)
  BY <1>1, <1>3, <1>7 DEF StoresHold, NewLogsHaveRuns
<1>12. KeepsAll(s, t)
  BY <1>0, <1>8 DEF KeepsAll
<1>13. ASSUME NoProjectDeleted PROVE RecordsRefer(t) /\ (mode.validation => LogsFit(t))
  <2>1. RecordsRefer(t)
    BY <1>9, <1>12, <1>13, StillRefer DEF StoresHold
  <2>2. ASSUME mode.validation PROVE LogsFit(t)
    <3>1. NewIds(s, t, "log") = {l} /\ t["log"][l] = log
      BY <1>1, <1>7 DEF NewIds
    <3>2. StepsFit(s, log)
      BY <1>13, <2>2
    <3>3. t["step"] = s["step"] /\ t["run"][run].refBirth = s["run"][run].refBirth
      BY <1>1, <1>2, <1>5, TheMockKinds DEF Typed
    <3>4. StepsFit(t, log)
      BY <1>3, <3>2, <3>3 DEF StepsFit, IdsOf
    <3> QED BY <1>12, <1>13, <2>2, <3>1, <3>4, LogsStillFit DEF StoresHold
  <2> QED BY <2>1, <2>2
<1> QED BY <1>6, <1>10, <1>11, <1>13 DEF StoresHold, t

\* A log comes for a run that is not there.
LEMMA StrayLogAdded ==
    ASSUME NEW s, NEW t, NEW b, StoresHold(s, b), Typed(t, b), b # 0, NEW l, NEW log,
           Brings(s, t, "log", l, log), l \notin IdsOf(s, "log"), log.ref \notin IdsOf(s, "run"),
           log.refBirth = 0, log.steps = {}
    PROVE  StoresHold(t, b)
<1>0. "run" \in MockKinds /\ "log" \in MockKinds /\ ReferKinds \subseteq MockKinds
  BY TheMockKinds DEF ReferKinds
<1>1. /\ IdsOf(t, "log") = IdsOf(s, "log") \cup {l} /\ t["log"][l] = log
      /\ \A i \in IdsOf(s, "log") : t["log"][i] = s["log"][i]
      /\ t["run"] = s["run"]
  BY <1>0 DEF Brings
<1>2. /\ \A j \in MockKinds : Keeps(s, t, j)
      /\ NewIds(s, t, "log") = {l} /\ \A j \in MockKinds \ {"log"} : NewIds(s, t, j) = {}
  BY <1>0, AddsKeeps
<1>3. KeepsAll(s, t) /\ NewRefer(s, t)
  BY <1>0, <1>2 DEF KeepsAll, NewRefer, ReferKinds
<1>4. \A i \in IdsOf(s, "run") : OwnLogs(t, i) = OwnLogs(s, i)
  BY <1>1 DEF OwnLogs, ChildrenOf
<1>5. RunsShow(t)
  <2> SUFFICES ASSUME NEW i \in IdsOf(s, "run"), NEW m \in OwnLogs(s, i), \A n \in OwnLogs(s, i) : n <= m
               PROVE  t["run"][i].status = t["log"][m].status
    BY <1>1, <1>4 DEF RunsShow, IdsOf
  <2>1. m \in IdsOf(s, "log")
    BY DEF OwnLogs, ChildrenOf
  <2> QED BY <1>1, <2>1 DEF StoresHold, RunsShow
<1>6. NewLogsHaveRuns(t, b)
  BY <1>1 DEF StoresHold, NewLogsHaveRuns, IdsOf
<1>7. ASSUME NoProjectDeleted PROVE RecordsRefer(t) /\ (mode.validation => LogsFit(t))
  <2>1. RecordsRefer(t)
    BY <1>3, <1>7, StillRefer DEF StoresHold
  <2>2. StepsFit(t, log)
    BY DEF StepsFit
  <2>3. mode.validation => LogsFit(t)
    BY <1>1, <1>2, <1>3, <1>7, <2>2, LogsStillFit DEF StoresHold
  <2> QED BY <2>1, <2>3
<1> QED BY <1>5, <1>6, <1>7 DEF StoresHold

-----------------------------------------------------------------------------

LEMMA RecordTyped ==
    ASSUME NEW p \in ProjectIds \cup {0}, NEW ref \in Nat, NEW b \in Nat \ {0}, NEW birth \in 1..b,
           NEW refBirth \in 0..b
    PROVE  /\ Record(p, ref, birth, refBirth) \in Records(b)
           /\ Record(p, ref, birth, refBirth).ref = ref
           /\ Record(p, ref, birth, refBirth).birth = birth
           /\ Record(p, ref, birth, refBirth).refBirth = refBirth
           /\ Record(p, ref, birth, refBirth).steps = {}
BY DEF Record, Records

LEMMA BirthTyped ==
    ASSUME NEW s, NEW b \in Nat, Typed(s, b), NEW k \in MockKinds, NEW id
    PROVE  BirthOf(s, k, id) \in 0..b
BY DEF BirthOf, Typed, Table, Records, IdsOf

\* A project moves nothing but the record's column.
LEMMA ProjectSet ==
    ASSUME NEW s, NEW b, StoresHold(s, b), NEW k \in MockKinds \ {"run", "log"}, NEW id \in IdsOf(s, k),
           NEW p \in ProjectIds
    PROVE  StoresHold([s EXCEPT ![k][id].proj = p], b)
<1> DEFINE t == [s EXCEPT ![k][id].proj = p]
<1>0. "run" \in MockKinds /\ "log" \in MockKinds /\ ReferKinds \subseteq MockKinds /\ DOMAIN s = MockKinds
  BY TheMockKinds DEF ReferKinds, StoresHold, Typed
<1>1. /\ DOMAIN t = MockKinds /\ IdsOf(t, k) = IdsOf(s, k) /\ \A j \in MockKinds \ {k} : t[j] = s[j]
      /\ t[k][id] = [s[k][id] EXCEPT !.proj = p] /\ \A i \in IdsOf(s, k) \ {id} : t[k][i] = s[k][i]
  BY <1>0 DEF IdsOf
<1>2. Table(s[k], b) /\ s[k][id] \in Records(b)
  BY DEF StoresHold, Typed, Table, IdsOf
<1>3. /\ t[k][id] \in Records(b)
      /\ t[k][id].ref = s[k][id].ref /\ t[k][id].refBirth = s[k][id].refBirth
      /\ t[k][id].birth = s[k][id].birth /\ t[k][id].steps = s[k][id].steps
  BY <1>1, <1>2 DEF Records
<1> HIDE DEF t
<1>4. Typed(t, b)
  <2>1. Table(t[k], b)
    BY <1>1, <1>2, <1>3 DEF Table, IdsOf
  <2> QED BY <1>1, <2>1 DEF StoresHold, Typed
<1>5. \A j \in MockKinds : Keeps(s, t, j) /\ NewIds(s, t, j) = {}
  <2>1. Keeps(s, t, k) /\ NewIds(s, t, k) = {}
    BY <1>1, <1>3 DEF Keeps, NewIds
  <2> QED BY <1>1, <2>1, SameKeeps
<1>6. KeepsAll(s, t) /\ NewRefer(s, t)
  BY <1>0, <1>5 DEF KeepsAll, NewRefer, ReferKinds
<1> QED BY <1>0, <1>1, <1>4, <1>6, RestHolds DEF t

\* What is removed.
LEMMA RemovedIs ==
    ASSUME NEW s, NEW b, Typed(s, b), NEW k \in MockKinds, NEW ids
    PROVE  /\ Typed(Removed(s, k, ids), b)
           /\ \A j \in MockKinds \ {k} : Removed(s, k, ids)[j] = s[j]
           /\ IdsOf(Removed(s, k, ids), k) = IdsOf(s, k) \ ids
           /\ \A i \in IdsOf(s, k) \ ids : Removed(s, k, ids)[k][i] = s[k][i]
<1> DEFINE t == Removed(s, k, ids)
<1>1. /\ DOMAIN t = MockKinds /\ \A j \in MockKinds \ {k} : t[j] = s[j]
      /\ t[k] = Restrict(s[k], DOMAIN s[k] \ ids)
  BY DEF Removed, Typed
<1>2. DOMAIN t[k] = DOMAIN s[k] \ ids /\ \A i \in DOMAIN s[k] \ ids : t[k][i] = s[k][i]
  BY <1>1 DEF Restrict
<1> HIDE DEF t
<1>3. Table(t[k], b)
  BY <1>2 DEF Typed, Table
<1> QED BY <1>1, <1>2, <1>3 DEF Typed, IdsOf, t

LEMMA RemovedRest ==
    ASSUME NEW s, NEW t, NEW b, StoresHold(s, b), Typed(t, b), t["run"] = s["run"], t["log"] = s["log"],
           t["step"] = s["step"], NoProjectDeleted => RecordsRefer(t)
    PROVE  StoresHold(t, b)
<1>1. \A r : OwnLogs(t, r) = OwnLogs(s, r)
  BY DEF OwnLogs, ChildrenOf, IdsOf
<1>2. RunsShow(t) /\ NewLogsHaveRuns(t, b)
  BY <1>1 DEF StoresHold, RunsShow, NewLogsHaveRuns, IdsOf
<1>3. LogsFit(s) => LogsFit(t)
  BY DEF LogsFit, StepsFit, IdsOf
<1> QED BY <1>2, <1>3 DEF StoresHold

LEMMA OtherRemoved ==
    ASSUME NEW s, NEW b, StoresHold(s, b), NEW k \in MockKinds \ ReferKinds, NEW ids
    PROVE  StoresHold(Removed(s, k, ids), b)
<1>1. ReferKinds \subseteq MockKinds
  BY TheMockKinds DEF ReferKinds
<1>2. Typed(Removed(s, k, ids), b) /\ \A j \in ReferKinds : Removed(s, k, ids)[j] = s[j]
  BY <1>1, RemovedIs DEF StoresHold
<1> QED BY <1>2, OthersHold

LEMMA RowsRemoved ==
    ASSUME NEW s, NEW b, StoresHold(s, b), NEW ids
    PROVE  StoresHold(Removed(s, "row", ids), b)
<1> DEFINE t == Removed(s, "row", ids)
<1>0. "row" \in MockKinds /\ ReferKinds \subseteq MockKinds
  BY TheMockKinds DEF ReferKinds
<1>1. /\ Typed(t, b) /\ \A j \in MockKinds \ {"row"} : t[j] = s[j]
      /\ IdsOf(t, "row") = IdsOf(s, "row") \ ids
      /\ \A i \in IdsOf(s, "row") \ ids : t["row"][i] = s["row"][i]
  BY <1>0, RemovedIs DEF StoresHold
<1> HIDE DEF t
<1>2. \A j \in ReferKinds \ {"row"} : t[j] = s[j]
  BY <1>0, <1>1
<1>3. RecordsRefer(s) => RecordsRefer(t)
  BY <1>1, <1>2 DEF RecordsRefer, KnownRefer, AllRefer, RefersTo, IdsOf, ReferKinds
<1> QED BY <1>1, <1>2, <1>3, RemovedRest DEF StoresHold, ReferKinds, t

LEMMA DatasetRemoved ==
    ASSUME NEW s, NEW b, StoresHold(s, b), NEW id
    PROVE  StoresHold(Removed(Removed(s, "row", ChildrenOf(s, "row", id)), "dataset", {id}), b)
<1> DEFINE u == Removed(s, "row", ChildrenOf(s, "row", id))
           t == Removed(u, "dataset", {id})
<1>0. "row" \in MockKinds /\ "dataset" \in MockKinds /\ ReferKinds \subseteq MockKinds
  BY TheMockKinds DEF ReferKinds
<1>1. /\ StoresHold(u, b)
      /\ IdsOf(u, "row") = IdsOf(s, "row") \ ChildrenOf(s, "row", id)
      /\ \A i \in IdsOf(s, "row") \ ChildrenOf(s, "row", id) : u["row"][i] = s["row"][i]
  BY <1>0, RowsRemoved, RemovedIs DEF StoresHold
<1>2. \A i \in IdsOf(u, "row") : u["row"][i].ref # id
  BY <1>1 DEF ChildrenOf
<1> HIDE DEF u
<1>3. /\ Typed(t, b) /\ \A j \in MockKinds \ {"dataset"} : t[j] = u[j]
      /\ IdsOf(t, "dataset") = IdsOf(u, "dataset") \ {id}
      /\ \A i \in IdsOf(u, "dataset") \ {id} : t["dataset"][i] = u["dataset"][i]
  BY <1>0, <1>1, RemovedIs DEF StoresHold
<1> HIDE DEF t
<1>4. \A j \in ReferKinds \ {"dataset"} : t[j] = u[j]
  BY <1>0, <1>3
<1>5. ASSUME RecordsRefer(u) PROVE RecordsRefer(t)
  <2>1. AllRefer(t, "row", "dataset")
    BY <1>2, <1>3, <1>4, <1>5 DEF RecordsRefer, AllRefer, RefersTo, IdsOf, ReferKinds
  <2> QED BY <1>4, <1>5, <2>1 DEF RecordsRefer, KnownRefer, AllRefer, RefersTo, IdsOf, ReferKinds
<1> QED BY <1>1, <1>3, <1>4, <1>5, RemovedRest DEF StoresHold, ReferKinds, t, u

LEMMA ReleaseRemoved ==
    ASSUME NEW s, NEW b, StoresHold(s, b), NEW id, ChildrenOf(s, "cycle", id) = {}
    PROVE  StoresHold(Removed(s, "release", {id}), b)
<1> DEFINE t == Removed(s, "release", {id})
<1>0. "release" \in MockKinds /\ ReferKinds \subseteq MockKinds
  BY TheMockKinds DEF ReferKinds
<1>1. /\ Typed(t, b) /\ \A j \in MockKinds \ {"release"} : t[j] = s[j]
      /\ IdsOf(t, "release") = IdsOf(s, "release") \ {id}
      /\ \A i \in IdsOf(s, "release") \ {id} : t["release"][i] = s["release"][i]
  BY <1>0, RemovedIs DEF StoresHold
<1> HIDE DEF t
<1>2. \A j \in ReferKinds \ {"release"} : t[j] = s[j]
  BY <1>0, <1>1
<1>3. \A c \in IdsOf(s, "cycle") : s["cycle"][c].ref # id
  BY DEF ChildrenOf
<1>4. ASSUME RecordsRefer(s) PROVE RecordsRefer(t)
  <2>1. KnownRefer(t, "cycle", "release")
    BY <1>1, <1>2, <1>3, <1>4 DEF RecordsRefer, KnownRefer, RefersTo, IdsOf, ReferKinds
  <2> QED BY <1>2, <1>4, <2>1 DEF RecordsRefer, KnownRefer, AllRefer, RefersTo, IdsOf, ReferKinds
<1> QED BY <1>1, <1>2, <1>4, RemovedRest DEF StoresHold, ReferKinds, t

-----------------------------------------------------------------------------

LEMMA RequestBegins ==
    ASSUME MockInv
    PROVE  Now \in Nat \ {0} /\ StoresHold(store, Now)
<1>1. Now \in Nat \ {0} /\ Now > requests + 1 /\ requests \in Nat
  BY DEF Now, MockInv
<1>2. Records(requests + 1) \subseteq Records(Now)
  BY <1>1 DEF Records
<1>3. Typed(store, Now)
  BY <1>2 DEF MockInv, Typed, Table
<1>4. NewLogsHaveRuns(store, Now)
  <2>1. \A l \in IdsOf(store, "log") : store["log"][l].refBirth \in 0..(requests + 1)
    BY TheMockKinds DEF MockInv, Typed, Table, Records, IdsOf
  <2> QED BY <1>1, <2>1 DEF NewLogsHaveRuns
<1> QED BY <1>1, <1>3, <1>4 DEF MockInv, StoresHold

LEMMA StoresPrime ==
    ASSUME NEW t, store' = t, requests' = requests + 1, requests \in Nat
    PROVE  /\ Typed(store, requests + 1)' <=> Typed(t, Now)
           /\ RunsShow(store)' <=> RunsShow(t)
           /\ RecordsRefer(store)' <=> RecordsRefer(t)
           /\ LogsFit(store)' <=> LogsFit(t)
<1>1. requests' + 1 = Now
  BY DEF Now
<1> QED
  BY <1>1 DEF Typed, Table, Records, RunsShow, OwnLogs, ChildrenOf, IdsOf, RecordsRefer, KnownRefer,
              AllRefer, RefersTo, LogsFit, StepsFit

LEMMA RequestEnds ==
    ASSUME MockInv, NEW op, NEW code \in MockCodes, NEW t, Handle(op, code, t), Typed(t, Now), RunsShow(t),
           NoProjectDeleted /\ op # "deleteProject" => RecordsRefer(t) /\ (mode.validation => LogsFit(t))
    PROVE  MockInv'
<1>1. /\ requests' = requests + 1 /\ store' = t /\ mode' = mode /\ requests \in Nat
      /\ answer' = [op |-> op, code |-> code, purged |-> answer.purged \/ op = "deleteProject"]
  BY DEF Handle, MockInv
<1>2. /\ Typed(store, requests + 1)' <=> Typed(t, Now)
      /\ RunsShow(store)' <=> RunsShow(t)
      /\ RecordsRefer(store)' <=> RecordsRefer(t)
      /\ LogsFit(store)' <=> LogsFit(t)
  BY <1>1, StoresPrime
<1>3. NoProjectDeleted' => NoProjectDeleted /\ op # "deleteProject"
  BY <1>1 DEF NoProjectDeleted
<1>4. requests' \in Nat /\ answer'.code \in MockCodes
  BY <1>1
<1> QED BY <1>1, <1>2, <1>3, <1>4 DEF MockInv

LEMMA Answers ==
    ASSUME MockInv, NEW op, NEW code \in MockCodes, NEW t, Handle(op, code, t), StoresHold(t, Now)
    PROVE  MockInv'
BY RequestEnds DEF StoresHold

LEMMA Refuses ==
    ASSUME MockInv, NEW op, NEW codes \in SUBSET MockCodes, Refuse(op, codes)
    PROVE  MockInv'
<1>1. PICK code \in codes : Handle(op, code, store)
  BY DEF Refuse
<1> QED BY <1>1, RequestBegins, Answers

LEMMA Validates ==
    ASSUME MockInv, NEW op, NEW t, WithValidation(op, t), StoresHold(t, Now)
    PROVE  MockInv'
<1>1. {"400", "500"} \in SUBSET MockCodes /\ "ok" \in MockCodes
  BY DEF MockCodes
<1> QED BY <1>1, Refuses, Answers DEF WithValidation

-----------------------------------------------------------------------------

LEMMA OtherInserted ==
    ASSUME MockInv, NEW k \in MockKinds \ ReferKinds, NEW r \in Records(Now)
    PROVE  StoresHold(Insert(store, k, r), Now)
<1>1. ReferKinds \subseteq MockKinds /\ requests \in Nat /\ StoresHold(store, Now)
  BY TheMockKinds, RequestBegins DEF ReferKinds, MockInv
<1>2. Typed(Insert(store, k, r), Now) /\ Brings(store, Insert(store, k, r), k, NextId(store, k), r)
  BY <1>1, InsertAdds DEF StoresHold
<1> QED BY <1>1, <1>2, OthersHold DEF Brings

LEMMA Inserted ==
    ASSUME NEW s, StoresHold(s, Now), requests \in Nat, NEW k \in ReferKinds \ {"run", "log"},
           NEW r \in Records(Now),
           k = "cycle" /\ r.refBirth # 0 => RefersTo(s, "release", r),
           k = "row" => RefersTo(s, "dataset", r),
           k = "value" => RefersTo(s, "parameter", r),
           k = "step" => RefersTo(s, "case", r)
    PROVE  StoresHold(Insert(s, k, r), Now)
<1>1. k \in MockKinds \ {"rule", "feature"}
  BY TheMockKinds DEF ReferKinds
<1>2. Typed(Insert(s, k, r), Now) /\ Brings(s, Insert(s, k, r), k, NextId(s, k), r)
  BY <1>1, InsertAdds DEF StoresHold
<1>3. NextId(s, k) \notin IdsOf(s, k)
  BY <1>1, NextIdIsNew DEF StoresHold
<1> QED BY <1>2, <1>3, AddedHolds

LEMMA ProjectsHold ==
    ASSUME MockInv, NEW p \in ProjectIds, CreateProject(p) \/ UpdateProject(p) \/ DeleteProject(p)
    PROVE  MockInv'
<1>0. /\ Now \in Nat \ {0} /\ StoresHold(store, Now) /\ p \in Nat \ {0}
      /\ "project" \in MockKinds \ ReferKinds /\ ReferKinds \subseteq MockKinds
      /\ {"404"} \in SUBSET MockCodes /\ "ok" \in MockCodes
  BY RequestBegins, MockAssumption, TheMockKinds DEF ReferKinds, MockCodes
<1>1. CASE CreateProject(p)
  <2> DEFINE tab == With(store["project"], p, Record(p, 0, Now, 0))
             t == [store EXCEPT !["project"] = tab]
  <2>1. Record(p, 0, Now, 0) \in Records(Now)
    BY <1>0, RecordTyped
  <2>2. Table(tab, Now)
    BY <1>0, <2>1, WithTyped DEF StoresHold, Typed
  <2>3. WithValidation("project", t)
    BY <1>1 DEF CreateProject
  <2> HIDE DEF tab
  <2>4. Typed(t, Now) /\ \A k \in ReferKinds : t[k] = store[k]
    BY <1>0, <2>2 DEF StoresHold, Typed
  <2> HIDE DEF t
  <2> QED BY <1>0, <2>3, <2>4, OthersHold, Validates
<1>2. CASE UpdateProject(p)
  BY <1>0, <1>2, Validates, Refuses DEF UpdateProject
<1>3. CASE DeleteProject(p)
  <2>1. CASE p \notin IdsOf(store, "project")
    BY <1>0, <1>3, <2>1, Refuses DEF DeleteProject
  <2>2. CASE p \in IdsOf(store, "project")
    <3> DEFINE u == Removed(store, "project", {p})
               t == DeleteProjectData(u, p)
    <3>1. Handle("deleteProject", "ok", t)
      BY <1>3, <2>2 DEF DeleteProject
    <3>2. StoresHold(u, Now)
      BY <1>0, OtherRemoved
    <3> HIDE DEF u
    <3>3. /\ DOMAIN t = MockKinds
          /\ \A k \in MockKinds : DOMAIN t[k] \subseteq DOMAIN u[k] /\ \A i \in DOMAIN t[k] : t[k][i] = u[k][i]
      BY DEF DeleteProjectData, Restrict, IdsOf, OfProject
    <3>4. t["log"] = u["log"]
      BY TheMockKinds DEF DeleteProjectData, DeletedWithProject, PulseKinds
    <3> HIDE DEF t
    <3>5. Typed(t, Now)
      BY <3>2, <3>3 DEF StoresHold, Typed, Table
    <3>6. RunsShow(t)
      <4>1. \A r \in IdsOf(t, "run") : r \in IdsOf(u, "run") /\ t["run"][r] = u["run"][r]
        BY <3>3, TheMockKinds DEF IdsOf
      <4>2. \A r \in IdsOf(t, "run") : OwnLogs(t, r) = OwnLogs(u, r)
        BY <3>4, <4>1 DEF OwnLogs, ChildrenOf, IdsOf
      <4> QED BY <3>2, <3>4, <4>1, <4>2 DEF StoresHold, RunsShow
    <3> QED BY <1>0, <3>1, <3>5, <3>6, RequestEnds
  <2> QED BY <2>1, <2>2
<1> QED BY <1>1, <1>2, <1>3

\* A test case, with a step that refers to it or without.
LEMMA WithCaseHolds ==
    ASSUME NEW s, StoresHold(s, Now), requests \in Nat, NEW p \in ProjectIds, NEW module \in Nat,
           NEW hasStep \in BOOLEAN
    PROVE  StoresHold(WithCase(s, p, module, hasStep, Now), Now)
<1> DEFINE id == NextId(s, "case")
           step == Record(p, id, Now, Now)
           stepped == IF hasStep THEN Insert(s, "step", step) ELSE s
           case == Record(p, module, Now, BirthOf(s, "module", module))
           t == Insert(stepped, "case", case)
<1>0. /\ Now \in Nat \ {0} /\ Typed(s, Now) /\ ReferKinds \subseteq MockKinds
      /\ "case" \in MockKinds \ {"rule", "feature"} /\ "step" \in MockKinds \ {"rule", "feature"}
      /\ "module" \in MockKinds /\ "run" \in MockKinds /\ "log" \in MockKinds
      /\ WithCase(s, p, module, hasStep, Now) = t
  BY TheMockKinds DEF Now, StoresHold, ReferKinds, WithCase
<1>1. id \in Nat \ {0} /\ id \notin IdsOf(s, "case")
  BY <1>0, NextIdIsNew
<1>2. step \in Records(Now) /\ step.ref = id /\ step.refBirth = Now
  BY <1>0, <1>1, RecordTyped
<1>3. case \in Records(Now) /\ case.birth = Now
  BY <1>0, BirthTyped, RecordTyped
<1>4. /\ Typed(stepped, Now)
      /\ \A j \in MockKinds \ {"step"} : stepped[j] = s[j]
      /\ Keeps(s, stepped, "step")
      /\ \A i \in NewIds(s, stepped, "step") : stepped["step"][i] = step
  <2>1. CASE hasStep
    <3>1. Typed(stepped, Now) /\ Brings(s, stepped, "step", NextId(s, "step"), step)
      BY <1>0, <1>2, <2>1, InsertAdds
    <3>2. NextId(s, "step") \notin IdsOf(s, "step")
      BY <1>0, NextIdIsNew
    <3> HIDE DEF stepped, step
    <3>3. Keeps(s, stepped, "step") /\ NewIds(s, stepped, "step") = {NextId(s, "step")}
      BY <1>0, <3>1, <3>2, AddsKeeps
    <3> QED BY <3>1, <3>3 DEF Brings
  <2>2. CASE ~hasStep
    BY <1>0, <2>2, SameKeeps
  <2> QED BY <2>1, <2>2
<1> HIDE DEF step, stepped, case
<1>5. NextId(stepped, "case") = id
  BY <1>0, <1>4 DEF NextId, IdsOf
<1>6. Typed(t, Now) /\ Brings(stepped, t, "case", id, case)
  BY <1>0, <1>3, <1>4, <1>5, InsertAdds
<1> HIDE DEF t, id
<1>7. /\ IdsOf(t, "case") = IdsOf(s, "case") \cup {id} /\ t["case"][id] = case
      /\ \A i \in IdsOf(s, "case") : t["case"][i] = s["case"][i]
      /\ \A j \in MockKinds \ {"case"} : t[j] = stepped[j]
      /\ \A j \in MockKinds \ {"case", "step"} : t[j] = s[j]
  BY <1>0, <1>1, <1>4, <1>6 DEF Brings, IdsOf
<1>8. \A j \in MockKinds : Keeps(s, t, j)
  <2>1. Keeps(s, t, "case")
    BY <1>7 DEF Keeps
  <2>2. Keeps(s, t, "step")
    BY <1>0, <1>4, <1>7 DEF Keeps, IdsOf
  <2> QED BY <1>7, <2>1, <2>2, SameKeeps
<1>9. NewRefer(s, t)
  <2>1. \A j \in MockKinds \ {"case", "step"} : NewIds(s, t, j) = {}
    BY <1>7, SameKeeps
  <2>2. \A i \in NewIds(s, t, "step") : RefersTo(t, "case", t["step"][i])
    BY <1>0, <1>2, <1>3, <1>4, <1>7 DEF NewIds, IdsOf, RefersTo
  <2> QED BY <1>0, <2>1, <2>2 DEF NewRefer, ReferKinds
<1>10. KeepsAll(s, t) /\ t["run"] = s["run"] /\ t["log"] = s["log"]
  BY <1>0, <1>7, <1>8 DEF KeepsAll
<1> QED BY <1>0, <1>6, <1>9, <1>10, RestHolds

LEMMA Codes ==
    /\ {"400"} \in SUBSET MockCodes /\ {"404"} \in SUBSET MockCodes /\ "ok" \in MockCodes /\ "500" \in MockCodes
    /\ {"401", "429", "500"} \in SUBSET MockCodes
BY DEF MockCodes

\* What a handler starts from.
LEMMA Starts ==
    ASSUME MockInv
    PROVE  /\ Now \in Nat \ {0} /\ StoresHold(store, Now) /\ Typed(store, Now) /\ requests \in Nat
           /\ \A k \in MockKinds : \A id : BirthOf(store, k, id) \in 0..Now
BY RequestBegins, BirthTyped DEF MockInv, StoresHold

LEMMA SimulatedHolds == ASSUME MockInv, SimulatedError PROVE MockInv'
BY Codes, Refuses DEF SimulatedError

\* A record with no owner, of a kind nothing refers to.
LEMMA PlainInserted ==
    ASSUME MockInv, NEW k \in MockKinds \ ReferKinds, NEW p \in ProjectIds
    PROVE  StoresHold(Insert(store, k, Record(p, 0, Now, 0)), Now)
BY Starts, RecordTyped, OtherInserted

LEMMA KnownUpdated ==
    ASSUME MockInv, NEW k \in MockKinds \ {"run", "log"}, NEW id, NEW p \in ProjectIds, UpdateKnown(k, id, p)
    PROVE  MockInv'
<1>1. CASE id \notin IdsOf(store, k)
  BY <1>1, Codes, Refuses DEF UpdateKnown
<1>2. CASE id \in IdsOf(store, k)
  <2> DEFINE t == [store EXCEPT ![k][id].proj = p]
  <2>1. WithValidation(k, t)
    BY <1>2 DEF UpdateKnown
  <2>2. StoresHold(t, Now)
    BY <1>2, Starts, ProjectSet
  <2> HIDE DEF t
  <2> QED BY <2>1, <2>2, Validates
<1> QED BY <1>1, <1>2

LEMMA ModuleHolds ==
    ASSUME MockInv, NEW p \in ProjectIds, NEW owner \in Nat, CreateModule(p, owner)
    PROVE  MockInv'
<1> DEFINE r == Record(p, owner, Now, BirthOf(store, "module", owner))
           t == Insert(store, "module", r)
<1>0. "module" \in MockKinds \ ReferKinds
  BY TheMockKinds DEF ReferKinds
<1>1. r \in Records(Now)
  BY <1>0, Starts, RecordTyped
<1>2. StoresHold(t, Now)
  <2> HIDE DEF r
  <2> QED BY <1>0, <1>1, OtherInserted
<1>3. Handle("module", "ok", t)
  BY DEF CreateModule
<1> HIDE DEF t
<1> QED BY <1>2, <1>3, Codes, Answers

LEMMA CaseHolds ==
    ASSUME MockInv, NEW p \in ProjectIds, NEW module \in Nat, NEW hasStep \in BOOLEAN,
           CreateCase(p, module, hasStep)
    PROVE  MockInv'
<1> DEFINE t == WithCase(store, p, module, hasStep, Now)
<1>1. StoresHold(t, Now)
  BY Starts, WithCaseHolds
<1>2. Handle("case", "ok", t) \/ Refuse("case", {"400"})
  BY DEF CreateCase
<1> HIDE DEF t
<1> QED BY <1>1, <1>2, Codes, Answers, Refuses

LEMMA ReleaseInserted ==
    ASSUME NEW s, StoresHold(s, Now), requests \in Nat, NEW k \in {"release", "parameter", "dataset"},
           NEW p \in ProjectIds
    PROVE  StoresHold(Insert(s, k, Record(p, 0, Now, 0)), Now)
<1>1. k \in ReferKinds \ {"run", "log"} /\ Now \in Nat \ {0}
  BY DEF ReferKinds, Now
<1>2. Record(p, 0, Now, 0) \in Records(Now)
  BY <1>1, RecordTyped
<1> QED BY <1>1, <1>2, Inserted

LEMMA ReleasesHold ==
    ASSUME MockInv, NEW p \in ProjectIds, NEW id \in Nat,
           CreateRelease(p) \/ UpdateRelease(id, p) \/ DeleteRelease(id)
    PROVE  MockInv'
<1>1. CASE CreateRelease(p)
  BY <1>1, Starts, ReleaseInserted, Validates DEF CreateRelease
<1>2. CASE UpdateRelease(id, p)
  BY <1>2, TheMockKinds, KnownUpdated DEF UpdateRelease
<1>3. CASE DeleteRelease(id)
  <2>1. CASE id \in IdsOf(store, "release") /\ ChildrenOf(store, "cycle", id) = {}
    <3> DEFINE t == Removed(store, "release", {id})
    <3>1. Handle("deleteRelease", "ok", t)
      BY <1>3, <2>1 DEF DeleteRelease
    <3>2. StoresHold(t, Now)
      BY <2>1, Starts, ReleaseRemoved
    <3> HIDE DEF t
    <3> QED BY <3>1, <3>2, Codes, Answers
  <2>2. CASE ~ (id \in IdsOf(store, "release") /\ ChildrenOf(store, "cycle", id) = {})
    BY <1>3, <2>2, Codes, Refuses DEF DeleteRelease
  <2> QED BY <2>1, <2>2
<1> QED BY <1>1, <1>2, <1>3

LEMMA CycleHolds ==
    ASSUME MockInv, NEW p \in ProjectIds, NEW release \in Nat, CreateCycle(p, release)
    PROVE  MockInv'
<1> DEFINE r == Record(p, release, Now, BirthOf(store, "release", release))
           t == Insert(store, "cycle", r)
<1>0. "cycle" \in ReferKinds \ {"run", "log"} /\ "release" \in MockKinds
  BY TheMockKinds DEF ReferKinds
<1>1. r \in Records(Now) /\ r.ref = release /\ r.refBirth = BirthOf(store, "release", release)
  BY <1>0, Starts, RecordTyped
<1>2. Handle("cycle", "ok", t)
  BY DEF CreateCycle
<1> HIDE DEF r
<1>3. r.refBirth # 0 => RefersTo(store, "release", r)
  BY <1>1, BirthRefers
<1>4. StoresHold(t, Now)
  BY <1>0, <1>1, <1>3, Starts, Inserted
<1> HIDE DEF t
<1> QED BY <1>2, <1>4, Codes, Answers

LEMMA RemovedHolds ==
    ASSUME MockInv, NEW k \in MockKinds \ ReferKinds, NEW op, NEW id,
           \/ Handle(op, "ok", Removed(store, k, {id}))
           \/ Refuse(op, {"404"})
    PROVE  MockInv'
<1> DEFINE t == Removed(store, k, {id})
<1>1. StoresHold(t, Now)
  BY Starts, OtherRemoved
<1>2. Handle(op, "ok", t) \/ Refuse(op, {"404"})
  OBVIOUS
<1> HIDE DEF t
<1> QED BY <1>1, <1>2, Codes, Answers, Refuses

LEMMA FieldsHold ==
    ASSUME MockInv, NEW p \in ProjectIds, NEW id, CreateField(p) \/ UpdateField(id, p) \/ DeleteField(id)
    PROVE  MockInv'
<1>0. "field" \in MockKinds \ ReferKinds /\ "field" \notin {"run", "log"}
  BY TheMockKinds DEF ReferKinds
<1>1. CASE CreateField(p)
  BY <1>0, <1>1, PlainInserted, Validates DEF CreateField
<1>2. CASE UpdateField(id, p)
  BY <1>0, <1>2, KnownUpdated DEF UpdateField
<1>3. CASE DeleteField(id)
  BY <1>0, <1>3, RemovedHolds DEF DeleteField
<1> QED BY <1>1, <1>2, <1>3

-----------------------------------------------------------------------------

LEMMA PulseHolds ==
    ASSUME MockInv, NEW p \in ProjectIds, NEW id,
           \/ CreateRule(p) \/ CreateTrigger(p) \/ CreateAction(p) \/ CreateConstant(p) \/ CreateFeature(p)
           \/ UpdateRule(id, p) \/ DeleteRule(id) \/ UpdateTrigger(id, p) \/ DeleteTrigger(id)
           \/ UpdateAction(id, p) \/ DeleteAction(id) \/ UpdateConstant(id, p) \/ DeleteConstant(id)
    PROVE  MockInv'
<1>0. PulseKinds \subseteq MockKinds \ ReferKinds
  BY TheMockKinds DEF ReferKinds, PulseKinds
<1>1. ASSUME NEW k \in PulseKinds, Handle(k, "ok", Insert(store, k, Record(p, 0, Now, 0)))
      PROVE  MockInv'
  BY <1>0, <1>1, PlainInserted, Codes, Answers
<1>2. ASSUME NEW k \in PulseKinds, UpdatePulse(k, id, p)
      PROVE  MockInv'
  <2>1. CASE id \in IdsOf(store, k)
    <3> DEFINE t == [store EXCEPT ![k][id].proj = p]
    <3>1. Handle(k, "ok", t)
      BY <1>2, <2>1 DEF UpdatePulse
    <3>2. k \in MockKinds \ {"run", "log"}
      BY <1>0 DEF ReferKinds
    <3>3. StoresHold(t, Now)
      BY <2>1, <3>2, Starts, ProjectSet
    <3> HIDE DEF t
    <3> QED BY <3>1, <3>3, Codes, Answers
  <2>2. CASE id \notin IdsOf(store, k)
    BY <1>2, <2>2, Codes, Refuses DEF UpdatePulse
  <2> QED BY <2>1, <2>2
<1>3. ASSUME NEW k \in PulseKinds, DeletePulse(k, id)
      PROVE  MockInv'
  BY <1>0, <1>3, RemovedHolds DEF DeletePulse
<1>4. {"rule", "trigger", "action", "constant", "feature"} = PulseKinds
  BY DEF PulseKinds
<1>5. CASE \E k \in PulseKinds : Handle(k, "ok", Insert(store, k, Record(p, 0, Now, 0)))
  BY <1>1, <1>5
<1>6. CASE \E k \in PulseKinds : UpdatePulse(k, id, p) \/ DeletePulse(k, id)
  BY <1>2, <1>3, <1>6
<1>7. \/ \E k \in PulseKinds : Handle(k, "ok", Insert(store, k, Record(p, 0, Now, 0)))
      \/ \E k \in PulseKinds : UpdatePulse(k, id, p) \/ DeletePulse(k, id)
  <2>1. CASE CreateRule(p) \/ CreateTrigger(p) \/ CreateAction(p) \/ CreateConstant(p) \/ CreateFeature(p)
    BY <1>4, <2>1 DEF CreateRule, CreateTrigger, CreateAction, CreateConstant, CreateFeature
  <2>2. CASE UpdateRule(id, p) \/ UpdateTrigger(id, p) \/ UpdateAction(id, p) \/ UpdateConstant(id, p)
    BY <1>4, <2>2 DEF UpdateRule, UpdateTrigger, UpdateAction, UpdateConstant
  <2>3. CASE DeleteRule(id) \/ DeleteTrigger(id) \/ DeleteAction(id) \/ DeleteConstant(id)
    BY <1>4, <2>3 DEF DeleteRule, DeleteTrigger, DeleteAction, DeleteConstant
  <2> QED BY <2>1, <2>2, <2>3
<1> QED BY <1>5, <1>6, <1>7

-----------------------------------------------------------------------------

LEMMA RunMade ==
    ASSUME NEW s, StoresHold(s, Now), requests \in Nat, NEW p \in ProjectIds, NEW case \in Nat
    PROVE  StoresHold(Insert(s, "run", Record(p, case, Now, BirthOf(s, "case", case))), Now)
<1> DEFINE r == Record(p, case, Now, BirthOf(s, "case", case))
           t == Insert(s, "run", r)
<1>0. /\ "run" \in MockKinds \ {"rule", "feature"} /\ "case" \in MockKinds
      /\ Now \in Nat \ {0} /\ Typed(s, Now)
  BY TheMockKinds DEF Now, StoresHold
<1>1. BirthOf(s, "case", case) \in 0..Now
  BY <1>0, BirthTyped
<1>2. /\ r \in Records(Now) /\ r.ref = case /\ r.birth = Now
      /\ r.refBirth = BirthOf(s, "case", case)
  BY <1>0, <1>1, RecordTyped
<1> HIDE DEF r
<1>3. r.refBirth # 0 => RefersTo(s, "case", r)
  BY <1>2, BirthRefers
<1>4. Typed(t, Now) /\ Brings(s, t, "run", NextId(s, "run"), r)
  BY <1>0, <1>2, InsertAdds
<1>5. NextId(s, "run") \notin IdsOf(s, "run")
  BY <1>0, NextIdIsNew
<1> QED BY <1>2, <1>3, <1>4, <1>5, RunAdded DEF r

LEMMA RunHolds ==
    ASSUME MockInv, NEW p \in ProjectIds, NEW case \in Nat, CreateRun(p, case)
    PROVE  MockInv'
<1> DEFINE t == Insert(store, "run", Record(p, case, Now, BirthOf(store, "case", case)))
<1>1. StoresHold(t, Now)
  BY Starts, RunMade
<1>2. Handle("run", "ok", t)
  BY DEF CreateRun
<1> HIDE DEF t
<1> QED BY <1>1, <1>2, Codes, Answers

LEMMA AttachmentHolds ==
    ASSUME MockInv, NEW p \in ProjectIds, NEW object \in Nat, UploadAttachment(p, object)
    PROVE  MockInv'
<1> DEFINE r == Record(p, object, Now, 0)
           t == Insert(store, "attachment", r)
<1>0. "attachment" \in MockKinds \ ReferKinds
  BY TheMockKinds DEF ReferKinds
<1>1. r \in Records(Now)
  BY Starts, RecordTyped
<1>2. StoresHold(t, Now)
  <2> HIDE DEF r
  <2> QED BY <1>0, <1>1, OtherInserted
<1>3. Handle("attachment", "ok", t)
  BY DEF UploadAttachment
<1> HIDE DEF t
<1> QED BY <1>2, <1>3, Codes, Answers

\* The log that WithLog stores.
LogOf(s, run, outcome, steps) ==
    [Record(0, run, Now, BirthOf(s, "run", run)) EXCEPT !.status = outcome, !.steps = steps]

LEMMA LogStored ==
    ASSUME NEW s, Typed(s, Now), requests \in Nat, NEW run \in Nat, NEW outcome \in LogStates,
           NEW steps \in SUBSET Nat
    PROVE  /\ LogOf(s, run, outcome, steps).ref = run
           /\ LogOf(s, run, outcome, steps).refBirth = BirthOf(s, "run", run)
           /\ LogOf(s, run, outcome, steps).status = outcome /\ LogOf(s, run, outcome, steps).steps = steps
           /\ Typed(WithLog(s, run, outcome, steps, Now), Now)
           /\ Brings(s, WithLog(s, run, outcome, steps, Now), "log", NextId(s, "log"),
                   LogOf(s, run, outcome, steps))
           /\ NextId(s, "log") \in Nat /\ \A m \in IdsOf(s, "log") : m < NextId(s, "log")
           /\ NextId(s, "log") \notin IdsOf(s, "log")
<1> DEFINE log == LogOf(s, run, outcome, steps)
<1>0. "log" \in MockKinds \ {"rule", "feature"} /\ "run" \in MockKinds /\ Now \in Nat \ {0}
  BY TheMockKinds DEF Now
<1>1. BirthOf(s, "run", run) \in 0..Now
  BY <1>0, BirthTyped
<1>2. /\ log \in Records(Now) /\ log.ref = run /\ log.refBirth = BirthOf(s, "run", run)
      /\ log.status = outcome /\ log.steps = steps
  <2> DEFINE plain == Record(0, run, Now, BirthOf(s, "run", run))
  <2>0. 0 \in ProjectIds \cup {0} /\ Now \in 1..Now
    BY <1>0
  <2>1. plain \in Records(Now) /\ plain.ref = run /\ plain.refBirth = BirthOf(s, "run", run)
    BY <1>0, <1>1, <2>0, RecordTyped
  <2>2. log = [plain EXCEPT !.status = outcome, !.steps = steps]
    BY DEF LogOf
  <2> HIDE DEF plain, log
  <2> QED BY <2>1, <2>2 DEF Records
<1>3. WithLog(s, run, outcome, steps, Now) = Insert(s, "log", log)
  BY DEF WithLog, LogOf
<1> HIDE DEF log
<1>4. Typed(Insert(s, "log", log), Now) /\ Brings(s, Insert(s, "log", log), "log", NextId(s, "log"), log)
  BY <1>0, <1>2, InsertAdds
<1>5. /\ NextId(s, "log") \in Nat \ {0} /\ NextId(s, "log") \notin IdsOf(s, "log")
      /\ \A m \in IdsOf(s, "log") : m < NextId(s, "log")
  BY <1>0, NextIdIsNew
<1> QED BY <1>2, <1>3, <1>4, <1>5 DEF log

LEMMA LogMade ==
    ASSUME NEW s, StoresHold(s, Now), requests \in Nat, NEW run \in IdsOf(s, "run"),
           NEW outcome \in LogStates, NEW steps \in SUBSET Nat,
           NoProjectDeleted /\ mode.validation => StepsFit(s, LogOf(s, run, outcome, steps))
    PROVE  StoresHold(WithStatus(WithLog(s, run, outcome, steps, Now), run, outcome), Now)
<1> DEFINE u == WithLog(s, run, outcome, steps, Now)
           log == LogOf(s, run, outcome, steps)
           l == NextId(s, "log")
<1>1. Typed(s, Now) /\ run \in Nat
  BY TheMockKinds DEF StoresHold, Typed, Table, IdsOf
<1>2. /\ log.ref = run /\ log.refBirth = BirthOf(s, "run", run) /\ log.status = outcome
      /\ Typed(u, Now) /\ Brings(s, u, "log", l, log) /\ l \in Nat /\ \A m \in IdsOf(s, "log") : m < l
  BY <1>1, LogStored
<1>3. log.refBirth = s["run"][run].birth
  BY <1>2 DEF BirthOf
<1>4. NoProjectDeleted /\ mode.validation => StepsFit(s, log)
  OBVIOUS
<1> HIDE DEF u, log, l
<1> QED BY <1>2, <1>3, <1>4, LogAdded DEF u

LEMMA LogHolds ==
    ASSUME MockInv, NEW run, NEW outcome \in LogStates, NEW steps \in SUBSET Nat, SubmitLog(run, outcome, steps)
    PROVE  MockInv'
<1> DEFINE case == store["run"][run].ref
           log == LogOf(store, run, outcome, steps)
           t == WithStatus(WithLog(store, run, outcome, steps, Now), run, outcome)
<1>1. CASE run \notin IdsOf(store, "run")
  BY <1>1, Codes, Refuses DEF SubmitLog
<1>2. CASE run \in IdsOf(store, "run")
            /\ mode.validation /\ case # 0 /\ ~(steps \subseteq ChildrenOf(store, "step", case))
  BY <1>2, Codes, Refuses DEF SubmitLog
<1>3. CASE run \in IdsOf(store, "run")
            /\ ~ (mode.validation /\ case # 0 /\ ~(steps \subseteq ChildrenOf(store, "step", case)))
  <2>1. run \in IdsOf(store, "run") /\ run \in Nat
    BY <1>3, Starts, TheMockKinds DEF Typed, Table, IdsOf
  <2>2. /\ log.ref = run /\ log.steps = steps
    BY <2>1, Starts, LogStored
  <2>3. ASSUME NoProjectDeleted, mode.validation PROVE StepsFit(store, log)
    <3> HIDE DEF log
    <3>1. SUFFICES ASSUME store["run"][run].refBirth # 0, NEW step \in steps
                   PROVE  /\ step \in IdsOf(store, "step")
                          /\ store["step"][step].refBirth = store["run"][run].refBirth
      BY <2>1, <2>2 DEF StepsFit
    <3>2. RecordsRefer(store)
      BY <2>3 DEF MockInv
    <3>3. RefersTo(store, "case", store["run"][run])
      BY <2>1, <3>1, <3>2 DEF RecordsRefer, KnownRefer
    <3>4. case # 0
      BY <3>3, Starts, TheMockKinds DEF RefersTo, IdsOf, Typed, Table
    <3>5. step \in IdsOf(store, "step") /\ store["step"][step].ref = case
      BY <1>3, <2>3, <3>4 DEF ChildrenOf
    <3>6. RefersTo(store, "case", store["step"][step])
      BY <3>2, <3>5 DEF RecordsRefer, AllRefer
    <3> QED BY <3>3, <3>5, <3>6 DEF RefersTo
  <2>4. StoresHold(t, Now)
    BY <2>1, <2>3, Starts, LogMade
  <2>5. Handle("log", "ok", t) \/ Refuse("log", {"400"})
    BY <1>3 DEF SubmitLog
  <2> HIDE DEF t
  <2> QED BY <2>4, <2>5, Codes, Answers, Refuses
<1> QED BY <1>1, <1>2, <1>3

\* An entry of the logs of automation, whatever becomes of it.
LEMMA AutoLogHolds ==
    ASSUME NEW s, StoresHold(s, Now), requests \in Nat, NEW p \in ProjectIds, NEW case \in Nat,
           NEW run \in Nat, NEW outcome \in LogStates
    PROVE  StoresHold(AutoLog(s, p, case, run, outcome, Now).s, Now)
<1> DEFINE cycles == {c \in OfProject(s, "cycle", p) : s["cycle"][c].status = "Automation"}
           cycle == [Record(p, 0, Now, 0) EXCEPT !.status = "Automation"]
           cycled == IF cycles # {} THEN s ELSE Insert(s, "cycle", cycle)
           made == Insert(cycled, "run", Record(p, case, Now, BirthOf(s, "case", case)))
           ran == IF run # 0 THEN cycled ELSE made
           target == IF run # 0 THEN run ELSE NextId(cycled, "run")
           logged == WithLog(ran, target, outcome, {}, Now)
<1>0. /\ "cycle" \in ReferKinds \ {"run", "log"} /\ "cycle" \in MockKinds /\ "case" \in MockKinds
      /\ "run" \in MockKinds \ {"rule", "feature"} /\ "log" \in MockKinds \ {"rule", "feature"}
      /\ Now \in Nat \ {0} /\ Typed(s, Now)
  BY TheMockKinds DEF ReferKinds, Now, StoresHold
<1>1. cycle \in Records(Now) /\ cycle.refBirth = 0
  BY <1>0 DEF Record, Records
<1>2. StoresHold(cycled, Now) /\ cycled["case"] = s["case"]
  <2>1. CASE cycles # {}
    BY <2>1
  <2>2. CASE cycles = {}
    <3> HIDE DEF cycle
    <3>1. StoresHold(Insert(s, "cycle", cycle), Now)
      BY <1>0, <1>1, Inserted
    <3>2. Brings(s, Insert(s, "cycle", cycle), "cycle", NextId(s, "cycle"), cycle)
      BY <1>0, <1>1, InsertAdds
    <3>3. Insert(s, "cycle", cycle)["case"] = s["case"]
      BY <1>0, <3>2 DEF Brings
    <3> QED BY <2>2, <3>1, <3>3
  <2> QED BY <2>1, <2>2
<1>3. /\ AutoLog(s, p, case, run, outcome, Now).s =
           IF case \notin IdsOf(s, "case") THEN s
           ELSE IF target \notin IdsOf(ran, "run") THEN logged ELSE WithStatus(logged, target, outcome)
  BY DEF AutoLog
<1> HIDE DEF cycles, cycle, cycled
<1>4. BirthOf(s, "case", case) = BirthOf(cycled, "case", case)
  BY <1>2 DEF BirthOf, IdsOf
<1>5. StoresHold(made, Now)
  BY <1>2, <1>4, RunMade
<1> HIDE DEF made
<1>6. StoresHold(ran, Now) /\ Typed(ran, Now)
  BY <1>2, <1>5 DEF StoresHold
<1>7. target \in Nat
  <2>1. Typed(cycled, Now)
    BY <1>2 DEF StoresHold
  <2> QED BY <1>0, <2>1, NextIdIsNew
<1> HIDE DEF ran, target
<1>8. CASE target \notin IdsOf(ran, "run")
  <2> DEFINE log == LogOf(ran, target, outcome, {})
  <2>1. /\ log.ref = target /\ log.refBirth = BirthOf(ran, "run", target) /\ log.steps = {}
        /\ Typed(logged, Now) /\ Brings(ran, logged, "log", NextId(ran, "log"), log)
        /\ NextId(ran, "log") \notin IdsOf(ran, "log")
    BY <1>6, <1>7, LogStored
  <2>2. log.refBirth = 0
    BY <1>8, <2>1 DEF BirthOf
  <2> HIDE DEF log, logged
  <2>3. StoresHold(logged, Now)
    BY <1>0, <1>6, <1>8, <2>1, <2>2, StrayLogAdded
  <2> QED BY <1>3, <1>8, <2>3
<1>9. CASE target \in IdsOf(ran, "run")
  <2>0. {} \in SUBSET Nat
    OBVIOUS
  <2>1. LogOf(ran, target, outcome, {}).steps = {}
    BY <1>6, <1>7, <2>0, LogStored
  <2>2. StepsFit(ran, LogOf(ran, target, outcome, {}))
    BY <2>1 DEF StepsFit
  <2>3. StoresHold(WithStatus(logged, target, outcome), Now)
    BY <1>6, <1>9, <2>2, LogMade
  <2> HIDE DEF logged
  <2> QED BY <1>3, <1>9, <2>3
<1> QED BY <1>8, <1>9

LEMMA AutoCaseHolds ==
    ASSUME MockInv, NEW p \in ProjectIds, NEW outcome \in LogStates
    PROVE  StoresHold(AutoCase(store, p, outcome, Now).s, Now)
<1> DEFINE roots == {m \in OfProject(store, "module", p) : store["module"][m].ref = 0}
           module == IF roots # {} THEN Min(roots) ELSE NextId(store, "module")
           housed == IF roots # {} THEN store ELSE Insert(store, "module", Record(p, 0, Now, 0))
           cased == WithCase(housed, p, module, FALSE, Now)
<1>0. "module" \in MockKinds \ ReferKinds /\ "module" \notin {"rule", "feature"} /\ "case" \in MockKinds
      /\ "case" \notin {"rule", "feature"}
  BY TheMockKinds DEF ReferKinds
<1>1. StoresHold(housed, Now) /\ requests \in Nat
  BY <1>0, Starts, PlainInserted
<1>2. module \in Nat
  <2>1. CASE roots # {}
    <3>1. roots \in SUBSET Nat
      BY Starts, TheMockKinds DEF OfProject, IdsOf, Typed, Table
    <3>2. PICK m \in roots : \A n \in roots : m <= n
      <4> HIDE DEF roots
      <4> QED BY <2>1, <3>1, SmallestOf
    <3>3. Min(roots) \in roots
      BY <3>2 DEF Min
    <3> QED BY <2>1, <3>1, <3>3
  <2>2. CASE roots = {}
    BY <1>0, <2>2, Starts, NextIdIsNew
  <2> QED BY <2>1, <2>2
<1>3. AutoCase(store, p, outcome, Now) = AutoLog(cased, p, NextId(housed, "case"), 0, outcome, Now)
  BY DEF AutoCase
<1> HIDE DEF housed, module
<1>4. StoresHold(cased, Now)
  BY <1>1, <1>2, WithCaseHolds
<1>5. NextId(housed, "case") \in Nat
  BY <1>0, <1>1, NextIdIsNew DEF StoresHold
<1> HIDE DEF cased
<1> QED BY <1>1, <1>3, <1>4, <1>5, AutoLogHolds

LEMMA AutomationHolds ==
    ASSUME MockInv, NEW p \in ProjectIds, NEW case \in Nat, NEW run \in Nat, NEW outcome \in LogStates,
           SubmitAutoLog(p, case, run, outcome) \/ SubmitAutoCases(p, outcome, run)
    PROVE  MockInv'
<1>1. CASE SubmitAutoLog(p, case, run, outcome)
  <2> DEFINE t == AutoLog(store, p, case, run, outcome, Now)
  <2>1. StoresHold(t.s, Now)
    BY Starts, AutoLogHolds
  <2>2. Handle("auto", "500", t.s) \/ Handle("auto", "ok", t.s)
    BY <1>1 DEF SubmitAutoLog
  <2> HIDE DEF t
  <2> QED BY <2>1, <2>2, Codes, Answers
<1>2. CASE SubmitAutoCases(p, outcome, run)
  <2> DEFINE first == AutoCase(store, p, outcome, Now).s
             t == AutoLog(first, p, NextId(store, "case"), run, outcome, Now)
             code == IF t.code = "raised" THEN "500" ELSE "ok"
  <2>1. StoresHold(first, Now)
    BY AutoCaseHolds
  <2>2. NextId(store, "case") \in Nat
    BY Starts, TheMockKinds, NextIdIsNew
  <2>3. Handle("auto", code, t.s)
    BY <1>2 DEF SubmitAutoCases
  <2> HIDE DEF first
  <2>4. StoresHold(t.s, Now)
    BY <2>1, <2>2, Starts, AutoLogHolds
  <2>5. code \in MockCodes
    BY Codes
  <2> HIDE DEF t, code
  <2> QED BY <2>3, <2>4, <2>5, Answers
<1> QED BY <1>1, <1>2

-----------------------------------------------------------------------------

\* A row or a value for the record that was just made, or one that is there.
LEMMA ChildMade ==
    ASSUME NEW s, StoresHold(s, Now), requests \in Nat,
           NEW k, NEW owner, <<k, owner>> \in {<<"row", "dataset">>, <<"value", "parameter">>},
           NEW id \in IdsOf(s, owner)
    PROVE  StoresHold(Insert(s, k, Record(0, id, Now, s[owner][id].birth)), Now)
<1> DEFINE r == Record(0, id, Now, s[owner][id].birth)
<1>1. /\ k \in ReferKinds \ {"run", "log"} /\ owner \in MockKinds /\ Now \in Nat \ {0}
      /\ \/ (k = "row" /\ owner = "dataset")
         \/ (k = "value" /\ owner = "parameter")
  <2>1. \/ (k = "row" /\ owner = "dataset")
        \/ (k = "value" /\ owner = "parameter")
    OBVIOUS
  <2>2. {k, owner} \subseteq ReferKinds \ {"run", "log"} /\ ReferKinds \subseteq MockKinds
    BY <2>1, TheMockKinds DEF ReferKinds
  <2> QED BY <2>1, <2>2 DEF Now
<1>2. id \in Nat /\ s[owner][id].birth \in 1..Now
  <2>1. Table(s[owner], Now)
    BY <1>1 DEF StoresHold, Typed
  <2>2. id \in Nat /\ s[owner][id] \in Records(Now)
    BY <2>1 DEF Table, IdsOf
  <2> QED BY <2>2 DEF Records
<1>3. r \in Records(Now) /\ r.ref = id /\ r.refBirth = s[owner][id].birth
  <2> DEFINE birth == s[owner][id].birth
  <2>1. birth \in 0..Now /\ Now \in 1..Now /\ Now \in Nat \ {0}
    BY <1>1, <1>2
  <2> HIDE DEF birth
  <2>2. r = Record(0, id, Now, birth) /\ 0 \in ProjectIds \cup {0} /\ id \in Nat
    BY <1>2 DEF birth
  <2> HIDE DEF r
  <2>3. /\ Record(0, id, Now, birth) \in Records(Now) /\ Record(0, id, Now, birth).ref = id
        /\ Record(0, id, Now, birth).refBirth = birth
    BY <2>1, <2>2, RecordTyped
  <2> QED BY <2>2, <2>3 DEF birth
<1> HIDE DEF r
<1>4. RefersTo(s, owner, r)
  BY <1>3 DEF RefersTo
<1> QED BY <1>1, <1>3, <1>4, Inserted DEF r

\* A parameter or a data set, with a child at once or without.
LEMMA ParentMade ==
    ASSUME MockInv, NEW p \in ProjectIds, NEW hasChild \in BOOLEAN,
           NEW k, NEW owner, <<k, owner>> \in {<<"row", "dataset">>, <<"value", "parameter">>},
           Handle(owner, "ok",
                  IF hasChild
                  THEN Insert(Insert(store, owner, Record(p, 0, Now, 0)), k,
                              Record(0, NextId(store, owner), Now, Now))
                  ELSE Insert(store, owner, Record(p, 0, Now, 0)))
    PROVE  MockInv'
<1> DEFINE r == Record(p, 0, Now, 0)
           s == Insert(store, owner, r)
           id == NextId(store, owner)
           t == IF hasChild THEN Insert(s, k, Record(0, id, Now, Now)) ELSE s
<1>1. owner \in {"parameter", "dataset"} /\ owner \in MockKinds
  BY TheMockKinds
<1>2. StoresHold(s, Now) /\ requests \in Nat
  BY <1>1, Starts, ReleaseInserted
<1>3. r \in Records(Now) /\ r.birth = Now
  BY Starts, RecordTyped
<1> HIDE DEF r
<1>4. id \in IdsOf(s, owner) /\ s[owner][id] = r
  BY <1>1, <1>3, Starts, InsertAdds DEF Brings
<1>5. Handle(owner, "ok", t)
  BY DEF r
<1> HIDE DEF s, id
<1>6. StoresHold(Insert(s, k, Record(0, id, Now, s[owner][id].birth)), Now)
  BY <1>2, <1>4, ChildMade
<1>7. StoresHold(t, Now)
  BY <1>2, <1>3, <1>4, <1>6
<1> HIDE DEF t
<1> QED BY <1>5, <1>7, Codes, Answers

LEMMA ChildHolds ==
    ASSUME MockInv,
           NEW k, NEW owner, <<k, owner>> \in {<<"row", "dataset">>, <<"value", "parameter">>}, NEW id,
           IF id \notin IdsOf(store, owner) THEN Refuse(k, {"404"})
           ELSE Handle(k, "ok", Insert(store, k, Record(0, id, Now, BirthOf(store, owner, id))))
    PROVE  MockInv'
<1>1. CASE id \notin IdsOf(store, owner)
  BY <1>1, Codes, Refuses
<1>2. CASE id \in IdsOf(store, owner)
  <2> DEFINE t == Insert(store, k, Record(0, id, Now, store[owner][id].birth))
  <2>1. Handle(k, "ok", t)
    BY <1>2 DEF BirthOf
  <2>2. StoresHold(t, Now)
    BY <1>2, Starts, ChildMade
  <2> HIDE DEF t
  <2> QED BY <2>1, <2>2, Codes, Answers
<1> QED BY <1>1, <1>2

LEMMA ParametersHold ==
    ASSUME MockInv, NEW p \in ProjectIds, NEW id, NEW row, NEW more \in BOOLEAN,
           \/ CreateParameter(p, more) \/ CreateDataset(p, more)
           \/ CreateValue(id) \/ CreateRow(id) \/ UpdateDataset(id, p) \/ DeleteDataset(id)
           \/ UpdateRow(id, row) \/ DeleteRow(id, row)
    PROVE  MockInv'
<1> DEFINE children == {<<"row", "dataset">>, <<"value", "parameter">>}
<1>1. CASE CreateParameter(p, more)
  <2>1. <<"value", "parameter">> \in children
    OBVIOUS
  <2> HIDE DEF children
  <2> QED BY <1>1, <2>1, ParentMade DEF CreateParameter, children
<1>2. CASE CreateDataset(p, more)
  <2>1. <<"row", "dataset">> \in children
    OBVIOUS
  <2> HIDE DEF children
  <2> QED BY <1>2, <2>1, ParentMade DEF CreateDataset, children
<1>3. CASE CreateValue(id)
  BY <1>3, ChildHolds DEF CreateValue
<1>4. CASE CreateRow(id)
  BY <1>4, ChildHolds DEF CreateRow
<1>5. CASE UpdateDataset(id, p)
  BY <1>5, TheMockKinds, KnownUpdated DEF UpdateDataset
<1>6. CASE DeleteDataset(id)
  <2> DEFINE t == Removed(Removed(store, "row", ChildrenOf(store, "row", id)), "dataset", {id})
  <2>1. StoresHold(t, Now)
    BY Starts, DatasetRemoved
  <2>2. Handle("deleteDataset", "ok", t) \/ Refuse("deleteDataset", {"404"})
    BY <1>6 DEF DeleteDataset
  <2> HIDE DEF t
  <2> QED BY <2>1, <2>2, Codes, Answers, Refuses
<1>7. CASE UpdateRow(id, row)
  BY <1>7, Starts, Codes, Validates, Refuses DEF UpdateRow
<1>8. CASE DeleteRow(id, row)
  <2> DEFINE t == Removed(store, "row", {row})
  <2>1. StoresHold(t, Now)
    BY Starts, RowsRemoved
  <2>2. Handle("deleteRow", "ok", t) \/ Refuse("deleteRow", {"404"})
    BY <1>8 DEF DeleteRow
  <2> HIDE DEF t
  <2> QED BY <2>1, <2>2, Codes, Answers, Refuses
<1> QED BY <1>1, <1>2, <1>3, <1>4, <1>5, <1>6, <1>7, <1>8

-----------------------------------------------------------------------------

LEMMA MockStarts == MockInit => MockInv
<1> SUFFICES ASSUME MockInit PROVE MockInv
  OBVIOUS
<1>1. /\ requests = 0 /\ answer.code = "ok" /\ DOMAIN store = MockKinds
      /\ \A k \in MockKinds : store[k] \in {NoRecords, Sample(0), Sample(1)}
      /\ store["log"] = NoRecords /\ store["step"] = Sample(1) /\ store["run"] = Sample(1)
      /\ store["cycle"] = Sample(1) /\ store["row"] = Sample(1) /\ store["value"] = Sample(1)
      /\ store["release"] = Sample(0) /\ store["case"] = Sample(0) /\ store["dataset"] = Sample(0)
      /\ store["parameter"] = Sample(0)
  BY TheMockKinds DEF MockInit
<1>2. /\ DOMAIN NoRecords = {}
      /\ \A ref \in {0, 1} : DOMAIN Sample(ref) = {1} /\ Sample(ref)[1] = Record(1, ref, 1, ref)
  BY DEF NoRecords, Sample
<1>3. \A ref \in {0, 1} : /\ Record(1, ref, 1, ref) \in Records(1)
                          /\ Record(1, ref, 1, ref).ref = ref /\ Record(1, ref, 1, ref).birth = 1
                          /\ Record(1, ref, 1, ref).refBirth = ref
  BY MockAssumption DEF Records, Record
<1>4. Table(NoRecords, 1) /\ Table(Sample(0), 1) /\ Table(Sample(1), 1)
  <2>1. Table(NoRecords, 1)
    BY <1>2 DEF Table
  <2>2. ASSUME NEW ref \in {0, 1} PROVE Table(Sample(ref), 1)
    BY <1>2, <1>3 DEF Table
  <2> QED BY <2>1, <2>2
<1>5. Typed(store, requests + 1)
  BY <1>1, <1>4 DEF Typed
<1>6. RunsShow(store) /\ LogsFit(store)
  BY <1>1, <1>2 DEF RunsShow, LogsFit, OwnLogs, ChildrenOf, IdsOf
<1>7. RecordsRefer(store)
  BY <1>1, <1>2, <1>3 DEF RecordsRefer, KnownRefer, AllRefer, RefersTo, IdsOf
<1> QED BY <1>1, <1>5, <1>6, <1>7 DEF MockInv, MockCodes

LEMMA MockSteps == MockInv /\ [MockNext]_mockVars => MockInv'
<1> SUFFICES ASSUME MockInv, [MockNext]_mockVars PROVE MockInv'
  OBVIOUS
<1>0. MockIds \subseteq Nat /\ \A id \in MockIds : id \in Nat
  BY DEF MockIds
<1>1. CASE SimulatedError
  BY <1>1, SimulatedHolds
<1>2. CASE \E p \in ProjectIds : CreateProject(p) \/ UpdateProject(p) \/ DeleteProject(p)
  BY <1>2, ProjectsHold
<1>3. CASE Planning
  <2> SUFFICES ASSUME NEW p \in ProjectIds, NEW id \in MockIds,
                      \/ \E owner \in {0, 1} : CreateModule(p, owner)
                      \/ \E hasStep \in BOOLEAN : CreateCase(p, id, hasStep)
                      \/ CreateRelease(p) \/ UpdateRelease(id, p) \/ DeleteRelease(id)
                      \/ \E release \in {0} \cup MockIds : CreateCycle(p, release)
                      \/ CreateField(p) \/ UpdateField(id, p) \/ DeleteField(id)
               PROVE  MockInv'
    BY <1>3 DEF Planning
  <2>1. CASE \E owner \in {0, 1} : CreateModule(p, owner)
    BY <2>1, ModuleHolds
  <2>2. CASE \E hasStep \in BOOLEAN : CreateCase(p, id, hasStep)
    BY <1>0, <2>2, CaseHolds
  <2>3. CASE CreateRelease(p) \/ UpdateRelease(id, p) \/ DeleteRelease(id)
    BY <1>0, <2>3, ReleasesHold
  <2>4. CASE \E release \in {0} \cup MockIds : CreateCycle(p, release)
    BY <1>0, <2>4, CycleHolds
  <2>5. CASE CreateField(p) \/ UpdateField(id, p) \/ DeleteField(id)
    BY <2>5, FieldsHold
  <2> QED BY <2>1, <2>2, <2>3, <2>4, <2>5
<1>4. CASE Execution
  <2> SUFFICES ASSUME NEW p \in ProjectIds, NEW id \in MockIds,
                      \/ CreateCase(p, id, TRUE) \/ CreateRun(p, id) \/ UploadAttachment(p, id)
                      \/ \E outcome \in LogStates :
                           \/ \E steps \in SUBSET MockIds : SubmitLog(id, outcome, steps)
                           \/ \E run \in {0, 2, 3} : SubmitAutoLog(p, id, run, outcome)
                                                     \/ SubmitAutoCases(p, outcome, run)
               PROVE  MockInv'
    BY <1>4 DEF Execution
  <2>1. CASE CreateCase(p, id, TRUE)
    BY <1>0, <2>1, CaseHolds
  <2>2. CASE CreateRun(p, id) \/ UploadAttachment(p, id)
    BY <1>0, <2>2, RunHolds, AttachmentHolds
  <2>3. ASSUME NEW outcome \in LogStates, NEW steps \in SUBSET MockIds, SubmitLog(id, outcome, steps)
        PROVE  MockInv'
    <3>1. steps \in SUBSET Nat
      BY <1>0
    <3> QED BY <2>3, <3>1, LogHolds
  <2>4. ASSUME NEW outcome \in LogStates, NEW run \in {0, 2, 3},
               SubmitAutoLog(p, id, run, outcome) \/ SubmitAutoCases(p, outcome, run)
        PROVE  MockInv'
    BY <1>0, <2>4, AutomationHolds
  <2> QED BY <2>1, <2>2, <2>3, <2>4
<1>5. CASE Parameters
  <2>1. PICK p \in ProjectIds, id \in MockIds :
          \/ \E more \in BOOLEAN : CreateParameter(p, more) \/ CreateDataset(p, more)
          \/ CreateValue(id) \/ CreateRow(id) \/ UpdateDataset(id, p) \/ DeleteDataset(id)
          \/ \E row \in MockIds : UpdateRow(id, row) \/ DeleteRow(id, row)
    BY <1>5 DEF Parameters
  <2>2. CASE \E more \in BOOLEAN : CreateParameter(p, more) \/ CreateDataset(p, more)
    BY <2>2, ParametersHold
  <2>3. CASE CreateValue(id) \/ CreateRow(id) \/ UpdateDataset(id, p) \/ DeleteDataset(id)
    BY <2>3, TRUE \in BOOLEAN, ParametersHold
  <2>4. CASE \E row \in MockIds : UpdateRow(id, row) \/ DeleteRow(id, row)
    BY <2>4, TRUE \in BOOLEAN, ParametersHold
  <2> QED BY <2>1, <2>2, <2>3, <2>4
<1>6. CASE Pulse
  BY <1>6, PulseHolds DEF Pulse
<1>7. CASE UNCHANGED mockVars
  <2>1. /\ store' = store /\ requests' = requests /\ answer' = answer /\ mode' = mode
        /\ NoProjectDeleted' <=> NoProjectDeleted
    BY <1>7 DEF mockVars, NoProjectDeleted
  <2>2. Typed(store, requests + 1)' <=> Typed(store, requests + 1)
    BY <2>1 DEF Typed, Table, Records
  <2>3. RunsShow(store)' <=> RunsShow(store)
    BY <2>1 DEF RunsShow, OwnLogs, ChildrenOf, IdsOf
  <2>4. RecordsRefer(store)' <=> RecordsRefer(store)
    BY <2>1 DEF RecordsRefer, KnownRefer, AllRefer, RefersTo, IdsOf
  <2>5. LogsFit(store)' <=> LogsFit(store)
    BY <2>1 DEF LogsFit, StepsFit, IdsOf
  <2> QED BY <2>1, <2>2, <2>3, <2>4, <2>5 DEF MockInv
<1> QED BY <1>1, <1>2, <1>3, <1>4, <1>5, <1>6, <1>7 DEF MockNext

LEMMA MockMeans == MockInv => MockSound
<1> SUFFICES ASSUME MockInv PROVE MockSound
  OBVIOUS
<1>0. /\ Typed(store, requests + 1) /\ requests \in Nat /\ answer.code \in MockCodes
      /\ NoProjectDeleted => RecordsRefer(store) /\ (mode.validation => LogsFit(store))
      /\ RunsShow(store)
  BY DEF MockInv
<1>1. MockTypeOK
  BY <1>0 DEF MockTypeOK, Typed, Table, Records, IdsOf, MockCodes
<1>2. CyclesKeepRelease
  BY <1>0 DEF CyclesKeepRelease, RecordsRefer, KnownRefer, RefersTo, BirthOf
<1>3. ChildrenOwned
  <2> SUFFICES ASSUME NoProjectDeleted,
                      NEW k, NEW owner, <<k, owner>> \in {<<"row", "dataset">>, <<"value", "parameter">>},
                      NEW id \in IdsOf(store, k)
               PROVE  BirthOf(store, owner, store[k][id].ref) = store[k][id].refBirth
    BY DEF ChildrenOwned
  <2>1. AllRefer(store, k, owner)
    BY <1>0 DEF RecordsRefer
  <2> QED BY <2>1 DEF AllRefer, RefersTo, BirthOf
<1>4. RunShowsLastLog
  <2> SUFFICES ASSUME NEW r \in IdsOf(store, "run"), OwnLogs(store, r) # {}
               PROVE  store["run"][r].status = store["log"][Max(OwnLogs(store, r))].status
    BY DEF RunShowsLastLog, OwnLogs
  <2> DEFINE own == OwnLogs(store, r)
  <2>1. Table(store["log"], requests + 1)
    BY <1>0, TheMockKinds DEF Typed
  <2>2. PICK m \in Nat : \A l \in IdsOf(store, "log") : l <= m
    BY <2>1 DEF Table, IdsOf
  <2>3. own \subseteq IdsOf(store, "log") /\ IdsOf(store, "log") \subseteq Nat
    BY <2>1 DEF OwnLogs, ChildrenOf, Table, IdsOf
  <2>4. own \in SUBSET Nat /\ own # {} /\ \A l \in own : l <= m
    BY <2>2, <2>3
  <2> HIDE DEF own
  <2>5. Max(own) \in own /\ \A l \in own : l <= Max(own)
    BY <2>4, LargestOf
  <2> QED BY <1>0, <2>5 DEF RunsShow, own
<1>5. LogStepsOfCase
  BY <1>0 DEF LogStepsOfCase, LogsFit, StepsFit
<1> QED BY <1>1, <1>2, <1>3, <1>4, <1>5 DEF MockSound

THEOREM MockIsSound == MockSpec => []MockSound
<1>1. MockInv => MockSound
  BY MockMeans
<1>2. MockInit => MockInv
  BY MockStarts
<1>3. MockInv /\ [MockNext]_mockVars => MockInv'
  BY MockSteps
<1> QED BY <1>1, <1>2, <1>3, PTL DEF MockSpec

\* What ErrorsChangeNothing allows a request.
ChangesRightly == answer'.code # "ok" /\ answer'.op # "auto" => UNCHANGED store

LEMMA RefusalsKeep == ASSUME NEW op, NEW codes, Refuse(op, codes) PROVE ChangesRightly
BY DEF Refuse, Handle, ChangesRightly

LEMMA AnswersMayChange == ASSUME NEW op, NEW s, Handle(op, "ok", s) PROVE ChangesRightly
BY DEF Handle, ChangesRightly

LEMMA ValidationKeeps == ASSUME NEW op, NEW s, WithValidation(op, s) PROVE ChangesRightly
BY RefusalsKeep, AnswersMayChange DEF WithValidation

LEMMA StepChangesRightly == MockNext => ChangesRightly
<1> SUFFICES ASSUME MockNext PROVE ChangesRightly
  OBVIOUS
<1>1. ASSUME NEW k, NEW id, NEW p, UpdateKnown(k, id, p) PROVE ChangesRightly
  BY <1>1, RefusalsKeep, ValidationKeeps DEF UpdateKnown
<1>2. ASSUME NEW p, CreateProject(p) \/ UpdateProject(p) \/ DeleteProject(p) PROVE ChangesRightly
  BY <1>2, RefusalsKeep, AnswersMayChange, ValidationKeeps DEF CreateProject, UpdateProject, DeleteProject
<1>3. CASE SimulatedError
  BY <1>3, RefusalsKeep DEF SimulatedError
<1>4. ASSUME NEW p, NEW id, NEW owner, CreateModule(p, owner) \/ CreateCycle(p, owner) PROVE ChangesRightly
  BY <1>4, AnswersMayChange DEF CreateModule, CreateCycle
<1>5. ASSUME NEW p, NEW id, NEW hasStep, CreateCase(p, id, hasStep) PROVE ChangesRightly
  BY <1>5, AnswersMayChange, RefusalsKeep DEF CreateCase
<1>6. ASSUME NEW p, NEW id,
             \/ CreateRelease(p) \/ UpdateRelease(id, p) \/ DeleteRelease(id)
             \/ CreateField(p) \/ UpdateField(id, p) \/ DeleteField(id)
      PROVE  ChangesRightly
  BY <1>1, <1>6, AnswersMayChange, RefusalsKeep, ValidationKeeps
     DEF CreateRelease, UpdateRelease, DeleteRelease, CreateField, UpdateField, DeleteField
<1>7. ASSUME NEW p, NEW id, CreateRun(p, id) \/ UploadAttachment(p, id) PROVE ChangesRightly
  BY <1>7, AnswersMayChange DEF CreateRun, UploadAttachment
<1>8. ASSUME NEW run, NEW outcome, NEW steps, SubmitLog(run, outcome, steps) PROVE ChangesRightly
  BY <1>8, AnswersMayChange, RefusalsKeep DEF SubmitLog
<1>9. ASSUME NEW p, NEW id, NEW run, NEW outcome, SubmitAutoLog(p, id, run, outcome) \/ SubmitAutoCases(p, outcome, run)
      PROVE  ChangesRightly
  BY <1>9 DEF SubmitAutoLog, SubmitAutoCases, Handle, ChangesRightly
<1>10. ASSUME NEW p, NEW id, NEW row, NEW more,
              \/ CreateParameter(p, more) \/ CreateDataset(p, more) \/ CreateValue(id) \/ CreateRow(id)
              \/ UpdateDataset(id, p) \/ DeleteDataset(id) \/ UpdateRow(id, row) \/ DeleteRow(id, row)
       PROVE  ChangesRightly
  BY <1>1, <1>10, AnswersMayChange, RefusalsKeep, ValidationKeeps
     DEF CreateParameter, CreateDataset, CreateValue, CreateRow, UpdateDataset, DeleteDataset, UpdateRow, DeleteRow
<1>11. ASSUME NEW k, NEW id, NEW p, UpdatePulse(k, id, p) \/ DeletePulse(k, id) PROVE ChangesRightly
  BY <1>11, AnswersMayChange, RefusalsKeep DEF UpdatePulse, DeletePulse
<1>12. CASE Planning
  BY <1>4, <1>5, <1>6, <1>12 DEF Planning
<1>13. CASE Execution
  BY <1>5, <1>7, <1>8, <1>9, <1>13 DEF Execution
<1>14. CASE Parameters
  BY <1>10, <1>14 DEF Parameters
<1>15. CASE Pulse
  BY <1>11, <1>15, AnswersMayChange
     DEF Pulse, CreateRule, CreateTrigger, CreateAction, CreateConstant, CreateFeature, UpdateRule, DeleteRule,
         UpdateTrigger, DeleteTrigger, UpdateAction, DeleteAction, UpdateConstant, DeleteConstant
<1> QED BY <1>2, <1>3, <1>12, <1>13, <1>14, <1>15 DEF MockNext

\* A request that is answered by an error leaves every store as it was.
THEOREM MockErrorsAreHarmless == MockSpec => ErrorsChangeNothing
<1>1. [MockNext]_mockVars => [ChangesRightly]_mockVars
  BY StepChangesRightly
<1>2. ErrorsChangeNothing <=> [][ChangesRightly]_mockVars
  BY DEF ErrorsChangeNothing, ChangesRightly
<1> QED BY <1>1, <1>2, PTL DEF MockSpec

-----------------------------------------------------------------------------
(***************************************************************************)
(* The adaptive batch size.                                                *)
(***************************************************************************)

\* The adaptive batch size stays within its limits.
SizeInLimits == batchSize \in MinBatch .. MaxBatch

LEMMA ClampInLimits == \A n \in Int : Clamp(n) \in MinBatch .. MaxBatch
BY BatchAssumption DEF Clamp

LEMMA SizeStaysInLimits == SizeInLimits /\ [BatchNext]_batchVars => SizeInLimits'
<1> SUFFICES ASSUME SizeInLimits, [BatchNext]_batchVars PROVE SizeInLimits'
  OBVIOUS
<1>1. CASE \E size \in Sizes, kind \in EntityKinds : AddEntity(size, kind)
  BY <1>1 DEF AddEntity, SizeInLimits
<1>2. CASE \E by \in {"size", "adaptive", "kind", "similarity"} : CreateBatches(by)
  BY <1>2 DEF CreateBatches, SizeInLimits
<1>3. ASSUME NEW tenths \in Slow \cup Fast \cup {10}, Adapt(tenths) PROVE SizeInLimits'
  <2>1. batchSize \in Nat /\ tenths \in Nat
    BY BatchAssumption DEF SizeInLimits, Slow, Fast
  <2>2. batchSize * tenths \in Nat
    BY <2>1
  <2>3. (batchSize * tenths) \div 10 \in Int
    BY <2>2
  <2> QED BY <1>3, <2>3, ClampInLimits DEF Adapt, SizeInLimits
<1>4. CASE UNCHANGED batchVars
  BY <1>4 DEF batchVars, SizeInLimits
<1> QED BY <1>1, <1>2, <1>3, <1>4 DEF BatchNext

\* A division that rounds down goes the way of its factor.
LEMMA RoundedTenths ==
    ASSUME NEW n \in Nat, NEW t \in Slow \cup Fast
    PROVE  /\ (n * t) \div 10 \in Nat
           /\ t \in Slow => (n * t) \div 10 <= n
           /\ t \in Fast => (n * t) \div 10 >= n
<1>1. ASSUME NEW m \in Nat PROVE m \div 10 \in Nat /\ 10 * (m \div 10) <= m /\ m < 10 * (m \div 10) + 10
  OBVIOUS
<1>2. t \in {5, 6, 7, 8, 9, 11, 12, 13, 14, 15}
  BY DEF Slow, Fast
<1>3. n * t \in Nat /\ (t \in Slow => n * t <= 10 * n) /\ (t \in Fast => n * t >= 10 * n)
  BY <1>2 DEF Slow, Fast
<1> DEFINE q == (n * t) \div 10
<1>4. q \in Nat /\ 10 * q <= n * t /\ n * t < 10 * q + 10
  BY <1>1, <1>3
<1>5. ASSUME NEW m \in Nat, m >= 10 * n, m < 10 * q + 10 PROVE q >= n
  BY <1>4, <1>5
<1>6. ASSUME NEW m \in Nat, m <= 10 * n, 10 * q <= m PROVE q <= n
  BY <1>4, <1>6
<1> QED BY <1>3, <1>4, <1>5, <1>6

\* The way the size goes in a step.
GoesTheRightWay ==
    /\ \A t \in Slow : Adapt(t) => batchSize' <= batchSize
    /\ \A t \in Fast : Adapt(t) => batchSize' >= batchSize

LEMMA StepGoesTheRightWay == SizeInLimits => GoesTheRightWay
<1> SUFFICES ASSUME SizeInLimits, NEW t \in Slow \cup Fast, Adapt(t)
             PROVE  (t \in Slow => batchSize' <= batchSize) /\ (t \in Fast => batchSize' >= batchSize)
  BY DEF GoesTheRightWay
<1> DEFINE q == (batchSize * t) \div 10
<1>1. batchSize \in Nat /\ MinBatch \in Nat /\ MaxBatch \in Nat /\ MinBatch <= batchSize /\ batchSize <= MaxBatch
  BY BatchAssumption DEF SizeInLimits
<1>2. q \in Nat /\ (t \in Slow => q <= batchSize) /\ (t \in Fast => q >= batchSize)
  BY <1>1, RoundedTenths
<1>3. batchSize' = Clamp(q)
  BY DEF Adapt
<1> HIDE DEF q
<1> QED BY <1>1, <1>2, <1>3 DEF Clamp

\* The batch size follows the time of the batches, for all that rounding and the limits do.
THEOREM AdaptationIsRight == BatchSpec => AdaptsTheRightWay
<1>1. BatchInit => SizeInLimits
  BY BatchAssumption DEF BatchInit, SizeInLimits
<1>2. SizeInLimits /\ [BatchNext]_batchVars => SizeInLimits'
  BY SizeStaysInLimits
<1>3. SizeInLimits => [GoesTheRightWay]_batchVars
  BY StepGoesTheRightWay
<1>4. AdaptsTheRightWay <=> [][GoesTheRightWay]_batchVars
  BY DEF AdaptsTheRightWay, GoesTheRightWay
<1> QED BY <1>1, <1>2, <1>3, <1>4, PTL DEF BatchSpec

-----------------------------------------------------------------------------
(***************************************************************************)
(* The validation manager.                                                 *)
(***************************************************************************)

\* A bag of finitely many issues.
FiniteBag(B) == IsFiniteSet(DOMAIN B) /\ \A i \in DOMAIN B : B[i] \in Nat

\* The values of a function on a finite set.
LEMMA FiniteImage ==
    ASSUME NEW S, IsFiniteSet(S), NEW f, DOMAIN f = S
    PROVE  IsFiniteSet({f[x] : x \in S})
<1> DEFINE T == {f[x] : x \in S}
<1>1. [x \in S |-> f[x]] \in Surjection(S, T)
  BY DEF Surjection
<1> QED BY <1>1, FS_Surjection

LEMMA OccurrencesAre ==
    ASSUME NEW B, NEW l, NEW o
    PROVE  o \in Occurrences(B, l) <=> \E i \in DOMAIN B : i.level = l /\ \E n \in 1 .. B[i] : o = <<i, n>>
BY DEF Occurrences

\* Only finitely many issues are counted.
LEMMA CountedFinite ==
    ASSUME NEW B, FiniteBag(B), NEW l
    PROVE  /\ IsFiniteSet(Occurrences(B, l)) /\ CountAt(B, l) = Cardinality(Occurrences(B, l))
           /\ CountAt(B, l) \in Nat
<1>1. ASSUME NEW i \in DOMAIN B PROVE IsFiniteSet({<<i, n>> : n \in 1 .. B[i]})
  <2> DEFINE f == [n \in 1 .. B[i] |-> <<i, n>>]
  <2>1. IsFiniteSet(1 .. B[i])
    BY FS_Interval DEF FiniteBag
  <2>2. IsFiniteSet({f[n] : n \in 1 .. B[i]})
    BY <2>1, FiniteImage
  <2> QED BY <2>2
<1> DEFINE D == {j \in DOMAIN B : j.level = l}
           g == [i \in D |-> {<<i, n>> : n \in 1 .. B[i]}]
<1>2. IsFiniteSet({g[i] : i \in D})
  <2>1. IsFiniteSet(D)
    BY FS_Subset DEF FiniteBag
  <2>2. DOMAIN g = D
    OBVIOUS
  <2> HIDE DEF D, g
  <2> QED BY <2>1, <2>2, FiniteImage
<1>3. \A T \in {g[i] : i \in D} : IsFiniteSet(T)
  BY <1>1
<1>4. IsFiniteSet(UNION {g[i] : i \in D})
  BY <1>2, <1>3, FS_UNION
<1>5. Occurrences(B, l) = UNION {g[i] : i \in D}
  <2>1. \A i \in D : g[i] = {<<i, n>> : n \in 1 .. B[i]}
    OBVIOUS
  <2>2. \A o : o \in UNION {g[i] : i \in D} <=> \E i \in D : \E n \in 1 .. B[i] : o = <<i, n>>
    <3> HIDE DEF g, D
    <3> QED BY <2>1
  <2>3. \A o : o \in Occurrences(B, l) <=> \E i \in D : \E n \in 1 .. B[i] : o = <<i, n>>
    BY OccurrencesAre
  <2> HIDE DEF g, D
  <2> QED BY <2>2, <2>3
<1> QED BY <1>4, <1>5, FS_CardinalityType DEF CountAt

LEMMA SumFinite ==
    ASSUME NEW B, NEW C, FiniteBag(B), FiniteBag(C)
    PROVE  /\ FiniteBag(B (+) C) /\ DOMAIN (B (+) C) = DOMAIN B \cup DOMAIN C
           /\ \A i \in DOMAIN B \cup DOMAIN C :
                (B (+) C)[i] = (IF i \in DOMAIN B THEN B[i] ELSE 0) + (IF i \in DOMAIN C THEN C[i] ELSE 0)
<1>1. IsFiniteSet(DOMAIN B \cup DOMAIN C)
  BY FS_Union DEF FiniteBag
<1>2. /\ DOMAIN (B (+) C) = DOMAIN B \cup DOMAIN C
      /\ \A i \in DOMAIN B \cup DOMAIN C :
           (B (+) C)[i] = (IF i \in DOMAIN B THEN B[i] ELSE 0) + (IF i \in DOMAIN C THEN C[i] ELSE 0)
  BY DEF (+)
<1>3. \A i \in DOMAIN B \cup DOMAIN C : (B (+) C)[i] \in Nat
  BY <1>2 DEF FiniteBag
<1> QED BY <1>1, <1>2, <1>3 DEF FiniteBag

\* The occurrences of a sum: those of B, and behind them those of C.
LEMMA CountsAdd ==
    ASSUME NEW B, NEW C, FiniteBag(B), FiniteBag(C), NEW l
    PROVE  CountAt(B (+) C, l) = CountAt(B, l) + CountAt(C, l)
<1> DEFINE of(i) == IF i \in DOMAIN B THEN B[i] ELSE 0
           S == Occurrences(B, l)
           T == Occurrences(C, l)
           f == [o \in T |-> <<o[1], of(o[1]) + o[2]>>]
           U == {f[o] : o \in T}
           D == B (+) C
<1>1. /\ FiniteBag(D) /\ DOMAIN D = DOMAIN B \cup DOMAIN C
      /\ \A i \in DOMAIN D : D[i] = of(i) + (IF i \in DOMAIN C THEN C[i] ELSE 0)
  <2>1. /\ FiniteBag(D) /\ DOMAIN D = DOMAIN B \cup DOMAIN C
        /\ \A i \in DOMAIN B \cup DOMAIN C :
             D[i] = (IF i \in DOMAIN B THEN B[i] ELSE 0) + (IF i \in DOMAIN C THEN C[i] ELSE 0)
    BY SumFinite
  <2> HIDE DEF D
  <2> QED BY <2>1
<1>2. \A i : of(i) \in Nat
  BY DEF FiniteBag
<1>3. \A i, n : <<i, n>> \in T <=> i \in DOMAIN C /\ n \in 1 .. C[i] /\ i.level = l
  BY OccurrencesAre
<1>4. \A i, n : <<i, n>> \in S <=> i \in DOMAIN B /\ n \in 1 .. B[i] /\ i.level = l
  BY OccurrencesAre
<1>5. \A i, n : <<i, n>> \in Occurrences(D, l) <=> i \in DOMAIN D /\ n \in 1 .. D[i] /\ i.level = l
  BY OccurrencesAre
<1>6. \A X \in {B, C, D} : \A o \in Occurrences(X, l) : \E i, n : o = <<i, n>>
  BY OccurrencesAre
<1> HIDE DEF D, S, T, of
<1>7. \A o \in U : \E i, n : o = <<i, of(i) + n>> /\ <<i, n>> \in T
  <2>1. \A o \in T : \E i, n : o = <<i, n>> /\ f[o] = <<i, of(i) + n>>
    BY <1>6 DEF T
  <2> QED BY <2>1
<1>8. \A i, n : <<i, n>> \in T => <<i, of(i) + n>> \in U
  <2> SUFFICES ASSUME NEW i, NEW n, <<i, n>> \in T PROVE <<i, of(i) + n>> \in U
    OBVIOUS
  <2>1. f[<<i, n>>] = <<i, of(i) + n>>
    OBVIOUS
  <2> QED BY <2>1
<1>9. f \in Bijection(T, U)
  <2>1. f \in Surjection(T, U)
    BY DEF Surjection
  <2>2. ASSUME NEW a \in T, NEW b \in T, f[a] = f[b] PROVE a = b
    <3>1. PICK i, n : a = <<i, n>>
      BY <1>6 DEF T
    <3>2. PICK j, m : b = <<j, m>>
      BY <1>6 DEF T
    <3>3. <<i, of(i) + n>> = <<j, of(j) + m>>
      BY <2>2, <3>1, <3>2
    <3>4. i = j /\ of(i) + n = of(i) + m
      BY <3>3
    <3>5. n \in Nat /\ m \in Nat
      BY <1>3, <3>1, <3>2 DEF FiniteBag
    <3> QED BY <1>2, <3>1, <3>2, <3>4, <3>5
  <2> HIDE DEF f, U
  <2>3. f \in [T -> U]
    BY <2>1 DEF Surjection
  <2>4. f \in Injection(T, U)
    BY <2>2, <2>3 DEF Injection, IsInjective
  <2> QED BY <2>1, <2>4 DEF Bijection
<1> HIDE DEF U, f
<1>10. IsFiniteSet(S) /\ IsFiniteSet(T) /\ CountAt(B, l) = Cardinality(S) /\ CountAt(C, l) = Cardinality(T)
       /\ CountAt(D, l) = Cardinality(Occurrences(D, l)) /\ Cardinality(S) \in Nat /\ Cardinality(T) \in Nat
  BY <1>1, CountedFinite DEF S, T
<1>11. IsFiniteSet(U) /\ Cardinality(U) = Cardinality(T)
  BY <1>9, <1>10, FS_Bijection DEF ExistsBijection
<1>12. S \cap U = {}
  <2> SUFFICES ASSUME NEW o \in S, o \in U PROVE FALSE
    OBVIOUS
  <2>1. PICK i, n : o = <<i, of(i) + n>> /\ <<i, n>> \in T
    BY <1>7
  <2>2. n \in Nat /\ n >= 1 /\ of(i) + n <= of(i)
    BY <1>3, <1>4, <2>1 DEF of, FiniteBag
  <2> QED BY <1>2, <2>2
<1>13. Occurrences(D, l) = S \cup U
  <2>1. ASSUME NEW o \in Occurrences(D, l) PROVE o \in S \cup U
    <3>1. PICK i, n : o = <<i, n>>
      BY <1>6
    <3>2. i \in DOMAIN D /\ n \in 1 .. D[i] /\ i.level = l
      BY <1>5, <3>1
    <3>3. CASE n <= of(i)
      <4>1. i \in DOMAIN B /\ n \in 1 .. B[i]
        BY <1>1, <1>2, <3>2, <3>3 DEF of, FiniteBag
      <4> QED BY <1>4, <3>1, <3>2, <4>1
    <3>4. CASE ~(n <= of(i))
      <4>1. i \in DOMAIN C /\ n - of(i) \in 1 .. C[i] /\ n = of(i) + (n - of(i))
        <5>1. D[i] \in Nat /\ n \in Nat
          BY <1>1, <3>2 DEF FiniteBag
        <5>2. i \in DOMAIN C
          BY <1>1, <1>2, <3>2, <3>4, <5>1
        <5>3. D[i] = of(i) + C[i] /\ C[i] \in Nat
          BY <1>1, <3>2, <5>2 DEF FiniteBag
        <5> QED BY <1>2, <3>2, <3>4, <5>1, <5>2, <5>3
      <4>2. <<i, n - of(i)>> \in T
        BY <1>3, <3>2, <4>1
      <4> QED BY <1>8, <3>1, <4>1, <4>2
    <3> QED BY <3>3, <3>4
  <2>2. ASSUME NEW o \in S PROVE o \in Occurrences(D, l)
    <3>1. PICK i, n : o = <<i, n>>
      BY <1>6 DEF S
    <3>2. i \in DOMAIN B /\ n \in 1 .. B[i] /\ i.level = l /\ of(i) = B[i] /\ B[i] \in Nat
      BY <1>4, <3>1 DEF of, FiniteBag
    <3>3. i \in DOMAIN D /\ D[i] \in Nat /\ D[i] >= B[i]
      BY <1>1, <3>2 DEF FiniteBag
    <3> QED BY <1>5, <3>1, <3>2, <3>3
  <2>3. ASSUME NEW o \in U PROVE o \in Occurrences(D, l)
    <3>1. PICK i, n : o = <<i, of(i) + n>> /\ <<i, n>> \in T
      BY <1>7
    <3>2. i \in DOMAIN C /\ n \in 1 .. C[i] /\ i.level = l /\ C[i] \in Nat
      BY <1>3, <3>1 DEF FiniteBag
    <3>3. i \in DOMAIN D /\ D[i] = of(i) + C[i]
      BY <1>1, <3>2
    <3>4. of(i) + n \in 1 .. D[i]
      BY <1>2, <3>2, <3>3
    <3> QED BY <1>5, <3>1, <3>2, <3>3, <3>4
  <2> QED BY <2>1, <2>2, <2>3
<1>14. Cardinality(S \cup U) = Cardinality(S) + Cardinality(U)
  <2>1. Cardinality(S \cup U) = Cardinality(S) + Cardinality(U) - Cardinality(S \cap U)
    BY <1>10, <1>11, FS_Union
  <2>2. Cardinality(S \cap U) = 0
    BY <1>12, FS_EmptySet
  <2> QED BY <1>10, <1>11, <2>1, <2>2
<1> QED BY <1>10, <1>11, <1>13, <1>14 DEF D

LEMMA PresentCounts ==
    ASSUME NEW B, FiniteBag(B), NEW i \in DOMAIN B, B[i] > 0
    PROVE  CountAt(B, i.level) > 0
<1>1. <<i, 1>> \in Occurrences(B, i.level)
  <2>1. 1 \in 1 .. B[i]
    BY DEF FiniteBag
  <2> QED BY <2>1, OccurrencesAre
<1>2. CountAt(B, i.level) # 0
  BY <1>1, CountedFinite, FS_EmptySet
<1> QED BY <1>2, CountedFinite

-----------------------------------------------------------------------------
\* What a rule finds in one entity is finite.
LEMMA IssuesFinite ==
    ASSUME NEW S, IsFiniteSet(S), NEW rule, NEW level
    PROVE  IsFiniteSet({Issue(rule, f, level) : f \in S})
<1> DEFINE g == [f \in S |-> Issue(rule, f, level)]
<1>1. IsFiniteSet({g[f] : f \in S})
  BY FiniteImage
<1> QED BY <1>1

LEMMA IssueIfFinite ==
    ASSUME NEW condition, NEW rule, NEW about, NEW level
    PROVE  IsFiniteSet(IssueIf(condition, rule, about, level))
BY FS_EmptySet, FS_Singleton DEF IssueIf

LEMMA FewFinite ==
    ASSUME NEW a, NEW b, NEW c, NEW d
    PROVE  IsFiniteSet({a}) /\ IsFiniteSet({a, b}) /\ IsFiniteSet({a, b, c, d})
<1>1. IsFiniteSet({a}) /\ IsFiniteSet({a} \cup {b})
  BY FS_Singleton, FS_AddElement
<1>2. IsFiniteSet({a, b})
  BY <1>1
<1>3. IsFiniteSet(({a, b} \cup {c}) \cup {d})
  BY <1>2, FS_AddElement
<1> QED BY <1>1, <1>2, <1>3

LEMMA FieldRulesFinite ==
    ASSUME NEW rule, NEW entity, NEW fields, IsFiniteSet(fields), NEW context
    PROVE  /\ IsFiniteSet(RequiredFieldRule(rule, entity, fields))
           /\ IsFiniteSet(StringLengthRule(rule, entity, fields))
           /\ IsFiniteSet(PatternMatchRule(rule, entity, fields))
           /\ IsFiniteSet(DataIntegrityRule(rule, fields, context))
<1>1. \A S : S \subseteq fields => IsFiniteSet(S)
  BY FS_Subset
<1>2. IsFiniteSet({g \in fields : entity[g] \in {"absent", "empty"}})
  BY <1>1
<1>3. IsFiniteSet({g \in fields : entity[g] \in {"empty", "long"}})
  BY <1>1
<1>4. IsFiniteSet({g \in fields : entity[g] \notin {"absent", "fits"}})
  BY <1>1
<1>5. IsFiniteSet({g \in fields : context.pair /\ g \in context.differ})
  BY <1>1
<1>6. IsFiniteSet(RequiredFieldRule(rule, entity, fields))
  BY <1>2, IssuesFinite DEF RequiredFieldRule
<1>7. IsFiniteSet(StringLengthRule(rule, entity, fields))
  BY <1>3, IssuesFinite DEF StringLengthRule
<1>8. IsFiniteSet(PatternMatchRule(rule, entity, fields))
  BY <1>4, IssuesFinite DEF PatternMatchRule
<1>9. IsFiniteSet(DataIntegrityRule(rule, fields, context))
  BY <1>5, IssuesFinite DEF DataIntegrityRule
<1> QED BY <1>6, <1>7, <1>8, <1>9

LEMMA OtherRulesFinite ==
    ASSUME NEW rule, NEW a, NEW b, NEW c
    PROVE  /\ IsFiniteSet(AttachmentRule(rule, a, b, c))
           /\ IsFiniteSet(TestStepValidationRule(rule, a))
           /\ IsFiniteSet(CustomFieldRule(rule, a, b))
           /\ IsFiniteSet(ReferentialIntegrityRule(rule, a, b))
           /\ IsFiniteSet(TestStatusMappingRule(rule, a))
           /\ a \in CustomFieldForms => IsFiniteSet(CustomFieldTransformationRule(rule, a))
<1>1. IsFiniteSet(RuleError(rule))
  BY FS_Singleton DEF RuleError
<1>2. IsFiniteSet(AttachmentRule(rule, a, b, c))
  BY <1>1, IssueIfFinite, FS_Union DEF AttachmentRule
<1>3. IsFiniteSet(TestStepValidationRule(rule, a))
  <2>1. IsFiniteSet(IssueIf(a = {}, rule, "steps", "warning")
                    \cup IssueIf("noDescription" \in a, rule, "description", "warning"))
    BY IssueIfFinite, FS_Union
  <2> QED BY <1>1, <2>1, IssueIfFinite, FS_Union DEF TestStepValidationRule
<1>4. IsFiniteSet(CustomFieldRule(rule, a, b))
  BY IssueIfFinite, FS_Union DEF CustomFieldRule
<1>5. IsFiniteSet(ReferentialIntegrityRule(rule, a, b))
  BY IssueIfFinite DEF ReferentialIntegrityRule
<1>6. IsFiniteSet(TestStatusMappingRule(rule, a))
  BY IssueIfFinite DEF TestStatusMappingRule
<1>7. ASSUME a \in CustomFieldForms PROVE IsFiniteSet(CustomFieldTransformationRule(rule, a))
  <2>1. a.form \in {"none", "list", "dict"}
    BY <1>7 DEF CustomFieldForms
  <2>2. IsFiniteSet(a.fields \cap {"emptied", "NUMERIC"}) /\ IsFiniteSet(a.fields \cap {"raises"})
    BY FewFinite, FS_Intersection
  <2>3. IsFiniteSet({Issue(rule, f, "warning") : f \in a.fields \cap {"emptied", "NUMERIC"}})
        /\ IsFiniteSet({Issue(rule, f, "error") : f \in a.fields \cap {"raises"}})
    BY <2>2, IssuesFinite
  <2>4. IsFiniteSet({Issue(rule, f, "warning") : f \in a.fields \cap {"emptied", "NUMERIC"}}
                    \cup {Issue(rule, f, "error") : f \in a.fields \cap {"raises"}})
    BY <2>3, FS_Union
  <2> QED BY <1>1, <2>1, <2>4, FS_EmptySet DEF CustomFieldTransformationRule
<1> QED BY <1>2, <1>3, <1>4, <1>5, <1>6, <1>7

LEMMA ExtractionFinite ==
    ASSUME NEW scope, NEW e PROVE IsFiniteSet(ExtractionRules(scope, e))
<1>1. \A rule : /\ IsFiniteSet(RequiredFieldRule(rule, e, {"key", "name"}))
                /\ IsFiniteSet(RequiredFieldRule(rule, e, {"id", "testCaseId"}))
                /\ IsFiniteSet(PatternMatchRule(rule, e, {"key"}))
  BY FewFinite, FieldRulesFinite
<1>2. \A rule, a : \A b, c : IsFiniteSet(AttachmentRule(rule, a, b, c)) /\ IsFiniteSet(TestStepValidationRule(rule, a))
  BY OtherRulesFinite
<1>3. IsFiniteSet(RequiredFieldRule("test_case_required_fields", e, {"key", "name"})
                  \cup PatternMatchRule("test_case_key_pattern", e, {"key"}))
  BY <1>1, FS_Union
<1>4. IsFiniteSet(AttachmentRule("attachment_size_limit", e, TRUE, FALSE)
                  \cup AttachmentRule("attachment_extension", e, FALSE, TRUE))
  BY <1>2, FS_Union
<1> QED BY <1>1, <1>2, <1>3, <1>4, FS_EmptySet DEF ExtractionRules

LEMMA TransformationFinite ==
    ASSUME NEW scope, NEW e \in EntitiesOf(scope), NEW c,
           scope \in {"project", "folder", "test_case", "test_case_step", "test_cycle", "test_execution",
                      "attachment", "custom_field"}
    PROVE  IsFiniteSet(TransformationRules(scope, e, c))
<1>1. \A rule : /\ IsFiniteSet(StringLengthRule(rule, e, {"name"}))
                /\ IsFiniteSet(DataIntegrityRule(rule, {"name", "description"}, c))
                /\ IsFiniteSet(DataIntegrityRule(rule, {"name", "description", "priority", "status"}, c))
  BY FewFinite, FieldRulesFinite
<1>2. \A rule, a, b : /\ IsFiniteSet(CustomFieldRule(rule, a, b)) /\ IsFiniteSet(ReferentialIntegrityRule(rule, a, b))
                      /\ IsFiniteSet(TestStatusMappingRule(rule, a))
  BY OtherRulesFinite
<1>3. scope \in {"test_case", "test_cycle", "test_execution"} =>
        \A rule : IsFiniteSet(CustomFieldTransformationRule(rule, e.customFields))
  <2>1. scope \in {"test_case", "test_cycle", "test_execution"} => e.customFields \in CustomFieldForms
    BY DEF EntitiesOf
  <2> QED BY <2>1, OtherRulesFinite
<1>4. CASE scope = "test_case"
  <2>1. IsFiniteSet(StringLengthRule("test_case_name_length", e, {"name"})
                    \cup CustomFieldTransformationRule("custom_field_transformation", e.customFields))
    BY <1>1, <1>3, <1>4, FS_Union
  <2>2. IsFiniteSet((StringLengthRule("test_case_name_length", e, {"name"})
                    \cup CustomFieldTransformationRule("custom_field_transformation", e.customFields))
                    \cup ReferentialIntegrityRule("testcase_folder_reference", e.folderId, c))
    BY <1>2, <2>1, FS_Union
  <2> QED BY <1>1, <1>4, <2>2, FS_Union DEF TransformationRules
<1>5. CASE scope = "test_cycle"
  BY <1>1, <1>3, <1>5, FS_Union DEF TransformationRules
<1>6. CASE scope = "test_execution"
  <2>1. IsFiniteSet(TestStatusMappingRule("test_status_mapping", c)
                    \cup CustomFieldTransformationRule("custom_field_transformation_execution", e.customFields))
    BY <1>2, <1>3, <1>6, FS_Union
  <2>2. IsFiniteSet((TestStatusMappingRule("test_status_mapping", c)
                    \cup CustomFieldTransformationRule("custom_field_transformation_execution", e.customFields))
                    \cup ReferentialIntegrityRule("execution_testcase_reference", e.testCaseId, c))
    BY <1>2, <2>1, FS_Union
  <2> QED BY <1>2, <1>6, <2>2, FS_Union DEF TransformationRules
<1>7. CASE scope \notin {"test_case", "test_cycle", "test_execution"}
  BY <1>2, <1>7, FS_EmptySet DEF TransformationRules
<1> QED BY <1>4, <1>5, <1>6, <1>7

LEMMA FindingsFinite ==
    ASSUME NEW phase \in {"extraction", "transformation"},
           NEW scope \in {"project", "folder", "test_case", "test_case_step", "test_cycle", "test_execution",
                          "attachment", "custom_field"},
           NEW contexts, NEW found \in Findings(phase, scope, contexts)
    PROVE  IsFiniteSet(found)
<1>1. PICK e \in EntitiesOf(scope), c \in contexts : found = execute_validation(phase, scope, e, c)
  BY DEF Findings
<1> QED BY <1>1, ExtractionFinite, TransformationFinite DEF execute_validation

LEMMA RepeatedBag ==
    ASSUME NEW n \in Nat, NEW S, IsFiniteSet(S)
    PROVE  FiniteBag(Repeated(n, S)) /\ DOMAIN Repeated(n, S) = S /\ \A i \in S : Repeated(n, S)[i] = n
BY DEF Repeated, FiniteBag

-----------------------------------------------------------------------------
ValInv ==
    /\ FiniteBag(valIssues) /\ FiniteBag(valStored)
    /\ valDb \in {"sqlite", "pg"} /\ valCopies \in {1, 2}
    /\ valSource \in [EntityCounted -> Nat] /\ valMapped \in [EntityCounted -> Nat]
    /\ valLast.passed \in BOOLEAN
    /\ ~valLast.passed => valCounts["critical"] > 0
    /\ ValidationSound

\* A failed verdict is followed by none that passed.
StaysFailed == ~valLast.passed => ~valLast'.passed

LEMMA IssuesAdded ==
    ASSUME ValInv, NEW B, FiniteBag(B), NEW failing, AddIssues(B, failing)
    PROVE  /\ FiniteBag(valIssues)' /\ FiniteBag(valStored)' /\ CountsAgree' /\ StoredIsSubset'
           /\ DOMAIN valIssues' = DOMAIN valIssues \cup DOMAIN B
           /\ \A i \in DOMAIN B : valIssues'[i] >= B[i]
           /\ valCounts'["critical"] >= valCounts["critical"] /\ valCounts'["critical"] \in Nat
           /\ valCounts["critical"] \in Nat
<1>1. /\ valIssues' = valIssues (+) B /\ valStored' \in {valStored (+) B, valStored}
      /\ valCounts' = [l \in Levels |-> valCounts[l] + CountAt(B, l)]
      /\ FiniteBag(valIssues) /\ FiniteBag(valStored)
  BY DEF AddIssues, ValInv
<1>2. /\ FiniteBag(valIssues (+) B) /\ DOMAIN (valIssues (+) B) = DOMAIN valIssues \cup DOMAIN B
      /\ \A i \in DOMAIN valIssues \cup DOMAIN B :
           (valIssues (+) B)[i] = (IF i \in DOMAIN valIssues THEN valIssues[i] ELSE 0) + (IF i \in DOMAIN B THEN B[i] ELSE 0)
  BY <1>1, SumFinite
<1>3. /\ FiniteBag(valStored (+) B) /\ DOMAIN (valStored (+) B) = DOMAIN valStored \cup DOMAIN B
      /\ \A i \in DOMAIN valStored \cup DOMAIN B :
           (valStored (+) B)[i] = (IF i \in DOMAIN valStored THEN valStored[i] ELSE 0) + (IF i \in DOMAIN B THEN B[i] ELSE 0)
  BY <1>1, SumFinite
<1>4. FiniteBag(valIssues') /\ FiniteBag(valStored')
  BY <1>1, <1>2, <1>3
<1>5. /\ \A l \in Levels : /\ valCounts[l] = CountAt(valIssues, l) /\ CountAt(B, l) \in Nat
                           /\ CountAt(valIssues, l) \in Nat
                           /\ CountAt(valIssues (+) B, l) = CountAt(valIssues, l) + CountAt(B, l)
      /\ "critical" \in Levels
  BY <1>1, CountedFinite, CountsAdd DEF ValInv, ValidationSound, CountsAgree, Levels
<1>6. \A l \in Levels : valCounts'[l] = CountAt(valIssues', l)
  BY <1>1, <1>5
<1>7. /\ DOMAIN valStored \subseteq DOMAIN valIssues
      /\ \A i \in DOMAIN valStored : valStored[i] <= valIssues[i]
  BY DEF ValInv, ValidationSound, StoredIsSubset, \sqsubseteq
<1>8. \A i \in DOMAIN B : B[i] \in Nat
  BY DEF FiniteBag
<1>9. \A i \in DOMAIN valIssues : valIssues[i] \in Nat
  BY <1>1 DEF FiniteBag
<1>10. \A i \in DOMAIN valStored : valStored[i] \in Nat
  BY <1>1 DEF FiniteBag
<1>11. /\ DOMAIN valStored' \subseteq DOMAIN valIssues'
       /\ \A i \in DOMAIN valStored' : valStored'[i] <= valIssues'[i]
  <2>1. CASE valStored' = valStored
    BY <1>1, <1>2, <1>7, <1>8, <1>9, <1>10, <2>1
  <2>2. CASE valStored' = valStored (+) B
    BY <1>1, <1>2, <1>3, <1>7, <1>8, <1>9, <1>10, <2>2
  <2> QED BY <1>1, <2>1, <2>2
<1>12. \A i \in DOMAIN B : valIssues'[i] >= B[i]
  BY <1>1, <1>2, <1>8, <1>9
<1>13. /\ valCounts'["critical"] >= valCounts["critical"] /\ valCounts'["critical"] \in Nat
       /\ valCounts["critical"] \in Nat
  BY <1>1, <1>5
<1>14. CountsAgree' /\ StoredIsSubset'
  BY <1>6, <1>11 DEF CountsAgree, StoredIsSubset, CountAt, Occurrences, \sqsubseteq
<1>15. FiniteBag(valIssues)' /\ FiniteBag(valStored)'
  BY <1>4 DEF FiniteBag
<1> QED BY <1>1, <1>2, <1>12, <1>13, <1>14, <1>15

\* A verdict after issues were added: what it says, and what stays.
LEMMA VerdictGiven ==
    ASSUME ValInv, NEW B, FiniteBag(B), NEW failing, AddIssues(B, failing), NEW call, NEW errors,
           Verdict(call, errors)
    PROVE  /\ UNCHANGED <<valDb, valCopies, valSource, valMapped>>
           /\ valLast' = [call |-> call, passed |-> ~(valCounts'["critical"] > 0), failing |-> errors]
           /\ (PassedMeansMigrated' /\ MissingReported' => ValInv')
           /\ StaysFailed
<1>1. /\ UNCHANGED <<valDb, valCopies, valSource, valMapped>>
      /\ valLast' = [call |-> call, passed |-> ~(valCounts'["critical"] > 0), failing |-> errors]
  BY DEF Verdict, has_critical_issues
<1>2. /\ FiniteBag(valIssues)' /\ FiniteBag(valStored)' /\ CountsAgree' /\ StoredIsSubset'
  BY IssuesAdded
<1>3. valLast'.passed \in BOOLEAN /\ (~valLast'.passed => valCounts'["critical"] > 0)
  BY <1>1
<1>4. StaysFailed
  <2> SUFFICES ASSUME ~valLast.passed PROVE valCounts'["critical"] > 0
    BY <1>1 DEF StaysFailed
  <2>1. /\ valCounts'["critical"] >= valCounts["critical"]
        /\ valCounts'["critical"] \in Nat /\ valCounts["critical"] \in Nat
    BY IssuesAdded
  <2>2. valCounts["critical"] > 0
    BY DEF ValInv
  <2> QED BY <2>1, <2>2
<1> QED BY <1>1, <1>2, <1>3, <1>4 DEF ValInv, ValidationSound

LEMMA OtherVerdict ==
    ASSUME ValInv, NEW B, FiniteBag(B), NEW failing, AddIssues(B, failing), NEW call, NEW errors,
           Verdict(call, errors), call # "post"
    PROVE  ValInv' /\ StaysFailed
<1>1. valLast'.call # "post"
  BY VerdictGiven
<1>2. PassedMeansMigrated' /\ MissingReported'
  BY <1>1 DEF PassedMeansMigrated, MissingReported
<1> QED BY <1>2, VerdictGiven

LEMMA EntitiesValidated ==
    ASSUME ValInv, NEW phase \in {"extraction", "transformation"},
           NEW scope \in {"project", "folder", "test_case", "test_case_step", "test_cycle", "test_execution",
                          "attachment", "custom_field"},
           NEW contexts, NEW found \in Findings(phase, scope, contexts),
           AddIssues(Repeated(1, found), {}), Verdict("entities", {})
    PROVE  ValInv' /\ StaysFailed
BY FindingsFinite, RepeatedBag, OtherVerdict

LEMMA PhaseValidated == ASSUME ValInv, AddIssues(EmptyBag, {}), Verdict("phase", {}) PROVE ValInv' /\ StaysFailed
<1>1. FiniteBag(EmptyBag)
  BY FS_EmptySet DEF FiniteBag, EmptyBag, SetToBag
<1> QED BY <1>1, OtherVerdict

LEMMA PreMigrationHolds ==
    ASSUME ValInv, NEW failing \in SUBSET PreChecks, validate_pre_migration(failing)
    PROVE  ValInv' /\ StaysFailed
<1>1. IsFiniteSet(failing)
  BY FewFinite, FS_Subset DEF PreChecks
<1>2. FiniteBag(Repeated(1, {Issue(c, "system", "critical") : c \in failing}))
  <2> DEFINE g == [c \in failing |-> Issue(c, "system", "critical")]
  <2>1. IsFiniteSet({g[c] : c \in failing})
    BY <1>1, FiniteImage
  <2>2. IsFiniteSet({Issue(c, "system", "critical") : c \in failing})
    BY <2>1
  <2> QED BY <2>2, RepeatedBag
<1> QED BY <1>2, OtherVerdict DEF validate_pre_migration

\* What a comparison finds in rows that cannot be read.
LEMMA ComparisonFinite ==
    ASSUME NEW database, NEW name, NEW level, NEW found, IsFiniteSet(found)
    PROVE  IsFiniteSet(Comparison(database, name, level, found))
BY FS_Singleton DEF Comparison

LEMMA ComparisonsFinite ==
    ASSUME NEW database, NEW rows_
    PROVE  /\ IsFiniteSet(validate_critical_entities(database, rows_))
           /\ IsFiniteSet(validate_relationship_integrity(database, rows_))
           /\ IsFiniteSet(validate_custom_field_migration(database, rows_))
           /\ IsFiniteSet(validate_attachment_migration(database, rows_))
<1>1. \A rule, level : /\ {Issue(rule, r, level) : r \in {x \in ReadRows(rows_) : x = "unmapped"}} = {}
                       /\ {Issue(rule, r, level) : r \in {x \in ReadRows(rows_) : x = "mapped"}} = {}
  BY DEF ReadRows
<1>2. \A name, level : IsFiniteSet(Comparison(database, name, level, {}))
  BY ComparisonFinite, FS_EmptySet
<1>3. IsFiniteSet(validate_critical_entities(database, rows_))
  BY <1>1, <1>2 DEF validate_critical_entities
<1>4. IsFiniteSet(validate_custom_field_migration(database, rows_))
  BY <1>1, <1>2 DEF validate_custom_field_migration
<1>5. IsFiniteSet(validate_attachment_migration(database, rows_))
  BY <1>1, <1>2 DEF validate_attachment_migration
<1>6. IsFiniteSet(validate_relationship_integrity(database, rows_))
  <2> DEFINE names == {"testcase_folder", "execution_testcase", "execution_cycle"}
             g == [name \in names |-> Comparison(database, name, "error", {})]
  <2>1. IsFiniteSet(names)
    <3>1. IsFiniteSet({"testcase_folder", "execution_testcase"} \cup {"execution_cycle"})
      BY FewFinite, FS_AddElement
    <3> QED BY <3>1
  <2>2. IsFiniteSet({g[name] : name \in names})
    <3> HIDE DEF names
    <3> QED BY <2>1, FiniteImage
  <2>3. \A T \in {g[name] : name \in names} : IsFiniteSet(T)
    BY <1>2
  <2>4. IsFiniteSet(UNION {g[name] : name \in names})
    BY <2>2, <2>3, FS_UNION
  <2>5. validate_relationship_integrity(database, rows_) = UNION {g[name] : name \in names}
    BY <1>1 DEF validate_relationship_integrity
  <2> QED BY <2>4, <2>5
<1> QED BY <1>3, <1>4, <1>5, <1>6

\* Most of an entity kind that is not mapped is critical.
LEMMA LevelCritical ==
    ASSUME NEW source \in Nat, NEW mapped \in Nat, mapped < source, 5 * (source - mapped) > source
    PROVE  MissingLevel(source, mapped) = "critical"
<1>1. 100 * (source - mapped) > 20 * source
  OBVIOUS
<1>2. ~(100 * (source - mapped) <= 20 * source) /\ ~(100 * (source - mapped) <= 5 * source)
  BY <1>1
<1> QED BY <1>1, <1>2 DEF MissingLevel

LEMMA SystemRulesFinite ==
    ASSUME NEW source, DOMAIN source = EntityCounted, NEW mapped, NEW rows_
    PROVE  /\ IsFiniteSet(SystemRules(source, mapped, rows_)) /\ IsFiniteSet(MissingEntities(source, mapped))
           /\ valDb = "pg" => ValidateEntityCounts(source, mapped) \subseteq SystemRules(source, mapped, rows_)
<1>1. IsFiniteSet(ValidateEntityCounts(source, mapped))
  <2> DEFINE S == {j \in DOMAIN source : source[j] > mapped[j]}
             g == [k \in S |-> Issue("count_mismatch", k, MissingLevel(source[k], mapped[k]))]
  <2>1. IsFiniteSet(S)
    <3>1. S \subseteq EntityCounted
      OBVIOUS
    <3> HIDE DEF S
    <3> QED BY <3>1, ValidationAssumption, FS_Subset
  <2>2. IsFiniteSet({g[k] : k \in S})
    <3>1. DOMAIN g = S
      OBVIOUS
    <3> HIDE DEF g, S
    <3> QED BY <2>1, <3>1, FiniteImage
  <2> QED BY <2>2 DEF ValidateEntityCounts
<1>2. IsFiniteSet(MissingEntities(source, mapped))
  <2> DEFINE S == {j \in EntityCounted : mapped[j] < source[j]}
             g == [k \in S |-> Issue("missing_entities", k, "error")]
  <2>1. IsFiniteSet(S)
    BY ValidationAssumption, FS_Subset
  <2>2. IsFiniteSet({g[k] : k \in S})
    <3>1. DOMAIN g = S
      OBVIOUS
    <3> HIDE DEF g, S
    <3> QED BY <2>1, <3>1, FiniteImage
  <2> QED BY <2>2 DEF MissingEntities
<1> DEFINE counts == IF valDb = "pg" THEN ValidateEntityCounts(source, mapped) ELSE {}
<1>3. IsFiniteSet(counts)
  BY <1>1, FS_EmptySet
<1>4. SystemRules(source, mapped, rows_) =
        (((counts \cup validate_critical_entities(valDb, rows_)) \cup validate_relationship_integrity(valDb, rows_))
         \cup validate_custom_field_migration(valDb, rows_)) \cup validate_attachment_migration(valDb, rows_)
  BY DEF SystemRules
<1> HIDE DEF counts
<1>5. IsFiniteSet(counts \cup validate_critical_entities(valDb, rows_))
  BY <1>3, ComparisonsFinite, FS_Union
<1>6. IsFiniteSet((counts \cup validate_critical_entities(valDb, rows_)) \cup validate_relationship_integrity(valDb, rows_))
  BY <1>5, ComparisonsFinite, FS_Union
<1>7. IsFiniteSet(((counts \cup validate_critical_entities(valDb, rows_)) \cup validate_relationship_integrity(valDb, rows_))
                  \cup validate_custom_field_migration(valDb, rows_))
  BY <1>6, ComparisonsFinite, FS_Union
<1>8. IsFiniteSet(SystemRules(source, mapped, rows_))
  BY <1>4, <1>7, ComparisonsFinite, FS_Union
<1> QED BY <1>2, <1>4, <1>8 DEF counts

LEMMA PostMigrationHolds ==
    ASSUME ValInv, NEW failing, NEW rows_, validate_post_migration(failing, rows_)
    PROVE  ValInv' /\ StaysFailed
<1> DEFINE source == count_entities(failing)
           mapped == count_entity_mappings(failing)
           first == IF valDb = "pg" THEN MissingEntities(source, mapped) ELSE CountErrors
           again == SystemRules(source, mapped, rows_)
           n == valCopies * SystemRuleCount
           B == Repeated(1, first) (+) Repeated(n, again)
<1>1. AddIssues(B, failing) /\ Verdict("post", failing)
  BY DEF validate_post_migration
<1>2. /\ DOMAIN source = EntityCounted
      /\ \A k \in EntityCounted :
           /\ source[k] = IF <<"source", k>> \in failing THEN 0 ELSE valSource[k]
           /\ mapped[k] = IF <<"mapped", k>> \in failing THEN 0 ELSE valMapped[k]
           /\ source[k] \in Nat /\ mapped[k] \in Nat /\ valSource[k] \in Nat /\ valMapped[k] \in Nat
  BY DEF count_entities, count_entity_mappings, ValInv
<1> HIDE DEF source, mapped
<1>3. IsFiniteSet(first) /\ IsFiniteSet(again)
  BY <1>2, SystemRulesFinite, FewFinite DEF CountErrors
<1>4. n \in Nat /\ n > 0
  BY DEF ValInv, SystemRuleCount
<1>5. valDb = "pg" => first = MissingEntities(source, mapped) /\ ValidateEntityCounts(source, mapped) \subseteq again
  BY <1>2, SystemRulesFinite
<1> HIDE DEF first, again, n
<1>6. /\ FiniteBag(Repeated(1, first)) /\ FiniteBag(Repeated(n, again))
      /\ DOMAIN Repeated(1, first) = first /\ DOMAIN Repeated(n, again) = again
      /\ \A i \in again : Repeated(n, again)[i] = n
      /\ \A i \in first : Repeated(1, first)[i] = 1
  BY <1>3, <1>4, RepeatedBag
<1>7. /\ FiniteBag(B) /\ DOMAIN B = first \cup again
      /\ \A i \in again : B[i] > 0
  <2>1. /\ FiniteBag(B) /\ DOMAIN B = first \cup again
        /\ \A i \in first \cup again :
             B[i] = (IF i \in first THEN Repeated(1, first)[i] ELSE 0) + (IF i \in again THEN Repeated(n, again)[i] ELSE 0)
    BY <1>6, SumFinite
  <2> HIDE DEF B
  <2> QED BY <1>4, <1>6, <2>1
<1> HIDE DEF B
<1>8. /\ UNCHANGED <<valDb, valCopies, valSource, valMapped>>
      /\ valLast' = [call |-> "post", passed |-> ~(valCounts'["critical"] > 0), failing |-> failing]
      /\ (PassedMeansMigrated' /\ MissingReported' => ValInv')
  BY <1>1, <1>7, VerdictGiven
<1>9. /\ FiniteBag(valIssues)' /\ CountsAgree' /\ DOMAIN valIssues' = DOMAIN valIssues \cup DOMAIN B
      /\ \A i \in DOMAIN B : valIssues'[i] >= B[i]
  BY <1>1, <1>7, IssuesAdded
<1>10. PassedMeansMigrated'
  <2> SUFFICES ASSUME valLast'.passed, failing = {}, valDb = "pg", NEW k \in EntityCounted,
                      ~(5 * (valSource[k] - valMapped[k]) <= valSource[k])
               PROVE  FALSE
    BY <1>8 DEF PassedMeansMigrated
  <2> DEFINE i == Issue("count_mismatch", k, MissingLevel(source[k], mapped[k]))
  <2>1. source[k] = valSource[k] /\ mapped[k] = valMapped[k]
    BY <1>2
  <2>2. valMapped[k] < valSource[k] /\ 5 * (valSource[k] - valMapped[k]) > valSource[k]
    BY <1>2
  <2>3. i \in ValidateEntityCounts(source, mapped) /\ MissingLevel(source[k], mapped[k]) = "critical"
    BY <1>2, <2>1, <2>2, LevelCritical DEF ValidateEntityCounts
  <2>4. i.level = "critical"
    BY <2>3 DEF Issue
  <2>5. i \in again
    BY <1>5, <2>3
  <2> HIDE DEF i
  <2>6. i \in DOMAIN valIssues' /\ valIssues'[i] > 0
    <3>1. i \in DOMAIN B /\ B[i] > 0 /\ B[i] \in Nat
      BY <1>7, <2>5 DEF FiniteBag
    <3>2. i \in DOMAIN valIssues' /\ valIssues'[i] \in Nat
      BY <1>9, <3>1 DEF FiniteBag
    <3> QED BY <1>9, <3>1, <3>2
  <2>7. FiniteBag(valIssues')
    BY <1>9 DEF FiniteBag
  <2>8. CountAt(valIssues', "critical") > 0
    BY <2>4, <2>6, <2>7, PresentCounts
  <2>9. valCounts'["critical"] = CountAt(valIssues', "critical")
    BY <1>9 DEF CountsAgree, Levels, CountAt, Occurrences
  <2> QED BY <1>8, <2>8, <2>9
<1>11. MissingReported'
  <2> SUFFICES ASSUME NEW k \in EntityCounted, valDb = "pg", <<"source", k>> \notin failing,
                      valMapped[k] = 0, valSource[k] > 0
               PROVE  {Issue("missing_entities", k, "error"), Issue("count_mismatch", k, "critical")}
                        \subseteq DOMAIN valIssues'
    BY <1>8 DEF MissingReported
  <2>1. source[k] = valSource[k] /\ mapped[k] = 0 /\ source[k] > mapped[k]
    BY <1>2
  <2>2. MissingLevel(source[k], mapped[k]) = "critical"
    <3>1. source[k] \in Nat /\ mapped[k] \in Nat /\ source[k] > 0
      BY <1>2, <2>1
    <3>2. \A m \in Nat : m > 0 => 5 * (m - 0) > m
      OBVIOUS
    <3>3. 5 * (source[k] - mapped[k]) > source[k]
      BY <2>1, <3>1, <3>2
    <3> QED BY <2>1, <3>1, <3>3, LevelCritical
  <2>3. Issue("missing_entities", k, "error") \in first
    BY <1>2, <1>5, <2>1 DEF MissingEntities
  <2>4. Issue("count_mismatch", k, "critical") \in again
    BY <1>2, <1>5, <2>1, <2>2 DEF ValidateEntityCounts
  <2> QED BY <1>7, <1>9, <2>3, <2>4
<1>12. StaysFailed
  BY <1>1, <1>7, VerdictGiven
<1> QED BY <1>8, <1>10, <1>11, <1>12

LEMMA MigratesHolds == ASSUME ValInv, NEW k \in EntityCounted, Migrates(k) PROVE ValInv' /\ StaysFailed
<1>1. PICK n \in MappedAmounts : valMapped[k] < n /\ n <= valSource[k] /\ valMapped' = [valMapped EXCEPT ![k] = n]
  BY DEF Migrates
<1>2. UNCHANGED <<valDb, valCopies, valSource, valIssues, valCounts, valStored, valLast, valCalls>>
  BY DEF Migrates
<1>3. n \in Nat /\ valSource \in [EntityCounted -> Nat] /\ valMapped \in [EntityCounted -> Nat]
  BY ValidationAssumption DEF ValInv
<1>4. /\ valMapped' \in [EntityCounted -> Nat]
      /\ \A j \in EntityCounted : valMapped'[j] >= valMapped[j]
  BY <1>1, <1>3
<1>5. PassedMeansMigrated'
  <2> SUFFICES ASSUME valLast.call = "post", valLast.passed, valLast.failing = {}, valDb = "pg",
                      NEW j \in EntityCounted
               PROVE  5 * (valSource[j] - valMapped'[j]) <= valSource[j]
    BY <1>2 DEF PassedMeansMigrated
  <2>1. 5 * (valSource[j] - valMapped[j]) <= valSource[j]
    BY DEF ValInv, ValidationSound, PassedMeansMigrated
  <2>2. valSource[j] \in Nat /\ valMapped[j] \in Nat /\ valMapped'[j] \in Nat /\ valMapped'[j] >= valMapped[j]
    BY <1>3, <1>4
  <2> QED BY <2>1, <2>2
<1>6. MissingReported'
  <2> SUFFICES ASSUME NEW j \in EntityCounted, valLast.call = "post", valDb = "pg",
                      <<"source", j>> \notin valLast.failing, valMapped'[j] = 0, valSource[j] > 0
               PROVE  {Issue("missing_entities", j, "error"), Issue("count_mismatch", j, "critical")}
                        \subseteq DOMAIN valIssues
    BY <1>2 DEF MissingReported
  <2>1. valMapped[j] = 0
    BY <1>3, <1>4
  <2> QED BY <2>1 DEF ValInv, ValidationSound, MissingReported
<1>7. CountsAgree' /\ StoredIsSubset' /\ FiniteBag(valIssues)' /\ FiniteBag(valStored)'
  BY <1>2 DEF ValInv, ValidationSound, CountsAgree, StoredIsSubset, CountAt, Occurrences, \sqsubseteq, FiniteBag
<1>8. StaysFailed
  BY <1>2 DEF StaysFailed
<1> QED BY <1>2, <1>3, <1>4, <1>5, <1>6, <1>7, <1>8 DEF ValInv, ValidationSound

-----------------------------------------------------------------------------

LEMMA ValidationStarts == ValidationInit => ValInv
<1> SUFFICES ASSUME ValidationInit PROVE ValInv
  OBVIOUS
<1>1. FiniteBag(EmptyBag) /\ DOMAIN EmptyBag = {}
  BY FS_EmptySet DEF FiniteBag, EmptyBag, SetToBag
<1>2. \A l : CountAt(EmptyBag, l) = 0
  <2>1. \A l : Occurrences(EmptyBag, l) = {}
    BY <1>1, OccurrencesAre
  <2> QED BY <2>1, FS_EmptySet DEF CountAt
<1>3. CountsAgree
  BY <1>2 DEF ValidationInit, CountsAgree
<1>4. StoredIsSubset
  BY <1>1 DEF ValidationInit, StoredIsSubset, \sqsubseteq
<1>5. PassedMeansMigrated /\ MissingReported
  BY DEF ValidationInit, PassedMeansMigrated, MissingReported
<1>6. valSource \in [EntityCounted -> Nat] /\ valMapped \in [EntityCounted -> Nat]
  BY ValidationAssumption DEF ValidationInit
<1> QED BY <1>1, <1>3, <1>4, <1>5, <1>6 DEF ValidationInit, ValInv, ValidationSound

LEMMA ValidationSteps == ValInv /\ [ValidationNext]_validationVars => ValInv' /\ StaysFailed
<1> SUFFICES ASSUME ValInv, [ValidationNext]_validationVars PROVE ValInv' /\ StaysFailed
  OBVIOUS
<1>1. CASE validate_extraction
  BY <1>1, EntitiesValidated DEF validate_extraction, ValidateData, ExtractedScopes
<1>2. CASE validate_transformation
  BY <1>2, EntitiesValidated DEF validate_transformation, ValidateData, TransformedScopes
<1>3. CASE validate_loading \/ ValidatePhase
  BY <1>3, PhaseValidated DEF validate_loading, ValidatePhase
<1>4. CASE ExecuteValidation
  <2>1. PICK scope \in {"test_case", "test_cycle", "test_execution", "test_case_step", "custom_field"} :
          \E found \in Findings(IF scope = "test_case_step" THEN "extraction" ELSE "transformation", scope, Contexts) :
             AddIssues(Repeated(1, found), {})
    BY <1>4 DEF ExecuteValidation
  <2>2. Verdict("entities", {})
    BY <1>4 DEF ExecuteValidation
  <2> DEFINE phase == IF scope = "test_case_step" THEN "extraction" ELSE "transformation"
  <2>3. phase \in {"extraction", "transformation"}
    OBVIOUS
  <2> HIDE DEF phase
  <2>4. PICK found \in Findings(phase, scope, Contexts) : AddIssues(Repeated(1, found), {})
    BY <2>1 DEF phase
  <2> QED BY <2>2, <2>3, <2>4, EntitiesValidated
<1>5. CASE \E failing \in SUBSET PreChecks : validate_pre_migration(failing)
  BY <1>5, PreMigrationHolds
<1>6. CASE \E failing \in {F \in SUBSET Queries : Cardinality(F) <= 1}, rows_ \in {{}, {"mapped", "unmapped"}} :
             validate_post_migration(failing, rows_)
  BY <1>6, PostMigrationHolds
<1>7. CASE \E k \in EntityCounted : Migrates(k)
  BY <1>7, MigratesHolds
<1>8. CASE UNCHANGED validationVars
  BY <1>8 DEF validationVars, ValInv, ValidationSound, CountsAgree, StoredIsSubset, PassedMeansMigrated,
              MissingReported, FiniteBag, CountAt, Occurrences, \sqsubseteq, StaysFailed
<1> QED BY <1>1, <1>2, <1>3, <1>4, <1>5, <1>6, <1>7, <1>8 DEF ValidationNext

\* The counters are those of the issues, and a passed validation means that most was migrated.
THEOREM ValidationIsSound == ValidationSpec => []ValidationSound
<1>1. ValidationInit => ValInv
  BY ValidationStarts
<1>2. ValInv /\ [ValidationNext]_validationVars => ValInv'
  BY ValidationSteps
<1>3. ValInv => ValidationSound
  BY DEF ValInv
<1> QED BY <1>1, <1>2, <1>3, PTL DEF ValidationSpec

\* A failed validation is final for its manager, whatever is migrated after it: critical
\* issues are only ever added.
THEOREM FailuresAreFinal == ValidationSpec => FailureIsFinal
<1>1. ValidationInit => ValInv
  BY ValidationStarts
<1>2. ValInv /\ [ValidationNext]_validationVars => ValInv'
  BY ValidationSteps
<1>3. ValInv /\ [ValidationNext]_validationVars => [~valLast.passed => ~valLast'.passed]_validationVars
  BY ValidationSteps DEF StaysFailed
<1> QED BY <1>1, <1>2, <1>3, PTL DEF ValidationSpec, FailureIsFinal

-----------------------------------------------------------------------------
(***************************************************************************)
(* The composition: each component's steps are its own, and in every other *)
(* step it rests.                                                          *)
(***************************************************************************)
LEMMA CacheIsAPart == StoresSpec => CacheSpec
<1>1. StoresInit => CacheInit
  BY DEF StoresInit
<1>2. [StoresNext]_storesVars => [CacheNext]_cacheVars
  BY DEF StoresNext, Only, storesVars
<1> QED
  BY <1>1, <1>2, PTL DEF StoresSpec, CacheSpec

LEMMA SqlIsAPart == StoresSpec => SqlSpec
<1>1. StoresInit => SqlInit
  BY DEF StoresInit
<1>2. [StoresNext]_storesVars => [SqlNext]_sqlVars
  BY DEF StoresNext, Only, storesVars
<1> QED
  BY <1>1, <1>2, PTL DEF StoresSpec, SqlSpec

LEMMA PgIsAPart == StoresSpec => PgSpec
<1>1. StoresInit => PgInit
  BY DEF StoresInit
<1>2. [StoresNext]_storesVars => [PgNext]_pgVars
  BY DEF StoresNext, Only, storesVars
<1> QED
  BY <1>1, <1>2, PTL DEF StoresSpec, PgSpec

LEMMA ExporterIsAPart == StoresSpec => ExportSpec
<1>1. StoresInit => ExportInit
  BY DEF StoresInit
<1>2. [StoresNext]_storesVars => [ExportNext]_exportVars
  BY DEF StoresNext, Only, storesVars
<1> QED
  BY <1>1, <1>2, PTL DEF StoresSpec, ExportSpec

LEMMA SessionsAreAPart == StoresSpec => SessionsSpec
<1>1. StoresInit => SessionsInit
  BY DEF StoresInit
<1>2. [StoresNext]_storesVars => [SessionsNext]_sessionVars
  BY DEF StoresNext, Only, storesVars
<1> QED
  BY <1>1, <1>2, PTL DEF StoresSpec, SessionsSpec

LEMMA MockIsAPart == StoresSpec => MockSpec
<1>1. StoresInit => MockInit
  BY DEF StoresInit
<1>2. [StoresNext]_storesVars => [MockNext]_mockVars
  BY DEF StoresNext, Only, storesVars
<1> QED
  BY <1>1, <1>2, PTL DEF StoresSpec, MockSpec

LEMMA BatchIsAPart == StoresSpec => BatchSpec
<1>1. StoresInit => BatchInit
  BY DEF StoresInit
<1>2. [StoresNext]_storesVars => [BatchNext]_batchVars
  BY DEF StoresNext, Only, storesVars
<1> QED
  BY <1>1, <1>2, PTL DEF StoresSpec, BatchSpec

LEMMA ValidationIsAPart == StoresSpec => ValidationSpec
<1>1. StoresInit => ValidationInit
  BY DEF StoresInit
<1>2. [StoresNext]_storesVars => [ValidationNext]_validationVars
  BY DEF StoresNext, Only, storesVars
<1> QED
  BY <1>1, <1>2, PTL DEF StoresSpec, ValidationSpec

\* Whatever else runs beside it, ids that the mock server gives again lead no record to
\* another owner.
THEOREM MockIsSoundAmongStores == StoresSpec => []MockSound
BY MockIsAPart, MockIsSound, PTL

\* Whatever else runs beside it, a validation manager counts what it lists, stores no more than
\* that, and passes a migration only when most of each kind has been migrated.
THEOREM ValidationIsSoundAmongStores == StoresSpec => []ValidationSound
BY ValidationIsAPart, ValidationIsSound, PTL

\* Whatever else runs beside them, no step of the mock server, of the batch sizes, of the
\* validations and of the saves does what such a step may never do.
THEOREM StoresStepsAreSound == StoresSpec => StepsSound
<1>1. StoresSpec => ErrorsChangeNothing
  BY MockIsAPart, MockErrorsAreHarmless, PTL
<1>2. StoresSpec => AdaptsTheRightWay
  BY BatchIsAPart, AdaptationIsRight, PTL
<1>3. StoresSpec => FailureIsFinal
  BY ValidationIsAPart, FailuresAreFinal, PTL
<1>4. StoresSpec => DeletesOnlyExecutions
  BY ExporterIsAPart, DeletionsAreSound, PTL
<1> QED
  BY <1>1, <1>2, <1>3, <1>4 DEF StepsSound

\* Whatever else runs beside them, the threads that share the cache, the labels, the pool of
\* execute_transaction and the session managers find them sound, and the exports stay whole.
THEOREM StoresAreSound == StoresSpec => []StoresSound
<1>1. CacheSound /\ SavesSound /\ ConnectionsSound /\ SessionsSound /\ ExportsSound => StoresSound
  BY DEF StoresSound
<1> QED
  BY <1>1, CacheIsAPart, SqlIsAPart, PgIsAPart, SessionsAreAPart, ExporterIsAPart, CacheIsSound,
     SavesAreSound, ConnectionsAreSound, SessionsAreSound, ExportsAreSound, PTL
=============================================================================
