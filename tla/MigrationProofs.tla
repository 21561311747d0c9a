---------------------------- MODULE MigrationProofs ----------------------------
(***************************************************************************)
(* Proofs about Migration for any project, batch size and number of runs.  *)
(***************************************************************************)
EXTENDS Migration, SequenceTheorems, FiniteSetTheorems, TLAPS

AtWork == pc \in {"stage", "batches", "batch"}

\* A run at work is in a phase that the database says is in progress.
Working == AtWork => phase \in 1..3 /\ status[Current] = "in_progress"

\* Only the entities of the batch at work have any progress.
ItemsOfBatch == \A e \in Entities : item[e] # "idle" => pc = "batch" /\ e \in batch

TypeInv == TypeOK /\ Working /\ ItemsOfBatch

LEMMA CurrentPhase ==
  /\ phase = 1 => Current = "extract"
  /\ phase = 2 => Current = "transform"
  /\ phase = 3 => Current = "load"
BY DEF Current, PhaseOrder

LEMMA CurrentIsPhase == ASSUME phase \in 1..3 PROVE Current \in Phases
BY CurrentPhase DEF Phases

-----------------------------------------------------------------------------
(* Type correctness. *)

LEMMA InitType == Init => TypeInv
BY BoundsAssumption DEF Init, TypeInv, TypeOK, Working, AtWork, ItemsOfBatch, Statuses, ItemState

\* A run that is over leaves a typed state, whatever it did to the database.
LEMMA DownType ==
  ASSUME TypeInv, Down, status' \in [Phases -> Statuses],
         UNCHANGED <<raw, transformed, links, mapping, batches, objects>>
  PROVE  TypeInv'
BY DEF Down, TypeInv, TypeOK, Working, AtWork, ItemsOfBatch, ItemState

LEMMA BatchLeftType ==
  ASSUME TypeInv, NEW s \in {"completed", "failed"}, BatchLeft(s), pc = "batch"
  PROVE  TypeInv'
<1>1. phase \in 1..3 /\ Current \in Phases /\ Current' = Current
  BY CurrentIsPhase DEF TypeInv, Working, AtWork, BatchLeft, Current
<1>2. batches' \in [Phases -> [Entities -> {"none", "pending", "completed", "failed"}]]
  BY <1>1 DEF BatchLeft, TypeInv, TypeOK
<1>3. TypeOK'
  BY <1>2 DEF BatchLeft, TypeInv, TypeOK, ItemState
<1>4. Working' /\ ItemsOfBatch'
  BY <1>1 DEF BatchLeft, TypeInv, Working, AtWork, ItemsOfBatch
<1> QED
  BY <1>3, <1>4 DEF TypeInv

LEMMA NextType == TypeInv /\ [Next]_vars => TypeInv'
<1> SUFFICES ASSUME TypeInv, [Next]_vars PROVE TypeInv'
  OBVIOUS
<1> USE DEF dbVars, runVars
<1>t. TypeOK /\ Working /\ ItemsOfBatch
  BY DEF TypeInv
<1>1. ASSUME NEW ps \in {Phases} \cup {{p} : p \in Phases}, run_migration(ps) PROVE TypeInv'
  <2>1. ps \subseteq Phases
    BY <1>1
  <2>2. runs' \in 0..MaxRuns
    BY <1>1, <1>t, BoundsAssumption DEF run_migration, TypeOK
  <2>3. TypeOK'
    BY <1>1, <1>t, <2>1, <2>2 DEF run_migration, TypeOK
  <2> QED
    BY <1>1, <1>t, <2>3 DEF run_migration, TypeInv, Working, AtWork, ItemsOfBatch
<1>2. ASSUME BeginPhase PROVE TypeInv'
  <2>1. phase \in 1..3 /\ Current \in Phases /\ Current' = Current
    BY <1>2, <1>t, CurrentIsPhase DEF BeginPhase, TypeOK, Current
  <2>2. TypeOK' /\ status'[Current] = "in_progress"
    BY <1>2, <1>t, <2>1 DEF BeginPhase, TypeOK, Statuses
  <2> QED
    BY <1>2, <1>t, <2>1, <2>2 DEF BeginPhase, TypeInv, Working, ItemsOfBatch
<1>3. ASSUME SkipPhase PROVE TypeInv'
  <2>1. phase' \in 1..4
    BY <1>3, <1>t DEF SkipPhase, TypeOK
  <2>2. TypeOK'
    BY <1>3, <1>t, <2>1 DEF SkipPhase, TypeOK
  <2> QED
    BY <1>3, <1>t, <2>2 DEF SkipPhase, TypeInv, Working, AtWork, ItemsOfBatch
<1>4. ASSUME EndPhase PROVE TypeInv'
  <2>1. phase \in 1..3 /\ Current \in Phases
    BY <1>4, <1>t, CurrentIsPhase DEF EndPhase, Working, AtWork
  <2>2. phase' \in 1..4
    BY <1>4, <2>1 DEF EndPhase
  <2>3. TypeOK'
    BY <1>4, <1>t, <2>1, <2>2 DEF EndPhase, TypeOK, Statuses
  <2> QED
    BY <1>4, <1>t, <2>3 DEF EndPhase, TypeInv, Working, AtWork, ItemsOfBatch
<1>5. ASSUME RunEnds PROVE TypeInv'
  BY <1>5, <1>t, DownType DEF RunEnds, TypeOK
<1>6. ASSUME StageBegins PROVE TypeInv'
  <2>1. phase \in 1..3 /\ Current \in Phases /\ Current' = Current
    BY <1>6, <1>t, CurrentIsPhase DEF StageBegins, Working, AtWork, Current
  <2>2. todo' \subseteq Entities
    BY <1>6, <1>t DEF StageBegins, Source, TypeOK
  <2>3. batches' \in [Phases -> [Entities -> {"none", "pending", "completed", "failed"}]]
    BY <1>6, <1>t, <2>1 DEF StageBegins, TypeOK
  <2>4. TypeOK'
    BY <1>6, <1>t, <2>2, <2>3 DEF StageBegins, TypeOK
  <2> QED
    BY <1>6, <1>t, <2>1, <2>4 DEF StageBegins, TypeInv, Working, AtWork, ItemsOfBatch
<1>7. ASSUME StageEnds PROVE TypeInv'
  <2>1. Current' = Current
    BY <1>7 DEF StageEnds, Current
  <2>2. TypeOK'
    BY <1>7, <1>t DEF StageEnds, TypeOK
  <2> QED
    BY <1>7, <1>t, <2>1, <2>2 DEF StageEnds, TypeInv, Working, AtWork, ItemsOfBatch
<1>8. ASSUME BatchBegins PROVE TypeInv'
  <2>1. Current' = Current
    BY <1>8 DEF BatchBegins, Current
  <2>2. PICK b \in SUBSET todo :
              /\ batch' = b /\ todo' = todo \ b
              /\ item' = [e \in Entities |-> IF e \in b THEN "waiting" ELSE "idle"]
    BY <1>8 DEF BatchBegins
  <2>3. TypeOK'
    BY <1>8, <1>t, <2>2 DEF BatchBegins, TypeOK, ItemState
  <2>4. ItemsOfBatch'
    BY <1>8, <2>2 DEF BatchBegins, ItemsOfBatch
  <2>5. Working'
    BY <1>8, <1>t, <2>1 DEF BatchBegins, Working, AtWork
  <2> QED
    BY <2>3, <2>4, <2>5 DEF TypeInv
<1>9. ASSUME BatchCompletes \/ BatchFails PROVE TypeInv'
  BY <1>9, BatchLeftType DEF BatchCompletes, BatchFails, BatchRaises
<1>10. ASSUME SavesBatch PROVE TypeInv'
  <2>1. Current' = Current
    BY <1>10 DEF SavesBatch, Current
  <2>2. TypeOK'
    BY <1>10, <1>t DEF SavesBatch, TypeOK, ItemState
  <2> QED
    BY <1>10, <1>t, <2>1, <2>2 DEF SavesBatch, TypeInv, Working, AtWork, ItemsOfBatch, TypeOK
<1>11. ASSUME NEW e \in Entities, Transforms(e) PROVE TypeInv'
  <2>1. Current' = Current
    BY <1>11 DEF Transforms, Current
  <2>2. (IF e \in Folders THEN {} ELSE Refs[e] \cap mapping) \in SUBSET Entities
    BY <1>t DEF TypeOK
  <2>3. TypeOK'
    BY <1>11, <1>t, <2>2 DEF Transforms, TypeOK, ItemState
  <2> QED
    BY <1>11, <1>t, <2>1, <2>3 DEF Transforms, TypeInv, Working, AtWork, ItemsOfBatch, TypeOK
<1>12. ASSUME NEW e \in Entities, Creates(e) \/ CreateRaises(e) PROVE TypeInv'
  <2>1. Current' = Current
    BY <1>12 DEF Creates, CreateRaises, Current
  <2>2. objects' \in [Entities -> Nat]
    <3>1. objects[e] + 0 \in Nat /\ objects[e] + 1 \in Nat
      BY <1>t DEF TypeOK
    <3> QED
      BY <1>12, <1>t, <3>1 DEF Creates, CreateRaises, TypeOK
  <2>3. TypeOK'
    BY <1>12, <1>t, <2>2 DEF Creates, CreateRaises, TypeOK, ItemState
  <2> QED
    BY <1>12, <1>t, <2>1, <2>3
       DEF Creates, CreateRaises, TypeInv, Working, AtWork, ItemsOfBatch, TypeOK
<1>13. ASSUME NEW e \in Entities,
              SkipsExecution(e) \/ SavesMapping(e) \/ MappingRaises(e) \/ PassesOver(e)
       PROVE  TypeInv'
  <2>1. Current' = Current
    BY <1>13 DEF SkipsExecution, SavesMapping, MappingRaises, PassesOver, Current
  <2>2. TypeOK'
    BY <1>13, <1>t DEF SkipsExecution, SavesMapping, MappingRaises, PassesOver, TypeOK, ItemState
  <2>3. ItemsOfBatch'
    BY <1>13, <1>t
       DEF SkipsExecution, SavesMapping, MappingRaises, PassesOver, ItemsOfBatch, TypeOK
  <2>4. Working'
    BY <1>13, <1>t, <2>1
       DEF SkipsExecution, SavesMapping, MappingRaises, PassesOver, Working, AtWork
  <2> QED
    BY <2>2, <2>3, <2>4 DEF TypeInv
<1>14. ASSUME PhaseFails PROVE TypeInv'
  <2>1. Current \in Phases
    BY <1>14, <1>t, CurrentIsPhase DEF PhaseFails, BatchRaises, Working, AtWork
  <2>2. status' \in [Phases -> Statuses]
    BY <1>14, <1>t, <2>1 DEF PhaseFails, TypeOK, Statuses
  <2> QED
    BY <1>14, <2>2, DownType DEF PhaseFails
<1>15. ASSUME Crash PROVE TypeInv'
  BY <1>15, <1>t, DownType DEF Crash, TypeOK
<1>16. CASE UNCHANGED vars
  BY <1>16, <1>t DEF vars, TypeInv, TypeOK, Working, AtWork, Current, ItemsOfBatch
<1> QED
  BY <1>1, <1>2, <1>3, <1>4, <1>5, <1>6, <1>7, <1>8, <1>9, <1>10, <1>11, <1>12, <1>13,
     <1>14, <1>15, <1>16
     DEF Next, Starts, Progress, Fault

\* The type invariant of the migration.  It needs that a run at work is in one of the
\* three phases, which the index alone (it goes up to 4) does not say.
THEOREM TypeCorrect == Spec => []TypeOK
<1>1. TypeInv => TypeOK
  BY DEF TypeInv
<1> QED
  BY InitType, NextType, <1>1, PTL DEF Spec

-----------------------------------------------------------------------------
(* The order of the phases. *)

LEMMA NextOrder == TypeInv /\ PhasesInOrder /\ [Next]_vars => PhasesInOrder'
<1> SUFFICES ASSUME TypeInv, PhasesInOrder, [Next]_vars PROVE PhasesInOrder'
  OBVIOUS
<1> USE DEF dbVars, runVars
<1>t. TypeOK /\ Working
  BY DEF TypeInv
<1>0. CASE UNCHANGED status
  BY <1>0 DEF PhasesInOrder
<1>1. ASSUME NEW s, phase \in 1..3, status' = [status EXCEPT ![Current] = s],
             status[Current] # "completed",
             phase = 2 => status["extract"] = "completed",
             phase = 3 => status["transform"] = "completed",
             s # "not_started"
      PROVE  PhasesInOrder'
  <2>1. CASE phase = 1
    BY <1>1, <1>t, <2>1, CurrentPhase DEF PhasesInOrder, TypeOK, Phases
  <2>2. CASE phase = 2
    BY <1>1, <1>t, <2>2, CurrentPhase DEF PhasesInOrder, TypeOK, Phases
  <2>3. CASE phase = 3
    BY <1>1, <1>t, <2>3, CurrentPhase DEF PhasesInOrder, TypeOK, Phases
  <2> QED
    BY <1>1, <2>1, <2>2, <2>3
<1>2. ASSUME BeginPhase PROVE PhasesInOrder'
  <2>1. phase \in 1..3 /\ Can(Current) /\ status' = [status EXCEPT ![Current] = "in_progress"]
    BY <1>2, <1>t DEF BeginPhase, TypeOK
  <2> QED
    BY <1>1, <2>1, CurrentPhase DEF Can
<1>3. ASSUME NEW s \in {"completed", "failed"}, AtWork,
             status' = [status EXCEPT ![Current] = s]
      PROVE  PhasesInOrder'
  <2>1. phase \in 1..3 /\ status[Current] = "in_progress"
    BY <1>3, <1>t DEF Working
  <2>2. phase = 2 => status["extract"] = "completed"
    BY <2>1, CurrentPhase DEF PhasesInOrder
  <2>3. phase = 3 => status["transform"] = "completed"
    BY <2>1, CurrentPhase DEF PhasesInOrder
  <2> QED
    BY <1>1, <1>3, <2>1, <2>2, <2>3
<1>4. ASSUME EndPhase \/ PhaseFails PROVE PhasesInOrder'
  BY <1>3, <1>4 DEF EndPhase, PhaseFails, BatchRaises, AtWork
<1>5. CASE Starts \/ (Progress /\ ~(BeginPhase \/ EndPhase))
  <2>1. UNCHANGED status
    BY <1>5 DEF Starts, run_migration, Progress, SkipPhase, RunEnds, StageBegins, StageEnds,
                BatchBegins, BatchCompletes, BatchLeft, SavesBatch, Transforms, Creates,
                SkipsExecution, SavesMapping, PassesOver
  <2> QED
    BY <1>0, <2>1
<1>6. CASE Fault /\ ~PhaseFails
  <2>1. UNCHANGED status
    BY <1>6 DEF Fault, BatchFails, BatchLeft, Crash, CreateRaises, MappingRaises
  <2> QED
    BY <1>0, <2>1
<1>7. CASE UNCHANGED vars
  BY <1>0, <1>7 DEF vars
<1> QED
  BY <1>2, <1>4, <1>5, <1>6, <1>7 DEF Next

LEMMA InitOrder == Init => PhasesInOrder
BY DEF Init, PhasesInOrder, Phases

\* No phase begins before the one it reads from is completed, in any sequence of
\* runs: those of single phases, those that fail, those that die.
THEOREM PhaseOrderKept == Spec => []PhasesInOrder
BY InitType, NextType, InitOrder, NextOrder, PTL DEF Spec

LEMMA NextFrozen ==
  ASSUME TypeInv, PhasesInOrder, [Next]_vars
  PROVE  /\ status["transform"] # "not_started" => raw' = raw
         /\ status["load"] # "not_started" => transformed' = transformed /\ links' = links
<1> USE DEF dbVars, runVars
<1>1. ASSUME SavesBatch PROVE status["transform"] = "not_started" /\ UNCHANGED <<transformed, links>>
  <2>1. status["extract"] = "in_progress"
    BY <1>1 DEF SavesBatch, TypeInv, Working, AtWork
  <2> QED
    BY <1>1, <2>1 DEF SavesBatch, PhasesInOrder
<1>2. ASSUME NEW e \in Entities, Transforms(e) PROVE status["load"] = "not_started" /\ raw' = raw
  <2>1. status["transform"] = "in_progress"
    BY <1>2 DEF Transforms, TypeInv, Working, AtWork
  <2> QED
    BY <1>2, <2>1 DEF Transforms, PhasesInOrder
<1>3. CASE Starts \/ (Progress /\ ~(SavesBatch \/ \E e \in Entities : Transforms(e)))
  BY <1>3 DEF Starts, run_migration, Progress, BeginPhase, SkipPhase, EndPhase, RunEnds,
              StageBegins, StageEnds, BatchBegins, BatchCompletes, BatchLeft, Creates,
              SkipsExecution, SavesMapping, PassesOver
<1>4. CASE Fault
  BY <1>4 DEF Fault, BatchFails, BatchLeft, PhaseFails, Crash, CreateRaises, MappingRaises
<1>5. CASE UNCHANGED vars
  BY <1>5 DEF vars
<1> QED
  BY <1>1, <1>2, <1>3, <1>4, <1>5 DEF Next

\* A phase never sees its input change: not by an earlier phase that is repeated or
\* goes on, since only a phase in progress writes, and PhasesInOrder keeps the later
\* phases from having begun.
THEOREM InputsStayFrozen == Spec => InputsFrozen
<1>1. TypeInv /\ PhasesInOrder /\ [Next]_vars
        => [/\ status["transform"] # "not_started" => raw' = raw
            /\ status["load"] # "not_started" => transformed' = transformed /\ links' = links]_vars
  BY NextFrozen
<1> QED
  BY InitType, NextType, InitOrder, NextOrder, <1>1, PTL DEF Spec, InputsFrozen

-----------------------------------------------------------------------------
(* Mappings and batch records. *)

\* A future with an object in it belongs to an entity that has one.
CreatedExist == \A e \in Entities : item[e] = "created" => objects[e] > 0

LEMMA NextMappings ==
  TypeInv /\ MappingsExist /\ CreatedExist /\ [Next]_vars => (MappingsExist /\ CreatedExist)'
<1> SUFFICES ASSUME TypeInv, MappingsExist, CreatedExist, [Next]_vars
             PROVE  (MappingsExist /\ CreatedExist)'
  OBVIOUS
<1> USE DEF dbVars, runVars
<1>t. TypeOK
  BY DEF TypeInv
<1>0. ASSUME \A e \in Entities : objects[e] <= objects'[e],
             \A e \in Entities : item'[e] = "created" => item[e] = "created" \/ objects'[e] > 0,
             mapping' \subseteq mapping \cup {e \in Entities : item[e] = "created"},
             objects' \in [Entities -> Nat]
      PROVE  (MappingsExist /\ CreatedExist)'
  <2>1. \A e \in Entities : objects[e] \in Nat /\ objects'[e] \in Nat
    BY <1>0, <1>t DEF TypeOK
  <2>2. \A e \in Entities : objects[e] > 0 => objects'[e] > 0
    BY <1>0, <2>1
  <2> QED
    BY <1>0, <1>t, <2>2 DEF MappingsExist, CreatedExist, TypeOK
<1>1. \A e \in Entities : objects[e] \in Nat /\ objects[e] <= objects[e]
  BY <1>t DEF TypeOK
<1>2. ASSUME NEW e \in Entities, Creates(e) \/ CreateRaises(e) PROVE (MappingsExist /\ CreatedExist)'
  <2>1. PICK n \in {0, 1} : /\ objects' = [objects EXCEPT ![e] = @ + n]
                            /\ Creates(e) => n = 1
    BY <1>2 DEF Creates, CreateRaises
  <2>2. \A f \in Entities : objects'[f] = IF f = e THEN objects[e] + n ELSE objects[f]
    BY <1>t, <2>1 DEF TypeOK
  <2>3. objects' \in [Entities -> Nat] /\ \A f \in Entities : objects[f] <= objects'[f]
    BY <1>1, <1>t, <2>1, <2>2 DEF TypeOK
  <2>4. ASSUME NEW f \in Entities, item'[f] = "created"
        PROVE  item[f] = "created" \/ objects'[f] > 0
    <3>1. CASE f = e /\ Creates(e)
      BY <1>1, <2>1, <2>2, <3>1
    <3>2. CASE f # e \/ ~Creates(e)
      BY <1>2, <1>t, <2>4, <3>2 DEF Creates, CreateRaises, TypeOK
    <3> QED
      BY <3>1, <3>2
  <2>5. mapping' = mapping
    BY <1>2 DEF Creates, CreateRaises
  <2> QED
    BY <1>0, <2>3, <2>4, <2>5
<1>3. ASSUME NEW e \in Entities, SavesMapping(e) PROVE (MappingsExist /\ CreatedExist)'
  BY <1>0, <1>1, <1>3, <1>t DEF SavesMapping, TypeOK
<1>4. ASSUME UNCHANGED <<objects, mapping>>,
             \A e \in Entities : item'[e] = "created" => item[e] = "created"
      PROVE  (MappingsExist /\ CreatedExist)'
  BY <1>0, <1>1, <1>4, <1>t DEF TypeOK
<1>5. CASE Starts \/ (Progress /\ ~\E e \in Entities : Creates(e) \/ SavesMapping(e))
  <2>1. UNCHANGED <<objects, mapping>>
    BY <1>5 DEF Starts, run_migration, Progress, BeginPhase, SkipPhase, EndPhase, RunEnds,
                StageBegins, StageEnds, BatchBegins, BatchCompletes, BatchLeft, SavesBatch,
                Transforms, SkipsExecution, PassesOver
  <2>2. \A e \in Entities : item'[e] = "created" => item[e] = "created"
    BY <1>5, <1>t
       DEF Starts, run_migration, Progress, BeginPhase, SkipPhase, EndPhase, RunEnds, Down,
           StageBegins, StageEnds, BatchBegins, BatchCompletes, BatchLeft, SavesBatch,
           Transforms, SkipsExecution, PassesOver, TypeOK
  <2> QED
    BY <1>4, <2>1, <2>2
<1>6. CASE Fault /\ ~\E e \in Entities : CreateRaises(e)
  <2>1. UNCHANGED <<objects, mapping>>
    BY <1>6 DEF Fault, BatchFails, BatchLeft, PhaseFails, Crash, MappingRaises
  <2>2. \A e \in Entities : item'[e] = "created" => item[e] = "created"
    BY <1>6, <1>t DEF Fault, BatchFails, BatchLeft, PhaseFails, Crash, Down, MappingRaises, TypeOK
  <2> QED
    BY <1>4, <2>1, <2>2
<1>7. CASE UNCHANGED vars
  BY <1>4, <1>7 DEF vars
<1> QED
  BY <1>2, <1>3, <1>5, <1>6, <1>7 DEF Next

\* A mapping in the database leads to an object in qTest, also across crashes: it is
\* saved only for a future that holds an object, and objects do not go away.
THEOREM MappingsLead == Spec => []MappingsExist
<1>1. Init => MappingsExist /\ CreatedExist
  BY DEF Init, MappingsExist, CreatedExist
<1> QED
  BY InitType, NextType, <1>1, NextMappings, PTL DEF Spec

\* Inside a batch, an entity that has had its turn is saved.
HandledSaved ==
    \A e \in Entities : item[e] = "handled" =>
        /\ phase = 1 => e \in raw
        /\ phase = 2 => e \in transformed

LEMMA NextSaved ==
  TypeInv /\ BatchesSaved /\ HandledSaved /\ [Next]_vars => (BatchesSaved /\ HandledSaved)'
<1> SUFFICES ASSUME TypeInv, BatchesSaved, HandledSaved, [Next]_vars
             PROVE  (BatchesSaved /\ HandledSaved)'
  OBVIOUS
<1> USE DEF dbVars, runVars
<1>t. TypeOK /\ Working /\ ItemsOfBatch
  BY DEF TypeInv
<1>0. ASSUME raw \subseteq raw', transformed \subseteq transformed',
             \A p \in Phases, e \in Entities : batches'[p][e] = "completed" =>
                \/ batches[p][e] = "completed"
                \/ p = "extract" /\ e \in raw'
                \/ p = "transform" /\ e \in transformed'
                \/ p = "load"
      PROVE  BatchesSaved'
  BY <1>0 DEF BatchesSaved, Phases
<1>1. ASSUME NEW s \in {"completed", "failed"}, pc = "batch", BatchLeft(s),
             s = "completed" /\ ~Descends => \A e \in batch : item[e] = "handled"
      PROVE  (BatchesSaved /\ HandledSaved)'
  <2>1. phase \in 1..3 /\ Current \in Phases
    BY <1>1, <1>t, CurrentIsPhase DEF Working, AtWork
  <2>2. ASSUME NEW p \in Phases, NEW e \in Entities, batches'[p][e] = "completed"
        PROVE  \/ batches[p][e] = "completed"
               \/ p = "extract" /\ e \in raw
               \/ p = "transform" /\ e \in transformed
               \/ p = "load"
    <3>1. CASE Descends \/ p # Current \/ e \notin batch
      BY <1>1, <1>t, <2>1, <2>2, <3>1 DEF BatchLeft, TypeOK
    <3>2. CASE ~Descends /\ p = Current /\ e \in batch
      <4>1. s = "completed" /\ item[e] = "handled"
        BY <1>1, <1>t, <2>1, <2>2, <3>2 DEF BatchLeft, TypeOK
      <4> QED
        BY <2>1, <3>2, <4>1, CurrentPhase DEF HandledSaved
    <3> QED
      BY <3>1, <3>2
  <2>3. BatchesSaved'
    BY <1>0, <1>1, <2>2 DEF BatchLeft
  <2>4. HandledSaved'
    BY <1>1 DEF BatchLeft, HandledSaved
  <2> QED
    BY <2>3, <2>4
<1>2. ASSUME BatchCompletes \/ BatchFails PROVE (BatchesSaved /\ HandledSaved)'
  BY <1>1, <1>2 DEF BatchCompletes, BatchFails, BatchRaises
<1>3. ASSUME StageBegins PROVE (BatchesSaved /\ HandledSaved)'
  <2>1. Current \in Phases
    BY <1>3, <1>t, CurrentIsPhase DEF StageBegins, Working, AtWork
  <2>2. UNCHANGED <<raw, transformed, item, phase>>
    BY <1>3 DEF StageBegins
  <2>3. \A p \in Phases, e \in Entities :
           batches'[p][e] = "completed" => batches[p][e] = "completed"
    BY <1>3, <1>t, <2>1 DEF StageBegins, TypeOK
  <2>4. HandledSaved'
    BY <2>2 DEF HandledSaved
  <2> QED
    BY <1>0, <2>2, <2>3, <2>4
<1>4. ASSUME SavesBatch PROVE (BatchesSaved /\ HandledSaved)'
  <2>1. raw' = raw \cup batch /\ UNCHANGED <<transformed, batches, phase>>
    BY <1>4 DEF SavesBatch
  <2>2. BatchesSaved'
    BY <1>0, <2>1
  <2>3. phase = 1
    BY <1>4, <1>t, CurrentPhase DEF SavesBatch, Working, AtWork
  <2>4. HandledSaved'
    BY <1>4, <2>1, <2>3 DEF SavesBatch, HandledSaved
  <2> QED
    BY <2>2, <2>4
<1>5. ASSUME NEW e \in Entities, Transforms(e) PROVE (BatchesSaved /\ HandledSaved)'
  <2>1. transformed' = transformed \cup {e} /\ UNCHANGED <<raw, batches, phase>>
    BY <1>5 DEF Transforms
  <2>2. BatchesSaved'
    BY <1>0, <2>1
  <2>3. phase = 2
    BY <1>5, <1>t, CurrentPhase DEF Transforms, Working, AtWork
  <2>4. HandledSaved'
    BY <1>5, <1>t, <2>1, <2>3 DEF Transforms, HandledSaved, TypeOK
  <2> QED
    BY <2>2, <2>4
<1>6. ASSUME UNCHANGED <<raw, transformed, batches>>,
             \/ UNCHANGED <<item, phase>>
             \/ \A e \in Entities : item'[e] # "handled"
             \/ phase = 3 /\ phase' = 3
      PROVE  (BatchesSaved /\ HandledSaved)'
  BY <1>0, <1>6 DEF HandledSaved
<1>7. ASSUME NEW ps \in {Phases} \cup {{p} : p \in Phases}, run_migration(ps)
      PROVE  (BatchesSaved /\ HandledSaved)'
  BY <1>6, <1>7, <1>t DEF run_migration, ItemsOfBatch
<1>8. ASSUME BeginPhase \/ StageEnds PROVE (BatchesSaved /\ HandledSaved)'
  BY <1>6, <1>8 DEF BeginPhase, StageEnds
<1>9. ASSUME SkipPhase \/ EndPhase PROVE (BatchesSaved /\ HandledSaved)'
  BY <1>6, <1>9, <1>t DEF SkipPhase, EndPhase, ItemsOfBatch
<1>10. ASSUME BatchBegins PROVE (BatchesSaved /\ HandledSaved)'
  BY <1>6, <1>10 DEF BatchBegins
<1>11. ASSUME RunEnds \/ PhaseFails \/ Crash PROVE (BatchesSaved /\ HandledSaved)'
  BY <1>6, <1>11 DEF RunEnds, PhaseFails, Crash, Down
<1>12. ASSUME NEW e \in Entities,
              Creates(e) \/ CreateRaises(e) \/ SkipsExecution(e) \/ SavesMapping(e)
                \/ MappingRaises(e) \/ PassesOver(e)
       PROVE  (BatchesSaved /\ HandledSaved)'
  <2>1. pc = "batch" /\ Current = "load" /\ UNCHANGED <<raw, transformed, batches, phase>>
    BY <1>12
       DEF Creates, CreateRaises, SkipsExecution, SavesMapping, MappingRaises, PassesOver
  <2>2. phase = 3
    BY <1>t, <2>1, CurrentPhase DEF Working, AtWork
  <2> QED
    BY <1>6, <2>1, <2>2
<1>13. CASE UNCHANGED vars
  BY <1>6, <1>13 DEF vars
<1> QED
  BY <1>2, <1>3, <1>4, <1>5, <1>7, <1>8, <1>9, <1>10, <1>11, <1>12, <1>13
     DEF Next, Starts, Progress, Fault

\* What the batch records call completed is in the database: a batch is recorded only
\* after its last entity was saved, and nothing that was saved is removed.
THEOREM CompletedAreSaved == Spec => []BatchesSaved
<1>1. Init => BatchesSaved /\ HandledSaved
  BY DEF Init, BatchesSaved, HandledSaved, Phases
<1> QED
  BY InitType, NextType, <1>1, NextSaved, PTL DEF Spec

-----------------------------------------------------------------------------
(* One object per run. *)

LoadStages == Stages("load")

\* The stages of loading have no entity in common.
LEMMA LoadStagesDisjoint ==
  /\ Len(LoadStages) \in Nat
  /\ \A k, l \in 1..Len(LoadStages) : k # l => LoadStages[k] \cap LoadStages[l] = {}
<1> DEFINE levels == [l \in 1..MaxLevel |-> {f \in Folders : Level[f] = l}]
           others == <<TestCases, TestCycles, Executions>>
<1>1. MaxLevel \in Nat
  <2>1. IsFiniteSet(Folders)
    BY EntitiesAssumption, FS_Subset DEF Entities
  <2>2. Level \in Surjection(Folders, {Level[f] : f \in Folders})
    BY RefsAssumption DEF Surjection
  <2>3. IsFiniteSet({Level[f] : f \in Folders})
    BY <2>1, <2>2, FS_Surjection
  <2> QED
    BY <2>3, FS_CardinalityType DEF MaxLevel
<1>2. /\ levels \in Seq(SUBSET Entities) /\ Len(levels) = MaxLevel
      /\ \A l \in 1..MaxLevel : levels[l] = {f \in Folders : Level[f] = l}
  BY <1>1 DEF Entities
<1>3. /\ others \in Seq(SUBSET Entities) /\ Len(others) = 3
      /\ others[1] = TestCases /\ others[2] = TestCycles /\ others[3] = Executions
  BY DEF Entities
<1>4. LoadStages = levels \o others
  <2>1. Tail(Kinds) = others
    BY DEF Kinds
  <2>2. LoadStages = levels \o Tail(Kinds)
    BY Zenon DEF LoadStages, Stages
  <2> HIDE DEF levels, others
  <2> QED
    BY <2>1, <2>2
<1> HIDE DEF levels, others
<1>5. /\ Len(levels \o others) = MaxLevel + 3
      /\ \A i \in 1..(MaxLevel + 3) :
            (levels \o others)[i] = IF i <= MaxLevel THEN levels[i] ELSE others[i - MaxLevel]
  <2>1. /\ Len(levels \o others) = Len(levels) + Len(others)
        /\ \A i \in 1..(Len(levels) + Len(others)) :
              (levels \o others)[i] = IF i <= Len(levels) THEN levels[i]
                                                          ELSE others[i - Len(levels)]
    <3>1. levels \in Seq(SUBSET Entities) /\ others \in Seq(SUBSET Entities)
      BY <1>2, <1>3
    <3> QED
      BY <3>1, ConcatProperties, Zenon
  <2>2. Len(levels) = MaxLevel /\ Len(others) = 3
    BY <1>2, <1>3
  <2>3. Len(levels \o others) = MaxLevel + 3
    BY <1>1, <2>1, <2>2
  <2>4. ASSUME NEW i \in 1..(MaxLevel + 3)
        PROVE  (levels \o others)[i] = IF i <= MaxLevel THEN levels[i] ELSE others[i - MaxLevel]
    BY <1>1, <2>1, <2>2, <2>4
  <2> QED
    BY <2>3, <2>4
<1>6. ASSUME NEW i \in 1..(MaxLevel + 3)
      PROVE  \/ i <= MaxLevel /\ LoadStages[i] = {f \in Folders : Level[f] = i}
             \/ i = MaxLevel + 1 /\ LoadStages[i] = TestCases
             \/ i = MaxLevel + 2 /\ LoadStages[i] = TestCycles
             \/ i = MaxLevel + 3 /\ LoadStages[i] = Executions
  <2>1. CASE i <= MaxLevel
    BY <1>1, <1>2, <1>4, <1>5, <2>1
  <2>2. CASE i > MaxLevel
    <3>1. i - MaxLevel \in {1, 2, 3} /\ ~(i <= MaxLevel)
      BY <1>1, <2>2
    <3>2. LoadStages[i] = others[i - MaxLevel]
      BY <1>4, <1>5, <3>1
    <3> QED
      BY <1>1, <1>3, <3>1, <3>2
  <2> QED
    BY <1>1, <2>1, <2>2
<1>7. ASSUME NEW k \in 1..(MaxLevel + 3), NEW l \in 1..(MaxLevel + 3), k # l
      PROVE  LoadStages[k] \cap LoadStages[l] = {}
  <2>1. CASE k <= MaxLevel /\ l <= MaxLevel
    BY <1>1, <1>6, <1>7, <2>1
  <2>2. CASE k > MaxLevel \/ l > MaxLevel
    BY <1>1, <1>6, <1>7, <2>2, EntitiesAssumption
  <2> QED
    BY <1>1, <2>1, <2>2
<1>8. Len(LoadStages) = MaxLevel + 3
  BY <1>4, <1>5
<1>9. Len(LoadStages) \in Nat
  BY <1>1, <1>8
<1> QED
  BY <1>7, <1>8, <1>9

\* Where a run is: stages are counted from 1, and what is to do in a stage of loading
\* are entities of that stage, each waiting for a batch or in the batch.
Places ==
    /\ stage > 0
    /\ pc # "batch" => batch = {}
    /\ phase = 3 /\ pc \in {"batches", "batch"} =>
          /\ stage \in 1..Len(LoadStages)
          /\ todo \cup batch \subseteq LoadStages[stage]
          /\ todo \cap batch = {}

LEMMA NextPlaces == TypeInv /\ Places /\ [Next]_vars => Places'
<1> SUFFICES ASSUME TypeInv, Places, [Next]_vars PROVE Places'
  OBVIOUS
<1> USE DEF dbVars, runVars
<1>t. TypeOK /\ Working
  BY DEF TypeInv
<1>1. ASSUME StageBegins PROVE Places'
  <2>1. /\ stage' = stage /\ phase' = phase /\ batch' = {} /\ pc' = "batches"
        /\ stage <= Len(Stages(Current))
        /\ todo' \subseteq Stages(Current)[stage]
    BY <1>1 DEF StageBegins, Places
  <2>2. CASE phase = 3
    <3>1. Stages(Current) = LoadStages
      BY <2>2, CurrentPhase DEF LoadStages
    <3>2. stage \in 1..Len(LoadStages)
      BY <1>t, <2>1, <3>1, LoadStagesDisjoint DEF TypeOK, Places
    <3> QED
      BY <2>1, <3>1, <3>2 DEF Places
  <2>3. CASE phase # 3
    BY <2>1, <2>3 DEF Places
  <2> QED
    BY <2>2, <2>3
<1>2. ASSUME BatchBegins PROVE Places'
  BY <1>2 DEF BatchBegins, Places
<1>3. ASSUME BatchCompletes \/ BatchFails PROVE Places'
  BY <1>3 DEF BatchCompletes, BatchFails, BatchRaises, BatchLeft, Places
<1>4. ASSUME stage' > 0, batch' = {}, pc' \notin {"batches", "batch"} PROVE Places'
  BY <1>4 DEF Places
<1>5. ASSUME StageEnds PROVE Places'
  BY <1>4, <1>5, <1>t DEF StageEnds, Places, TypeOK
<1>6. ASSUME RunEnds \/ PhaseFails \/ Crash PROVE Places'
  BY <1>4, <1>6 DEF RunEnds, PhaseFails, Crash, Down
<1>7. ASSUME Starts \/ BeginPhase \/ SkipPhase \/ EndPhase PROVE Places'
  BY <1>4, <1>7 DEF Starts, run_migration, BeginPhase, SkipPhase, EndPhase, Places
<1>8. ASSUME UNCHANGED <<pc, phase, stage, todo, batch>> PROVE Places'
  BY <1>8 DEF Places
<1>9. ASSUME NEW e \in Entities,
             Transforms(e) \/ Creates(e) \/ CreateRaises(e) \/ SkipsExecution(e)
               \/ SavesMapping(e) \/ MappingRaises(e) \/ PassesOver(e)
      PROVE  Places'
  BY <1>8, <1>9 DEF Transforms, Creates, CreateRaises, SkipsExecution, SavesMapping,
                    MappingRaises, PassesOver
<1>10. ASSUME SavesBatch \/ UNCHANGED vars PROVE Places'
  BY <1>8, <1>10 DEF SavesBatch, vars
<1> QED
  BY <1>1, <1>2, <1>3, <1>5, <1>6, <1>7, <1>9, <1>10 DEF Next, Progress, Fault

\* Entity e is in a stage of loading after stage k.
After(k, e) == \E l \in 1..Len(LoadStages) : l > k /\ e \in LoadStages[l]

\* The run may still create an object for e.
Due(e) ==
    \/ phase < 3
    \/ phase = 3 /\ pc = "between"
    \/ phase = 3 /\ pc = "stage" /\ After(stage - 1, e)
    \/ phase = 3 /\ pc \in {"batches", "batch"}
         /\ (After(stage, e) \/ e \in todo \/ item[e] = "waiting")

DueLast == \A e \in Entities : pc # "down" /\ Due(e) => objects[e] < runs

LEMMA NextOnce ==
  TypeInv /\ Places /\ OncePerRun /\ DueLast /\ [Next]_vars => (OncePerRun /\ DueLast)'
<1> SUFFICES ASSUME TypeInv, Places, OncePerRun, DueLast, [Next]_vars
             PROVE  (OncePerRun /\ DueLast)'
  OBVIOUS
<1> USE DEF dbVars, runVars
<1>t. TypeOK /\ Working /\ ItemsOfBatch
  BY DEF TypeInv
<1>n. stage \in Nat /\ runs \in Nat /\ \A e \in Entities : objects[e] \in Nat
  BY <1>t, BoundsAssumption DEF TypeOK
<1>0. ASSUME objects' = objects, runs' = runs,
             \A e \in Entities : pc' # "down" /\ Due(e)' => pc # "down" /\ Due(e)
      PROVE  (OncePerRun /\ DueLast)'
  BY <1>0 DEF OncePerRun, DueLast
<1>1. ASSUME NEW ps, run_migration(ps) PROVE (OncePerRun /\ DueLast)'
  <2>1. objects' = objects /\ runs' = runs + 1
    BY <1>1 DEF run_migration
  <2>2. \A e \in Entities : objects[e] < runs + 1 /\ objects[e] <= runs + 1
    BY <1>n DEF OncePerRun
  <2> QED
    BY <2>1, <2>2 DEF OncePerRun, DueLast
<1>2. ASSUME BeginPhase PROVE (OncePerRun /\ DueLast)'
  <2>1. /\ objects' = objects /\ runs' = runs /\ pc = "between"
        /\ phase <= 3 /\ phase' = phase
    BY <1>2 DEF BeginPhase
  <2>2. \A e \in Entities : Due(e)
    BY <1>t, <2>1 DEF Due, TypeOK
  <2> QED
    BY <1>0, <2>1, <2>2
<1>3. ASSUME SkipPhase \/ EndPhase PROVE (OncePerRun /\ DueLast)'
  <2>1. /\ objects' = objects /\ runs' = runs /\ pc # "down" /\ pc' = "between"
        /\ phase' = phase + 1
    BY <1>3 DEF SkipPhase, EndPhase
  <2>2. ASSUME NEW e \in Entities, Due(e)' PROVE Due(e)
    <3>1. phase' <= 3
      BY <1>t, <2>1, <2>2 DEF Due, TypeOK
    <3> QED
      BY <1>t, <2>1, <3>1 DEF Due, TypeOK
  <2> QED
    BY <1>0, <2>1, <2>2
<1>4. ASSUME RunEnds \/ PhaseFails \/ Crash PROVE (OncePerRun /\ DueLast)'
  BY <1>0, <1>4 DEF RunEnds, PhaseFails, Crash, Down
<1>5. ASSUME StageBegins PROVE (OncePerRun /\ DueLast)'
  <2>1. /\ objects' = objects /\ runs' = runs /\ pc = "stage" /\ pc' = "batches"
        /\ phase' = phase /\ stage' = stage /\ item' = item
        /\ phase \in 1..3
    BY <1>5, <1>t DEF StageBegins, Working, AtWork
  <2>2. ASSUME NEW e \in Entities, Due(e)' PROVE Due(e)
    <3>1. CASE phase < 3
      BY <3>1 DEF Due
    <3>2. CASE phase = 3
      <4>1. item[e] # "waiting"
        BY <1>t, <2>1 DEF ItemsOfBatch
      <4>2. e \in todo' => stage \in 1..Len(LoadStages) /\ e \in LoadStages[stage]
        BY <2>1, <3>2, NextPlaces DEF Places
      <4>3. After(stage, e) \/ e \in todo'
        BY <2>1, <2>2, <3>2, <4>1 DEF Due, After
      <4>4. After(stage - 1, e)
        BY <1>n, <4>2, <4>3, LoadStagesDisjoint DEF After
      <4> QED
        BY <2>1, <3>2, <4>4 DEF Due
    <3> QED
      BY <2>1, <3>1, <3>2
  <2> QED
    BY <1>0, <2>1, <2>2
<1>6. ASSUME StageEnds PROVE (OncePerRun /\ DueLast)'
  <2>1. /\ objects' = objects /\ runs' = runs /\ pc = "batches" /\ pc' = "stage"
        /\ phase' = phase /\ stage' = stage + 1
    BY <1>6 DEF StageEnds
  <2>2. stage' - 1 = stage
    BY <1>n, <2>1
  <2>3. ASSUME NEW e \in Entities, Due(e)' PROVE Due(e)
    BY <2>1, <2>2, <2>3 DEF Due, After
  <2> QED
    BY <1>0, <2>1, <2>3
<1>7. ASSUME BatchBegins PROVE (OncePerRun /\ DueLast)'
  <2>1. PICK b \in SUBSET todo :
              /\ todo' = todo \ b
              /\ item' = [e \in Entities |-> IF e \in b THEN "waiting" ELSE "idle"]
    BY <1>7 DEF BatchBegins
  <2>2. /\ objects' = objects /\ runs' = runs /\ pc = "batches" /\ pc' = "batch"
        /\ phase' = phase /\ stage' = stage
    BY <1>7 DEF BatchBegins
  <2>3. ASSUME NEW e \in Entities, Due(e)' PROVE Due(e)
    BY <2>1, <2>2, <2>3 DEF Due, After
  <2> QED
    BY <1>0, <2>2, <2>3
<1>8. ASSUME NEW e \in Entities, Creates(e) \/ CreateRaises(e) PROVE (OncePerRun /\ DueLast)'
  <2>1. /\ pc = "batch" /\ pc' = pc /\ phase = 3 /\ phase' = phase /\ runs' = runs
        /\ todo' = todo /\ stage' = stage /\ e \in batch /\ item[e] = "waiting"
    BY <1>8, <1>t, CurrentPhase DEF Creates, CreateRaises, Working, AtWork
  <2>2. PICK n \in {0, 1} : objects' = [objects EXCEPT ![e] = @ + n]
    BY <1>8 DEF Creates, CreateRaises
  <2>3. \A f \in Entities : objects'[f] = IF f = e THEN objects[e] + n ELSE objects[f]
    BY <1>t, <2>2 DEF TypeOK
  <2>4. item'[e] # "waiting" /\ \A f \in Entities \ {e} : item'[f] = item[f]
    BY <1>8, <1>t DEF Creates, CreateRaises, TypeOK
  <2>5. objects[e] < runs
    BY <2>1 DEF DueLast, Due
  <2>6. OncePerRun'
    BY <1>n, <2>1, <2>3, <2>5 DEF OncePerRun
  <2>7. ~Due(e)'
    <3>1. stage \in 1..Len(LoadStages) /\ e \in LoadStages[stage] /\ e \notin todo
      BY <2>1 DEF Places
    <3>2. ~After(stage, e)
      BY <1>n, <3>1, LoadStagesDisjoint DEF After
    <3> QED
      BY <2>1, <2>4, <3>1, <3>2 DEF Due, After
  <2>8. ASSUME NEW f \in Entities \ {e}, Due(f)' PROVE Due(f)
    BY <2>1, <2>4, <2>8 DEF Due, After
  <2>9. DueLast'
    BY <2>1, <2>3, <2>7, <2>8 DEF DueLast
  <2> QED
    BY <2>6, <2>9
<1>9. ASSUME objects' = objects, runs' = runs, phase' = phase, stage' = stage, todo' = todo,
             pc = "batch" => pc' \in {"batch", "batches"},
             pc # "batch" => pc' = pc,
             phase < 3 \/ \A e \in Entities : item'[e] = "waiting" => item[e] = "waiting"
      PROVE  (OncePerRun /\ DueLast)'
  <2>1. ASSUME NEW e \in Entities, Due(e)' PROVE Due(e)
    BY <1>9, <2>1 DEF Due, After
  <2> QED
    BY <1>0, <1>9, <2>1
<1>10. ASSUME BatchCompletes \/ BatchFails PROVE (OncePerRun /\ DueLast)'
  BY <1>9, <1>10 DEF BatchCompletes, BatchFails, BatchRaises, BatchLeft
<1>11. ASSUME NEW e \in Entities,
              Transforms(e) \/ SkipsExecution(e) \/ SavesMapping(e) \/ MappingRaises(e)
                \/ PassesOver(e)
       PROVE  (OncePerRun /\ DueLast)'
  <2>1. UNCHANGED <<objects, runs, phase, stage, todo>> /\ pc' = pc
    BY <1>11 DEF Transforms, SkipsExecution, SavesMapping, MappingRaises, PassesOver
  <2>2. \A f \in Entities : item'[f] = "waiting" => item[f] = "waiting"
    BY <1>11, <1>t
       DEF Transforms, SkipsExecution, SavesMapping, MappingRaises, PassesOver, TypeOK
  <2> QED
    BY <1>9, <2>1, <2>2
<1>12. ASSUME SavesBatch PROVE (OncePerRun /\ DueLast)'
  <2>1. phase < 3
    BY <1>12, <1>t, CurrentPhase DEF SavesBatch, Working, AtWork
  <2> QED
    BY <1>9, <1>12, <2>1 DEF SavesBatch
<1>13. CASE UNCHANGED vars
  BY <1>9, <1>13 DEF vars
<1> QED
  BY <1>1, <1>2, <1>3, <1>4, <1>5, <1>6, <1>7, <1>8, <1>10, <1>11, <1>12, <1>13
     DEF Next, Starts, Progress, Fault

\* A run creates at most one object for an entity, whatever the batches, calls that
\* raise after they took effect included: the stages of loading are disjoint, a
\* batch takes its entities out of the stage, and a thread runs once.
THEOREM ObjectsBounded == Spec => []OncePerRun
<1>1. Init => Places
  BY DEF Init, Places
<1>2. Init => OncePerRun /\ DueLast
  BY DEF Init, OncePerRun, DueLast
<1> QED
  BY InitType, NextType, <1>1, NextPlaces, <1>2, NextOnce, PTL DEF Spec
=============================================================================
