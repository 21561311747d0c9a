------------------------------ MODULE Migration ------------------------------
(***************************************************************************)
(* ZephyrToQTestMigration of ztoq/migration.py: the extract, transform and *)
(* load phases of one project.  A run of the program works through the     *)
(* phases it is asked for, each phase through stages (one per entity type, *)
(* or folder level), each stage through batches.  The statuses, the copied *)
(* and transformed entities, the mappings and the batch records live in    *)
(* the database and the created objects in qTest, so they survive when a   *)
(* run fails or the process dies; everything else is the run's own.        *)
(*                                                                         *)
(* Abstractions: an entity is its id with the ids it refers to; contents,  *)
(* steps, custom fields and attachments are left out.  The order of the    *)
(* entities of a stage is left open, so a batch is any set of the right    *)
(* size.  The database and the APIs are external: each of their calls      *)
(* may raise, and a call that raised may have taken effect in qTest.       *)
(***************************************************************************)
EXTENDS Integers, Sequences, FiniteSets

CONSTANTS
    Folders, TestCases, TestCycles, Executions,   \* the entities of the project
    Level,       \* Level[f]: depth of folder f, 1 for a root
    Refs,        \* Refs[e]: parent folder, folder, or test case and cycle of e
    BatchSize,   \* batch_size
    MaxRuns      \* bound: how often the program is run

Entities == Folders \cup TestCases \cup TestCycles \cup Executions
Phases == {"extract", "transform", "load"}
PhaseOrder == <<"extract", "transform", "load">>

ASSUME EntitiesAssumption ==
    /\ IsFiniteSet(Entities)
    /\ Folders \cap (TestCases \cup TestCycles \cup Executions) = {}
    /\ TestCases \cap (TestCycles \cup Executions) = {}
    /\ TestCycles \cap Executions = {}
ASSUME RefsAssumption ==
    /\ Level \in [Folders -> Nat \ {0}]
    /\ Refs \in [Entities -> SUBSET Entities]
    /\ \A f \in Folders : \A g \in Refs[f] : g \in Folders /\ Level[g] + 1 = Level[f]
ASSUME BoundsAssumption == BatchSize \in Nat \ {0} /\ MaxRuns \in Nat

VARIABLES
    \* In the database.
    status,        \* extraction_status, transformation_status, loading_status
    raw,           \* extracted entities
    transformed,   \* transformed entities
    links,         \* links[e]: the references of e that had a qTest id when transformed
    mapping,       \* entities with an entity mapping (to a qTest id)
    batches,       \* batches[p][e]: status of the batch of e in phase p
    \* In qTest.
    objects,       \* objects[e]: number of objects created for e
    \* The run.
    pc,            \* "down", "between" phases, "stage", "batches" or "batch"
    requested,     \* the phases asked for
    phase, stage,  \* position of the run: indices of the phase and of its stage
    todo, batch,   \* entities of the stage still to do, and those of the batch
    item,          \* progress of the entities of the batch
    runs           \* number of runs so far

dbVars == <<status, raw, transformed, links, mapping, batches>>
runVars == <<pc, requested, phase, stage, todo, batch, item, runs>>
vars == <<dbVars, objects, runVars>>

\* One entity of a batch: waiting for its turn or its thread; its future holds
\* a created object, nothing (skipped) or an exception; its turn is over.
ItemState == {"idle", "waiting", "created", "skipped", "raised", "handled"}

Current == PhaseOrder[phase]

MaxLevel == Cardinality({Level[f] : f \in Folders})

Kinds == <<Folders, TestCases, TestCycles, Executions>>

\* The stages of a phase.  Loading takes the folders level by level.
Stages(p) ==
    IF p = "load"
      THEN [l \in 1..MaxLevel |-> {f \in Folders : Level[f] = l}] \o Tail(Kinds)
      ELSE Kinds

\* What a phase reads.
Source(p) == IF p = "extract" THEN Entities ELSE IF p = "transform" THEN raw ELSE transformed

\* Folders are transformed by a recursive descent from the roots: not in batches.
Descends == Current = "transform" /\ stage = 1

\* Mutant: transformation does not wait for extraction.
Can_AnyOrder(p) == status[p] \in {"not_started", "in_progress", "failed"}

\* can_extract, can_transform and can_load.
Can(p) ==
    /\ status[p] \in {"not_started", "in_progress", "failed"}
    /\ p = "transform" => status["extract"] = "completed"
    /\ p = "load" => status["transform"] = "completed"

-----------------------------------------------------------------------------
(***************************************************************************)
(* Runs and phases.                                                        *)
(***************************************************************************)
\* A new process: the state is loaded from the database, and run_migration called.
run_migration(ps) ==
    /\ pc = "down"
    /\ runs < MaxRuns
    /\ runs' = runs + 1
    /\ requested' = ps
    /\ pc' = "between" /\ phase' = 1
    /\ UNCHANGED <<dbVars, objects, stage, todo, batch, item>>

\* Mutant: the extraction of an earlier run is repeated.
BeginPhase_Again ==
    /\ pc = "between" /\ phase <= 3
    /\ Current \in requested
    /\ Can(Current) \/ Current = "extract"
    /\ status' = [status EXCEPT ![Current] = "in_progress"]
    /\ pc' = "stage" /\ stage' = 1
    /\ UNCHANGED <<raw, transformed, links, mapping, batches, objects>>
    /\ UNCHANGED <<requested, phase, todo, batch, item, runs>>

BeginPhase ==
    /\ pc = "between" /\ phase <= 3
    /\ Current \in requested /\ Can(Current)
    /\ status' = [status EXCEPT ![Current] = "in_progress"]
    /\ pc' = "stage" /\ stage' = 1
    /\ UNCHANGED <<raw, transformed, links, mapping, batches, objects>>
    /\ UNCHANGED <<requested, phase, todo, batch, item, runs>>

SkipPhase ==
    /\ pc = "between" /\ phase <= 3
    /\ ~(Current \in requested /\ Can(Current))
    /\ phase' = phase + 1
    /\ UNCHANGED <<dbVars, objects, pc, requested, stage, todo, batch, item, runs>>

EndPhase ==
    /\ pc = "stage"
    /\ stage > Len(Stages(Current))
    /\ status' = [status EXCEPT ![Current] = "completed"]
    /\ pc' = "between" /\ phase' = phase + 1
    /\ UNCHANGED <<raw, transformed, links, mapping, batches, objects>>
    /\ UNCHANGED <<requested, stage, todo, batch, item, runs>>

\* The process of the run is gone, with all that was its own.
Down ==
    /\ pc' = "down" /\ requested' = {}
    /\ phase' = 1 /\ stage' = 1
    /\ todo' = {} /\ batch' = {}
    /\ item' = [e \in Entities |-> "idle"]
    /\ UNCHANGED runs

RunEnds ==
    /\ pc = "between" /\ phase > 3
    /\ Down
    /\ UNCHANGED <<dbVars, objects>>

\* An exception leaves a batch.  A loaded batch first waits for the threads it has
\* submitted (the executor's exit), and takes results only once all are submitted:
\* an entity still waiting was not.
BatchRaises ==
    /\ pc = "batch"
    /\ Current = "load" => \/ \A e \in batch : item[e] # "waiting"
                           \/ \A e \in batch : item[e] # "handled"

\* Mutant: the failure is recorded with the text of the error.
PhaseFails_Error ==
    /\ pc \in {"stage", "batches"}
    /\ status' = [status EXCEPT ![Current] = "error"]
    /\ Down
    /\ UNCHANGED <<raw, transformed, links, mapping, batches, objects>>

\* An exception that no batch catches (a listing, a read, a batch record, a
\* folder): the phase is marked failed, run_migration finds no phase in progress
\* any more and raises.
PhaseFails ==
    /\ pc \in {"stage", "batches"} \/ BatchRaises
    /\ status' = [status EXCEPT ![Current] = "failed"]
    /\ Down
    /\ UNCHANGED <<raw, transformed, links, mapping, batches, objects>>

\* The process is killed, or the database cannot even record the failure.
Crash ==
    /\ pc # "down"
    /\ Down
    /\ UNCHANGED <<dbVars, objects>>

-----------------------------------------------------------------------------
(***************************************************************************)
(* Stages and batches.                                                     *)
(***************************************************************************)
\* The entities of the stage are listed and initialize_batches creates the
\* batch records.
StageBegins ==
    /\ pc = "stage"
    /\ stage <= Len(Stages(Current))
    /\ todo' = Source(Current) \cap Stages(Current)[stage]
    /\ batches' = IF Descends THEN batches
                  ELSE [batches EXCEPT ![Current] =
                          [e \in Entities |-> IF e \in todo' THEN "pending" ELSE @[e]]]
    /\ pc' = "batches"
    /\ UNCHANGED <<status, raw, transformed, links, mapping, objects>>
    /\ UNCHANGED <<requested, phase, stage, batch, item, runs>>

StageEnds ==
    /\ pc = "batches"
    /\ todo = {}
    /\ pc' = "stage" /\ stage' = stage + 1
    /\ UNCHANGED <<dbVars, objects, requested, phase, todo, batch, item, runs>>

BatchBegins ==
    /\ pc = "batches"
    /\ todo # {}
    /\ \E b \in SUBSET todo :
          /\ \/ Cardinality(b) = BatchSize
             \/ b = todo /\ (Descends \/ Cardinality(b) < BatchSize)
          /\ Descends => b = todo
          /\ batch' = b
          /\ todo' = todo \ b
          /\ item' = [e \in Entities |-> IF e \in b THEN "waiting" ELSE "idle"]
    /\ pc' = "batch"
    /\ UNCHANGED <<dbVars, objects, requested, phase, stage, runs>>

\* The batch is over, with the record s.
BatchLeft(s) ==
    /\ batches' = IF Descends THEN batches
                  ELSE [batches EXCEPT ![Current] =
                          [e \in Entities |-> IF e \in batch THEN s ELSE @[e]]]
    /\ batch' = {}
    /\ item' = [e \in Entities |-> "idle"]
    /\ pc' = "batches"
    /\ UNCHANGED <<status, raw, transformed, links, mapping, objects>>
    /\ UNCHANGED <<requested, phase, stage, todo, runs>>

\* Every folder that the descent from the roots can reach has had its turn.
DescentOver == \A f \in batch : item[f] = "handled" \/ \E g \in Refs[f] : item[g] # "handled"

\* Mutant: an extracted batch is recorded before it is saved.
BatchCompletes_Early ==
    /\ pc = "batch"
    /\ Current = "extract" \/ \A e \in batch : item[e] = "handled"
    /\ BatchLeft("completed")

BatchCompletes ==
    /\ pc = "batch"
    /\ IF Descends THEN DescentOver ELSE \A e \in batch : item[e] = "handled"
    /\ BatchLeft("completed")

\* An exception that the batch catches: it is marked failed and the next one follows.
BatchFails ==
    /\ BatchRaises /\ ~Descends
    /\ BatchLeft("failed")

-----------------------------------------------------------------------------
(***************************************************************************)
(* What happens to the entities of a batch.                                *)
(***************************************************************************)
\* Extract: the whole batch is saved by one call.
SavesBatch ==
    /\ pc = "batch" /\ Current = "extract"
    /\ \A e \in batch : item[e] = "waiting"
    /\ raw' = raw \cup batch
    /\ item' = [e \in Entities |-> IF e \in batch THEN "handled" ELSE item[e]]
    /\ UNCHANGED <<status, transformed, links, mapping, batches, objects>>
    /\ UNCHANGED <<pc, requested, phase, stage, todo, batch, runs>>

\* Transform: one entity, its references replaced by the qTest ids of the
\* mappings there are now; of folders, a root or a child of one done before.
Transforms(e) ==
    /\ pc = "batch" /\ Current = "transform"
    /\ e \in batch /\ item[e] = "waiting"
    /\ Descends => \A g \in Refs[e] : item[g] = "handled"
    /\ transformed' = transformed \cup {e}
    /\ links' = [links EXCEPT ![e] = IF e \in Folders THEN {} ELSE Refs[e] \cap mapping]
    /\ item' = [item EXCEPT ![e] = "handled"]
    /\ UNCHANGED <<status, raw, mapping, batches, objects>>
    /\ UNCHANGED <<pc, requested, phase, stage, todo, batch, runs>>

\* An execution without the qTest ids of its test case and cycle is skipped.
Skipped(e) ==
    e \in Executions /\ (links[e] \cap TestCases = {} \/ links[e] \cap TestCycles = {})

\* Mutant: a thread that may run twice.
Creates_Again(e) ==
    /\ pc = "batch" /\ Current = "load"
    /\ e \in batch /\ item[e] \in {"waiting", "created"} /\ ~Skipped(e)
    /\ objects' = [objects EXCEPT ![e] = @ + 1]
    /\ item' = [item EXCEPT ![e] = "created"]
    /\ UNCHANGED <<dbVars, pc, requested, phase, stage, todo, batch, runs>>

\* Load, a thread of the executor: the object is created in qTest.
Creates(e) ==
    /\ pc = "batch" /\ Current = "load"
    /\ e \in batch /\ item[e] = "waiting" /\ ~Skipped(e)
    /\ objects' = [objects EXCEPT ![e] = @ + 1]
    /\ item' = [item EXCEPT ![e] = "created"]
    /\ UNCHANGED <<dbVars, pc, requested, phase, stage, todo, batch, runs>>

\* The call raises: nothing was created, or the answer was lost, or the test
\* run was created and submitting its log raised.
CreateRaises(e) ==
    /\ pc = "batch" /\ Current = "load"
    /\ e \in batch /\ item[e] = "waiting" /\ ~Skipped(e)
    /\ \E n \in {0, 1} : objects' = [objects EXCEPT ![e] = @ + n]
    /\ item' = [item EXCEPT ![e] = "raised"]
    /\ UNCHANGED <<dbVars, pc, requested, phase, stage, todo, batch, runs>>

SkipsExecution(e) ==
    /\ pc = "batch" /\ Current = "load"
    /\ e \in batch /\ item[e] = "waiting" /\ Skipped(e)
    /\ item' = [item EXCEPT ![e] = "skipped"]
    /\ UNCHANGED <<dbVars, objects, pc, requested, phase, stage, todo, batch, runs>>

\* Mutant: the mapping is saved for a call that raised, too.
SavesMapping_Raised(e) ==
    /\ pc = "batch" /\ Current = "load"
    /\ item[e] \in {"created", "raised"}
    /\ mapping' = mapping \cup {e}
    /\ item' = [item EXCEPT ![e] = "handled"]
    /\ UNCHANGED <<status, raw, transformed, links, batches, objects>>
    /\ UNCHANGED <<pc, requested, phase, stage, todo, batch, runs>>

\* The main thread takes the results of the futures, and saves the mapping ...
SavesMapping(e) ==
    /\ pc = "batch" /\ Current = "load"
    /\ item[e] = "created"
    /\ mapping' = mapping \cup {e}
    /\ item' = [item EXCEPT ![e] = "handled"]
    /\ UNCHANGED <<status, raw, transformed, links, batches, objects>>
    /\ UNCHANGED <<pc, requested, phase, stage, todo, batch, runs>>

\* ... which may raise (or the answer has no id): the error is logged and the next result taken ...
MappingRaises(e) ==
    /\ pc = "batch" /\ Current = "load"
    /\ item[e] = "created"
    /\ item' = [item EXCEPT ![e] = "handled"]
    /\ UNCHANGED <<dbVars, objects, pc, requested, phase, stage, todo, batch, runs>>

\* ... as it is when the future holds an exception or nothing.
PassesOver(e) ==
    /\ pc = "batch" /\ Current = "load"
    /\ item[e] \in {"raised", "skipped"}
    /\ item' = [item EXCEPT ![e] = "handled"]
    /\ UNCHANGED <<dbVars, objects, pc, requested, phase, stage, todo, batch, runs>>

-----------------------------------------------------------------------------
Init ==
    /\ status = [p \in Phases |-> "not_started"]
    /\ raw = {} /\ transformed = {} /\ links = [e \in Entities |-> {}]
    /\ mapping = {} /\ batches = [p \in Phases |-> [e \in Entities |-> "none"]]
    /\ objects = [e \in Entities |-> 0]
    /\ pc = "down" /\ requested = {} /\ phase = 1 /\ stage = 1
    /\ todo = {} /\ batch = {} /\ item = [e \in Entities |-> "idle"]
    /\ runs = 0

\* The command line asks for one phase or for all of them.
Starts == \E ps \in {Phases} \cup {{p} : p \in Phases} : run_migration(ps)

\* The steps of a run in which every call succeeds.
Progress ==
    \/ BeginPhase \/ SkipPhase \/ EndPhase \/ RunEnds
    \/ StageBegins \/ StageEnds
    \/ BatchBegins \/ BatchCompletes \/ SavesBatch
    \/ \E e \in Entities :
          \/ Transforms(e) \/ Creates(e) \/ SkipsExecution(e)
          \/ SavesMapping(e) \/ PassesOver(e)

\* A call raises, or the process dies.
Fault ==
    \/ BatchFails \/ PhaseFails \/ Crash
    \/ \E e \in Entities : CreateRaises(e) \/ MappingRaises(e)

Next == Starts \/ Progress \/ Fault

Spec == Init /\ [][Next]_vars

\* A migration that nothing disturbs.
FaultlessSpec == Init /\ [][Starts \/ Progress]_vars

-----------------------------------------------------------------------------
(***************************************************************************)
(* Properties.                                                             *)
(***************************************************************************)
Statuses == {"not_started", "in_progress", "completed", "failed"}

\* Type invariant.
TypeOK ==
    /\ status \in [Phases -> Statuses]
    /\ raw \subseteq Entities /\ transformed \subseteq Entities
    /\ links \in [Entities -> SUBSET Entities] /\ mapping \subseteq Entities
    /\ batches \in [Phases -> [Entities -> {"none", "pending", "completed", "failed"}]]
    /\ objects \in [Entities -> Nat]
    /\ pc \in {"down", "between", "stage", "batches", "batch"}
    /\ requested \subseteq Phases
    /\ phase \in 1..4 /\ stage \in Nat
    /\ todo \subseteq Entities /\ batch \subseteq Entities
    /\ item \in [Entities -> ItemState]
    /\ runs \in 0..MaxRuns

\* No phase has ever begun unless the one before it is completed, whatever phases
\* the runs ask for and wherever they failed or died.
PhasesInOrder ==
    /\ status["transform"] # "not_started" => status["extract"] = "completed"
    /\ status["load"] # "not_started" => status["transform"] = "completed"

\* What a phase reads is final from the moment the phase first begins: whatever run
\* repeats, fails or dies, nothing is extracted once transformation has begun, and
\* nothing is transformed once loading has.
InputsFrozen ==
    [][/\ status["transform"] # "not_started" => raw' = raw
       /\ status["load"] # "not_started" => transformed' = transformed /\ links' = links]_vars

\* A mapping always leads to an object in qTest, also when calls fail, their
\* answers are lost or the process dies between the two writes.
MappingsExist == \A e \in mapping : objects[e] > 0

\* No entity gets more than one object per run: each run creates it at most once,
\* whatever batches its stages form.
OncePerRun == \A e \in Entities : objects[e] <= runs

\* A batch recorded as completed is in the database, whenever the process dies.
BatchesSaved ==
    \A e \in Entities :
        /\ batches["extract"][e] = "completed" => e \in raw
        /\ batches["transform"][e] = "completed" => e \in transformed

\* Resuming goes on where the last run left off: no entity is created twice.
CreatedOnce == \A e \in Entities : objects[e] <= 1

\* A migration in which nothing fails migrates every entity.
AllMigrated == status["load"] = "completed" => mapping = Entities
=============================================================================
