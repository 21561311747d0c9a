---------------------------- MODULE Orchestrator ----------------------------
(***************************************************************************)
(* WorkflowOrchestrator (ztoq/workflow_orchestrator.py) and the commands   *)
(* that build one (ztoq/workflow_cli.py): phases of a migration that are   *)
(* skipped when completed, resumed, rolled back, or run for the changed    *)
(* entities only.  Every command builds a new orchestrator, which loads    *)
(* the phase statuses from the database.                                   *)
(*                                                                         *)
(* The orchestrator calls methods that no class of ztoq/ defines           *)
(* (extract_test_cases, load_test_cases, get_transformed_entities ...);    *)
(* its tests pass objects that have them.  These objects are external: a   *)
(* database of batches, and calls per entity that succeed, report a        *)
(* failure or raise.  The effects of run_in_thread_pool are those of       *)
(* ThreadPoolRun: results of all items, or an exception with any part of   *)
(* the work done and nothing left running.                                 *)
(***************************************************************************)
EXTENDS Integers, Sequences, FiniteSets

CONSTANTS
    Entities,     \* the test cases of the project
    MaxCommands,  \* bound on the commands run
    MaxZephyrChanges    \* bound on the changes made in Zephyr after the start

ASSUME OrchestratorAssumption ==
    MaxCommands \in Nat /\ MaxZephyrChanges \in Nat /\ IsFiniteSet(Entities)

VARIABLES
    state,    \* MigrationState: the statuses kept in the database
    batch,    \* the entities that wait for the transformation, and for the load
    qtest,    \* objects in qTest and the mappings that name them
    zephyr,   \* since: changed after the stamp; refused: reported as failed
    run       \* the command that runs: its phases, the work left, its results
orchVars == <<state, batch, qtest, zephyr, run>>

PhaseNames == {"extract", "transform", "load", "validate", "rollback"}
Statuses == {"not_started", "in_progress", "completed", "partial", "failed", "rolled_back"}
NoCommand == [pc |-> "idle", cmd |-> "all", left |-> <<>>, todo |-> {}, ok |-> FALSE, bad |-> FALSE,
         inc |-> FALSE, sql |-> FALSE]

OrchInit ==
    /\ state = [extract |-> "not_started", transform |-> "not_started",
                load |-> "not_started", rollback |-> "not_started"]
    /\ batch = [waiting |-> {}, ready |-> {}]
    /\ qtest = [objects |-> {}, mapped |-> {}]
    /\ zephyr = [since |-> Entities, refused |-> {}, changes |-> 0, runs |-> 0]
    /\ run = NoCommand

AllPhases == <<"extract", "transform", "load", "validate">>
Incomplete(s) == s \in {"not_started", "in_progress", "failed"}

\* resume_workflow: the phases that are not completed (partial and rolled back
\* ones are not among them), then the validation.
Resumed(p) == IF Incomplete(state[p]) THEN <<p>> ELSE <<>>
ResumedPhases == Resumed("extract") \o Resumed("transform") \o Resumed("load") \o <<"validate">>

\* A command starts: migrate run (all phases, some, or the rollback), migrate
\* resume, or run_incremental_migration.
StartCommand(cmd, sql) ==
    /\ run.pc = "idle" /\ zephyr.runs < MaxCommands
    /\ run' = [NoCommand EXCEPT !.pc = "next", !.cmd = cmd, !.sql = sql,
                 !.inc = (cmd = "incremental"),
                 !.left = CASE cmd \in {"all", "incremental"} -> AllPhases
                            [] cmd = "resume" -> ResumedPhases
                            [] OTHER -> <<cmd>>]
    /\ zephyr' = [zephyr EXCEPT !.runs = @ + 1]
    /\ UNCHANGED <<state, batch, qtest>>

\* _can_skip_phase: a completed phase is skipped, also in an incremental run.
CanSkip(p) == p \in {"extract", "transform", "load"} /\ state[p] = "completed"

SkipPhase ==
    /\ run.pc = "next" /\ run.left # <<>> /\ CanSkip(Head(run.left))
    /\ run' = [run EXCEPT !.left = Tail(@)]
    /\ UNCHANGED <<state, batch, qtest, zephyr>>

\* The phase asks Zephyr or the database for its entities: all of them, or
\* those changed since the stamp.
Work(p) == CASE p = "extract" -> IF run.inc THEN zephyr.since ELSE Entities
             [] p = "transform" -> batch.waiting
             [] p = "load" -> batch.ready
             [] OTHER -> {}

BeginPhase ==
    /\ run.pc = "next" /\ run.left # <<>> /\ ~CanSkip(Head(run.left))
    /\ LET p == Head(run.left)
       IN /\ run' = [run EXCEPT !.pc = p, !.left = Tail(@), !.todo = Work(p),
                                !.ok = FALSE, !.bad = FALSE]
          /\ state' = IF p = "rollback" THEN [state EXCEPT !.rollback = "in_progress"] ELSE state
    /\ UNCHANGED <<batch, qtest, zephyr>>

\* One of the extraction calls has stored its entities.
ExtractOne(e) ==
    /\ run.pc = "extract" /\ e \in run.todo
    /\ batch' = [batch EXCEPT !.waiting = @ \cup {e}]
    /\ run' = [run EXCEPT !.todo = @ \ {e}]
    /\ UNCHANGED <<state, qtest, zephyr>>

\* Mutant: a failed entity leaves the waiting ones unreported.
TransformOne_Drops(e, succeeds) ==
    /\ run.pc = "transform" /\ e \in run.todo
    /\ batch' = [waiting |-> batch.waiting \ {e},
                 ready |-> IF succeeds THEN batch.ready \cup {e} ELSE batch.ready]
    /\ run' = [run EXCEPT !.todo = @ \ {e}, !.ok = @ \/ succeeds, !.bad = @ \/ ~succeeds]
    /\ UNCHANGED <<state, qtest, zephyr>>

\* A batch reports successes and failures; a failed one is not tried again
\* in this phase and stays as it is.
TransformOne(e, succeeds) ==
    /\ run.pc = "transform" /\ e \in run.todo
    /\ batch' = IF succeeds
                THEN [waiting |-> batch.waiting \ {e}, ready |-> batch.ready \cup {e}]
                ELSE batch
    /\ run' = [run EXCEPT !.todo = @ \ {e}, !.ok = @ \/ succeeds, !.bad = @ \/ ~succeeds]
    /\ zephyr' = IF succeeds THEN zephyr ELSE [zephyr EXCEPT !.refused = @ \cup {e}]
    /\ UNCHANGED <<state, qtest>>

\* A load call returns how many objects it made; zero is counted as a failed
\* batch.
LoadOne(e, succeeds) ==
    /\ run.pc = "load" /\ e \in run.todo
    /\ IF succeeds
       THEN /\ qtest' = [objects |-> qtest.objects \cup {e}, mapped |-> qtest.mapped \cup {e}]
            /\ batch' = [batch EXCEPT !.ready = @ \ {e}]
            /\ UNCHANGED zephyr
       ELSE /\ zephyr' = [zephyr EXCEPT !.refused = @ \cup {e}]
            /\ UNCHANGED <<qtest, batch>>
    /\ run' = [run EXCEPT !.todo = @ \ {e}, !.bad = @ \/ ~succeeds]
    /\ UNCHANGED state

Raise(p) == /\ state' = [state EXCEPT ![p] = "failed"] /\ run' = NoCommand

\* A call raises: the status is failed, the later phases do not run.
PhaseRaises ==
    /\ run.pc \in {"extract", "transform", "load"}
    /\ Raise(run.pc)
    /\ UNCHANGED <<batch, qtest, zephyr>>

\* A call of the load raises after it created its object and before it saved
\* the mapping.
LoadRaises(e) ==
    /\ run.pc = "load" /\ e \in run.todo
    /\ qtest' = [qtest EXCEPT !.objects = @ \cup {e}]
    /\ Raise("load")
    /\ UNCHANGED <<batch, zephyr>>

EndExtract ==
    /\ run.pc = "extract" /\ run.todo = {}
    /\ state' = [state EXCEPT !.extract = "completed"]
    /\ run' = [run EXCEPT !.pc = "next"]
    /\ UNCHANGED <<batch, qtest, zephyr>>

\* The SQL transformer's counts decide: completed, partial or failed - failed
\* without an exception, so that the run goes on.  The other transformations
\* are completed whatever their results say.
TransformResult ==
    IF ~run.sql \/ run.inc \/ ~run.bad THEN "completed"
    ELSE IF run.ok THEN "partial" ELSE "failed"

EndTransform ==
    /\ run.pc = "transform" /\ run.todo = {}
    /\ state' = [state EXCEPT !.transform = TransformResult]
    /\ run' = [run EXCEPT !.pc = "next"]
    /\ UNCHANGED <<batch, qtest, zephyr>>

\* Failed batches are counted, the status is completed in any case.
EndLoad ==
    /\ run.pc = "load" /\ run.todo = {}
    /\ state' = [state EXCEPT !.load = "completed"]
    /\ run' = [run EXCEPT !.pc = "next"]
    /\ UNCHANGED <<batch, qtest, zephyr>>

\* Critical issues make an event, not an exception; a check that raises ends
\* the command.
Validate(raises) ==
    /\ run.pc = "validate"
    /\ run' = IF raises THEN NoCommand ELSE [run EXCEPT !.pc = "next"]
    /\ UNCHANGED <<state, batch, qtest, zephyr>>

\* The rollback decides once which phases it rolls back.
Undone(p, statuses) == IF state[p] \in statuses THEN <<p>> ELSE <<>>

PlanRollback ==
    /\ run.pc = "rollback"
    /\ run' = [run EXCEPT !.pc = "undo",
                 !.left = Undone("load", {"completed", "partial"})
                            \o Undone("transform", {"completed"}) \o Undone("extract", {"completed"}),
                 !.todo = IF state.load \in {"completed", "partial"} THEN qtest.mapped ELSE {}]
    /\ UNCHANGED <<state, batch, qtest, zephyr>>

Undoing(p) == run.pc = "undo" /\ run.left # <<>> /\ Head(run.left) = p

\* Delete the objects the mappings name; a deletion that fails is logged.  The
\* mappings stay.
DeleteObject(e, succeeds) ==
    /\ Undoing("load") /\ e \in run.todo
    /\ run' = [run EXCEPT !.todo = @ \ {e}]
    /\ qtest' = IF succeeds THEN [qtest EXCEPT !.objects = @ \ {e}] ELSE qtest
    /\ UNCHANGED <<state, batch, zephyr>>

LoadedUndone ==
    /\ Undoing("load") /\ run.todo = {}
    /\ state' = [state EXCEPT !.load = "rolled_back"]
    /\ run' = [run EXCEPT !.left = Tail(@)]
    /\ UNCHANGED <<batch, qtest, zephyr>>

\* Delete the rows, then record it: a crash in between leaves the status.
DeleteRows(p) ==
    /\ Undoing(p) /\ run.ok = FALSE
    /\ batch' = IF p = "transform" THEN [batch EXCEPT !.ready = {}]
                ELSE [batch EXCEPT !.waiting = {}]
    /\ run' = [run EXCEPT !.ok = TRUE]
    /\ UNCHANGED <<state, qtest, zephyr>>

RowsUndone(p) ==
    /\ Undoing(p) /\ run.ok
    /\ state' = [state EXCEPT ![p] = "rolled_back"]
    /\ run' = [run EXCEPT !.left = Tail(@), !.ok = FALSE]
    /\ UNCHANGED <<batch, qtest, zephyr>>

\* An exception of the rollback is its result, not the command's.
RollbackFails ==
    /\ run.pc = "undo"
    /\ state' = [state EXCEPT !.rollback = "failed"]
    /\ run' = [run EXCEPT !.pc = "next", !.left = <<>>]
    /\ UNCHANGED <<batch, qtest, zephyr>>

EndRollback ==
    /\ run.pc = "undo" /\ run.left = <<>>
    /\ state' = [state EXCEPT !.rollback = "completed"]
    /\ run' = [run EXCEPT !.pc = "next"]
    /\ UNCHANGED <<batch, qtest, zephyr>>

\* The results are returned; an incremental run saves the time of its end.  A
\* time that cannot be saved is logged.
EndCommand(saved) ==
    /\ run.pc = "next" /\ run.left = <<>>
    /\ zephyr' = IF run.inc /\ saved THEN [zephyr EXCEPT !.since = {}] ELSE zephyr
    /\ run' = NoCommand
    /\ UNCHANGED <<state, batch, qtest>>

\* The process ends at any point; the database and qTest keep their contents.
Crash ==
    /\ run.pc # "idle" /\ run' = NoCommand
    /\ UNCHANGED <<state, batch, qtest, zephyr>>

\* Somebody edits a test case in Zephyr.
Change(e) ==
    /\ zephyr.changes < MaxZephyrChanges
    /\ zephyr' = [zephyr EXCEPT !.since = @ \cup {e}, !.changes = @ + 1]
    /\ UNCHANGED <<state, batch, qtest, run>>

CommandStep ==
    \/ SkipPhase \/ BeginPhase \/ PhaseRaises
    \/ EndExtract \/ EndTransform \/ EndLoad \/ \E raises \in BOOLEAN : Validate(raises)
    \/ PlanRollback \/ LoadedUndone \/ RollbackFails \/ EndRollback
    \/ \E p \in {"transform", "extract"} : DeleteRows(p) \/ RowsUndone(p)
    \/ \E e \in Entities : ExtractOne(e) \/ LoadRaises(e)
    \/ \E e \in Entities, succeeds \in BOOLEAN :
         TransformOne(e, succeeds) \/ LoadOne(e, succeeds) \/ DeleteObject(e, succeeds)
    \/ \E saved \in BOOLEAN : EndCommand(saved)

OrchNext ==
    \/ CommandStep \/ Crash
    \/ \E cmd \in {"all", "resume", "incremental", "rollback", "transform", "load"},
          sql \in BOOLEAN : StartCommand(cmd, sql)
    \/ \E e \in Entities : Change(e)

\* Calls return or raise, the command goes on.
OrchSpec == OrchInit /\ [][OrchNext]_orchVars /\ WF_orchVars(CommandStep)

----------------------------------------------------------------------------
(***************************** Properties *********************************)

\* Types of the statuses, the batches and the command.
OrchTypeOK ==
    /\ state \in [{"extract", "transform", "load", "rollback"} -> Statuses]
    /\ batch \in [waiting : SUBSET Entities, ready : SUBSET Entities]
    /\ qtest \in [objects : SUBSET Entities, mapped : SUBSET Entities]
    /\ zephyr.since \subseteq Entities
    /\ run.pc \in PhaseNames \cup {"idle", "next", "undo"} /\ run.todo \subseteq Entities

\* Once the extraction is completed, and until a rollback begins, every entity
\* is in qTest, waits in a batch, or was reported as failed: no exception,
\* crash, resumption or skipped phase makes one disappear.
NothingForgotten ==
    state.extract = "completed" /\ state.rollback = "not_started" =>
        Entities \subseteq qtest.mapped \cup zephyr.refused \cup batch.waiting \cup batch.ready

\* The rollback goes backwards: while rows of an earlier phase are deleted no
\* phase after it still counts as completed.
RollbackBackwards ==
    /\ Undoing("transform") => state.load \notin {"completed", "partial"}
    /\ Undoing("extract") =>
         state.load \notin {"completed", "partial"} /\ state.transform # "completed"

\* A command ends, however its calls and its phases end.
CommandEnds == run.pc # "idle" ~> run.pc = "idle"

\* Entities survive failed, resumed and incremental runs until the rollback,
\* which undoes the phases from the last to the first.
MigrationSound == OrchTypeOK /\ NothingForgotten /\ RollbackBackwards
=============================================================================
