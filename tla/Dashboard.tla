----------------------------- MODULE Dashboard -----------------------------
(***************************************************************************)
(* The rows a migration keeps of its batches (ztoq/migration.py and        *)
(* ztoq/core/db_manager.py), and those who read them while it runs: the    *)
(* dashboard (ztoq/migration_dashboard.py) and the report                  *)
(* (ztoq/migration_report.py).  Every query sees what is committed when it *)
(* runs, and a reading is many queries, so that the phases go on between.  *)
(*                                                                         *)
(* The trackers call create_entity_batch and update_entity_batch, which no *)
(* database manager of ztoq has; their calls are taken to do what the      *)
(* operations with nearly their names do.                                  *)
(***************************************************************************)
EXTENDS Integers, Sequences, SequencesExt, FiniteSets

CONSTANTS
    ReadKinds,       \* the kinds of entities after the folders, in the order they are extracted
    Extents(_),      \* how many entities of a kind the project may have
    TrackedSize,     \* batch_size
    Databases,       \* [postgres, mappings]: which database, and has it the table of mappings?
    MaxPhaseStarts,     \* bound on the phases started
    MaxReadings      \* bound on the readings

FolderKind == "folders"   \* transformed without a tracker, and loaded as modules
EntityTypes == {FolderKind} \cup ToSet(ReadKinds)

ASSUME DashAssumption ==
    /\ Databases \subseteq [postgres : BOOLEAN, mappings : BOOLEAN]
    /\ ReadKinds \in Seq(STRING)
    /\ \A k \in EntityTypes : Extents(k) \subseteq Nat
    /\ TrackedSize \in Nat \ {0}
    /\ MaxPhaseStarts \in Nat /\ MaxReadings \in Nat

VARIABLES
    batchRows,       \* entity_batch_state: <<stage, kind>> -> its rows by batch number
    phases,     \* migration_state: the status of each phase
    kept,       \* <<stage, kind>> -> the numbers of the entities stored
    work,       \* the running phase: the trackers left, and the batches of the first
    reading,    \* who reads, the queries left and what is known
    setting     \* the database, and what happened so far
dashVars == <<batchRows, phases, kept, work, reading, setting>>

PhaseNames == <<"source", "transformed", "loaded">>
\* The entity types of a phase, in order.
StageTypes(p) == [i \in DOMAIN ReadKinds |-> <<p, ReadKinds[i]>>]
TrackersOf(p) == CASE p = "source" -> <<<<p, FolderKind>>>> \o StageTypes(p)
                   [] p = "transformed" -> StageTypes(p)
                   [] p = "loaded" -> <<<<"modules", FolderKind>>>> \o StageTypes(p)
Trackers == UNION {ToSet(TrackersOf(p)) : p \in ToSet(PhaseNames)}

\* Where a tracker's entities come from.
Input(t) == <<IF t[1] = "loaded" THEN "transformed" ELSE "source", t[2]>>

Resting == [phase |-> "none", trackers |-> << >>, batches |-> << >>, made |-> 0, done |-> 0]
NotReading == [by |-> "none", todo |-> << >>, state |-> {}, source |-> 0, transformed |-> 0,
               loaded |-> 0, issues |-> 0, grown |-> FALSE]

DashInit ==
    /\ batchRows = [t \in Trackers |-> << >>]
    /\ phases = [p \in ToSet(PhaseNames) |-> "not_started"]
    /\ kept = [t \in Trackers |-> {}]
    /\ work = Resting
    /\ reading = NotReading
    /\ setting \in [db : Databases, shrunk : {FALSE}, attempts : {0}, readings : {0},
                    last : {[k \in EntityTypes |-> 0]}]

-----------------------------------------------------------------------------
(**************************** The migration ********************************)

\* can_extract, can_transform and can_load.
CanStart(i) ==
    /\ phases[PhaseNames[i]] \in {"not_started", "in_progress", "failed"}
    /\ i > 1 => phases[PhaseNames[i - 1]] = "completed"

StartPhase(i) ==
    /\ work.phase = "none" /\ CanStart(i) /\ setting.attempts < MaxPhaseStarts
    /\ phases' = [phases EXCEPT ![PhaseNames[i]] = "in_progress"]
    /\ work' = [Resting EXCEPT !.phase = PhaseNames[i], !.trackers = TrackersOf(PhaseNames[i])]
    /\ setting' = [setting EXCEPT !.attempts = @ + 1]
    /\ UNCHANGED <<batchRows, kept, reading>>

Tracker == Head(work.trackers)

\* initialize_batches cuts the entities, in their order, into batches of batch_size.
BatchCount(n) == (n + TrackedSize - 1) \div TrackedSize
Place(x, items) == Cardinality({y \in items : y < x})
Batched(items) ==
    [i \in 1..BatchCount(Cardinality(items)) |->
        {x \in items : Place(x, items) \div TrackedSize = i - 1}]

NextTracker == [work EXCEPT !.trackers = Tail(@), !.batches = << >>, !.made = 0, !.done = 0]

\* The entities of the next type are listed, the source's by Zephyr.
ListEntities ==
    /\ work.trackers # << >> /\ work.batches = << >>
    /\ \E items \in IF Tracker[1] = "source" THEN {1..n : n \in Extents(Tracker[2])} ELSE {kept[Input(Tracker)]} :
         /\ work' = IF items = {} THEN NextTracker ELSE [work EXCEPT !.batches = Batched(items)]
         /\ setting' = IF Tracker[1] # "source" THEN setting
                       ELSE [setting EXCEPT !.last[Tracker[2]] = Cardinality(items),
                                            !.shrunk = @ \/ Cardinality(items) < setting.last[Tracker[2]]]
    /\ UNCHANGED <<batchRows, phases, kept, reading>>

\* create_entity_batch_state makes a row, or resets the status of the one there is:
\* its processed_count stays, and so do the rows of batches that are no more.
Fresh(items) == [items |-> items, processed |-> 0, status |-> "not_started",
                 started |-> FALSE, completed |-> FALSE]
CreateEntityBatchState(t, n, items) ==
    batchRows' = IF n \in DOMAIN batchRows[t]
            THEN [batchRows EXCEPT ![t][n].items = items, ![t][n].status = "not_started"]
            ELSE [batchRows EXCEPT ![t] = Append(@, Fresh(items))]

InitializeBatches ==
    /\ work.made < Len(work.batches)
    /\ CreateEntityBatchState(Tracker, work.made + 1, Cardinality(work.batches[work.made + 1]))
    /\ work' = [work EXCEPT !.made = @ + 1]
    /\ reading' = [reading EXCEPT !.grown = reading.todo # << >> /\ (@ \/ Tracker[1] = "source")]
    /\ UNCHANGED <<phases, kept, setting>>

\* update_entity_batch_state; nobody gives the status with which started_at is set.
UpdateEntityBatchState(t, n, count, status) ==
    LET row == batchRows[t][n] IN
    batchRows' = [batchRows EXCEPT ![t][n] =
                    [row EXCEPT !.processed = count, !.status = status,
                                !.completed = IF status = "completed" THEN TRUE ELSE row.completed]]

BatchEnds(n) == work' = IF n = Len(work.batches) THEN NextTracker ELSE [work EXCEPT !.done = n]

\* A batch of entities is stored, or fails whole.
StoreBatch ==
    /\ work.batches # << >> /\ work.made = Len(work.batches) /\ work.phase # "loaded"
    /\ LET n == work.done + 1
           batch == work.batches[n]
       IN  /\ BatchEnds(n)
           /\ \/ /\ UpdateEntityBatchState(Tracker, n, Cardinality(batch), "completed")
                 /\ kept' = [kept EXCEPT ![Tracker] = @ \cup batch]
              \/ UpdateEntityBatchState(Tracker, n, 0, "failed") /\ UNCHANGED kept
    /\ UNCHANGED <<phases, reading, setting>>

\* Entities are loaded one by one: those that fail are left out of the count of a batch
\* that is completed all the same.
LoadBatch ==
    /\ work.batches # << >> /\ work.made = Len(work.batches) /\ work.phase = "loaded"
    /\ LET n == work.done + 1 IN
       /\ BatchEnds(n)
       /\ \E count \in 0..Cardinality(work.batches[n]) :
            UpdateEntityBatchState(Tracker, n, count, "completed")
    /\ UNCHANGED <<phases, kept, reading, setting>>

EndPhase ==
    /\ work.phase # "none" /\ work.trackers = << >>
    /\ phases' = [phases EXCEPT ![work.phase] = "completed"]
    /\ work' = Resting
    /\ UNCHANGED <<batchRows, kept, reading, setting>>

\* The listing of the entities raises, which ends the phase, or the process is killed.
StopPhase ==
    /\ work.trackers # << >>
    /\ \/ work.batches = << >> /\ phases' = [phases EXCEPT ![work.phase] = "failed"]
       \/ UNCHANGED phases
    /\ work' = Resting
    /\ UNCHANGED <<batchRows, kept, reading, setting>>

-----------------------------------------------------------------------------
(****************************** The readers ********************************)

CountedTypes == TrackersOf("source") \o StageTypes("transformed") \o StageTypes("loaded")
Query(kind) == << <<kind>> >>

\* Mutant: the state comes after the counts.
ReadPlan_StateLast ==
    Query("mappings") \o CountedTypes \o Query("issues") \o Query("state") \o Query("rest")

\* get_status_summary, and generate_report: state, mappings, the counts by type, issues,
\* and the statistics and times of single rows.
ReadPlan == Query("state") \o Query("mappings") \o CountedTypes \o Query("issues") \o Query("rest")

StartReading ==
    /\ reading.todo = << >> /\ setting.readings < MaxReadings
    /\ \E by \in {"dashboard", "report"} :
         reading' = [NotReading EXCEPT !.by = by, !.todo = ReadPlan]
    /\ setting' = [setting EXCEPT !.readings = @ + 1]
    /\ UNCHANGED <<batchRows, phases, kept, work>>

\* The sum of a column.
Total(s) == LET total[n \in 0..Len(s)] == IF n = 0 THEN 0 ELSE total[n - 1] + s[n] IN total[Len(s)]
ItemCounts(t) == [n \in DOMAIN batchRows[t] |-> batchRows[t][n].items]
ProcessedCounts(t) == [n \in DOMAIN batchRows[t] |-> batchRows[t][n].processed]
CompletedCounts(t) ==
    [n \in DOMAIN batchRows[t] |->
        IF batchRows[t][n].status = "completed" THEN batchRows[t][n].processed ELSE 0]

\* get_entity_counts: what there is in the source, what was done of the others.
EntityCount(t) == IF t[1] = "source" THEN Total(ItemCounts(t)) ELSE Total(CompletedCounts(t))

\* get_batch_statistics.
RowsWith(t, ss) == Cardinality({i \in DOMAIN batchRows[t] : batchRows[t][i].status \in ss})
BatchStatistics(t) ==
    [total |-> Len(batchRows[t]), completed |-> RowsWith(t, {"completed"}),
     failed |-> RowsWith(t, {"failed"}), pending |-> RowsWith(t, {"not_started", "in_progress"}),
     items |-> Total(ItemCounts(t)), processed |-> Total(ProcessedCounts(t))]

\* _get_timing_info: phases, and all together, of which a batch has a start and one an end.
Timed(ts) ==
    /\ \E t \in ts : \E i \in DOMAIN batchRows[t] : batchRows[t][i].started
    /\ \E t \in ts : \E i \in DOMAIN batchRows[t] : batchRows[t][i].completed
TimedPhases == {p \in ToSet(PhaseNames) : Timed({t \in ToSet(CountedTypes) : t[1] = p})}

\* _get_performance_metrics.
RatedPhases == TimedPhases \cup IF Timed(ToSet(CountedTypes)) THEN {"overall"} ELSE {}

\* The query for the table of issues names the catalogues of both databases and raises on
\* either one: no reader is shown an issue.
ShownIssues == 0

\* Without the table of mappings the report ends; the dashboard goes on with zeros,
\* but on PostgreSQL the failed query has spoilt its transaction.
MappingsRaise == ~setting.db.mappings /\ (reading.by = "report" \/ setting.db.postgres)

Completed == {p \in ToSet(PhaseNames) : phases[p] = "completed"}

ReadNext ==
    /\ reading.todo # << >>
    /\ LET query == Head(reading.todo)
           left == [reading EXCEPT !.todo = Tail(@)]
       IN  reading' =
             CASE query = <<"state">> -> [left EXCEPT !.state = Completed]
               [] query = <<"mappings">> ->
                    IF MappingsRaise THEN NotReading ELSE left
               [] query = <<"issues">> -> [left EXCEPT !.issues = ShownIssues]
               [] query = <<"rest">> -> NotReading
               [] OTHER -> [left EXCEPT ![query[1]] = @ + EntityCount(query)]
    /\ UNCHANGED <<batchRows, phases, kept, work, setting>>

DashNext ==
    \/ \E i \in DOMAIN PhaseNames : StartPhase(i)
    \/ ListEntities \/ InitializeBatches \/ StoreBatch \/ LoadBatch \/ EndPhase \/ StopPhase
    \/ StartReading \/ ReadNext

DashSpec == DashInit /\ [][DashNext]_dashVars

-----------------------------------------------------------------------------
(***************************** Properties **********************************)

\* What is known is going to be shown.
Counted == reading.todo = Query("rest")

CountNow(stage) == Total([i \in DOMAIN CountedTypes |->
    IF CountedTypes[i][1] = stage THEN EntityCount(CountedTypes[i]) ELSE 0])

\* A phase shown as completed is shown with its final counts, because the state is read
\* before them: nobody sees "completed" above the counts of a phase still at work.
CompletedIsFinal ==
    Counted => \A p \in reading.state : reading[p] = CountNow(p)

\* A reading during which no batch of the source was made shows no more entities transformed
\* or loaded than there are, as long as no repeated extraction found the project smaller.
NeverPastTheSource ==
    Counted /\ ~reading.grown /\ ~setting.shrunk =>
        reading.transformed <= reading.source /\ reading.loaded <= reading.source

\* Every batch is counted once, as completed, failed or pending, and no more entities of it
\* are shown as processed than it has, though a row that is used again keeps its old count.
StatisticsAddUp ==
    \A t \in Trackers :
        LET s == BatchStatistics(t)
        IN  /\ s.completed + s.failed + s.pending = s.total
            /\ s.processed <= s.items \/ setting.shrunk

\* Nobody learns how long a phase took, though its batches have ended.
NoTimes == RatedPhases = {}

DashboardSound == CompletedIsFinal /\ NeverPastTheSource /\ StatisticsAddUp /\ NoTimes
=============================================================================
