----------------------------- MODULE Transformers -----------------------------
(***************************************************************************)
(* TestCaseTransformer, TestCycleTransformer and TestExecutionTransformer  *)
(* (ztoq/test_*_transformer.py) and MappingRegistry.map_entity, of one     *)
(* entity that is converted again and again while what it refers to is     *)
(* mapped.                                                                 *)
(*                                                                         *)
(* A conversion is a row of sections.  What a section finds it notes as an *)
(* error or a warning, mostly by strict_mode; what it does not expect is   *)
(* an exception that ends the conversion with one more error.              *)
(***************************************************************************)
EXTENDS EntityMapping

VARIABLES
    convEntity,    \* what is converted: its kind, and classes of its values
    convOptions,   \* strict_mode, and whether there is a db_manager
    convMapped,    \* the references that the database has a mapping for
    convResult     \* the latest result, with the lookups that failed meanwhile

convVars == <<convEntity, convOptions, convMapped, convResult>>

-----------------------------------------------------------------------------
(***************************************************************************)
(* Notes and sections.                                                     *)
(***************************************************************************)
Error(what)   == [level |-> "error", what |-> what]
Warning(what) == [level |-> "warning", what |-> what]

\* An error in strict mode, and otherwise a warning.
ByMode(what) == IF convOptions.strict THEN Error(what) ELSE Warning(what)

NoteIf(condition, note) == IF condition THEN {note} ELSE {}

Section(name, notes, raises) == [name |-> name, notes |-> notes, raises |-> raises]

\* transform: the sections, until one of them raises.
Begun(sections) == {i \in DOMAIN sections : \A j \in 1..(i - 1) : ~sections[j].raises}

\* Mutant: an exception ends the conversion without an error.
Notes_Swallowed(sections) == UNION {sections[i].notes : i \in Begun(sections)}

Notes(sections) ==
    UNION {sections[i].notes : i \in Begun(sections)}
    \cup NoteIf(\E i \in DOMAIN sections : sections[i].raises, Error("unexpected"))

\* What the conversion leaves of the steps, the custom fields and the references.
Result(sections, steps, properties, targets, failing) ==
    LET notes == Notes(sections)
    IN  [status     |-> "NOT_RUN",
         priority   |-> 3,
         errors     |-> {n.what : n \in {m \in notes : m.level = "error"}},
         warnings   |-> {n.what : n \in {m \in notes : m.level = "warning"}},
         success    |-> \A n \in notes : n.level # "error",
         completed  |-> {sections[i].name : i \in {j \in Begun(sections) : ~sections[j].raises}},
         steps      |-> steps,
         properties |-> properties,
         targets    |-> targets,
         failing    |-> failing]

NoResult == [Result(<< >>, {}, << >>, [r \in {} |-> "None"], {}) EXCEPT !.success = FALSE]

-----------------------------------------------------------------------------
(***************************************************************************)
(* Sections that the transformers share.                                   *)
(***************************************************************************)
\* An item of a list that is no dictionary raises, and the handler of that exception
\* asks the item for its id and raises again.
_map_attachments(e) == Section("attachments", {}, "notADict" \in e.attachments)

\* The transformer of test cases looks at the fields itself: the value None and an item
\* that is no field raise, where the mapper would pass over them.
FieldsLost(e) ==
    /\ e.kind = "test_case"
    /\ e.fieldsNull \/ \E i \in DOMAIN e.fields : e.fields[i].type = "null"

\* What the mapper raises is a warning.
_map_custom_fields(e) ==
    Section("custom fields",
            IF FieldsLost(e) THEN {ByMode("fields")}
            ELSE NoteIf(MappingRaises("none", e.fields), Warning("mapper")),
            FALSE)

\* The properties, with the key, once from the mapper and once from the transformer, or with
\* the environment of an execution.
Properties(e) ==
    CASE FieldsLost(e)                        -> << >>
      [] ~FieldsLost(e) /\ MappingRaises("none", e.fields)  -> WithOwnFields(1, "none", << >>)
      [] ~FieldsLost(e) /\ ~MappingRaises("none", e.fields) -> WithOwnFields(2, "none", e.fields)

\* _map_module_id and _map_folder_id: no target without a folder, a database or a mapping.
_map_module_id(e, failing) ==
    LET asked == e.folder # "absent" /\ convOptions.database
    IN  Section("folder",
                NoteIf(e.folder = "absent", Warning("no folder"))
                \cup NoteIf(asked /\ e.folder \in failing, ByMode("folder lookup"))
                \cup NoteIf(asked /\ e.folder \notin failing \cup convMapped,
                            Warning("folder not mapped")),
                FALSE)

\* The target of a reference: the mapping's, or what stands for it.
TargetOf(reference, failing, placeholder) ==
    IF convOptions.database /\ reference \in convMapped \ failing THEN "mapped" ELSE placeholder

-----------------------------------------------------------------------------
(***************************************************************************)
(* Test cases.                                                             *)
(***************************************************************************)
\* The ids of priorities, 3 for any other; the migration and the registry have the same.
_map_priority ==
    TableOf(<<{"HIGHEST", "CRITICAL", "BLOCKER"}, {"HIGH", "MAJOR"}, {"MEDIUM"}, {"LOW", "MINOR"},
              {"LOWEST", "TRIVIAL"}>>)

CaseBasics(e) ==
    Section("basics",
            NoteIf(~e.named, ByMode("name"))
            \cup NoteIf(e.priority \notin DOMAIN _map_priority \cup {"absent"}, Warning("priority"))
            \cup NoteIf(e.time = "words", Warning("estimated time")),
            FALSE)

\* Steps, each of a class.  One identifier of a test case is an exception to the mode.
CaseSteps(e) ==
    LET null == "null" \in e.steps
    IN  Section("steps",
                NoteIf(null, ByMode("null step"))
                \cup NoteIf("noDescription" \in e.steps, ByMode("step description"))
                \cup NoteIf(null /\ "notADict" \notin e.steps /\ (convOptions.strict \/ e.id = "1001"),
                            Error("null steps")),
                "notADict" \in e.steps)

KeptCaseSteps(e) ==
    e.steps \ ({"null"} \cup IF convOptions.strict THEN {"noDescription"} ELSE {})

TransformTestCase(e, failing) ==
    [Result(<<CaseBasics(e), CaseSteps(e), _map_custom_fields(e), _map_attachments(e),
              _map_module_id(e, failing)>>,
            KeptCaseSteps(e), Properties(e),
            [folder |-> TargetOf(e.folder, failing, "None")], failing)
     EXCEPT !.priority = Lookup(_map_priority, 3, e.priority)]

-----------------------------------------------------------------------------
(***************************************************************************)
(* Test cycles.                                                            *)
(***************************************************************************)
Dates == {"absent", "early", "late", "zoned", "words"}

\* A date without a time zone does not compare with one that has it.
Incomparable(e) ==
    /\ {e.start, e.end} \cap {"absent", "words"} = {}
    /\ "zoned" \in {e.start, e.end} /\ e.start # e.end

CycleBasics(e) ==
    Section("basics",
            NoteIf(~e.named, ByMode("name"))
            \cup NoteIf(e.start = "words", Warning("start date"))
            \cup NoteIf(e.end = "words", Warning("end date"))
            \cup NoteIf(e.start = "late" /\ e.end = "early", Warning("dates")),
            Incomparable(e))

TransformTestCycle(e, failing) ==
    Result(<<CycleBasics(e), _map_custom_fields(e), _map_attachments(e), _map_module_id(e, failing)>>,
           {}, Properties(e), [folder |-> TargetOf(e.folder, failing, "None")], failing)

-----------------------------------------------------------------------------
(***************************************************************************)
(* Test executions.                                                        *)
(***************************************************************************)
ExecutionBasics(e) ==
    Section("basics",
            NoteIf(e.testCase = "absent", ByMode("test case key"))
            \cup NoteIf(e.date = "words", Warning("execution date")),
            FALSE)

ExecutionSteps(e) ==
    Section("steps", NoteIf("null" \in e.steps, Warning("null step")), "notADict" \in e.steps)

\* What the database has no mapping for is an error in strict mode, if it is the test case,
\* and a placeholder otherwise.
_map_entity_ids(e, failing) ==
    LET unmapped(r) == r \notin failing \cup convMapped \cup {"absent"}
    IN  Section("ids",
                IF ~convOptions.database THEN {}
                ELSE NoteIf(e.testCase = "absent", ByMode("test case key for mapping"))
                     \cup NoteIf(e.testCase \in failing, ByMode("test case lookup"))
                     \cup NoteIf(unmapped(e.testCase), Warning("test case not mapped"))
                     \cup NoteIf(unmapped(e.testCase) /\ convOptions.strict, Error("test case not mapped"))
                     \cup NoteIf(e.cycle = "absent", Warning("no cycle"))
                     \cup NoteIf(e.cycle \in failing, ByMode("cycle lookup"))
                     \cup NoteIf(unmapped(e.cycle), Warning("cycle not mapped")),
                FALSE)

\* The statuses of executions by this transformer, and by the migration itself, which does
\* so twice with a step that has none of its own.
ExecutionStatus == TableOf(
    [PASSED |-> {"PASS", "PASSED"}, FAILED |-> {"FAIL", "FAILED"}, BLOCKED |-> {"BLOCKED", "ABORTED"},
     IN_PROGRESS |-> {"WIP", "IN_PROGRESS", "EXECUTING"},
     NOT_RUN |-> {"UNEXECUTED", "NOT_EXECUTED", "NOT_RUN", "CANCELED", "PENDING"}])

MigrationStatus == TableOf(
    [PASSED |-> {"PASS", "PASSED"}, FAILED |-> {"FAIL", "FAILED"}, BLOCKED |-> {"BLOCKED"},
     IN_PROGRESS |-> {"WIP", "IN_PROGRESS", "INCOMPLETE", "EXECUTING"},
     NOT_RUN |-> {"UNEXECUTED", "NOT_EXECUTED", "NOT_TESTED"}])

TransformTestExecution(e, failing) ==
    LET zero == IF convOptions.strict /\ convOptions.database THEN "unset" ELSE "zero"
    IN  [Result(<<ExecutionBasics(e), ExecutionSteps(e), _map_custom_fields(e), _map_attachments(e),
                  _map_entity_ids(e, failing)>>,
                e.steps \ {"null"}, Properties(e),
                [testCase |-> TargetOf(e.testCase, failing, zero),
                 cycle    |-> TargetOf(e.cycle, failing, zero)], failing)
         EXCEPT !.status = Lookup(ExecutionStatus, "NOT_RUN", e.status)]

-----------------------------------------------------------------------------
(***************************************************************************)
(* The entities, and their conversions.                                    *)
(***************************************************************************)
\* Bound: one field at most, of the types and values that the sections tell apart.
SomeFields ==
    {<< >>} \cup {<<f>> : f \in {[name |-> "plain", type |-> t, value |-> v] :
                                   t \in {"numeric", "date", "hierarchicalSelect", "null"},
                                   v \in {"None", "words", "huge", "oddPath", "bool"}}}

\* The lists hold items of at most two classes.
ItemLists(classes) == {S \in SUBSET classes : Cardinality(S) <= 2}

\* The statuses that a table has, and one that none has.
StatusTables == {status_mappings, _map_status, StepResultStatus, ExecutionStatus, MigrationStatus}
SourceStatuses == UNION {DOMAIN table : table \in StatusTables} \cup {"ON HOLD"}

TestCases ==
    [kind : {"test_case"}, named : BOOLEAN, priority : {"HIGH", "urgent"}, time : {"absent"},
     id : {"other", "1001"}, steps : ItemLists({"fine", "noDescription", "null", "notADict"}),
     fieldsNull : {FALSE}, fields : {<< >>}, attachments : {{}}, folder : {"absent", "f"}]
    \cup
    [kind : {"test_case"}, named : {TRUE}, priority : {"absent"}, time : {"absent", "number", "words"},
     id : {"other"}, steps : {{}, {"fine"}}, fieldsNull : {FALSE}, fields : SomeFields,
     attachments : {{}, {"fine", "null"}, {"notADict"}}, folder : {"absent", "f"}]
    \cup
    [kind : {"test_case"}, named : {TRUE}, priority : {"absent"}, time : {"absent"},
     id : {"other"}, steps : {{}, {"fine"}}, fieldsNull : {TRUE}, fields : {<< >>},
     attachments : {{}}, folder : {"absent", "f"}]
    \cup
    [kind : {"test_case"}, named : {TRUE}, priority : DOMAIN priority_mappings, time : {"absent"},
     id : {"other"}, steps : {{}}, fieldsNull : {FALSE}, fields : {<< >>}, attachments : {{}},
     folder : {"f"}]

TestCycles ==
    [kind : {"test_cycle"}, named : BOOLEAN, start : Dates, end : Dates, fieldsNull : {FALSE},
     fields : {<< >>}, attachments : {{}}, folder : {"absent", "f"}]
    \cup
    [kind : {"test_cycle"}, named : {TRUE}, start : {"early"}, end : {"late"}, fieldsNull : {FALSE},
     fields : SomeFields, attachments : {{}, {"fine", "null"}, {"notADict"}}, folder : {"absent", "f"}]

TestExecutions ==
    [kind : {"test_execution"}, testCase : {"absent", "t"}, cycle : {"absent", "c"},
     status : {"PASS"}, date : {"absent", "date", "words"}, steps : ItemLists({"fine", "null", "notADict"}),
     fieldsNull : {FALSE}, fields : {<< >>}, attachments : {{}, {"notADict"}}]
    \cup
    [kind : {"test_execution"}, testCase : {"absent", "t"}, cycle : {"absent", "c"},
     status : {"PASS"}, date : {"date"}, steps : {{}}, fieldsNull : {FALSE}, fields : SomeFields,
     attachments : {{}}]
    \cup
    [kind : {"test_execution"}, testCase : {"t"}, cycle : {"c"}, status : SourceStatuses, date : {"date"},
     steps : {{}}, fieldsNull : {FALSE}, fields : {<< >>}, attachments : {{}}]

\* Any kind of entity with values for some of its fields, for the registry of mappings.
Tabulated ==
    UNION {[kind : {"registry"}, entity : {k}, present : SUBSET DOMAIN Registry[k],
            fieldsNull : {FALSE},
            fields : {<< >>, <<[name |-> "plain", type |-> "date", value |-> "huge"]>>}] :
           k \in DOMAIN Registry}

References == {"f", "t", "c"}

ReferencesOf(e) ==
    CASE e.kind = "test_execution"                -> {e.testCase, e.cycle} \ {"absent"}
      [] e.kind \in {"test_case", "test_cycle"} -> {e.folder} \ {"absent"}
      [] e.kind = "registry"                      -> {}

\* map_entity of the registry, which raises for what the transformers note.
MapRegistered(e) ==
    Result(<<Section("registry", {}, RaisesFor(e.entity, e.present, "none", e.fields))>>,
           {}, << >>, map_entity(e.entity, e.present), {})

\* transform, while lookups of some references fail.
Transform(failing) ==
    /\ convResult' =
         CASE convEntity.kind = "test_case"      -> TransformTestCase(convEntity, failing)
           [] convEntity.kind = "test_cycle"     -> TransformTestCycle(convEntity, failing)
           [] convEntity.kind = "test_execution" -> TransformTestExecution(convEntity, failing)
           [] convEntity.kind = "registry"       -> MapRegistered(convEntity)
    /\ UNCHANGED <<convEntity, convOptions, convMapped>>

\* The migration maps something that the entity refers to.
MapReference(r) ==
    /\ r \in ReferencesOf(convEntity) \ convMapped
    /\ convOptions.database
    /\ convMapped' = convMapped \cup {r}
    /\ UNCHANGED <<convEntity, convOptions, convResult>>

ConvInit ==
    /\ convEntity \in TestCases \cup TestCycles \cup TestExecutions \cup Tabulated
    /\ convOptions \in [strict : BOOLEAN, database : BOOLEAN]
    /\ convMapped = {}
    /\ convResult = NoResult

ConvNext ==
    \/ \E failing \in SUBSET ReferencesOf(convEntity) : Transform(failing)
    \/ \E r \in References : MapReference(r)

ConvSpec == ConvInit /\ [][ConvNext]_convVars

-----------------------------------------------------------------------------
(***************************************************************************)
(* Properties.                                                             *)
(***************************************************************************)
\* What a conversion notes nothing about has lost nothing: every step, every custom field
\* with a value, and, given a database, every reference has its counterpart.
NothingLostSilently ==
    (/\ convResult.success /\ convResult.warnings = {}
     /\ convEntity.kind # "registry") =>
        /\ convEntity.kind # "test_cycle" => convResult.steps = convEntity.steps
        /\ Len(convResult.properties) >= Len(Valued(convEntity.fields))
        /\ convOptions.database =>
              \A r \in DOMAIN convResult.targets : convResult.targets[r] = "mapped"

\* A success in strict mode refers to the test case that is mapped in the database.
StrictRefers ==
    (/\ convResult.success /\ convOptions.strict /\ convOptions.database
     /\ convEntity.kind = "test_execution") => convResult.targets.testCase = "mapped"

\* A conversion that succeeded went through all of its sections, whatever raised; one by
\* the registry has all that is mandatory.
SuccessIsWhole ==
    convResult.success =>
        IF convEntity.kind = "registry"
          THEN \A f \in DOMAIN Registry[convEntity.entity] :
                  Registry[convEntity.entity][f] = Mandatory => convResult.targets[f] = "set"
          ELSE {"basics", "custom fields", "attachments"} \subseteq convResult.completed

\* The tables of five places agree on a status that they know, and know what they map to
\* for what it is, save the one of the registry for steps, which does not know IN_PROGRESS.
StatusesAgree ==
    (convEntity.kind = "test_execution" /\ convResult.completed # {}) =>
        \A table \in StatusTables :
            /\ convEntity.status \in DOMAIN table /\ convEntity.status \in DOMAIN ExecutionStatus =>
                  table[convEntity.status] = convResult.status
            /\ table # StepResultStatus =>
                  Lookup(table, "NOT_RUN", convResult.status) = convResult.status

\* A property has a value of its type.
PropertiesTyped ==
    \A i \in DOMAIN convResult.properties : FitsType(convResult.properties[i])

\* Both tables of priorities order them in the same way.
PrioritiesAgree ==
    (convEntity.kind = "test_case" /\ convResult.completed # {}) =>
        map_priority(convEntity.priority) =
            <<"CRITICAL", "HIGH", "MEDIUM", "LOW", "TRIVIAL">>[convResult.priority]

ConversionsSound == NothingLostSilently /\ StrictRefers /\ SuccessIsWhole /\ PropertiesTyped
                    /\ StatusesAgree /\ PrioritiesAgree

\* When an entity is converted again, when the same lookups fail and more is mapped, no
\* error is reported that was not reported before.
ConversionsImprove ==
    [][(/\ convResult.success \/ convResult.errors # {}
        /\ convResult'.failing = convResult.failing) =>
            /\ convResult'.errors \subseteq convResult.errors
            /\ convResult.success => convResult'.success]_convVars
=============================================================================
