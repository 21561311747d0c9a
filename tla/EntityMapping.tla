---------------------------- MODULE EntityMapping ----------------------------
(***************************************************************************)
(* FieldMapping, EntityMapping and MappingRegistry                         *)
(* (ztoq/entity_mapping.py): the tables by which an entity of Zephyr       *)
(* becomes one of qTest, and what a field mapping does with a value.       *)
(***************************************************************************)
EXTENDS CustomFieldMapping

\* A field mapping of a table: required, what it does with an invalid value, whether it
\* has a default, and its transform function: none, one that keeps the value, or one that
\* converts every value, None too.
FieldMapping(required, action, default, transform) ==
    [required |-> required, action |-> action, default |-> default, transform |-> transform]

Mandatory == FieldMapping(TRUE, "error", FALSE, "none")
Expected  == FieldMapping(TRUE, "warning", FALSE, "none")
Optional  == FieldMapping(FALSE, "warning", FALSE, "none")
Defaulted == FieldMapping(FALSE, "warning", TRUE, "none")
Kept      == FieldMapping(FALSE, "warning", FALSE, "keeps")
Converted == FieldMapping(FALSE, "warning", FALSE, "converts")

\* The tables of MappingRegistry, by target field.
_create_project_mapping == [name |-> Mandatory, description |-> Optional, zephyr_key |-> Kept]

_create_folder_mapping == [name |-> Mandatory, description |-> Defaulted, parent_id |-> Optional]

_create_test_case_mapping ==
    [name |-> Mandatory, description |-> Optional, precondition |-> Optional,
     priority_id |-> Converted, module_id |-> Optional]

_create_test_step_mapping ==
    [description |-> Mandatory, expected_result |-> Optional, test_data |-> Optional,
     order |-> Defaulted]

_create_test_cycle_mapping ==
    [name |-> Mandatory, description |-> Optional, start_date |-> Optional, end_date |-> Optional,
     parent_id |-> Optional]

_create_test_execution_mapping ==
    [name |-> Defaulted, test_case_id |-> Mandatory, test_cycle_id |-> Optional,
     status |-> Converted, note |-> Optional, executed_by |-> Optional,
     execution_date |-> Optional]

_create_test_step_result_mapping ==
    [status |-> Converted, actual_result |-> Optional, order |-> FieldMapping(TRUE, "warning", TRUE, "none")]

_create_attachment_mapping ==
    [name |-> Mandatory, content_type |-> Defaulted, size |-> Optional, content |-> Optional,
     related_id |-> Expected, related_type |-> Expected]

Registry ==
    [project |-> _create_project_mapping, folder |-> _create_folder_mapping,
     test_case |-> _create_test_case_mapping, test_step |-> _create_test_step_mapping,
     test_cycle |-> _create_test_cycle_mapping, test_execution |-> _create_test_execution_mapping,
     test_step_result |-> _create_test_step_result_mapping,
     attachment |-> _create_attachment_mapping]

\* validate_and_transform, of a source value that is missing (None) or not.  The transform
\* functions of the tables accept every value, and none validates.  A default
\* counts only for the action "default", which no table has.
validate_and_transform(mapping, present) ==
    LET defaulted == mapping.action = "default" /\ mapping.default
    IN  [valid |-> present \/ defaulted \/ ~mapping.required \/ mapping.transform # "none",
         value |-> IF present \/ defaulted \/ mapping.transform = "converts" THEN "set" ELSE "None"]

\* map_entity, of a source that has the values for some of the target fields: an
\* exception, of a field or of the custom fields, or the target fields with their values.
\* The custom fields count only for three kinds, none of the others enables them.
CustomFieldKinds == {"test_case", "test_cycle", "test_execution"}

RaisesFor(kind, present, custom, fields) ==
    \/ \E f \in DOMAIN Registry[kind] :
          /\ Registry[kind][f].action = "error"
          /\ ~validate_and_transform(Registry[kind][f], f \in present).valid
    \/ kind \in CustomFieldKinds /\ MappingRaises(custom, fields)

map_entity(kind, present) ==
    LET table == Registry[kind]
    IN  [f \in {g \in DOMAIN table :
                  \/ table[g].action # "skip"
                  \/ validate_and_transform(table[g], g \in present).valid}
         |-> validate_and_transform(table[f], f \in present).value]

\* The status of an execution, and of a step's result, by the tables of these mappings.
_map_status == TableOf(
    [PASSED |-> {"PASS", "PASSED"}, FAILED |-> {"FAIL", "FAILED"},
     IN_PROGRESS |-> {"WIP", "IN_PROGRESS", "EXECUTING"}, BLOCKED |-> {"BLOCKED", "ABORTED"},
     NOT_RUN |-> {"UNEXECUTED", "NOT_EXECUTED", "CANCELED", "PENDING"}])

StepResultStatus == TableOf(
    [PASSED |-> {"PASS", "PASSED"}, FAILED |-> {"FAIL", "FAILED"}, IN_PROGRESS |-> {"WIP"},
     BLOCKED |-> {"BLOCKED"}, NOT_RUN |-> {"UNEXECUTED", "NOT_EXECUTED"}])
=============================================================================
