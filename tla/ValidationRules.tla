--------------------------- MODULE ValidationRules ---------------------------
(***************************************************************************)
(* The rules of ztoq/validation_rules.py and ztoq/data_comparison.py: what *)
(* each reports of one entity, and what the comparison of the source with  *)
(* the mappings reports of a whole project.                                *)
(*                                                                         *)
(* An issue is the rule that found it, what it is about (a field, an       *)
(* entity kind or a rule that raised) and its level; texts, ids and time   *)
(* stamps are left out.  An entity is the class of each of its values, as  *)
(* far as a rule tells them apart.                                         *)
(***************************************************************************)
EXTENDS Integers, FiniteSets

\* ValidationLevel.
Levels == {"info", "warning", "error", "critical"}

Issue(rule, about, level) == [of |-> rule, about |-> about, level |-> level]

IssueIf(condition, rule, about, level) ==
    IF condition THEN {Issue(rule, about, level)} ELSE {}

\* What execute_validation records for a rule that raises.
RuleError(rule) == {Issue("rule_execution_error", rule, "error")}

-----------------------------------------------------------------------------
(***************************************************************************)
(* The values of fields.  "absent" stands for a missing key and for None.  *)
(***************************************************************************)
\* A key, of the expected pattern or not; a name, of at most 255 characters or not.
Keys == {"absent", "empty", "fits", "odd"}
Names == {"absent", "empty", "fits", "long"}

\* One custom field, a value with its type or the bare value: the mapper keeps it,
\* turns it into "" or raises; "NUMERIC" is the type the rule looks for, which the
\* mapper does not know (its own is "numeric") and turns into a string.
FieldClasses == {"bare", "kept", "emptied", "NUMERIC", "raises"}

\* customFields: nothing, the list that Zephyr sends, or a dictionary of fields (bound:
\* of one field).
CustomFieldForms ==
    {[form |-> f, fields |-> {}] : f \in {"none", "list"}}
    \cup {[form |-> "dict", fields |-> F] : F \in {{f} : f \in FieldClasses}}

-----------------------------------------------------------------------------
(***************************************************************************)
(* Rules about one entity.                                                 *)
(***************************************************************************)
RequiredFieldRule(rule, entity, required_fields) ==
    {Issue(rule, f, "error") : f \in {g \in required_fields : entity[g] \in {"absent", "empty"}}}

\* field_limits of the built-in rule: 1 to 255 characters.
StringLengthRule(rule, entity, fields) ==
    {Issue(rule, f, "warning") : f \in {g \in fields : entity[g] \in {"empty", "long"}}}

PatternMatchRule(rule, entity, fields) ==
    {Issue(rule, f, "warning") : f \in {g \in fields : entity[g] \notin {"absent", "fits"}}}

\* An attachment without a size is measured by its content, and content None
\* has no length.
AttachmentRule(rule, entity, max_size, allowed_extensions) ==
    IF entity.size = "none" /\ entity.content = "None" THEN RuleError(rule)
    ELSE IssueIf(max_size /\ entity.size = "large", rule, "size", "warning")
         \cup IssueIf(allowed_extensions /\ entity.name \notin {"absent", "allowed"},
                      rule, "extension", "warning")

\* The rule iterates over a dictionary: a list of fields raises.
CustomFieldTransformationRule(rule, custom_fields) ==
    CASE custom_fields.form = "none" -> {}
      [] custom_fields.form = "list" -> RuleError(rule)
      [] custom_fields.form = "dict" ->
           {Issue(rule, f, "warning") : f \in custom_fields.fields \cap {"emptied", "NUMERIC"}}
           \cup {Issue(rule, f, "error") : f \in custom_fields.fields \cap {"raises"}}

\* Steps, each a class: in order, without a description or an expected result, not
\* a dictionary (skipped), or with a number for a description, which has no strip.
TestStepValidationRule(rule, steps) ==
    IF "number" \in steps THEN RuleError(rule)
    ELSE IssueIf(steps = {}, rule, "steps", "warning")
         \cup IssueIf("noDescription" \in steps, rule, "description", "warning")
         \cup IssueIf("noResult" \in steps, rule, "expected_result", "info")

\* The types that custom fields must have, and the ones whose values are listed.
FieldConstraints ==
    [priority |-> "string", component |-> "string", version |-> "string", sprint |-> "string",
     story_points |-> "number", automated |-> "boolean"]

\* A value of another type, or one that is not listed.  A bool is an int.
CustomFieldRule(rule, field, value) ==
    LET type == FieldConstraints[field]
        fits == CASE type = "string"  -> value \in {"listed", "string"}
                  [] type = "number"  -> value \in {"number", "boolean"}
                  [] type = "boolean" -> value = "boolean"
    IN  IssueIf(~fits, rule, "type", "warning")
        \cup IssueIf(field = "priority" /\ value # "listed", rule, "value", "warning")

\* The context of a call: a database with the project's key, and the entity as it
\* was before the transformation with what became of it: the fields whose values
\* differ, and the status on both sides.
NoContext == [database |-> FALSE, pair |-> FALSE, differ |-> {}, statuses |-> <<"PASS", "PASSED">>]

\* A reference that has no mapping.
ReferentialIntegrityRule(rule, reference, context) ==
    IssueIf(context.database /\ reference = "unmapped", rule, "reference", "error")

DataIntegrityRule(rule, fields_to_compare, context) ==
    {Issue(rule, f, "error") :
        f \in {g \in fields_to_compare : context.pair /\ g \in context.differ}}

get_test_status_mappings ==
    [PASS |-> "PASSED", FAIL |-> "FAILED", WIP |-> "IN_PROGRESS", BLOCKED |-> "BLOCKED",
     NOT_EXECUTED |-> "NOT_RUN", UNEXECUTED |-> "NOT_RUN"]

\* A status that the table does not have is never an issue.
TestStatusMappingRule(rule, context) ==
    LET source == context.statuses[1]
        target == context.statuses[2]
    IN  IssueIf(/\ context.pair
                /\ source \in DOMAIN get_test_status_mappings
                /\ get_test_status_mappings[source] # target, rule, "status", "warning")

-----------------------------------------------------------------------------
(***************************************************************************)
(* get_built_in_rules: what the rules of a scope and a phase find.  There  *)
(* is none for folders, and none for entities in the loading phase.        *)
(***************************************************************************)
ExtractionRules(scope, e) ==
    CASE scope = "project" -> RequiredFieldRule("project_required_fields", e, {"key", "name"})
      [] scope = "test_case" ->
           RequiredFieldRule("test_case_required_fields", e, {"key", "name"})
           \cup PatternMatchRule("test_case_key_pattern", e, {"key"})
      [] scope = "test_case_step" -> TestStepValidationRule("test_case_steps_validation", e.steps)
      [] scope = "test_cycle" -> RequiredFieldRule("test_cycle_required_fields", e, {"key", "name"})
      [] scope = "test_execution" ->
           RequiredFieldRule("test_execution_required_fields", e, {"id", "testCaseId"})
      [] scope = "attachment" ->
           AttachmentRule("attachment_size_limit", e, TRUE, FALSE)
           \cup AttachmentRule("attachment_extension", e, FALSE, TRUE)
      [] OTHER -> {}

TransformationRules(scope, e, context) ==
    CASE scope = "test_case" ->
           StringLengthRule("test_case_name_length", e, {"name"})
           \cup CustomFieldTransformationRule("custom_field_transformation", e.customFields)
           \cup ReferentialIntegrityRule("testcase_folder_reference", e.folderId, context)
           \cup DataIntegrityRule("testcase_data_integrity",
                                  {"name", "description", "priority", "status"}, context)
      [] scope = "test_cycle" ->
           CustomFieldTransformationRule("custom_field_transformation_cycle", e.customFields)
           \cup DataIntegrityRule("testcycle_data_integrity", {"name", "description"}, context)
      [] scope = "test_execution" ->
           TestStatusMappingRule("test_status_mapping", context)
           \cup CustomFieldTransformationRule("custom_field_transformation_execution",
                                              e.customFields)
           \cup ReferentialIntegrityRule("execution_testcase_reference", e.testCaseId, context)
           \cup ReferentialIntegrityRule("execution_cycle_reference", e.cycleId, context)
      [] scope = "custom_field" -> CustomFieldRule("custom_field_type", e.field, e.value)
      [] OTHER -> {}

-----------------------------------------------------------------------------
(***************************************************************************)
(* DataComparisonValidator: the source's rows against the mappings.        *)
(***************************************************************************)
\* Mutant: a fifth missing is not critical yet.
MissingLevel_Half(source, mapped) ==
    IF 2 * (source - mapped) > source THEN "critical" ELSE "warning"

\* The level of an entity kind of which source are to be migrated and mapped are.
MissingLevel(source, mapped) ==
    LET missing == source - mapped
    IN  CASE 100 * missing > 20 * source -> "critical"
          [] 100 * missing > 5 * source /\ 100 * missing <= 20 * source -> "error"
          [] 100 * missing > source /\ 100 * missing <= 5 * source -> "warning"
          [] OTHER -> "info"

\* validate_entity_counts, of the counts that the database answered.
ValidateEntityCounts(source, mapped) ==
    {Issue("count_mismatch", k, MissingLevel(source[k], mapped[k])) :
        k \in {j \in DOMAIN source : source[j] > mapped[j]}}

\* [dict(row) for row in result], by which the PostgreSQL manager reads the rows of these
\* comparisons: a row of SQLAlchemy is no dictionary, so one row is enough for an
\* exception, which the manager answers with no row at all.
ReadRows(rows) == {}

\* A comparison on a database: the SQLite manager has none of the queries, which the
\* comparison records as its error.
Comparison(database, name, level, issues) ==
    IF database = "sqlite" THEN {Issue(name, "query", level)} ELSE issues

\* Test cases of a high priority that have no mapping.
validate_critical_entities(database, rows) ==
    Comparison(database, "critical_testcase_validation_error", "error",
        {Issue("critical_testcase_missing", r, "critical") :
            r \in {x \in ReadRows(rows) : x = "unmapped"}})

\* An entity that is mapped, as what it refers to is, and not found there in qTest:
\* the PostgreSQL manager finds no entity of qTest anywhere.
validate_relationship_integrity(database, rows) ==
    UNION {Comparison(database, name, "error",
              {Issue(name, r, "error") : r \in {x \in ReadRows(rows) : x = "mapped"}}) :
           name \in {"testcase_folder", "execution_testcase", "execution_cycle"}}

\* A mapped test case whose fields, of which qTest has none, are all missing.
validate_custom_field_migration(database, rows) ==
    Comparison(database, "custom_field_validation_error", "error",
        {Issue("custom_field_missing", r, "warning") :
            r \in {x \in ReadRows(rows) : x = "mapped"}})

\* A mapped entity whose attachments, of which qTest has none, are all missing.
validate_attachment_migration(database, rows) ==
    Comparison(database, "attachment_validation_error", "error",
        {Issue("missing_attachments", r, "warning") :
            r \in {x \in ReadRows(rows) : x = "mapped"}})
=============================================================================
