------------------------- MODULE CustomFieldMapping -------------------------
(***************************************************************************)
(* CustomFieldMapper (ztoq/custom_field_mapping.py): what becomes of a     *)
(* custom field of Zephyr, and the tables of statuses and priorities.      *)
(*                                                                         *)
(* A value is one of a few classes, as far as the mapper tells them apart; *)
(* so is what it becomes.                                                  *)
(***************************************************************************)
EXTENDS Integers, Sequences, FiniteSets

-----------------------------------------------------------------------------
(***************************************************************************)
(* Statuses and priorities, after upper() and strip().                     *)
(***************************************************************************)
Targets == {"PASSED", "FAILED", "IN_PROGRESS", "BLOCKED", "NOT_RUN"}

\* The table of a mapping that sends each status of the sets to their index.
TableOf(sources) == [s \in UNION {sources[t] : t \in DOMAIN sources} |->
                        CHOOSE t \in DOMAIN sources : s \in sources[t]]

\* An unknown or empty status has not been run.
Lookup(table, default, s) == IF s \in DOMAIN table THEN table[s] ELSE default

status_mappings == TableOf(
    [PASSED      |-> {"PASS", "PASS WITH WARNINGS", "CONDITIONAL PASS", "PASSED"},
     FAILED      |-> {"FAIL", "FAILED"},
     IN_PROGRESS |-> {"WIP", "IN PROGRESS", "EXECUTING", "IN_PROGRESS"},
     BLOCKED     |-> {"BLOCKED", "ABORTED"},
     NOT_RUN     |-> {"NOT EXECUTED", "UNEXECUTED", "CANCELED", "PENDING", "NOT_RUN"}])

map_status(s) == Lookup(status_mappings, "NOT_RUN", s)

priority_mappings == TableOf(
    [CRITICAL |-> {"HIGHEST", "BLOCKER", "CRITICAL"},
     HIGH     |-> {"HIGH", "MAJOR"},
     MEDIUM   |-> {"MEDIUM"},
     LOW      |-> {"LOW", "MINOR"},
     TRIVIAL  |-> {"LOWEST", "TRIVIAL"}])

map_priority(p) == Lookup(priority_mappings, "MEDIUM", p)

-----------------------------------------------------------------------------
(***************************************************************************)
(* One field.                                                              *)
(***************************************************************************)
FieldTypes ==
    {"text", "checkbox", "multipleSelect", "date", "user", "numeric", "table",
     "hierarchicalSelect", "file"}

\* Values of a field: None; strings that are empty, arbitrary, a number, a date, a number
\* too large for a date; a number; a truth value; a list that is empty or not; a list of
\* dictionaries, named by strings or by something else; a dictionary.
Values == {"None", "blank", "words", "numeral", "day", "huge", "number", "bool",
           "emptyList", "list", "path", "oddPath", "dict"}

Falsy == {"None", "blank", "emptyList"}

\* str(value).
Text(value) == IF value = "blank" THEN "empty" ELSE "text"

get_qtest_field_type(type) ==
    CASE type = "checkbox" -> "CHECKBOX"
      [] type = "numeric"  -> "NUMBER"
      [] type = "date"     -> "DATE"
      [] OTHER             -> "STRING"

\* A table has at least its header.
_transform_table_field(value) == IF value \in Falsy THEN "empty" ELSE "text"

\* The names on a path are joined, which fails for a name that is no string.
_transform_hierarchical_field(value) ==
    CASE value \in Falsy     -> "empty"
      [] value = "oddPath"   -> "raises"
      [] OTHER               -> "text"

\* A string is parsed, any other value is written as it is; the parser answers a
\* number that is too large with an OverflowError, which is not caught.
TransformDate(value) ==
    CASE value \in {"day", "numeral"} -> "isodate"
      [] value = "huge"               -> "raises"
      [] OTHER                        -> Text(value)

\* A bool is an int; what cannot be read as a number is 0.
TransformNumber(value) == IF value = "bool" THEN "bool" ELSE "number"

\* custom: what transform_function of a mapping for this field does, if there is one.
transform_field_value(custom, name, type, value) ==
    CASE custom = "returns"             -> "custom"
      [] custom # "returns" /\ value = "None" -> "empty"
      [] OTHER ->
           CASE name = "status"     -> "text"
             [] name = "priority"   -> "text"
             [] name \notin {"status", "priority"} ->
                  CASE type = "multipleSelect"     -> IF value = "emptyList" THEN "empty" ELSE Text(value)
                    [] type = "date"               -> TransformDate(value)
                    [] type = "table"              -> _transform_table_field(value)
                    [] type = "hierarchicalSelect" -> _transform_hierarchical_field(value)
                    [] type = "checkbox"           -> "bool"
                    [] type = "numeric"            -> TransformNumber(value)
                    [] OTHER                       -> Text(value)

-----------------------------------------------------------------------------
(***************************************************************************)
(* The fields of an entity.  A field is a record of its name, type and     *)
(* value, or "null" for an item of the list that is no field.              *)
(***************************************************************************)
\* Fields that have a value; the others are left out, like items that are no field.
Valued(fields) == SelectSeq(fields, LAMBDA f : f.value # "None" /\ f.type # "null")

\* map_custom_fields: one property for each, or the exception of one.
MappedFields(custom, fields) ==
    [i \in DOMAIN Valued(fields) |->
        LET f == Valued(fields)[i]
        IN  [type |-> get_qtest_field_type(f.type),
             value |-> transform_field_value(custom, f.name, f.type, f.value)]]

MappingRaises(custom, fields) ==
    \E i \in DOMAIN MappedFields(custom, fields) : MappedFields(custom, fields)[i].value = "raises"

\* map_testcase_fields, map_testcycle_fields and map_testrun_fields: the fields of
\* their own that have a value come first, as strings.
WithOwnFields(own, custom, fields) ==
    [i \in 1..own |-> [type |-> "STRING", value |-> "text"]] \o MappedFields(custom, fields)

\* A property has a value of its type: a DATE that is no date is the text it was.
FitsType(property) ==
    CASE property.type = "NUMBER"   -> property.value \in {"number", "bool"}
      [] property.type = "CHECKBOX" -> property.value = "bool"
      [] property.type = "DATE"     -> property.value \in {"isodate", "text", "empty"}
      [] property.type = "STRING"   -> property.value \in {"text", "empty"}
=============================================================================
