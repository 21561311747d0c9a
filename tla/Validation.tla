----------------------------- MODULE Validation ------------------------------
(***************************************************************************)
(* ValidationManager and MigrationValidator (ztoq/validation.py) over the  *)
(* rules of ValidationRules, with the queries of the PostgreSQL manager    *)
(* (ztoq/pg_database_manager.py) or of the SQLite one.                     *)
(*                                                                         *)
(* The list of issues is a bag, since nothing depends on its order.  What  *)
(* the project has to migrate and what has been mapped is the environment. *)
(***************************************************************************)
EXTENDS ValidationRules, Bags

CONSTANTS
    EntityCounted,   \* the kinds of entities whose numbers are compared
    SourceAmount,    \* bound: how many of a kind there are, unless there is none
    MappedAmounts,   \* bound: how many of a kind get mapped
    MaxValidations   \* bound: calls of a validator

ASSUME ValidationAssumption ==
    /\ IsFiniteSet(EntityCounted)
    /\ SourceAmount \in Nat /\ MappedAmounts \subseteq Nat /\ MaxValidations \in Nat

VARIABLES
    valDb,        \* the database manager: "sqlite" or "pg"
    valCopies,    \* how often the built-in rules have been registered
    valSource,    \* entities in the project's tables, of each kind
    valMapped,    \* rows of entity_mappings, of each kind
    valIssues,    \* issues
    valCounts,    \* issue_counts
    valStored,    \* rows of validation_issues
    valLast,      \* the latest verdict, and of what
    valCalls      \* calls so far

validationVars == <<valDb, valCopies, valSource, valMapped, valIssues, valCounts, valStored,
                    valLast, valCalls>>

-----------------------------------------------------------------------------
(***************************************************************************)
(* ValidationManager.                                                      *)
(***************************************************************************)
\* The issues of a level in a bag, one by one.
Occurrences(B, level) ==
    UNION {{<<i, n>> : n \in 1 .. B[i]} : i \in {j \in DOMAIN B : j.level = level}}
CountAt(B, level) == Cardinality(Occurrences(B, level))

\* n executions that find the same.
Repeated(n, S) == [i \in S |-> n]

has_critical_issues == valCounts'["critical"] > 0

\* add_issue, for every issue of the bag B.  The SQLite manager stores none, since it asks
\* for fields that an issue does not have; what fails in the database is only logged.
AddIssues(B, failing) ==
    /\ valCalls < MaxValidations  \* bound
    /\ valIssues' = valIssues (+) B
    /\ valCounts' = [l \in Levels |-> valCounts[l] + CountAt(B, l)]
    /\ valStored' = IF valDb = "pg" /\ <<"save", "issues">> \notin failing
                      THEN valStored (+) B ELSE valStored

\* A validation is called: its verdict is that no issue has ever been critical.
Verdict(call, failing) ==
    /\ valCalls' = valCalls + 1
    /\ valLast' = [call |-> call, passed |-> ~has_critical_issues, failing |-> failing]
    /\ UNCHANGED <<valDb, valCopies, valSource, valMapped>>

\* Bound: clients and entities are validated before anything else, as the phases come.
ComesFirst == valCalls = 0 /\ \A k \in EntityCounted : valMapped[k] = 0

\* execute_validation: the active rules of a scope and a phase on one entity.
execute_validation(phase, scope, entity, context) ==
    CASE phase = "extraction"     -> ExtractionRules(scope, entity)
      [] phase = "transformation" -> TransformationRules(scope, entity, context)
      [] OTHER                    -> {}

-----------------------------------------------------------------------------
(***************************************************************************)
(* The entities that are validated.                                        *)
(***************************************************************************)
References == {"absent", "mapped", "unmapped"}

EntitiesOf(scope) ==
    CASE scope \in {"project", "folder"} -> [key : Keys, name : Names]
      [] scope = "test_case" ->
           [key : Keys, name : Names, customFields : CustomFieldForms, folderId : References]
      [] scope = "test_case_step" -> [steps : SUBSET {"fine", "noDescription", "noResult", "number"}]
      [] scope = "test_cycle" -> [key : Keys, name : Names, customFields : CustomFieldForms]
      [] scope = "test_execution" ->
           [id : {"absent", "fits"}, testCaseId : References, cycleId : References,
            customFields : CustomFieldForms]
      [] scope = "attachment" ->
           [size : {"none", "small", "large"}, content : {"None", "bytes"},
            name : {"absent", "allowed", "other"}]
      [] scope = "custom_field" ->
           [field : DOMAIN FieldConstraints, value : {"listed", "string", "number", "boolean"}]

Contexts ==
    {NoContext} \cup
    [database : BOOLEAN, pair : {TRUE}, differ : SUBSET {"name"},
     statuses : {"PASS", "UNKNOWN"} \X {"PASSED", "NOT_RUN"}]

\* What a call with one entity can find.
Findings(phase, scope, contexts) ==
    {execute_validation(phase, scope, e, c) : e \in EntitiesOf(scope), c \in contexts}

\* The lists that validate_extraction and validate_transformation are given.
ExtractedScopes == {"project", "folder", "test_case", "test_cycle", "test_execution",
                    "attachment"}
TransformedScopes == {"test_case", "test_cycle", "test_execution"}

\* execute_all_validations, of data with one entity, that has findings of a scope; the
\* context holds only the names of the phase and of the scope.
ValidateData(phase, scopes) ==
    /\ ComesFirst
    /\ \E scope \in scopes : \E found \in Findings(phase, scope, {NoContext}) :
          AddIssues(Repeated(1, found), {})
    /\ Verdict("entities", {})

validate_extraction == ValidateData("extraction", ExtractedScopes)

validate_transformation == ValidateData("transformation", TransformedScopes)

\* In this phase no rule is about entities, so only the verdict is new.
validate_loading == AddIssues(EmptyBag, {}) /\ Verdict("phase", {})

\* A client executes the rules itself, with a context of its own.
ExecuteValidation ==
    /\ ComesFirst
    /\ \E scope \in {"test_case", "test_cycle", "test_execution", "test_case_step", "custom_field"} :
       \E found \in Findings(IF scope = "test_case_step" THEN "extraction" ELSE "transformation",
                             scope, Contexts) :
          AddIssues(Repeated(1, found), {})
    /\ Verdict("entities", {})

\* validate_pre_phase and validate_post_phase: the rules of the scope SYSTEM need a
\* database in the context, and get none.
ValidatePhase == AddIssues(EmptyBag, {}) /\ Verdict("phase", {})

-----------------------------------------------------------------------------
(***************************************************************************)
(* Before the migration.                                                   *)
(***************************************************************************)
PreChecks == {"zephyr_connectivity", "qtest_connectivity", "zephyr_project", "qtest_project"}

\* Each check that raises or finds no project is critical.
validate_pre_migration(failing) ==
    /\ ComesFirst
    /\ AddIssues(Repeated(1, {Issue(c, "system", "critical") : c \in failing}), {})
    /\ Verdict("pre", {})

-----------------------------------------------------------------------------
(***************************************************************************)
(* After the migration.                                                    *)
(***************************************************************************)
\* The queries of a call that fail.
Queries == ({"source", "mapped"} \X EntityCounted) \cup {<<"save", "issues">>}

\* The counts of the PostgreSQL manager: a query that fails counts nothing.
count_entities(failing) ==
    [k \in EntityCounted |-> IF <<"source", k>> \in failing THEN 0 ELSE valSource[k]]

count_entity_mappings(failing) ==
    [k \in EntityCounted |-> IF <<"mapped", k>> \in failing THEN 0 ELSE valMapped[k]]

\* _validate_entity_counts.
MissingEntities(source, mapped) ==
    {Issue("missing_entities", k, "error") : k \in {j \in EntityCounted : mapped[j] < source[j]}}

\* Both counts raise on the SQLite manager, which has no such query.
CountErrors == {Issue("source_count_error", "database", "error"),
                Issue("loaded_count_error", "database", "error")}

\* The five rules of the scope SYSTEM.  Without counts there is nothing to compare.
SystemRules(source, mapped, rows) ==
    (IF valDb = "pg" THEN ValidateEntityCounts(source, mapped) ELSE {})
    \cup validate_critical_entities(valDb, rows)
    \cup validate_relationship_integrity(valDb, rows)
    \cup validate_custom_field_migration(valDb, rows)
    \cup validate_attachment_migration(valDb, rows)

SystemRuleCount == 5

\* validate_post_migration.  _validate_relationships finds nothing: no schema has the
\* tables of qTest's objects, the PostgreSQL manager answers a failed query with no
\* row, and the SQLite one has no such query.  The loop over the registered
\* rules executes, for each of them, all active rules of its scope.
validate_post_migration(failing, rows) ==
    LET source == count_entities(failing)
        mapped == count_entity_mappings(failing)
    IN  /\ AddIssues(
             Repeated(1, IF valDb = "pg" THEN MissingEntities(source, mapped) ELSE CountErrors)
             (+) Repeated(valCopies * SystemRuleCount, SystemRules(source, mapped, rows)),
             failing)
        /\ Verdict("post", failing)

\* The migration maps more entities.
Migrates(k) ==
    /\ \E n \in MappedAmounts :
          /\ valMapped[k] < n /\ n <= valSource[k]
          /\ valMapped' = [valMapped EXCEPT ![k] = n]
    /\ UNCHANGED <<valDb, valCopies, valSource, valIssues, valCounts, valStored, valLast,
                   valCalls>>

-----------------------------------------------------------------------------
ValidationInit ==
    /\ valDb \in {"sqlite", "pg"}
    \* The manager's constructor registers the built-in rules; EnhancedMigration does so
    \* again: rules holds one of each, the list of a phase holds them twice.
    /\ valCopies \in {1, 2}
    /\ valSource \in [EntityCounted -> {0, SourceAmount}]
    /\ valMapped = [k \in EntityCounted |-> 0]
    /\ valIssues = EmptyBag /\ valStored = EmptyBag
    /\ valCounts = [l \in Levels |-> 0]
    /\ valLast = [call |-> "none", passed |-> TRUE, failing |-> {}]
    /\ valCalls = 0

ValidationNext ==
    \/ validate_extraction \/ validate_transformation \/ validate_loading
    \/ ExecuteValidation \/ ValidatePhase
    \/ \E failing \in SUBSET PreChecks : validate_pre_migration(failing)
    \/ \E failing \in {F \in SUBSET Queries : Cardinality(F) <= 1}, rows \in {{}, {"mapped", "unmapped"}} :
          validate_post_migration(failing, rows)
    \/ \E k \in EntityCounted : Migrates(k)

ValidationSpec == ValidationInit /\ [][ValidationNext]_validationVars

-----------------------------------------------------------------------------
(***************************************************************************)
(* Properties.                                                             *)
(***************************************************************************)
\* The counters by which verdicts are given are those of the list of issues.
CountsAgree == \A l \in Levels : valCounts[l] = CountAt(valIssues, l)

\* The database never holds an issue that the manager does not have.
StoredIsSubset == valStored \sqsubseteq valIssues

\* A post-migration validation that passed on PostgreSQL, with no query failing, means that
\* at most a fifth of each kind of entity is missing, now and later.
PassedMeansMigrated ==
    (valLast.call = "post" /\ valLast.passed /\ valLast.failing = {} /\ valDb = "pg") =>
        \A k \in EntityCounted : 5 * (valSource[k] - valMapped[k]) <= valSource[k]

\* An entity kind of which nothing is mapped is reported by both comparisons, whichever
\* query of the other kinds fails and whatever the other rules run into.
MissingReported ==
    \A k \in EntityCounted :
        (/\ valLast.call = "post" /\ valDb = "pg"
         /\ <<"source", k>> \notin valLast.failing
         /\ valMapped[k] = 0 /\ valSource[k] > 0) =>
            {Issue("missing_entities", k, "error"), Issue("count_mismatch", k, "critical")}
                \subseteq DOMAIN valIssues

ValidationSound == CountsAgree /\ StoredIsSubset /\ PassedMeansMigrated /\ MissingReported

\* A failed validation is final for its manager: no later one passes, even when
\* what was missing has been migrated since.
FailureIsFinal == [][~valLast.passed => ~valLast'.passed]_validationVars
=============================================================================
