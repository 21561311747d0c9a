-------------------------- MODULE QTestMockServer --------------------------
(***************************************************************************)
(* The mock of the qTest server (ztoq/qtest_mock_server.py): stores of     *)
(* records by id, one handler per endpoint and method, one request at a    *)
(* time.  Ids are one more than the largest in use, so that the id of a    *)
(* deleted record is given again; rules and features have random ones.     *)
(* A record carries, besides its project and the id of its parent, what    *)
(* the server does not keep: its birth, and that of its parent when it was *)
(* made, to tell a parent from another record with its id.                 *)
(***************************************************************************)
EXTENDS Integers, FiniteSetsExt, Functions

CONSTANTS
    ProjectIds,    \* project ids clients use, 1 is the sample project
    MaxRequests    \* bound on the requests

ASSUME MockAssumption == 1 \in ProjectIds /\ ProjectIds \subseteq Nat \ {0} /\ MaxRequests \in Nat

VARIABLES
    store,      \* kind -> id -> record
    mode,       \* validation_mode, and the group of endpoints the client uses
    answer,     \* the last request, its outcome, and was a project ever deleted?
    requests    \* length of request_history
mockVars == <<store, mode, answer, requests>>

ManagerKinds == {"project", "module", "case", "step", "cycle", "run", "log", "release",
                 "attachment", "field"}
ParameterKinds == {"parameter", "value", "dataset", "row"}
PulseKinds == {"rule", "trigger", "action", "constant", "feature"}
MockKinds == ManagerKinds \cup ParameterKinds \cup PulseKinds

Record(p, ref, birth, refBirth) ==
    [proj |-> p, ref |-> ref, birth |-> birth, refBirth |-> refBirth, status |-> "NEW", steps |-> {}]
Sample(ref) == [id \in {1} |-> Record(1, ref, 1, ref)]
NoRecords == [id \in {} |-> Record(1, 0, 1, 0)]

\* __init__ makes a project with a few records of every kind.
MockInit ==
    /\ store = [k \in MockKinds |->
         CASE k \in {"log", "attachment", "field"} -> NoRecords
           [] k \in {"step", "run", "cycle", "row", "value", "rule"} -> Sample(1)
           [] OTHER -> Sample(0)]
    /\ mode \in [validation : BOOLEAN, uses : {"planning", "execution", "parameters", "pulse"}]
    /\ answer = [op |-> "none", code |-> "ok", purged |-> FALSE]
    /\ requests = 0

IdsOf(s, k) == DOMAIN s[k]
NextId(s, k) == IF k \in {"rule", "feature"} THEN requests + 2
                ELSE Max(IdsOf(s, k) \cup {0}) + 1
BirthOf(s, k, id) == IF id \in IdsOf(s, k) THEN s[k][id].birth ELSE 0
With(table, id, r) == [i \in DOMAIN table \cup {id} |-> IF i = id THEN r ELSE table[i]]
Insert(s, k, r) == [s EXCEPT ![k] = With(@, NextId(s, k), r)]
Removed(s, k, ids) == [s EXCEPT ![k] = Restrict(@, DOMAIN @ \ ids)]
OfProject(s, k, p) == {id \in IdsOf(s, k) : s[k][id].proj = p}
ChildrenOf(s, k, parent) == {id \in IdsOf(s, k) : s[k][id].ref = parent}

Now == requests + 2   \* births: 1 is the sample data's

\* handle_request records the request and returns what the handler returns.
Handle(op, code, s) ==
    /\ requests < MaxRequests /\ requests' = requests + 1
    /\ store' = s /\ answer' = [op |-> op, code |-> code, purged |-> answer.purged \/ op = "deleteProject"]
    /\ UNCHANGED mode

Refuse(op, codes) == \E code \in codes : Handle(op, code, store)

\* A handler that validates dumps a model that is a dictionary already: with
\* validation a valid request raises (500), an invalid one is refused.
WithValidation(op, s) ==
    IF mode.validation THEN Refuse(op, {"400", "500"}) ELSE Handle(op, "ok", s)

Uses(group) == mode.uses = group

----------------------------------------------------------------------------
(* Projects.  Nothing checks that the project of an endpoint exists.       *)

\* error_rate: any request may be answered by a simulated error.
SimulatedError == Refuse("simulated", {"401", "429", "500"})

CreateProject(p) ==
    /\ p \notin IdsOf(store, "project")
    /\ WithValidation("project", [store EXCEPT !["project"] = With(@, p, Record(p, 0, Now, 0))])

UpdateProject(p) ==
    IF p \in IdsOf(store, "project") THEN WithValidation("project", store)
    ELSE Refuse("project", {"404"})

\* _delete_project_data: these kinds, and not the records that hang on them
\* (steps, logs, attachments, custom fields, rows, parameter values).
DeletedWithProject == {"module", "case", "cycle", "run", "release", "parameter", "dataset"}
                      \cup PulseKinds

DeleteProjectData(s, p) ==
    [k \in MockKinds |-> IF k \in DeletedWithProject
                         THEN Restrict(s[k], IdsOf(s, k) \ OfProject(s, k, p)) ELSE s[k]]

DeleteProject(p) ==
    IF p \in IdsOf(store, "project")
    THEN Handle("deleteProject", "ok", DeleteProjectData(Removed(store, "project", {p}), p))
    ELSE Refuse("deleteProject", {"404"})

----------------------------------------------------------------------------
(* Test design: modules, test cases with steps, releases, test cycles.     *)

CreateModule(p, parent) ==
    Handle("module", "ok",
           Insert(store, "module", Record(p, parent, Now, BirthOf(store, "module", parent))))

\* The steps first, each with the id the test case will get.
WithCase(s, p, module, hasStep, birth) ==
    LET id == NextId(s, "case")
        stepped == IF hasStep THEN Insert(s, "step", Record(p, id, birth, birth)) ELSE s
    IN Insert(stepped, "case", Record(p, module, birth, BirthOf(s, "module", module)))

CreateCase(p, module, hasStep) ==
    \/ Handle("case", "ok", WithCase(store, p, module, hasStep, Now))
    \/ mode.validation /\ Refuse("case", {"400"})

CreateRelease(p) == WithValidation("release", Insert(store, "release", Record(p, 0, Now, 0)))

\* With validation a record found is not updated; without, the body may move
\* it to another project.
UpdateKnown(k, id, p) ==
    IF id \notin IdsOf(store, k) THEN Refuse(k, {"404"})
    ELSE WithValidation(k, [store EXCEPT ![k][id].proj = p])

UpdateRelease(id, p) == UpdateKnown("release", id, p)

\* A release that test cycles use is not deleted.
DeleteRelease(id) ==
    IF id \notin IdsOf(store, "release") THEN Refuse("deleteRelease", {"404"})
    ELSE IF ChildrenOf(store, "cycle", id) # {} THEN Refuse("deleteRelease", {"400"})
    ELSE Handle("deleteRelease", "ok", Removed(store, "release", {id}))

CreateCycle(p, release) ==
    Handle("cycle", "ok",
           Insert(store, "cycle", Record(p, release, Now, BirthOf(store, "release", release))))

CreateField(p) == WithValidation("field", Insert(store, "field", Record(p, 0, Now, 0)))
UpdateField(id, p) == UpdateKnown("field", id, p)
DeleteField(id) ==
    IF id \in IdsOf(store, "field") THEN Handle("deleteField", "ok", Removed(store, "field", {id}))
    ELSE Refuse("deleteField", {"404"})

----------------------------------------------------------------------------
(* Test execution: runs, logs, attachments, the logs of automation.        *)

CreateRun(p, case) ==
    Handle("run", "ok", Insert(store, "run", Record(p, case, Now, BirthOf(store, "case", case))))

LogStates == {"PASS", "FAIL"}
WithLog(s, run, status, steps, birth) ==
    Insert(s, "log", [Record(0, run, birth, BirthOf(s, "run", run))
                        EXCEPT !.status = status, !.steps = steps])
\* Mutant: the run keeps its status.
WithStatus_Kept(s, run, status) == s

WithStatus(s, run, status) == [s EXCEPT !["run"][run].status = status]

\* A log of a run: with validation its steps are steps of the run's test case.
SubmitLog(run, status, steps) ==
    LET case == store["run"][run].ref
    IN IF run \notin IdsOf(store, "run") THEN Refuse("log", {"404"})
       ELSE IF mode.validation /\ case # 0 /\ ~(steps \subseteq ChildrenOf(store, "step", case))
            THEN Refuse("log", {"400"})
       ELSE \/ Handle("log", "ok", WithStatus(WithLog(store, run, status, steps, Now), run, status))
            \/ mode.validation /\ Refuse("log", {"400"})

UploadAttachment(p, object) ==
    Handle("attachment", "ok", Insert(store, "attachment", Record(p, object, Now, 0)))

\* One entry of auto-test-logs for a test case: find or make the cycle, make
\* the run unless the entry names one, store the log, then set the run's
\* status - which raises if there is no such run.
AutoLog(s, p, case, run, status, birth) ==
    LET cycles == {c \in OfProject(s, "cycle", p) : s["cycle"][c].status = "Automation"}
        cycled == IF cycles # {} THEN s
                  ELSE Insert(s, "cycle", [Record(p, 0, birth, 0) EXCEPT !.status = "Automation"])
        ran == IF run # 0 THEN cycled
               ELSE Insert(cycled, "run", Record(p, case, birth, BirthOf(s, "case", case)))
        target == IF run # 0 THEN run ELSE NextId(cycled, "run")
        logged == WithLog(ran, target, status, {}, birth)
    IN IF case \notin IdsOf(s, "case") THEN [s |-> s, code |-> "refused"]
       ELSE IF target \notin IdsOf(ran, "run") THEN [s |-> logged, code |-> "raised"]
       ELSE [s |-> WithStatus(logged, target, status), code |-> "ok"]

\* One entry with a new test case, in the first root module of the project or
\* a new one.
AutoCase(s, p, status, birth) ==
    LET roots == {m \in OfProject(s, "module", p) : s["module"][m].ref = 0}
        module == IF roots # {} THEN Min(roots) ELSE NextId(s, "module")
        housed == IF roots # {} THEN s ELSE Insert(s, "module", Record(p, 0, birth, 0))
        cased == WithCase(housed, p, module, FALSE, birth)
    IN AutoLog(cased, p, NextId(housed, "case"), 0, status, birth)

\* submit_auto_test_logs: entry after entry, an invalid one is counted; an
\* exception ends the request and what the entries before it did stays.
SubmitAutoLog(p, case, run, status) ==
    LET first == AutoLog(store, p, case, run, status, Now)
    IN IF first.code = "raised" THEN Handle("auto", "500", first.s)
       ELSE Handle("auto", "ok", first.s)

SubmitAutoCases(p, status, run) ==
    LET first == AutoCase(store, p, status, Now)
        second == AutoLog(first.s, p, NextId(store, "case"), run, status, Now)
    IN Handle("auto", IF second.code = "raised" THEN "500" ELSE "ok", second.s)

----------------------------------------------------------------------------
(* Parameters and data sets.                                               *)

CreateParameter(p, hasValue) ==
    LET id == NextId(store, "parameter")
        s == Insert(store, "parameter", Record(p, 0, Now, 0))
    IN Handle("parameter", "ok", IF hasValue THEN Insert(s, "value", Record(0, id, Now, Now)) ELSE s)

CreateValue(parameter) ==
    IF parameter \notin IdsOf(store, "parameter") THEN Refuse("value", {"404"})
    ELSE Handle("value", "ok", Insert(store, "value",
                  Record(0, parameter, Now, BirthOf(store, "parameter", parameter))))

CreateDataset(p, hasRow) ==
    LET id == NextId(store, "dataset")
        s == Insert(store, "dataset", Record(p, 0, Now, 0))
    IN Handle("dataset", "ok", IF hasRow THEN Insert(s, "row", Record(0, id, Now, Now)) ELSE s)

UpdateDataset(id, p) == UpdateKnown("dataset", id, p)

\* The rows go first, then the data set.
DeleteDataset(id) ==
    IF id \notin IdsOf(store, "dataset") THEN Refuse("deleteDataset", {"404"})
    ELSE Handle("deleteDataset", "ok",
                Removed(Removed(store, "row", ChildrenOf(store, "row", id)), "dataset", {id}))

CreateRow(dataset) ==
    IF dataset \notin IdsOf(store, "dataset") THEN Refuse("row", {"404"})
    ELSE Handle("row", "ok", Insert(store, "row",
                  Record(0, dataset, Now, BirthOf(store, "dataset", dataset))))

\* A row is reached through its data set only.
RowOf(dataset, row) ==
    /\ dataset \in IdsOf(store, "dataset") /\ row \in IdsOf(store, "row")
    /\ store["row"][row].ref = dataset

UpdateRow(dataset, row) ==
    IF RowOf(dataset, row) THEN WithValidation("row", store) ELSE Refuse("row", {"404"})

DeleteRow(dataset, row) ==
    IF RowOf(dataset, row) THEN Handle("deleteRow", "ok", Removed(store, "row", {row}))
    ELSE Refuse("deleteRow", {"404"})

----------------------------------------------------------------------------
(* Pulse and Scenario: records without checks.                             *)

CreateRule(p) == Handle("rule", "ok", Insert(store, "rule", Record(p, 0, Now, 0)))
CreateTrigger(p) == Handle("trigger", "ok", Insert(store, "trigger", Record(p, 0, Now, 0)))
CreateAction(p) == Handle("action", "ok", Insert(store, "action", Record(p, 0, Now, 0)))
CreateConstant(p) == Handle("constant", "ok", Insert(store, "constant", Record(p, 0, Now, 0)))
CreateFeature(p) == Handle("feature", "ok", Insert(store, "feature", Record(p, 0, Now, 0)))

UpdatePulse(k, id, p) ==
    IF id \in IdsOf(store, k) THEN Handle(k, "ok", [store EXCEPT ![k][id].proj = p])
    ELSE Refuse(k, {"404"})
DeletePulse(k, id) ==
    IF id \in IdsOf(store, k) THEN Handle("deletePulse", "ok", Removed(store, k, {id}))
    ELSE Refuse("deletePulse", {"404"})

UpdateRule(id, p) == UpdatePulse("rule", id, p)
DeleteRule(id) == DeletePulse("rule", id)
UpdateTrigger(id, p) == UpdatePulse("trigger", id, p)
DeleteTrigger(id) == DeletePulse("trigger", id)
UpdateAction(id, p) == UpdatePulse("action", id, p)
DeleteAction(id) == DeletePulse("action", id)
UpdateConstant(id, p) == UpdatePulse("constant", id, p)
DeleteConstant(id) == DeletePulse("constant", id)

----------------------------------------------------------------------------
MockIds == 1..2      \* ids clients name

Planning ==
    \E p \in ProjectIds, id \in MockIds :
        \/ \E parent \in {0, 1} : CreateModule(p, parent)
        \/ \E hasStep \in BOOLEAN : CreateCase(p, id, hasStep)
        \/ CreateRelease(p) \/ UpdateRelease(id, p) \/ DeleteRelease(id)
        \/ \E release \in {0} \cup MockIds : CreateCycle(p, release)
        \/ CreateField(p) \/ UpdateField(id, p) \/ DeleteField(id)

Execution ==
    \E p \in ProjectIds, id \in MockIds :
        \/ CreateCase(p, id, TRUE) \/ CreateRun(p, id) \/ UploadAttachment(p, id)
        \/ \E status \in LogStates :
             \/ \E steps \in SUBSET MockIds : SubmitLog(id, status, steps)
             \/ \E run \in {0, 2, 3} : SubmitAutoLog(p, id, run, status) \/ SubmitAutoCases(p, status, run)

Parameters ==
    \E p \in ProjectIds, id \in MockIds :
        \/ \E more \in BOOLEAN : CreateParameter(p, more) \/ CreateDataset(p, more)
        \/ CreateValue(id) \/ CreateRow(id) \/ UpdateDataset(id, p) \/ DeleteDataset(id)
        \/ \E row \in MockIds : UpdateRow(id, row) \/ DeleteRow(id, row)

Pulse ==
    \E p \in ProjectIds, id \in MockIds :
        \/ CreateRule(p) \/ CreateTrigger(p) \/ CreateAction(p) \/ CreateConstant(p) \/ CreateFeature(p)
        \/ UpdateRule(id, p) \/ DeleteRule(id) \/ UpdateTrigger(id, p) \/ DeleteTrigger(id)
        \/ UpdateAction(id, p) \/ DeleteAction(id) \/ UpdateConstant(id, p) \/ DeleteConstant(id)

MockNext ==
    \/ SimulatedError
    \/ \E p \in ProjectIds : CreateProject(p) \/ UpdateProject(p) \/ DeleteProject(p)
    \/ Uses("planning") /\ Planning
    \/ Uses("execution") /\ Execution
    \/ Uses("parameters") /\ Parameters
    \/ Uses("pulse") /\ Pulse

MockSpec == MockInit /\ [][MockNext]_mockVars

----------------------------------------------------------------------------
(***************************** Properties *********************************)

\* Every record of every store has a positive id and a record's fields.
MockTypeOK ==
    /\ DOMAIN store = MockKinds
    /\ \A k \in MockKinds : \A id \in IdsOf(store, k) :
         /\ id > 0 /\ store[k][id].ref >= 0
         /\ store[k][id].birth \in 1..(requests + 1)
    /\ answer.code \in {"ok", "400", "401", "404", "429", "500"}

\* A request that is answered by an error leaves every store as it was,
\* whatever failed in its handler; only the automation logs may stop halfway.
ErrorsChangeNothing ==
    [][answer'.code # "ok" /\ answer'.op # "auto" => UNCHANGED store]_mockVars

\* While no project is deleted and no release moves, a test cycle made for a
\* release has this release: an id that is given again never leads it to another.
NoProjectDeleted == ~answer.purged
CyclesKeepRelease ==
    NoProjectDeleted => \A c \in IdsOf(store, "cycle") :
        LET cycle == store["cycle"][c] IN
        cycle.refBirth # 0 => BirthOf(store, "release", cycle.ref) = cycle.refBirth

\* Rows and parameter values hang on the data set and the parameter they were
\* made for, although ids are given again.
ChildrenOwned ==
    NoProjectDeleted => \A pair \in {<<"row", "dataset">>, <<"value", "parameter">>} :
        \A id \in IdsOf(store, pair[1]) :
            BirthOf(store, pair[2], store[pair[1]][id].ref) = store[pair[1]][id].refBirth

\* The status of a run is that of the newest log made for it, through either
\* of the two ways to submit one.
RunShowsLastLog ==
    \A r \in IdsOf(store, "run") :
        LET own == {l \in ChildrenOf(store, "log", r) :
                      store["log"][l].refBirth = store["run"][r].birth}
        IN own # {} => store["run"][r].status = store["log"][Max(own)].status

\* With validation the steps of a log are steps that were made for the test
\* case of its run.
LogStepsOfCase ==
    mode.validation /\ NoProjectDeleted => \A l \in IdsOf(store, "log") :
        LET log == store["log"][l] IN
        log.ref \in IdsOf(store, "run") /\ store["run"][log.ref].refBirth # 0 =>
            \A step \in log.steps :
                step \in IdsOf(store, "step")
                /\ store["step"][step].refBirth = store["run"][log.ref].refBirth

\* Ids that are given again lead no record to another owner.
MockSound ==
    MockTypeOK /\ CyclesKeepRelease /\ ChildrenOwned /\ RunShowsLastLog /\ LogStepsOfCase
=============================================================================
