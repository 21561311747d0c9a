---------------------------- MODULE MCServices ----------------------------
(***************************************************************************)
(* The clients of the remote services and the readers of large tables,     *)
(* instantiated for TLC side by side: they share no state, so a behaviour  *)
(* of this module is one of a single component, chosen in the initial      *)
(* state, while the others rest.                                           *)
(***************************************************************************)
EXTENDS QTestClient, ZephyrClient, Paging, Attachments, AsyncPool, DataFetcher,
        Orchestrator, TableScan, RetryHandler, Transformers, ZephyrMockServer, Incremental,
        Indexes

VARIABLE part
servicesVars == <<clientVars, zephyrVars, pagingVars, uploadVars, asyncPoolVars, fetchVars,
                  orchVars, scanVars, retryVars, convVars, zephyrMockVars, incVars,
                  indexVars, part>>

CONSTANTS file1, file2, file3
MCUploadFiles == <<file1, file2, file3>>
MCProjectKeys == <<1, 2>>

\* The mock of Zephyr: "A" is the project read, with a folder and an execution of another.
Rec(id, key, project) == [id |-> id, key |-> key, project |-> project]
Execution(id, case, cycle) == [id |-> id, case |-> case, cycle |-> cycle]
MCSamples ==
    [projects |-> <<Rec("1", "A", "A")>>,
     folders |-> <<Rec("11", "-", "A"), Rec("12", "-", "B")>>,
     test_cases |-> <<Rec("1", "A-T1", "A"), Rec("2", "B-T1", "B")>>,
     test_cycles |-> <<Rec("1", "A-C1", "A")>>,
     test_plans |-> << >>,
     test_executions |-> <<Execution("1", "A-T1", "1"), Execution("2", "B-T1", "1")>>,
     statuses |-> <<Rec("1", "Draft", "TEST_CASE"), Rec("2", "Passed", "TEST_EXECUTION")>>,
     priorities |-> <<Rec("1", "High", ""), Rec("2", "Low", "")>>,
     environments |-> <<Rec("1", "Testing", "")>>]
MCBodies ==
    [projects |-> {Rec("1", "B", "B")},
     folders |-> {Rec("12", "-", "A"), Rec("13", "-", "A")},
     test_cases |-> {Rec("2", "A-T1", "A"), Rec("1", "A-T2", "A")},
     test_cycles |-> {Rec("2", "A-C2", "A")},
     test_plans |-> {Rec("1", "A-P1", "A")},
     test_executions |-> {Execution("3", "A-T1", "1"), Execution("2", "A-T2", "1")}]
MCListings == {[kind |-> k, project |-> "A", cycle |-> "1"] : k \in DOMAIN MCBodies}
    \cup {[kind |-> k, project |-> "TEST_CASE", cycle |-> ""] : k \in DOMAIN MCSamples \ DOMAIN MCBodies}

\* What changes between runs: v1 and h1 refer to the folder j1, v2 to v1, q1 to v2 and h1.
CONSTANTS h1, v1, v2, q1, j1
MCRefsTo(e) == CASE e = h1 -> {j1} [] e = v1 -> {j1} [] e = v2 -> {v1} [] e = q1 -> {h1, v2} [] OTHER -> {}

\* Indexes of two tables; a process may ask for one on a column named by a keyword.
Case == <<"case">>
Owner == <<"owner">>
Parent == <<"folder", "id">>
Indexed(name, table, columns, backs) ==
    [name |-> name, table |-> table, columns |-> columns, backs |-> backs]
Wanted(name, table, columns) ==
    [name |-> name, table |-> table, columns |-> columns, partial |-> FALSE]
MCSchemaIndexes == {Indexed(<<"pk", "case">>, Case, <<<<"id">>>>, TRUE),
                    Indexed(<<"pk", "state">>, <<"state">>, <<<<"id">>>>, TRUE),
                    Indexed(<<"idx", "folder">>, Case, <<Parent>>, FALSE)}
MCColumnsOf(t) == IF t = Case THEN {<<"id">>, Owner, Parent, <<"index">>} ELSE {<<"id">>}
MCForeignKeys == {[table |-> Case, columns |-> <<Parent>>], [table |-> Case, columns |-> <<Owner>>]}
MCRecommended == <<Wanted(<<"idx", "case", "owner">>, Case, <<Owner>>),
                   Wanted(<<"idx", "status">>, <<"state">>, <<<<"status">>>>)>>
MCAsked == {[table |-> Case, columns |-> <<Owner, Parent>>, unique |-> TRUE],
            [table |-> Case, columns |-> <<<<"index">>>>, unique |-> FALSE]}
MCFiltered == {[table |-> Case, columns |-> <<Owner>>]}
MCKeywords == {<<"index">>}
MCHashOf(m, columns) == m

Parts == {"client", "zephyr", "paging", "upload", "pool", "fetch", "orch", "scan",
          "retry", "conv", "mock", "inc", "index"}

\* Where no conversion is chosen, there is an empty one.
ConvRests ==
    /\ convEntity = [kind |-> "registry", entity |-> "project", present |-> {},
                     fieldsNull |-> FALSE, fields |-> << >>]
    /\ convOptions = [strict |-> FALSE, database |-> FALSE]
    /\ convMapped = {}
    /\ convResult = NoResult

ServicesInit ==
    /\ ClientInit /\ ZephyrInit /\ PagingInit /\ UploadInit /\ AsyncPoolInit
    /\ FetchInit /\ OrchInit /\ ScanInit /\ RetryInit /\ ZephyrMockInit /\ IncInit
    /\ IndexesInit
    /\ part \in Parts
    /\ IF part = "conv" THEN ConvInit ELSE ConvRests
    /\ part # "inc" => ~zone
    /\ part # "index" => popular = {} /\ database = [postgres |-> FALSE, tables |-> {Case, <<"state">>}]
    /\ part # "scan" => scan.by = "key" /\ present = Keys

\* The components but p rest.
Only(p) ==
    /\ p # "client" => UNCHANGED clientVars
    /\ p # "zephyr" => UNCHANGED zephyrVars
    /\ p # "paging" => UNCHANGED pagingVars
    /\ p # "upload" => UNCHANGED uploadVars
    /\ p # "pool" => UNCHANGED asyncPoolVars
    /\ p # "fetch" => UNCHANGED fetchVars
    /\ p # "orch" => UNCHANGED orchVars
    /\ p # "scan" => UNCHANGED scanVars
    /\ p # "retry" => UNCHANGED retryVars
    /\ p # "conv" => UNCHANGED convVars
    /\ p # "mock" => UNCHANGED zephyrMockVars
    /\ p # "inc" => UNCHANGED incVars
    /\ p # "index" => UNCHANGED indexVars
    /\ UNCHANGED part

ServicesNext ==
    \/ part = "client" /\ ClientNext /\ Only("client")
    \/ part = "zephyr" /\ ZephyrNext /\ Only("zephyr")
    \/ part = "paging" /\ PagingNext /\ Only("paging")
    \/ part = "upload" /\ UploadNext /\ Only("upload")
    \/ part = "pool" /\ AsyncPoolNext /\ Only("pool")
    \/ part = "fetch" /\ FetchNext /\ Only("fetch")
    \/ part = "orch" /\ OrchNext /\ Only("orch")
    \/ part = "scan" /\ ScanNext /\ Only("scan")
    \/ part = "retry" /\ RetryNext /\ Only("retry")
    \/ part = "conv" /\ ConvNext /\ Only("conv")
    \/ part = "mock" /\ ZephyrMockNext /\ Only("mock")
    \/ part = "inc" /\ IncNext /\ Only("inc")
    \/ part = "index" /\ IndexesNext /\ Only("index")

\* What the services' fairness asks for, merged: threads and coroutines run,
\* awaited answers, windows and timeouts come.  Less than the fairness of each
\* thread, and enough, since the bounds let the other threads come to an end.
Progress ==
    \/ part = "client" /\ (AwaitedWindow \/ \E t \in Callers : CallStep(t)) /\ Only("client")
    \/ part = "zephyr" /\ (AwaitedTick \/ \E t \in Requesters : RequestStep(t)) /\ Only("zephyr")
    \/ part = "pool" /\ (EndClose("own") \/ TimeoutThenSync \/ \E c \in Clients : AwaitClose("own", c)) /\ Only("pool")
    \/ part = "fetch" /\ FetchNext /\ caller.pc # "idle" /\ Only("fetch")
    \/ part = "orch" /\ CommandStep /\ Only("orch")
    \/ part = "scan" /\ NextChunk /\ Only("scan")

ServicesSpec ==
    /\ ServicesInit /\ [][ServicesNext]_servicesVars
    /\ WF_servicesVars(Progress)
    /\ WF_servicesVars(part = "pool" /\ BeginClose("queued") /\ Only("pool"))

-----------------------------------------------------------------------------
(***************************** Properties *********************************)

\* What changes under a reader: the pages of a collection, the pieces of a table.
ReadingsComplete ==
    /\ part = "paging" => PagesComplete
    /\ part = "scan" => ScansComplete

\* Results of calls that end in any order, some of them in failure, and of a run that
\* starts from what an earlier one is known to have done.
OutcomesReported ==
    /\ part = "upload" => UploadsReported
    /\ part = "fetch" => FetchesReported
    /\ part = "inc" => IncrementalSound

\* What a call makes of what it is given: the record a conversion returns, what the mock
\* of Zephyr serves of what it was sent, the indexes processes create side by side.
ProductsSound ==
    /\ ConversionsSound
    /\ part = "mock" => ZephyrMockSound
    /\ part = "index" => IndexesSound

\* Calls over one client or one retry policy, shared by threads.
CallsSound == (part = "client" => CallsAccounted) /\ (part = "retry" => RetriesSound)

\* No thread gets past an open circuit or to a closed client, a conversion that is repeated
\* reports no more than before, and a reading ends at the page said to be the last.
BarriersHold == CoolingCircuitsKept /\ OuterUsersFindOpen /\ ConversionsImprove /\ LastPageEnds

\* No call, close, fetch, command or scan of the active component is under way.
AtRest ==
    /\ \A t \in Callers : call[t].pc = "idle"
    /\ \A t \in Requesters : request[t].pc = "idle"
    /\ main.pc \notin {"waits", "runs"} /\ ~main.queued
    /\ caller.pc \notin {"project", "collect", "leaving"}
    /\ run.pc = "idle"
    /\ part = "scan" => scan.pc = "ended"

\* Every call ends, whatever the services answer or fail to answer: all that is
\* under way comes to rest.
EveryCallEnds == []<>AtRest
=============================================================================
