---------------------------- MODULE DataFetcher -----------------------------
(***************************************************************************)
(* fetch_all_project_data and fetch_all_projects_data                      *)
(* (ztoq/data_fetcher.py): for each project a pool of threads fetches one  *)
(* kind of entity per task, the caller's thread collects the results as    *)
(* they end and reports them to a callback that may raise.                 *)
(***************************************************************************)
EXTENDS Integers, Sequences, FiniteSets

CONSTANTS
    Kinds,          \* the kinds of entities (seven in the code)
    ProjectKeys,    \* the projects, a sequence
    FetchWorkers,   \* threads of the executor (five)
    MaxRaises       \* bound on the exceptions of the callback

ASSUME FetchAssumption ==
    FetchWorkers \in Nat \ {0} /\ MaxRaises \in Nat /\ Len(ProjectKeys) \in Nat

VARIABLES
    fetch,     \* per kind: the task of the current project
    fetched,   \* results of the current project: kind -> success
    reports,   \* what the callback was told last of a kind, "" if nothing
    caller     \* the collecting thread: where it is, project, results so far
fetchVars == <<fetch, fetched, reports, caller>>

Outcomes == {"ok", "failed"}
NoReports == [k \in Kinds |-> ""]

FetchInit ==
    /\ fetch = [k \in Kinds |-> "none"]
    /\ fetched = [k \in Kinds |-> ""]
    /\ reports = NoReports
    /\ caller = [pc |-> "idle", project |-> 0, results |-> <<>>, raises |-> 0]

\* fetch_all_projects_data lists the projects when it is given none; a list
\* that cannot be fetched is an empty one.
StartFetch(listed) ==
    /\ caller.pc = "idle"
    /\ caller' = [caller EXCEPT !.pc = IF listed THEN "project" ELSE "returned"]
    /\ UNCHANGED <<fetch, fetched, reports>>

\* All tasks of a project are submitted before the first is collected.
StartProject ==
    /\ caller.pc = "project"
    /\ IF caller.project = Len(ProjectKeys)
       THEN caller' = [caller EXCEPT !.pc = "returned"] /\ UNCHANGED <<fetch, fetched, reports>>
       ELSE /\ caller' = [caller EXCEPT !.pc = "collect", !.project = @ + 1]
            /\ fetch' = [k \in Kinds |-> "queued"]
            /\ fetched' = [k \in Kinds |-> ""]
            /\ reports' = NoReports

BusyWorkers == {k \in Kinds : fetch[k] = "running"}

BeginTask(k) ==
    /\ fetch[k] = "queued" /\ Cardinality(BusyWorkers) < FetchWorkers
    /\ fetch' = [fetch EXCEPT ![k] = "running"]
    /\ UNCHANGED <<fetched, reports, caller>>

\* A fetch function turns every exception into a result without success.
EndTask(k, outcome) ==
    /\ fetch[k] = "running"
    /\ fetch' = [fetch EXCEPT ![k] = outcome]
    /\ UNCHANGED <<fetched, reports, caller>>

\* as_completed yields a future: keep its result, tell the callback.  When the
\* callback raises it is called again, with False; if it raises again the loop
\* ends by the exception, and the executor waits for its tasks.
Collect(k, raises) ==
    /\ caller.pc = "collect" /\ fetch[k] \in Outcomes
    /\ raises \in 0..2 /\ caller.raises + raises <= MaxRaises
    /\ fetched' = [fetched EXCEPT ![k] = fetch[k]]
    /\ fetch' = [fetch EXCEPT ![k] = "taken"]
    /\ reports' = [reports EXCEPT ![k] = IF raises = 0 THEN fetch[k] ELSE "failed"]
    /\ caller' = [caller EXCEPT !.raises = @ + raises,
                                !.pc = IF raises = 2 THEN "leaving" ELSE "collect"]

\* The report of a complete project: did every result succeed?
ProjectComplete ==
    /\ caller.pc = "collect" /\ \A k \in Kinds : fetch[k] = "taken"
    /\ caller' = [caller EXCEPT !.pc = "project",
                    !.results = Append(@, [of |-> fetched,
                        complete |-> \A k \in Kinds : fetched[k] = "ok"])]
    /\ UNCHANGED <<fetch, fetched, reports>>

\* Mutant: the executor is left without waiting for its tasks.
LeaveByException_NoWait ==
    /\ caller.pc = "leaving"
    /\ caller' = [caller EXCEPT !.pc = "raised"]
    /\ UNCHANGED <<fetch, fetched, reports>>

\* The with statement has waited for every task that was submitted.
LeaveByException ==
    /\ caller.pc = "leaving" /\ \A k \in Kinds : fetch[k] \notin {"queued", "running"}
    /\ caller' = [caller EXCEPT !.pc = "raised"]
    /\ UNCHANGED <<fetch, fetched, reports>>

FetchNext ==
    \/ \E listed \in BOOLEAN : StartFetch(listed)
    \/ StartProject \/ ProjectComplete \/ LeaveByException
    \/ \E k \in Kinds :
         \/ BeginTask(k)
         \/ \E outcome \in Outcomes : EndTask(k, outcome)
         \/ \E raises \in 0..2 : Collect(k, raises)

\* Threads run, calls of the client end, the caller goes on.
FetchFairness ==
    /\ \A k \in Kinds :
         WF_fetchVars(BeginTask(k)) /\ WF_fetchVars(\E outcome \in Outcomes : EndTask(k, outcome))
    /\ WF_fetchVars(StartProject \/ ProjectComplete \/ LeaveByException
                      \/ \E k \in Kinds, raises \in 0..2 : Collect(k, raises))

FetchSpec == FetchInit /\ [][FetchNext]_fetchVars /\ FetchFairness

----------------------------------------------------------------------------
(***************************** Properties *********************************)

\* Types of the tasks, the reports and the collecting thread.
FetchTypeOK ==
    /\ fetch \in [Kinds -> {"none", "queued", "running", "taken"} \cup Outcomes]
    /\ fetched \in [Kinds -> Outcomes \cup {""}] /\ reports \in [Kinds -> Outcomes \cup {""}]
    /\ caller.pc \in {"idle", "project", "collect", "leaving", "returned", "raised"}
    /\ caller.project \in 0..Len(ProjectKeys) /\ Len(caller.results) <= caller.project

\* A project whose data is returned has a result of every kind, and it is
\* called complete only if no kind failed, even if the callback raised in between.
ResultsComplete ==
    \A i \in DOMAIN caller.results :
        /\ \A k \in Kinds : caller.results[i].of[k] \in Outcomes
        /\ caller.results[i].complete => \A k \in Kinds : caller.results[i].of[k] # "failed"

\* What the callback was told of a kind contradicts the result only if it
\* raised itself, and never makes a failure look like a success.
ReportsHonest ==
    \A k \in Kinds : reports[k] # "" =>
        /\ reports[k] = "ok" => fetched[k] = "ok"
        /\ caller.raises = 0 => reports[k] = fetched[k]

\* When the caller has its answer or its exception no task of it is alive.
NoTaskLeft ==
    caller.pc \in {"idle", "project", "returned", "raised"} =>
        \A k \in Kinds : fetch[k] \notin {"queued", "running"}

\* The call ends, whatever the calls and the callback do.
FetchEnds == caller.pc = "project" ~> caller.pc \in {"returned", "raised"}

\* Results and reports tell what was fetched, when all fetches have ended.
FetchesReported == FetchTypeOK /\ ResultsComplete /\ ReportsHonest /\ NoTaskLeft
=============================================================================
