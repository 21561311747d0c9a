-------------------------- MODULE ZephyrMockServer ---------------------------
(***************************************************************************)
(* ztoq/zephyr_mock_server.py: the mock of the Zephyr Scale API.  A client *)
(* creates entities and another one reads a listing page by page meanwhile.*)
(*                                                                         *)
(* A store is a dict in insertion order, here a sequence of records        *)
(* [id, key, project], for an execution [id, case, cycle].  A case has no  *)
(* project of its own: project is the prefix of its key.  The project of a *)
(* status is the type of entity it is for: statuses, priorities and        *)
(* environments belong to all projects.                                    *)
(***************************************************************************)
EXTENDS Integers, Sequences, FiniteSets, SequencesExt

CONSTANTS
    Samples,     \* kind -> the records of _initialize_sample_data, a sequence
    Bodies,      \* kind -> the records a client may post
    Listings,    \* the listings a reader asks for: [kind, project, cycle]
    ServedSizes, \* values of maxResults
    MaxPosts     \* bound on the requests of the client

ASSUME ZephyrMockAssumption ==
    /\ MaxPosts \in Nat /\ ServedSizes \subseteq Nat \ {0}
    /\ DOMAIN Bodies \subseteq DOMAIN Samples
    /\ \A l \in Listings : l.kind \in DOMAIN Samples

VARIABLES
    zephyrData,  \* kind -> its store
    attachments, \* the ids of the uploaded attachments, in order
    authorized,  \* whether the clients have a token the server issued
    answered,    \* of the last request of the client: "none", "ok", "error"
    posts,       \* requests of the client so far
    reader       \* the client that reads a listing
zephyrMockVars == <<zephyrData, attachments, authorized, answered, posts, reader>>

IdsIn(records) == [i \in DOMAIN records |-> records[i].id]

ZephyrMockInit ==
    /\ zephyrData = Samples
    /\ attachments = <<>> /\ authorized = FALSE /\ answered = "none" /\ posts = 0
    /\ reader = [state |-> "off", seen |-> <<>>, moved |-> FALSE]

---------------------------------------------------------------------------
(* The listings, each with the filters of its handler.                     *)

OfHome(store, project) == LET home(r) == r.project = project IN SelectSeq(store, home)

ProjectList(data) == data.projects
FolderList(data, project) == OfHome(data.folders, project)
CaseList(data, project) == OfHome(data.test_cases, project)
CycleList(data, project) == OfHome(data.test_cycles, project)
PlanList(data, project) == OfHome(data.test_plans, project)
StatusList(data, type) == IF type = "" THEN data.statuses ELSE OfHome(data.statuses, type)
PriorityList(data) == data.priorities
EnvironmentList(data) == data.environments

\* The executions of a cycle, of the cases whose keys are of the project.
ExecutionList(data, project, cycle) ==
    LET keys == {c.key : c \in Range(CaseList(data, project))}
        wanted(x) == x.case \in keys /\ x.cycle = cycle
    IN SelectSeq(data.test_executions, wanted)

Listing(data, l) ==
    CASE l.kind = "projects"        -> ProjectList(data)
      [] l.kind = "folders"         -> FolderList(data, l.project)
      [] l.kind = "test_cases"      -> CaseList(data, l.project)
      [] l.kind = "test_cycles"     -> CycleList(data, l.project)
      [] l.kind = "test_plans"      -> PlanList(data, l.project)
      [] l.kind = "test_executions" -> ExecutionList(data, l.project, l.cycle)
      [] l.kind = "statuses"        -> StatusList(data, l.project)
      [] l.kind = "priorities"      -> PriorityList(data)
      [] l.kind = "environments"    -> EnvironmentList(data)

\* Mutant: one record too many.
PageOf_OneMore(list, startAt, maxResults) ==
    [values |-> SubSeq(list, startAt + 1, Min({startAt + maxResults + 1, Len(list)})),
     isLast |-> startAt + maxResults >= Len(list)]

\* The answer to a GET with startAt and maxResults.
PageOf(list, startAt, maxResults) ==
    [values |-> SubSeq(list, startAt + 1, Min({startAt + maxResults, Len(list)})),
     isLast |-> startAt + maxResults >= Len(list)]

---------------------------------------------------------------------------
(* Requests.                                                               *)

\* Whether the new data leaves the reader's listing as it was, but for records at its end
\* (a history of the model).
Extends(data) == IsPrefix(IdsIn(Listing(zephyrData, reader.list)), IdsIn(Listing(data, reader.list)))

Authorize ==
    /\ ~authorized
    /\ authorized' = TRUE /\ answered' = "ok"
    /\ UNCHANGED <<zephyrData, attachments, posts, reader>>

\* A request is answered with an error of error_rate, for want of a token, of a body or
\* of a field the model of its kind asks for, an unknown key or an unsupported endpoint.
RefuseRequest ==
    /\ posts < MaxPosts
    /\ answered' = "error" /\ posts' = posts + 1
    /\ UNCHANGED <<zephyrData, attachments, authorized, reader>>

\* The store after the POST of a record, which takes the place of the one with its id.
Stored(store, body) ==
    LET places == {i \in DOMAIN store : store[i].id = body.id} IN
    IF places = {} THEN Append(store, body)
    ELSE [i \in DOMAIN store |-> IF i \in places THEN body ELSE store[i]]

Post(kind) ==
    /\ authorized /\ posts < MaxPosts
    /\ \E body \in Bodies[kind] :
           LET data == [zephyrData EXCEPT ![kind] = Stored(@, body)] IN
           /\ zephyrData' = data
           /\ reader' = IF reader.state = "off" THEN reader
                        ELSE [reader EXCEPT !.moved = @ \/ ~Extends(data)]
    /\ answered' = "ok" /\ posts' = posts + 1
    /\ UNCHANGED <<attachments, authorized>>

\* POST of a file, to whatever entity; the server numbers it.
Upload ==
    /\ authorized /\ posts < MaxPosts
    /\ attachments' = Append(attachments, Len(attachments) + 1)
    /\ answered' = "ok" /\ posts' = posts + 1
    /\ UNCHANGED <<zephyrData, authorized, reader>>

StartReading ==
    /\ reader.state = "off" /\ authorized
    /\ \E l \in Listings, size \in ServedSizes :
           reader' = [state |-> "reads", list |-> l, size |-> size, start |-> 0, seen |-> <<>>,
                      moved |-> FALSE]
    /\ UNCHANGED <<zephyrData, attachments, authorized, answered, posts>>

\* The next page, until isLast.
ReadPage ==
    /\ reader.state = "reads"
    /\ LET page == PageOf(Listing(zephyrData, reader.list), reader.start, reader.size) IN
       reader' = [reader EXCEPT !.seen = @ \o page.values, !.start = @ + reader.size,
                                !.state = IF page.isLast THEN "done" ELSE "reads"]
    /\ UNCHANGED <<zephyrData, attachments, authorized, answered, posts>>

ZephyrMockNext ==
    \/ Authorize \/ RefuseRequest \/ Upload \/ StartReading \/ ReadPage
    \/ \E kind \in DOMAIN Bodies : Post(kind)

ZephyrMockSpec == ZephyrMockInit /\ [][ZephyrMockNext]_zephyrMockVars
---------------------------------------------------------------------------
(***************************** Properties *********************************)

\* A reader that follows isLast reads every record of its listing once and in order, with
\* those created behind its back, unless a record was replaced by one of another project
\* meanwhile (zephyr_mock_server.py:603-615, 646).
ReadsEachOnce ==
    (reader.state # "off" /\ ~reader.moved) =>
        LET ids == IdsIn(Listing(zephyrData, reader.list)) IN
        /\ IsPrefix(IdsIn(reader.seen), ids)
        /\ reader.state = "reads" => Len(reader.seen) = reader.start

\* A page that calls itself the last one leaves nothing behind it, and only such a page
\* does (zephyr_mock_server.py:479-487).
LastPageEnds ==
    [][(reader.state = "reads" /\ reader'.state = "done") =>
           \/ reader.moved
           \/ IdsIn(reader'.seen) = IdsIn(Listing(zephyrData, reader.list))]_zephyrMockVars

\* No upload takes the number of another one (zephyr_mock_server.py:878).
UploadsDiffer == IsInjective(attachments)

ZephyrMockSound == ReadsEachOnce /\ UploadsDiffer
=============================================================================
