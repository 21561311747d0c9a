---------------------------- MODULE Attachments ----------------------------
(***************************************************************************)
(* Uploads of several files to one object (ztoq/qtest_client.py):          *)
(* upload_multiple_attachments, one after the other, and                   *)
(* upload_attachments_parallel, with a pool of threads.  An upload is one  *)
(* POST that is not repeated; the server is external and may have stored   *)
(* the file although the answer was lost.  A caller may upload again the   *)
(* files it got no attachment for.                                         *)
(***************************************************************************)
EXTENDS Integers, Sequences, FiniteSets, Functions

CONSTANTS
    UploadFiles,     \* the files, in the order of file_paths
    MissingFiles,    \* those that do not exist when they are uploaded
    UploadWorkers,   \* max_workers
    MaxUploadRuns    \* bound on the calls of the caller

ASSUME UploadAssumption == UploadWorkers \in Nat \ {0} /\ MaxUploadRuns \in Nat

VARIABLES
    upload,   \* the running call: mode, files left, results so far
    file,     \* per file: its state in the running call
    stored    \* per file: copies the server holds
uploadVars == <<upload, file, stored>>

Listed == Range(UploadFiles)

UploadInit ==
    /\ upload = [mode |-> "none", asked |-> <<>>, returned |-> <<>>, got |-> {}, runs |-> 0]
    /\ file = [f \in Listed |-> "idle"]
    /\ stored = [f \in Listed |-> 0]

\* The caller passes the files it has no attachment of yet.
StartUpload(mode) ==
    /\ upload.mode = "none" /\ upload.runs < MaxUploadRuns
    /\ LET asked == SelectSeq(UploadFiles, LAMBDA f : f \notin upload.got)
       IN /\ asked # <<>>
          /\ upload' = [upload EXCEPT !.mode = mode, !.asked = asked, !.returned = <<>>,
                                      !.runs = @ + 1]
          /\ file' = [f \in Listed |-> IF f \in Range(asked) THEN "queued" ELSE "idle"]
    /\ UNCHANGED stored

Running == {f \in Listed : file[f] \in {"running", "answered", "lost"}}

\* upload_multiple_attachments takes the next file when the last one ended.
TakeNext(f) ==
    /\ upload.mode \in {"all", "strict"} /\ Running = {}
    /\ \E i \in 1..Len(upload.asked) :
         /\ upload.asked[i] = f /\ file[f] = "queued"
         /\ \A j \in 1..(i - 1) : file[upload.asked[j]] # "queued"
    /\ file' = [file EXCEPT ![f] = "running"]
    /\ UNCHANGED <<upload, stored>>

\* The executor of upload_attachments_parallel runs up to max_workers workers.
RunWorker(f) ==
    /\ upload.mode = "parallel" /\ file[f] = "queued"
    /\ Cardinality(Running) < UploadWorkers
    /\ file' = [file EXCEPT ![f] = "running"]
    /\ UNCHANGED <<upload, stored>>

\* upload_attachment: the file must exist; the server stores it or refuses it,
\* and its answer arrives or not.
UploadOne(f, stores, answers) ==
    /\ file[f] = "running"
    /\ f \in MissingFiles => ~stores
    /\ answers => stores
    /\ stored' = IF stores THEN [stored EXCEPT ![f] = @ + 1] ELSE stored
    /\ file' = [file EXCEPT ![f] = IF answers THEN "answered" ELSE "lost"]
    /\ UNCHANGED upload

\* The attachment is appended to the results (as_completed: in any order).
CollectResult(f) ==
    /\ file[f] = "answered"
    /\ upload' = [upload EXCEPT !.returned = Append(@, f)]
    /\ file' = [file EXCEPT ![f] = "done"]
    /\ UNCHANGED stored

\* An exception is logged and skipped; without continue_on_error it is raised
\* and the attachments so far are lost to the caller.
SkipFailure(f) ==
    /\ file[f] = "lost" /\ upload.mode # "strict"
    /\ file' = [file EXCEPT ![f] = "done"]
    /\ UNCHANGED <<upload, stored>>

RaiseFailure(f) ==
    /\ file[f] = "lost" /\ upload.mode = "strict"
    /\ file' = [g \in Listed |-> "idle"]
    /\ upload' = [upload EXCEPT !.mode = "none", !.returned = <<>>]
    /\ UNCHANGED stored

ReturnUploads ==
    /\ upload.mode # "none"
    /\ \A f \in Listed : file[f] \in {"done", "idle"}
    /\ upload' = [upload EXCEPT !.mode = "none", !.got = @ \cup Range(upload.returned)]
    /\ file' = [f \in Listed |-> "idle"]
    /\ UNCHANGED stored

UploadNext ==
    \/ \E mode \in {"all", "strict", "parallel"} : StartUpload(mode)
    \/ \E f \in Listed :
         \/ TakeNext(f) \/ RunWorker(f) \/ CollectResult(f) \/ SkipFailure(f) \/ RaiseFailure(f)
         \/ \E stores, answers \in BOOLEAN : UploadOne(f, stores, answers)
    \/ ReturnUploads

UploadSpec == UploadInit /\ [][UploadNext]_uploadVars

----------------------------------------------------------------------------
(***************************** Properties *********************************)

\* Types of the call, the files and the server.
UploadTypeOK ==
    /\ upload.mode \in {"none", "all", "strict", "parallel"}
    /\ upload.got \subseteq Listed /\ Range(upload.returned) \subseteq Listed
    /\ file \in [Listed -> {"idle", "queued", "running", "answered", "lost", "done"}]
    /\ stored \in [Listed -> Nat]

\* An attachment is returned once per call and only for a file the server
\* holds: a worker that failed leaves no entry, and nobody else's.
ReturnedAreStored ==
    /\ \A f \in upload.got \cup Range(upload.returned) : stored[f] > 0
    /\ IsInjective(upload.returned)

\* No upload is under way when the call has returned or raised.
NoUploadAfterReturn == upload.mode = "none" => Running = {}

\* Copies a caller makes who uploads again what was not reported: at most one
\* per call.
CopiesBounded == \A f \in Listed : stored[f] <= upload.runs

\* The attachments returned are those stored, when all uploads have ended.
UploadsReported == UploadTypeOK /\ ReturnedAreStored /\ NoUploadAfterReturn /\ CopiesBounded
=============================================================================
