----------------------------- MODULE FileUpload -----------------------------
(***************************************************************************)
(* The upload of the HTML files, or of the screenshots, of one job: init   *)
(* requests register files, upload requests send them, and the upload that *)
(* finds no file pending sets the upload status to completed.  The two     *)
(* kinds have handlers and tables of their own with the same steps; Html   *)
(* says which kind is modelled.  HTML uploads also write the job's         *)
(* html_path, screenshot uploads link what they received to test cases,    *)
(* which writes nothing of this module's (see ScreenshotLinking).          *)
(*                                                                         *)
(* Jobs share no rows of these tables, so one job is modelled.  As in      *)
(* ReportPipeline, a step is one query, update or S3 call, a request is    *)
(* used once, and an operator that stands before another and has its name  *)
(* with an ending is a mistake the properties are checked against.         *)
(***************************************************************************)
EXTENDS Integers, FiniteSets

CONSTANTS
    File,      \* names of files
    Inits,     \* requests to POST .../html/init or .../screenshots/init
    Uploads,   \* requests to POST .../html or .../screenshots
    Polls,     \* requests to GET .../html/progress
    Html,      \* HTML files (TRUE) or screenshots (FALSE)
    Modulus,   \* stands for 2^64, the range of the counts
    MaxFaults  \* bound on the failures the environment may inject

Request == Inits \cup Uploads \cup Polls

ASSUME FilesFinite == IsFiniteSet(File)
ASSUME RequestKinds == /\ Inits \cap Uploads = {}
                       /\ Inits \cap Polls = {}
                       /\ Uploads \cap Polls = {}
ASSUME HtmlBoolean == Html \in BOOLEAN
ASSUME ModulusFits == Modulus \in Nat /\ Cardinality(File) < Modulus
ASSUME MaxFaultsNat == MaxFaults \in Nat

VARIABLES
    fileStatus,    \* html_files.status, "absent" where there is no row
    uploadStatus,  \* test_jobs.html_upload_status
    htmlPath,      \* test_jobs.html_path is not null
    stored,        \* S3: the files whose object exists
    pc, todo, got, \* a handler's position, its files to do and done
    asked,         \* the files an init request registers
    total,         \* the total a handler has counted
    progress,      \* the uploaded count it answers with
    faults         \* failures so far

tables == <<fileStatus, uploadStatus, htmlPath>>
counts == <<total, progress>>
vars == <<tables, stored, pc, todo, got, asked, counts, faults>>

Active == {"insertFiles", "receive", "countTotal", "countPending", "checkAll",
           "setPath", "setCompleted"}

Registered == {f \in File : fileStatus[f] # "absent"}
Pending    == {f \in File : fileStatus[f] = "pending"}
Uploaded   == {f \in File : fileStatus[f] = "uploaded"}

\* Types.
TypeOK ==
    /\ fileStatus \in [File -> {"absent", "pending", "uploaded"}]
    /\ uploadStatus \in {"null", "started", "completed"}
    /\ htmlPath \in BOOLEAN
    /\ stored \subseteq File
    /\ pc \in [Request -> Active \cup {"idle", "done", "error"}]
    /\ todo \in [Request -> SUBSET File]
    /\ got \in [Request -> SUBSET File]
    /\ asked \in [Request -> SUBSET File]
    /\ total \in [Request -> 0..Cardinality(File)]
    /\ progress \in [Request -> 0..(Modulus - 1)]
    /\ faults \in Nat

\* init_job has inserted the job row; the job has no file of this kind.
Init ==
    /\ fileStatus = [f \in File |-> "absent"]
    /\ uploadStatus = "null"
    /\ htmlPath = FALSE
    /\ stored = {}
    /\ pc = [r \in Request |-> "idle"]
    /\ todo = [r \in Request |-> {}]
    /\ got = [r \in Request |-> {}]
    /\ asked = [r \in Request |-> {}]
    /\ total = [r \in Request |-> 0]
    /\ progress = [r \in Request |-> 0]
    /\ faults = 0

Goto(r, step) == pc' = [pc EXCEPT ![r] = step]

Fault == /\ faults < MaxFaults
         /\ faults' = faults + 1

-----------------------------------------------------------------------------
(* init_html, init_screenshots *)

\* F is the list of accepted files.
BeginInit(r) ==
    /\ pc[r] = "idle"
    /\ \E F \in (SUBSET File) \ {{}} :
         /\ todo' = [todo EXCEPT ![r] = F]
         /\ asked' = [asked EXCEPT ![r] = F]
    /\ Goto(r, "insertFiles")
    /\ UNCHANGED <<tables, stored, got, counts, faults>>

\* One INSERT per file; the unique index on (job, filename) refuses a second
\* row, which ends the request and leaves the rows before it.
InsertFile(r) ==
    /\ pc[r] = "insertFiles"
    /\ \E f \in todo[r] :
         \/ /\ fileStatus[f] = "absent"
            /\ fileStatus' = [fileStatus EXCEPT ![f] = "pending"]
            /\ todo' = [todo EXCEPT ![r] = @ \ {f}]
            /\ UNCHANGED pc
         \/ /\ fileStatus[f] # "absent"
            /\ Goto(r, "error")
            /\ UNCHANGED <<fileStatus, todo>>
    /\ UNCHANGED <<uploadStatus, htmlPath, stored, got, asked, counts, faults>>

SetStarted(r) ==
    /\ pc[r] = "insertFiles"
    /\ todo[r] = {}
    /\ uploadStatus' = "started"
    /\ Goto(r, "done")
    /\ UNCHANGED <<fileStatus, htmlPath, stored, todo, got, asked, counts,
                   faults>>

-----------------------------------------------------------------------------
(* upload_html, upload_screenshots *)

\* "Files must be uploaded ... after initialization": a client sends the files
\* an init request has answered to be accepted, in any grouping and more than
\* once.
Accepted == UNION {asked[i] : i \in {i \in Inits : pc[i] = "done"}}

\* F is what the body holds; the files in the snapshot of pending ones count.
BeginUpload(r) ==
    /\ pc[r] = "idle"
    /\ \E F \in SUBSET Accepted :
         todo' = [todo EXCEPT ![r] = F \cap Pending]
    /\ Goto(r, "receive")
    /\ UNCHANGED <<tables, stored, got, asked, counts, faults>>

\* The object is put before the file is noted for the UPDATE.
ReceiveFileUnchecked(r) ==
    /\ pc[r] = "receive"
    /\ \E f \in todo[r] :
         /\ \/ stored' = stored \cup {f} /\ UNCHANGED faults
            \/ Fault /\ UNCHANGED stored
         /\ got' = [got EXCEPT ![r] = @ \cup {f}]
         /\ todo' = [todo EXCEPT ![r] = @ \ {f}]
    /\ UNCHANGED <<tables, pc, asked, counts>>

ReceiveFile(r) ==
    /\ pc[r] = "receive"
    /\ \E f \in todo[r] :
         /\ stored' = stored \cup {f}
         /\ got' = [got EXCEPT ![r] = @ \cup {f}]
         /\ todo' = [todo EXCEPT ![r] = @ \ {f}]
    /\ UNCHANGED <<tables, pc, asked, counts, faults>>

\* mark_html_files_uploaded; not called, and of no effect, without a file.
MarkUploaded(r) ==
    /\ pc[r] = "receive"
    /\ todo[r] = {}
    /\ fileStatus' =
         [f \in File |-> IF f \in got[r] THEN "uploaded" ELSE fileStatus[f]]
    /\ Goto(r, "countTotal")
    /\ UNCHANGED <<uploadStatus, htmlPath, stored, todo, got, asked, counts,
                   faults>>

\* get_html_upload_progress, first query.
CountTotal(r) ==
    /\ pc[r] = "countTotal"
    /\ total' = [total EXCEPT ![r] = Cardinality(Registered)]
    /\ Goto(r, "countPending")
    /\ UNCHANGED <<tables, stored, todo, got, asked, progress, faults>>

CountPendingSigned(r) ==
    /\ pc[r] = "countPending"
    /\ progress' = [progress EXCEPT ![r] = total[r] - Cardinality(Pending)]
    /\ Goto(r, "checkAll")
    /\ UNCHANGED <<tables, stored, todo, got, asked, total, faults>>

\* Its second query, and total - pending on u64 as a release build has it (a
\* debug build panics where this wraps).
CountPending(r) ==
    /\ pc[r] = "countPending"
    /\ progress' = [progress EXCEPT ![r] =
                      (total[r] - Cardinality(Pending)) % Modulus]
    /\ Goto(r, "checkAll")
    /\ UNCHANGED <<tables, stored, todo, got, asked, total, faults>>

\* all_html_files_uploaded: only the pending rows are counted.
AllUploadedAlone(r) == got[r] = Registered
AllUploaded(r) == Pending = {}

\* For an upload; a poll has its answer here.
CheckAll(r) ==
    /\ pc[r] = "checkAll"
    /\ Goto(r, IF r \in Uploads /\ AllUploaded(r)
               THEN IF Html THEN "setPath" ELSE "setCompleted"
               ELSE "done")
    /\ UNCHANGED <<tables, stored, todo, got, asked, counts, faults>>

SetPathLast(r) ==
    /\ pc[r] = "setPath"
    /\ uploadStatus' = "completed"
    /\ Goto(r, "setCompleted")
    /\ UNCHANGED <<fileStatus, htmlPath, stored, todo, got, asked, counts,
                   faults>>

\* update_job_html_path
SetPath(r) ==
    /\ pc[r] = "setPath"
    /\ htmlPath' = TRUE
    /\ Goto(r, "setCompleted")
    /\ UNCHANGED <<fileStatus, uploadStatus, stored, todo, got, asked, counts,
                   faults>>

SetCompleted(r) ==
    /\ pc[r] = "setCompleted"
    /\ uploadStatus' = "completed"
    /\ Goto(r, "done")
    /\ UNCHANGED <<fileStatus, htmlPath, stored, todo, got, asked, counts,
                   faults>>

-----------------------------------------------------------------------------
(* get_html_progress *)

BeginPoll(r) ==
    /\ pc[r] = "idle"
    /\ Goto(r, "countTotal")
    /\ UNCHANGED <<tables, stored, todo, got, asked, counts, faults>>

-----------------------------------------------------------------------------
(* Failures *)

\* A query, an S3 call or the client's connection fails: the request ends.
Abort(r) ==
    /\ pc[r] \in Active
    /\ Fault
    /\ Goto(r, "error")
    /\ UNCHANGED <<tables, stored, todo, got, asked, counts>>

\* The server restarts: all requests end.
Crash ==
    /\ Fault
    /\ pc' = [r \in Request |-> IF pc[r] \in Active THEN "error" ELSE pc[r]]
    /\ UNCHANGED <<tables, stored, todo, got, asked, counts>>

-----------------------------------------------------------------------------

\* Nothing is in flight and no request need ever come.
Rest == /\ \A r \in Request : pc[r] \notin Active
        /\ UNCHANGED vars

InitStep(r) == BeginInit(r) \/ InsertFile(r) \/ SetStarted(r)

UploadStep(r) == BeginUpload(r) \/ ReceiveFile(r) \/ MarkUploaded(r)

\* The progress counts, and what an upload does with them.
CountStep(r) == CountTotal(r) \/ CountPending(r) \/ CheckAll(r)
                  \/ SetPath(r) \/ SetCompleted(r)

Next ==
    \/ \E r \in Inits : InitStep(r)
    \/ \E r \in Uploads : UploadStep(r)
    \/ \E r \in Polls : BeginPoll(r)
    \/ \E r \in Uploads \cup Polls : CountStep(r)
    \/ \E r \in Request : Abort(r)
    \/ Crash
    \/ Rest

Spec == Init /\ [][Next]_vars

-----------------------------------------------------------------------------
(* Properties *)

\* A row is marked only after its object is in S3, whatever fails and whoever
\* else sends the same file: upload_html puts first and marks afterwards.
UploadedIsStored == Uploaded \subseteq stored

\* Whoever reads html_upload_status "completed" can build html_url from the
\* job: upload_html writes html_path first, and no step clears it.
CompletedHasPath == Html /\ uploadStatus = "completed" => htmlPath

\* When no upload is under way, no failure has happened and every registered
\* file has arrived, the status says completed: of concurrent uploads the last
\* one to mark its files sees none pending, and the "started" of an init
\* request never overwrites the "completed" that came of the files it
\* registered.
AllUploadedIsCompleted ==
    /\ Registered # {}
    /\ Pending = {}
    /\ \A r \in Uploads : pc[r] \notin Active
    /\ faults = 0
    => uploadStatus = "completed"

\* The progress answered never exceeds the total answered with it
\* (get_html_progress: "the number of HTML files uploaded and total
\* expected"); the code subtracts two counts taken one after the other.
ProgressWithinTotal ==
    \A r \in Uploads \cup Polls : pc[r] = "checkAll" => progress[r] <= total[r]
=============================================================================
