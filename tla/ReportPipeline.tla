--------------------------- MODULE ReportPipeline ---------------------------
(***************************************************************************)
(* The ingestion pipeline of one report: CI shards register a job          *)
(* (init_job), announce its JSON result files (init_json) and send them    *)
(* (upload_json); the upload that finds nothing left to send starts a      *)
(* background extraction, and the extraction that brings the number of     *)
(* complete jobs to expected_jobs completes the report.                    *)
(*                                                                         *)
(* Reports share no rows, so one report is modelled.  No handler uses a    *)
(* database transaction: every query or update is an atomic step of its    *)
(* own, and handlers and extraction tasks interleave at every .await.  A   *)
(* request is used once; a retry is another request.  The extraction task  *)
(* an upload spawns goes on under the upload's identity, since one upload  *)
(* spawns at most one task.                                                *)
(*                                                                         *)
(* An operator that stands before another and has its name with an ending  *)
(* (RegisteredVacuous before Registered) is a mistake the properties are   *)
(* checked against; the specification does not use it.                     *)
(***************************************************************************)
EXTENDS Naturals, FiniteSets

CONSTANTS
    Job,          \* ids a job row of the report may get (UUIDv7)
    File,         \* names of JSON files
    Key,          \* GitHub job ids
    InitJobs,     \* requests to POST .../jobs/init
    InitJsons,    \* requests to POST .../jobs/{job_id}/json/init
    Uploads,      \* requests to POST .../jobs/{job_id}/json
    KeyOf,        \* the GitHub job id an init_job request carries, or NoKey
    ExpectedJobs, \* test_reports.expected_jobs
    MaxFaults,    \* bound on the failures the environment may inject
    NoJob, NoKey, \* absent values
    Report        \* the report, as the subject of an event

Request == InitJobs \cup InitJsons \cup Uploads

ASSUME JobsFinite == IsFiniteSet(Job)
ASSUME ExpectedJobsPositive == ExpectedJobs \in Nat \ {0}
ASSUME MaxFaultsNat == MaxFaults \in Nat
ASSUME RequestKinds == /\ InitJobs \cap InitJsons = {}
                       /\ InitJobs \cap Uploads = {}
                       /\ InitJsons \cap Uploads = {}
ASSUME KeyOfType == KeyOf \in [InitJobs -> Key \cup {NoKey}]
ASSUME AbsentValues == /\ NoJob \notin Job
                       /\ NoKey \notin Key
                       /\ Report \notin Job

VARIABLES
    \* PostgreSQL
    reportStatus,  \* test_reports.status
    jobStatus,     \* test_jobs.status, "none" where there is no row
    jobKey,        \* test_jobs.github_metadata->>'job_id'
    jsonUpload,    \* test_jobs.json_upload_status
    duration,      \* test_jobs.duration_ms: the files whose times it sums
    fileStatus,    \* json_files.status, "absent" where there is no row
    extracted,     \* json_files.extracted_at: the files that have one
    suites,        \* test_suites: <<task, file>>, the suites a task stored
    \* S3
    stored,        \* the objects: <<job, file>>
    \* requests and the tasks they spawn
    pc, target, seen, todo, got,
    \* events: jobs and report whose last status change no event has followed
    unannounced,
    \* history, read by properties only
    finished,      \* jobs some task has set to complete
    reopened,      \* the report was set to uploading after it was complete
    faults         \* failures so far

db == <<reportStatus, jobStatus, jobKey, jsonUpload, duration, fileStatus,
        extracted, suites>>
locals == <<pc, target, seen, todo, got>>
history == <<finished, reopened, faults>>
vars == <<db, stored, locals, unannounced, history>>

ReportStatus == {"initializing", "uploading", "complete"}
JobStatus == {"pending", "processing", "complete", "failed"}
FileStatus == {"pending", "uploaded"}

InitJobSteps  == {"findJob", "insertJob", "startUploading", "respond"}
InitJsonSteps == {"insertFiles"}
UploadSteps   == {"receive", "countPending", "setCompleted",
                  "setProcessing", "spawn"}
ExtractSteps  == {"loadFiles", "fetch", "store", "setComplete", "countJobs",
                  "finishReport", "announceReport"}
Active == InitJobSteps \cup InitJsonSteps \cup UploadSteps \cup ExtractSteps

Files(j)    == {f \in File : fileStatus[j][f] # "absent"}
Pending(j)  == {f \in File : fileStatus[j][f] = "pending"}
Uploaded(j) == {f \in File : fileStatus[j][f] = "uploaded"}
Exists(j)   == jobStatus[j] # "none"

\* count_completed_jobs, and the test of check_report_completion.
CompletedJobsStarted == {j \in Job : jobStatus[j] \notin {"none", "pending"}}
CompletedJobs == {j \in Job : jobStatus[j] = "complete"}
AllJobsCompleteStrict == Cardinality(CompletedJobs) > ExpectedJobs
AllJobsComplete == Cardinality(CompletedJobs) >= ExpectedJobs

\* A request works on a job that exists, and only such a job has a key, an
\* upload status or files.
ForeignKeys ==
    /\ \A r \in Request : pc[r] \in Active \ {"findJob", "insertJob"} =>
                           target[r] \in Job /\ Exists(target[r])
    /\ \A j \in Job : ~Exists(j) =>
         jobKey[j] = NoKey /\ jsonUpload[j] = "null" /\ Files(j) = {}

\* Types and foreign keys.
TypeOK ==
    /\ reportStatus \in ReportStatus
    /\ jobStatus \in [Job -> JobStatus \cup {"none"}]
    /\ jobKey \in [Job -> Key \cup {NoKey}]
    /\ jsonUpload \in [Job -> {"null", "started", "completed"}]
    /\ duration \in [Job -> SUBSET File]
    /\ fileStatus \in [Job -> [File -> FileStatus \cup {"absent"}]]
    /\ extracted \subseteq Job \X File
    /\ suites \subseteq Request \X File
    /\ stored \subseteq Job \X File
    /\ pc \in [Request -> Active \cup {"idle", "done", "error"}]
    /\ target \in [Request -> Job \cup {NoJob}]
    /\ seen \in [Request -> ReportStatus]
    /\ todo \in [Request -> SUBSET File]
    /\ got \in [Request -> SUBSET File]
    /\ unannounced \subseteq Job \cup {Report}
    /\ finished \subseteq Job
    /\ reopened \in BOOLEAN
    /\ faults \in Nat
    /\ ForeignKeys

\* register_report has inserted the report row; nothing else exists yet.
Init ==
    /\ reportStatus = "initializing"
    /\ jobStatus = [j \in Job |-> "none"]
    /\ jobKey = [j \in Job |-> NoKey]
    /\ jsonUpload = [j \in Job |-> "null"]
    /\ duration = [j \in Job |-> {}]
    /\ fileStatus = [j \in Job |-> [f \in File |-> "absent"]]
    /\ extracted = {}
    /\ suites = {}
    /\ stored = {}
    /\ pc = [r \in Request |-> "idle"]
    /\ target = [r \in Request |-> NoJob]
    /\ seen = [r \in Request |-> "initializing"]
    /\ todo = [r \in Request |-> {}]
    /\ got = [r \in Request |-> {}]
    /\ unannounced = {}
    /\ finished = {}
    /\ reopened = FALSE
    /\ faults = 0

Goto(r, step) == pc' = [pc EXCEPT ![r] = step]

\* Something outside the handlers goes wrong.
Fault == /\ faults < MaxFaults
         /\ faults' = faults + 1

-----------------------------------------------------------------------------
(* init_job *)

\* The report is read once, here; its status is used three awaits later.
BeginInitJob(r) ==
    /\ pc[r] = "idle"
    /\ seen' = [seen EXCEPT ![r] = reportStatus]
    /\ Goto(r, IF KeyOf[r] = NoKey THEN "insertJob" ELSE "findJob")
    /\ UNCHANGED <<db, stored, target, todo, got, unannounced, history>>

\* find_job_by_github_id: a job with this key is returned as is_existing.
FindJob(r) ==
    /\ pc[r] = "findJob"
    /\ \/ /\ \A j \in Job : Exists(j) => jobKey[j] # KeyOf[r]
          /\ Goto(r, "insertJob")
          /\ UNCHANGED target
       \/ \E j \in Job :
            /\ Exists(j)
            /\ jobKey[j] = KeyOf[r]
            /\ target' = [target EXCEPT ![r] = j]
            /\ Goto(r, "done")
    /\ UNCHANGED <<db, stored, seen, todo, got, unannounced, history>>

\* idx_test_jobs_github_job: one row of a report per GitHub job id.
KeyTakenNever(k) == FALSE
KeyTaken(k) == k # NoKey /\ \E j \in Job : Exists(j) /\ jobKey[j] = k

InsertJob(r) ==
    /\ pc[r] = "insertJob"
    /\ ~KeyTaken(KeyOf[r])
    /\ \E j \in Job :
         /\ ~Exists(j)
         /\ jobStatus' = [jobStatus EXCEPT ![j] = "pending"]
         /\ jobKey' = [jobKey EXCEPT ![j] = KeyOf[r]]
         /\ target' = [target EXCEPT ![r] = j]
         /\ unannounced' = unannounced \cup {j}
    /\ Goto(r, IF seen[r] = "initializing" THEN "startUploading" ELSE "respond")
    /\ UNCHANGED <<reportStatus, jsonUpload, duration, fileStatus, extracted,
                   suites, stored, seen, todo, got, history>>

\* The unique index refuses the row: the request answers 500.
InsertJobRefused(r) ==
    /\ pc[r] = "insertJob"
    /\ KeyTaken(KeyOf[r])
    /\ Goto(r, "error")
    /\ UNCHANGED <<db, stored, target, seen, todo, got, unannounced, history>>

StartUploading(r) ==
    /\ pc[r] = "startUploading"
    /\ reportStatus' = "uploading"
    /\ reopened' = (reopened \/ reportStatus = "complete")
    /\ unannounced' = unannounced \cup {Report}
    /\ Goto(r, "respond")
    /\ UNCHANGED <<jobStatus, jobKey, jsonUpload, duration, fileStatus,
                   extracted, suites, stored, target, seen, todo, got,
                   finished, faults>>

RespondInitJobWithoutReport(r) ==
    /\ pc[r] = "respond"
    /\ unannounced' = unannounced \ {target[r]}
    /\ Goto(r, "done")
    /\ UNCHANGED <<db, stored, target, seen, todo, got, history>>

\* Broadcasts report_updated (where the status was written) and job_created.
RespondInitJob(r) ==
    /\ pc[r] = "respond"
    /\ unannounced' = unannounced \
         ({target[r]} \cup IF seen[r] = "initializing" THEN {Report} ELSE {})
    /\ Goto(r, "done")
    /\ UNCHANGED <<db, stored, target, seen, todo, got, history>>

-----------------------------------------------------------------------------
(* init_json *)

BeginInitJsonUnchecked(r) ==
    /\ pc[r] = "idle"
    /\ \E j \in Job, F \in SUBSET File :
         /\ F # {}
         /\ target' = [target EXCEPT ![r] = j]
         /\ todo' = [todo EXCEPT ![r] = F]
    /\ Goto(r, "insertFiles")
    /\ UNCHANGED <<db, stored, seen, got, unannounced, history>>

\* F is the list of accepted files; the job has been found in the report.
BeginInitJson(r) ==
    /\ pc[r] = "idle"
    /\ \E j \in Job, F \in SUBSET File :
         /\ Exists(j)
         /\ F # {}
         /\ target' = [target EXCEPT ![r] = j]
         /\ todo' = [todo EXCEPT ![r] = F]
    /\ Goto(r, "insertFiles")
    /\ UNCHANGED <<db, stored, seen, got, unannounced, history>>

\* insert_json_files: one INSERT per file.  The unique index on (job,
\* filename) refuses a second row, and the rows before it stay.
InsertFile(r) ==
    /\ pc[r] = "insertFiles"
    /\ \E f \in todo[r] :
         \/ /\ fileStatus[target[r]][f] = "absent"
            /\ fileStatus' = [fileStatus EXCEPT ![target[r]][f] = "pending"]
            /\ todo' = [todo EXCEPT ![r] = @ \ {f}]
            /\ UNCHANGED pc
         \/ /\ fileStatus[target[r]][f] # "absent"
            /\ Goto(r, "error")
            /\ UNCHANGED <<fileStatus, todo>>
    /\ UNCHANGED <<reportStatus, jobStatus, jobKey, jsonUpload, duration,
                   extracted, suites, stored, target, seen, got, unannounced,
                   history>>

SetStarted(r) ==
    /\ pc[r] = "insertFiles"
    /\ todo[r] = {}
    /\ jsonUpload' = [jsonUpload EXCEPT ![target[r]] = "started"]
    /\ Goto(r, "done")
    /\ UNCHANGED <<reportStatus, jobStatus, jobKey, duration, fileStatus,
                   extracted, suites, stored, target, seen, todo, got,
                   unannounced, history>>

-----------------------------------------------------------------------------
(* upload_json *)

\* F is what the multipart body holds; only files in the snapshot of pending
\* files are taken from it.
BeginUpload(r) ==
    /\ pc[r] = "idle"
    /\ \E j \in Job, F \in SUBSET File :
         /\ Exists(j)
         /\ target' = [target EXCEPT ![r] = j]
         /\ todo' = [todo EXCEPT ![r] = F \cap Pending(j)]
    /\ Goto(r, "receive")
    /\ UNCHANGED <<db, stored, seen, got, unannounced, history>>

ReceiveFileUnchecked(r) ==
    /\ pc[r] = "receive"
    /\ \E f \in todo[r] :
         /\ \/ stored' = stored \cup {<<target[r], f>>} /\ UNCHANGED faults
            \/ Fault /\ UNCHANGED stored
         /\ got' = [got EXCEPT ![r] = @ \cup {f}]
         /\ todo' = [todo EXCEPT ![r] = @ \ {f}]
    /\ UNCHANGED <<db, pc, target, seen, unannounced, finished, reopened>>

ReceiveFile(r) ==
    /\ pc[r] = "receive"
    /\ \E f \in todo[r] :
         /\ stored' = stored \cup {<<target[r], f>>}
         /\ got' = [got EXCEPT ![r] = @ \cup {f}]
         /\ todo' = [todo EXCEPT ![r] = @ \ {f}]
    /\ UNCHANGED <<db, pc, target, seen, unannounced, history>>

\* The two tests of all_json_files_uploaded.
RegisteredVacuous(j) == TRUE
Registered(j) == Files(j) # {}
AllUploadedOnce(r) == Pending(target[r]) = {} /\ jobStatus[target[r]] = "pending"
AllUploadedBySender(r) == Pending(target[r]) = {} /\ got[r] # {}
AllUploaded(r) == Pending(target[r]) = {}

\* mark_json_files_uploaded, one UPDATE for all files of the request, whatever
\* their status has become meanwhile; then all_json_files_uploaded counts the
\* rows.  One step: the UPDATE happens only if the count cannot be zero.
MarkUploaded(r) ==
    /\ pc[r] = "receive"
    /\ todo[r] = {}
    /\ fileStatus' = [fileStatus EXCEPT ![target[r]] =
                        [f \in File |-> IF f \in got[r] THEN "uploaded" ELSE @[f]]]
    /\ Goto(r, IF Registered(target[r]) THEN "countPending" ELSE "done")
    /\ UNCHANGED <<reportStatus, jobStatus, jobKey, jsonUpload, duration,
                   extracted, suites, stored, target, seen, todo, got,
                   unannounced, history>>

\* The second query of all_json_files_uploaded.
CountPending(r) ==
    /\ pc[r] = "countPending"
    /\ Goto(r, IF AllUploaded(r) THEN "setCompleted" ELSE "done")
    /\ UNCHANGED <<db, stored, target, seen, todo, got, unannounced, history>>

SetCompletedAndSpawn(r) ==
    /\ pc[r] = "setCompleted"
    /\ jsonUpload' = [jsonUpload EXCEPT ![target[r]] = "completed"]
    /\ Goto(r, "spawn")
    /\ UNCHANGED <<reportStatus, jobStatus, jobKey, duration, fileStatus,
                   extracted, suites, stored, target, seen, todo, got,
                   unannounced, history>>

SetCompleted(r) ==
    /\ pc[r] = "setCompleted"
    /\ jsonUpload' = [jsonUpload EXCEPT ![target[r]] = "completed"]
    /\ Goto(r, "setProcessing")
    /\ UNCHANGED <<reportStatus, jobStatus, jobKey, duration, fileStatus,
                   extracted, suites, stored, target, seen, todo, got,
                   unannounced, history>>

\* Whatever the job's status is: it may be processing or complete already.
SetProcessing(r) ==
    /\ pc[r] = "setProcessing"
    /\ jobStatus' = [jobStatus EXCEPT ![target[r]] = "processing"]
    /\ unannounced' = unannounced \cup {target[r]}
    /\ Goto(r, "spawn")
    /\ UNCHANGED <<reportStatus, jobKey, jsonUpload, duration, fileStatus,
                   extracted, suites, stored, target, seen, todo, got, history>>

SpawnIfSent(r) ==
    /\ pc[r] = "spawn"
    /\ unannounced' = unannounced \ {target[r]}
    /\ Goto(r, IF got[r] = {} THEN "done" ELSE "loadFiles")
    /\ UNCHANGED <<db, stored, target, seen, todo, got, history>>

\* Broadcasts job_updated, reads the framework, spawns extract_job, responds.
Spawn(r) ==
    /\ pc[r] = "spawn"
    /\ unannounced' = unannounced \ {target[r]}
    /\ Goto(r, "loadFiles")
    /\ UNCHANGED <<db, stored, target, seen, todo, got, history>>

-----------------------------------------------------------------------------
(* extract_job, the spawned task *)

LoadFiles(r) ==
    /\ pc[r] = "loadFiles"
    /\ Uploaded(target[r]) # {}
    /\ todo' = [todo EXCEPT ![r] = Uploaded(target[r])]
    /\ got' = [got EXCEPT ![r] = {}]
    /\ Goto(r, "fetch")
    /\ UNCHANGED <<db, stored, target, seen, unannounced, history>>

\* No uploaded file, or the query failed: the job is failed, no event is sent
\* and the report is not looked at.
LoadFilesFails(r) ==
    /\ pc[r] = "loadFiles"
    /\ IF Uploaded(target[r]) = {} THEN UNCHANGED faults ELSE Fault
    /\ jobStatus' = [jobStatus EXCEPT ![target[r]] = "failed"]
    /\ unannounced' = unannounced \cup {target[r]}
    /\ Goto(r, "done")
    /\ UNCHANGED <<reportStatus, jobKey, jsonUpload, duration, fileStatus,
                   extracted, suites, stored, target, seen, todo, got,
                   finished, reopened>>

\* storage.get, parsing and mark_json_file_extracted.  On a fault the object
\* cannot be read (neither parsed nor marked), its content is not the
\* framework's JSON (marked, but without suites), or marking fails.
FetchFile(r) ==
    /\ pc[r] = "fetch"
    /\ \E f \in todo[r], parsed, marked \in BOOLEAN :
         /\ IF parsed /\ marked
              THEN <<target[r], f>> \in stored /\ UNCHANGED faults
              ELSE Fault
         /\ got' = [got EXCEPT ![r] = IF parsed THEN @ \cup {f} ELSE @]
         /\ extracted' = IF marked THEN extracted \cup {<<target[r], f>>}
                                   ELSE extracted
         /\ IF todo[r] = {f}
              THEN /\ todo' = [todo EXCEPT ![r] = got'[r]]
                   /\ Goto(r, "store")
              ELSE /\ todo' = [todo EXCEPT ![r] = @ \ {f}]
                   /\ UNCHANGED pc
    /\ UNCHANGED <<reportStatus, jobStatus, jobKey, jsonUpload, duration,
                   fileStatus, suites, stored, target, seen, unannounced,
                   finished, reopened>>

\* The suites and cases of one file; a row that cannot be inserted is skipped.
StoreSuites(r) ==
    /\ pc[r] = "store"
    /\ \E f \in todo[r] :
         /\ \/ /\ suites' = suites \cup {<<r, f>>}
               /\ UNCHANGED faults
            \/ /\ Fault
               /\ UNCHANGED suites
         /\ todo' = [todo EXCEPT ![r] = @ \ {f}]
    /\ UNCHANGED <<reportStatus, jobStatus, jobKey, jsonUpload, duration,
                   fileStatus, extracted, stored, pc, target, seen, got,
                   unannounced, finished, reopened>>

\* update_job_duration overwrites the sum with the one of this task's files
\* (a sum of zero is not written; a failure is only logged).  Linking
\* screenshots follows and touches nothing of this.
SetDuration(r) ==
    /\ pc[r] = "store"
    /\ todo[r] = {}
    /\ \/ /\ duration' = [duration EXCEPT ![target[r]] =
                             IF got[r] = {} THEN @ ELSE got[r]]
          /\ UNCHANGED faults
       \/ /\ Fault
          /\ UNCHANGED duration
    /\ Goto(r, "setComplete")
    /\ UNCHANGED <<reportStatus, jobStatus, jobKey, jsonUpload, fileStatus,
                   extracted, suites, stored, target, seen, todo, got,
                   unannounced, finished, reopened>>

SetComplete(r) ==
    /\ pc[r] = "setComplete"
    /\ jobStatus' = [jobStatus EXCEPT ![target[r]] = "complete"]
    /\ unannounced' = unannounced \cup {target[r]}
    /\ finished' = finished \cup {target[r]}
    /\ Goto(r, "countJobs")
    /\ UNCHANGED <<reportStatus, jobKey, jsonUpload, duration, fileStatus,
                   extracted, suites, stored, target, seen, todo, got,
                   reopened, faults>>

\* Broadcasts job_updated and suites_available; check_report_completion then
\* counts, and broadcasts report_updated itself when jobs are missing.
CountJobs(r) ==
    /\ pc[r] = "countJobs"
    /\ Goto(r, IF AllJobsComplete THEN "finishReport" ELSE "done")
    /\ unannounced' = unannounced \
         ({target[r]} \cup IF AllJobsComplete THEN {} ELSE {Report})
    /\ UNCHANGED <<db, stored, target, seen, todo, got, history>>

FinishReport(r) ==
    /\ pc[r] = "finishReport"
    /\ reportStatus' = "complete"
    /\ unannounced' = unannounced \cup {Report}
    /\ Goto(r, "announceReport")
    /\ UNCHANGED <<jobStatus, jobKey, jsonUpload, duration, fileStatus,
                   extracted, suites, stored, target, seen, todo, got, history>>

AnnounceReport(r) ==
    /\ pc[r] = "announceReport"
    /\ unannounced' = unannounced \ {Report}
    /\ Goto(r, "done")
    /\ UNCHANGED <<db, stored, target, seen, todo, got, history>>

-----------------------------------------------------------------------------
(* Failures *)

\* A query, an S3 call or the multipart stream of one request or task fails,
\* or its client disconnects: what it has done so far stays, the rest is not
\* done.
Abort(r) ==
    /\ pc[r] \in Active
    /\ Fault
    /\ Goto(r, "error")
    /\ UNCHANGED <<db, stored, target, seen, todo, got, unannounced,
                   finished, reopened>>

\* The server stops and starts again: every request and task in flight is
\* gone, and nothing looks for jobs left behind.
Crash ==
    /\ \E r \in Request : pc[r] \in Active
    /\ Fault
    /\ pc' = [r \in Request |-> IF pc[r] \in Active THEN "error" ELSE pc[r]]
    /\ UNCHANGED <<db, stored, target, seen, todo, got, unannounced,
                   finished, reopened>>

-----------------------------------------------------------------------------

\* What the server does once a request has been accepted.
InitJobStep(r) == \/ FindJob(r)
                  \/ InsertJob(r)
                  \/ InsertJobRefused(r)
                  \/ StartUploading(r)
                  \/ RespondInitJob(r)
InitJsonStep(r) == InsertFile(r) \/ SetStarted(r)
UploadStep(r) == \/ ReceiveFile(r)
                 \/ MarkUploaded(r)
                 \/ CountPending(r)
                 \/ SetCompleted(r)
                 \/ SetProcessing(r)
                 \/ Spawn(r)
ExtractStep(r) == \/ LoadFiles(r)
                  \/ LoadFilesFails(r)
                  \/ FetchFile(r)
                  \/ StoreSuites(r)
                  \/ SetDuration(r)
                  \/ SetComplete(r)
                  \/ CountJobs(r)
                  \/ FinishReport(r)
                  \/ AnnounceReport(r)

AtRest == \A r \in Request : pc[r] \notin Active

\* Nothing is in flight, and no further request has to arrive.
Rest == AtRest /\ UNCHANGED vars

Next ==
    \/ \E r \in InitJobs : BeginInitJob(r) \/ InitJobStep(r)
    \/ \E r \in InitJsons : BeginInitJson(r) \/ InitJsonStep(r)
    \/ \E r \in Uploads : BeginUpload(r) \/ UploadStep(r) \/ ExtractStep(r)
    \/ \E r \in Request : Abort(r)
    \/ Crash
    \/ Rest

Spec == Init /\ [][Next]_vars

\* The tokio runtime polls every task that can run, and every query and S3
\* call returns: an accepted request runs to its end.  Clients need not send
\* anything, and nothing has to fail.
FairSpec == /\ Spec
            /\ \A r \in InitJobs : WF_vars(InitJobStep(r))
            /\ \A r \in InitJsons : WF_vars(InitJsonStep(r))
            /\ \A r \in Uploads : WF_vars(UploadStep(r) \/ ExtractStep(r))

-----------------------------------------------------------------------------
(* Safety *)

\* A json_files row is "uploaded" only when its object is in S3: the status is
\* written after every put, across aborted uploads, concurrent uploads of the
\* same file and crashes.
UploadedIsStored ==
    \A j \in Job, f \in File :
        fileStatus[j][f] = "uploaded" => <<j, f>> \in stored

\* A spawned task always has files to extract: "No JSON files uploaded", the
\* error that would fail the job, is never the outcome of a trigger.
ExtractionHasFiles ==
    \A r \in Request : pc[r] = "loadFiles" => Uploaded(target[r]) # {}

\* Two init_job requests with the same GitHub job id that both succeed have
\* been given the same job, however they interleave.
SameKeySameJob ==
    \A r, s \in InitJobs :
        (KeyOf[r] = KeyOf[s] /\ KeyOf[r] # NoKey /\ pc[r] = "done" /\ pc[s] = "done")
            => target[r] = target[s]

\* check_report_completion never completes a report early: expected_jobs
\* different jobs have had their extraction completed by then.
CompleteReportHasJobs ==
    reportStatus = "complete" => Cardinality(finished) >= ExpectedJobs

\* check_report_completion is never too late either: when enough jobs are
\* complete, the report is, or some task has yet to count the jobs.  (A task
\* writes its own job before it counts, so the last one sees them all.)
CompletionNotLost ==
    Cardinality(CompletedJobs) >= ExpectedJobs =>
        \/ reportStatus = "complete"
        \/ \E r \in Request : pc[r] \in {"countJobs", "finishReport"}
        \/ reopened
        \/ faults > 0

\* The trigger is never lost: once everything has come to rest, a job whose
\* files have all arrived is complete and has the suites of every file,
\* whichever upload sent which file and whatever was registered in between.
ExtractionNotLost ==
    AtRest /\ faults = 0 =>
        \A j \in Job : Files(j) # {} /\ Pending(j) = {} =>
            /\ jobStatus[j] = "complete"
            /\ \A f \in Files(j) :
                 /\ <<j, f>> \in extracted
                 /\ \E r \in Uploads : target[r] = j /\ <<r, f>> \in suites

\* Every committed change of a job's or the report's status has been followed
\* by an event about it once everything has come to rest, so a viewer that
\* refetches on each event ends up with the last status.
AnnouncedAtRest == AtRest /\ faults = 0 => unannounced = {}

-----------------------------------------------------------------------------
(* Liveness *)

\* A job does not stay in processing, unless a failure interrupts its task.
ProcessingEnds ==
    \A j \in Job : jobStatus[j] = "processing" ~>
                     (jobStatus[j] # "processing" \/ faults > 0)

\* A job a crash or an error has left behind is picked up by the next upload
\* request, even one that sends nothing new: it is complete in the end, unless
\* another failure happens or another file is registered.
UploadRecovers ==
    \A r \in Uploads, j \in Job, n \in 0..MaxFaults :
        (/\ pc[r] = "receive" /\ target[r] = j /\ faults = n
         /\ Files(j) # {} /\ Pending(j) = {})
            ~> (jobStatus[j] = "complete" \/ faults > n \/ Pending(j) # {})

-----------------------------------------------------------------------------
(* Refinement *)

Lifecycle == INSTANCE ReportLifecycle
    WITH report <- reportStatus, job <- jobStatus, delivered <- finished

\* The pipeline implements the status lifecycle its viewers rely on.
ImplementsLifecycle == Lifecycle!Spec

-----------------------------------------------------------------------------
(* What comments in the code say and the code does not do *)

\* models/job.rs, JobStatus: "Test data extraction in progress." is
\* Processing, "Extraction complete." is Complete.  No extraction of a
\* complete job is in progress.
CompleteMeansExtracted ==
    \A r \in Uploads : pc[r] \in {"loadFiles", "fetch", "store"} =>
        jobStatus[target[r]] # "complete"

\* models/job.rs, UploadStatus::Completed: "All files have been successfully
\* uploaded."
CompletedMeansAllUploaded ==
    AtRest /\ faults = 0 =>
        \A j \in Job : jsonUpload[j] = "completed" => Pending(j) = {}

\* api/test_jobs.rs, init_job: 'Update report status to "uploading" if this is
\* the first job'.  A request that inserts its job when the other requests have
\* been answered, a job of theirs has been completed, and with it the report, does
\* not go on to write "uploading".
OnlyFirstJobSetsUploading ==
    [][\A r \in InitJobs :
          /\ InsertJob(r) /\ reportStatus = "complete"
          /\ \A q \in InitJobs \ {r} : pc[q] = "done"
          => pc'[r] # "startUploading"]_vars
=============================================================================
