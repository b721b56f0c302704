----------------------- MODULE ReportPipeline_proofs ------------------------
(***************************************************************************)
(* Proofs about ReportPipeline, for any number of jobs, files, requests,   *)
(* expected jobs and faults.  Each safety theorem is the inductive         *)
(* invariant of its section, preserved by every action; CompletionNotLost  *)
(* is inductive by itself.  Then come the refinement and the idempotence of *)
(* init_job, and what holds once everything has come to rest without a     *)
(* failure: no trigger is lost, and no change of a status is left without  *)
(* its event.  Both follow from who still owes what: as long as a job is   *)
(* not done, or a change not announced, some request or task is on its way *)
(* to do it.                                                               *)
(***************************************************************************)
EXTENDS ReportPipeline, TLAPS, FiniteSetTheorems

-----------------------------------------------------------------------------
(* Types and foreign keys *)

\* Every action of the handlers keeps the types, and keeps files, keys and
\* requests attached to job rows that exist.
LEMMA NextTypes == TypeOK /\ [Next]_vars => TypeOK'
<1> SUFFICES ASSUME TypeOK, [Next]_vars PROVE TypeOK'
  OBVIOUS
<1> USE DEF db, locals, history, Goto, Fault, Active, InitJobSteps,
            InitJsonSteps, UploadSteps, ExtractSteps, ReportStatus, JobStatus,
            FileStatus, Request
<1>1. ASSUME NEW r \in InitJobs, BeginInitJob(r) PROVE TypeOK'
  BY <1>1 DEF BeginInitJob, TypeOK, ForeignKeys, Exists, Files
<1>2. ASSUME NEW r \in InitJobs, FindJob(r) PROVE TypeOK'
  <2>1. CASE Goto(r, "insertJob") /\ UNCHANGED target
    BY <1>2, <2>1 DEF FindJob, TypeOK, ForeignKeys, Exists, Files
  <2>2. ASSUME NEW j \in Job, Exists(j), Goto(r, "done"),
               target' = [target EXCEPT ![r] = j]
        PROVE TypeOK'
    BY <1>2, <2>2 DEF FindJob, TypeOK, ForeignKeys, Exists, Files
  <2>3. QED
    BY <1>2, <2>1, <2>2 DEF FindJob
<1>3. ASSUME NEW r \in InitJobs, InsertJob(r) PROVE TypeOK'
  BY <1>3, KeyOfType DEF InsertJob, TypeOK, ForeignKeys, Exists, Files
<1>4. ASSUME NEW r \in InitJobs, InsertJobRefused(r) PROVE TypeOK'
  BY <1>4 DEF InsertJobRefused, TypeOK, ForeignKeys, Exists, Files
<1>5. ASSUME NEW r \in InitJobs, StartUploading(r) PROVE TypeOK'
  BY <1>5 DEF StartUploading, TypeOK, ForeignKeys, Exists, Files
<1>6. ASSUME NEW r \in InitJobs, RespondInitJob(r) PROVE TypeOK'
  BY <1>6 DEF RespondInitJob, TypeOK, ForeignKeys, Exists, Files
<1>7. ASSUME NEW r \in InitJsons, BeginInitJson(r) PROVE TypeOK'
  BY <1>7 DEF BeginInitJson, TypeOK, ForeignKeys, Exists, Files
<1>8. ASSUME NEW r \in InitJsons, InsertFile(r) PROVE TypeOK'
  <2>1. PICK f \in todo[r] :
          \/ /\ fileStatus' = [fileStatus EXCEPT ![target[r]][f] = "pending"]
             /\ todo' = [todo EXCEPT ![r] = @ \ {f}]
             /\ UNCHANGED pc
          \/ Goto(r, "error") /\ UNCHANGED <<fileStatus, todo>>
    BY <1>8 DEF InsertFile
  <2>2. target[r] \in Job /\ Exists(target[r]) /\ f \in File
    BY <1>8 DEF InsertFile, TypeOK, ForeignKeys
  <2>3. CASE Goto(r, "error") /\ UNCHANGED <<fileStatus, todo>>
    BY <1>8, <2>3 DEF InsertFile, TypeOK, ForeignKeys, Exists, Files
  <2>4. CASE /\ fileStatus' = [fileStatus EXCEPT ![target[r]][f] = "pending"]
             /\ todo' = [todo EXCEPT ![r] = @ \ {f}]
             /\ UNCHANGED pc
    <3>1. fileStatus' \in [Job -> [File -> FileStatus \cup {"absent"}]]
      BY <2>2, <2>4 DEF TypeOK
    <3>2. todo' \in [Request -> SUBSET File]
      BY <2>4 DEF TypeOK
    <3>3. \A j \in Job \ {target[r]} : fileStatus'[j] = fileStatus[j]
      BY <2>4 DEF TypeOK
    <3>4. ForeignKeys'
      BY <1>8, <2>2, <2>4, <3>3 DEF InsertFile, TypeOK, ForeignKeys, Exists, Files
    <3>5. QED
      BY <1>8, <2>4, <3>1, <3>2, <3>4 DEF InsertFile, TypeOK
  <2>5. QED
    BY <2>1, <2>3, <2>4
<1>9. ASSUME NEW r \in InitJsons, SetStarted(r) PROVE TypeOK'
  BY SMTT(30), <1>9 DEF SetStarted, TypeOK, ForeignKeys, Exists, Files
<1>10. ASSUME NEW r \in Uploads, BeginUpload(r) PROVE TypeOK'
  BY <1>10 DEF BeginUpload, TypeOK, ForeignKeys, Exists, Files, Pending
<1>11. ASSUME NEW r \in Uploads, ReceiveFile(r) PROVE TypeOK'
  <2>1. PICK f \in todo[r] :
          /\ stored' = stored \cup {<<target[r], f>>}
          /\ got' = [got EXCEPT ![r] = @ \cup {f}]
          /\ todo' = [todo EXCEPT ![r] = @ \ {f}]
    BY <1>11 DEF ReceiveFile
  <2>2. target[r] \in Job /\ f \in File
    BY <1>11 DEF ReceiveFile, TypeOK, ForeignKeys
  <2>3. stored' \subseteq Job \X File
    BY <2>1, <2>2 DEF TypeOK
  <2>4. got' \in [Request -> SUBSET File] /\ todo' \in [Request -> SUBSET File]
    BY <2>1, <2>2 DEF TypeOK
  <2>5. QED
    BY <1>11, <2>3, <2>4 DEF ReceiveFile, TypeOK, ForeignKeys, Exists, Files
<1>12. ASSUME NEW r \in Uploads, MarkUploaded(r) PROVE TypeOK'
  BY <1>12 DEF MarkUploaded, TypeOK, ForeignKeys, Exists, Files
<1>13. ASSUME NEW r \in Uploads, CountPending(r) PROVE TypeOK'
  BY <1>13 DEF CountPending, TypeOK, ForeignKeys, Exists, Files
<1>14. ASSUME NEW r \in Uploads, SetCompleted(r) PROVE TypeOK'
  BY <1>14 DEF SetCompleted, TypeOK, ForeignKeys, Exists, Files
<1>15. ASSUME NEW r \in Uploads, SetProcessing(r) PROVE TypeOK'
  BY <1>15 DEF SetProcessing, TypeOK, ForeignKeys, Exists, Files
<1>16. ASSUME NEW r \in Uploads, Spawn(r) PROVE TypeOK'
  BY <1>16 DEF Spawn, TypeOK, ForeignKeys, Exists, Files
<1>17. ASSUME NEW r \in Uploads, LoadFiles(r) PROVE TypeOK'
  BY <1>17 DEF LoadFiles, TypeOK, ForeignKeys, Exists, Files, Uploaded
<1>18. ASSUME NEW r \in Uploads, LoadFilesFails(r) PROVE TypeOK'
  BY <1>18 DEF LoadFilesFails, TypeOK, ForeignKeys, Exists, Files
<1>19. ASSUME NEW r \in Uploads, FetchFile(r) PROVE TypeOK'
  <2>1. PICK f \in todo[r], parsed \in BOOLEAN, marked \in BOOLEAN :
          FetchFile(r)!2!(f, parsed, marked)
    BY <1>19 DEF FetchFile
  <2>2. target[r] \in Job /\ Exists(target[r]) /\ f \in File
    BY <1>19 DEF FetchFile, TypeOK, ForeignKeys
  <2>3. got' \in [Request -> SUBSET File]
    BY <2>1, <2>2 DEF TypeOK
  <2>4. todo' \in [Request -> SUBSET File]
    BY <2>1, <2>2, <2>3 DEF TypeOK
  <2>5. extracted' \subseteq Job \X File
    BY <2>1, <2>2 DEF TypeOK
  <2>6. faults' \in Nat
    BY <2>1 DEF TypeOK
  <2>7. /\ pc' \in [Request -> Active \cup {"idle", "done", "error"}]
        /\ \A q \in Request : q # r => pc'[q] = pc[q]
    BY <2>1 DEF TypeOK
  <2>8. ForeignKeys'
    BY <1>19, <2>2, <2>7 DEF FetchFile, TypeOK, ForeignKeys, Exists, Files
  <2>9. QED
    BY <1>19, <2>3, <2>4, <2>5, <2>6, <2>7, <2>8 DEF FetchFile, TypeOK
<1>20. ASSUME NEW r \in Uploads, StoreSuites(r) PROVE TypeOK'
  BY <1>20 DEF StoreSuites, TypeOK, ForeignKeys, Exists, Files
<1>21. ASSUME NEW r \in Uploads, SetDuration(r) PROVE TypeOK'
  <2>1. target[r] \in Job /\ got[r] \in SUBSET File
    BY <1>21 DEF SetDuration, TypeOK, ForeignKeys
  <2>2. duration' \in [Job -> SUBSET File]
    <3>1. CASE duration' = duration
      BY <3>1 DEF TypeOK
    <3>2. CASE duration' = [duration EXCEPT ![target[r]] =
                              IF got[r] = {} THEN @ ELSE got[r]]
      BY <2>1, <3>2 DEF TypeOK
    <3>3. QED
      BY <1>21, <3>1, <3>2 DEF SetDuration
  <2>3. faults' \in Nat
    BY <1>21 DEF SetDuration, TypeOK
  <2>4. QED
    BY <1>21, <2>2, <2>3 DEF SetDuration, TypeOK, ForeignKeys, Exists, Files
<1>22. ASSUME NEW r \in Uploads, SetComplete(r) PROVE TypeOK'
  BY <1>22 DEF SetComplete, TypeOK, ForeignKeys, Exists, Files
<1>23. ASSUME NEW r \in Uploads, CountJobs(r) PROVE TypeOK'
  <2>1. pc' \in [Request -> Active \cup {"idle", "done", "error"}]
    BY <1>23 DEF CountJobs, TypeOK
  <2>2. \A q \in Request : pc'[q] \in Active =>
           pc[q] \in Active \ {"findJob", "insertJob"} \/ pc'[q] = pc[q]
    BY <1>23 DEF CountJobs, TypeOK
  <2>3. unannounced' \subseteq Job \cup {Report}
    BY <1>23 DEF CountJobs, TypeOK
  <2>4. QED
    BY <1>23, <2>1, <2>2, <2>3 DEF CountJobs, TypeOK, ForeignKeys, Exists, Files
<1>24. ASSUME NEW r \in Uploads, FinishReport(r) PROVE TypeOK'
  BY <1>24 DEF FinishReport, TypeOK, ForeignKeys, Exists, Files
<1>25. ASSUME NEW r \in Uploads, AnnounceReport(r) PROVE TypeOK'
  BY <1>25 DEF AnnounceReport, TypeOK, ForeignKeys, Exists, Files
<1>26. ASSUME NEW r \in Request, Abort(r) PROVE TypeOK'
  BY <1>26 DEF Abort, TypeOK, ForeignKeys, Exists, Files
<1>27. CASE Crash
  BY <1>27 DEF Crash, TypeOK, ForeignKeys, Exists, Files
<1>28. CASE UNCHANGED vars
  BY <1>28 DEF vars, TypeOK, ForeignKeys, Exists, Files
<1>29. QED
  BY <1>1, <1>2, <1>3, <1>4, <1>5, <1>6, <1>7, <1>8, <1>9, <1>10, <1>11,
     <1>12, <1>13, <1>14, <1>15, <1>16, <1>17, <1>18, <1>19, <1>20, <1>21,
     <1>22, <1>23, <1>24, <1>25, <1>26, <1>27, <1>28
     DEF Next, Rest, InitJobStep, InitJsonStep, UploadStep, ExtractStep

\* Types and foreign keys hold in every reachable state.
THEOREM TypeCorrect == Spec => []TypeOK
<1>1. Init => TypeOK
  <2> SUFFICES ASSUME Init PROVE TypeOK
    OBVIOUS
  <2> USE DEF Init
  <2>1. ForeignKeys
    BY DEF ForeignKeys, Exists, Files, Active, InitJobSteps, InitJsonSteps,
           UploadSteps, ExtractSteps
  <2>2. /\ reportStatus \in ReportStatus
        /\ jobStatus \in [Job -> JobStatus \cup {"none"}]
        /\ jobKey \in [Job -> Key \cup {NoKey}]
        /\ jsonUpload \in [Job -> {"null", "started", "completed"}]
        /\ duration \in [Job -> SUBSET File]
        /\ seen \in [Request -> ReportStatus]
    BY DEF ReportStatus
  <2>3. fileStatus \in [Job -> [File -> FileStatus \cup {"absent"}]]
    OBVIOUS
  <2>4. /\ pc \in [Request -> Active \cup {"idle", "done", "error"}]
        /\ target \in [Request -> Job \cup {NoJob}]
        /\ todo \in [Request -> SUBSET File]
        /\ got \in [Request -> SUBSET File]
    OBVIOUS
  <2>5. QED
    BY <2>1, <2>2, <2>3, <2>4 DEF TypeOK
<1>2. QED
  BY <1>1, NextTypes, PTL DEF Spec

-----------------------------------------------------------------------------
(* Files *)

\* A row of json_files is never deleted, and an uploaded one never returns to
\* pending.
LEMMA FilesGrow ==
    ASSUME TypeOK, [Next]_vars, NEW j \in Job
    PROVE  Files(j) \subseteq Files(j)' /\ Uploaded(j) \subseteq Uploaded(j)'
<1>1. ASSUME NEW r \in InitJsons, InsertFile(r)
      PROVE  Files(j) \subseteq Files(j)' /\ Uploaded(j) \subseteq Uploaded(j)'
  <2>1. target[r] \in Job
    BY <1>1 DEF InsertFile, TypeOK, ForeignKeys, Active, InitJobSteps,
                InitJsonSteps, Request
  <2>2. PICK f \in todo[r] :
          \/ /\ fileStatus[target[r]][f] = "absent"
             /\ fileStatus' = [fileStatus EXCEPT ![target[r]][f] = "pending"]
          \/ UNCHANGED fileStatus
    BY <1>1 DEF InsertFile
  <2>3. fileStatus \in [Job -> [File -> FileStatus \cup {"absent"}]]
    BY DEF TypeOK
  <2>4. \A i \in Job, g \in File : fileStatus[i][g] # "absent" =>
                                     fileStatus'[i][g] = fileStatus[i][g]
    BY <2>1, <2>2, <2>3
  <2>5. QED
    BY <2>4 DEF Files, Uploaded
<1>2. ASSUME NEW r \in Uploads, MarkUploaded(r)
      PROVE  Files(j) \subseteq Files(j)' /\ Uploaded(j) \subseteq Uploaded(j)'
  BY <1>2 DEF MarkUploaded, TypeOK, Files, Uploaded
<1>3. \/ \E r \in InitJsons : InsertFile(r)
      \/ \E r \in Uploads : MarkUploaded(r)
      \/ UNCHANGED fileStatus
  BY DEF Next, Rest, InitJobStep, InitJsonStep, UploadStep, ExtractStep, vars,
         db, BeginInitJob, FindJob, InsertJob, InsertJobRefused,
         StartUploading, RespondInitJob, BeginInitJson, SetStarted,
         BeginUpload, ReceiveFile, CountPending, SetCompleted, SetProcessing,
         Spawn, LoadFiles, LoadFilesFails, FetchFile, StoreSuites,
         SetDuration, SetComplete, CountJobs, FinishReport, AnnounceReport,
         Abort, Crash
<1>4. QED
  BY <1>1, <1>2, <1>3 DEF Files, Uploaded

\* What makes UploadedIsStored inductive: the files an upload has taken so far
\* are in S3 while it receives, before it marks them.
GotIsStored ==
    \A r \in Uploads :
        /\ pc[r] = "idle" => got[r] = {}
        /\ pc[r] = "receive" => \A f \in got[r] : <<target[r], f>> \in stored

\* Every action keeps the marked rows, and the files about to be marked, in S3.
LEMMA UploadsStep ==
    TypeOK /\ UploadedIsStored /\ GotIsStored /\ [Next]_vars
        => (UploadedIsStored /\ GotIsStored)'
<1> SUFFICES ASSUME TypeOK, UploadedIsStored, GotIsStored, [Next]_vars
             PROVE  (UploadedIsStored /\ GotIsStored)'
  OBVIOUS
<1> USE DEF db, locals, history, Goto, Fault, Active, InitJobSteps,
            InitJsonSteps, UploadSteps, ExtractSteps, Request
<1> USE DEF UploadedIsStored, GotIsStored
<1>1. ASSUME NEW r \in InitJobs, BeginInitJob(r) PROVE (UploadedIsStored /\ GotIsStored)'
  BY <1>1, RequestKinds DEF BeginInitJob, TypeOK
<1>2. ASSUME NEW r \in InitJobs, FindJob(r) PROVE (UploadedIsStored /\ GotIsStored)'
  BY <1>2, RequestKinds DEF FindJob, TypeOK
<1>3. ASSUME NEW r \in InitJobs, InsertJob(r) PROVE (UploadedIsStored /\ GotIsStored)'
  BY <1>3, RequestKinds DEF InsertJob, TypeOK
<1>4. ASSUME NEW r \in InitJobs, InsertJobRefused(r) PROVE (UploadedIsStored /\ GotIsStored)'
  BY <1>4, RequestKinds DEF InsertJobRefused, TypeOK
<1>5. ASSUME NEW r \in InitJobs, StartUploading(r) PROVE (UploadedIsStored /\ GotIsStored)'
  BY <1>5, RequestKinds DEF StartUploading, TypeOK
<1>6. ASSUME NEW r \in InitJobs, RespondInitJob(r) PROVE (UploadedIsStored /\ GotIsStored)'
  BY <1>6, RequestKinds DEF RespondInitJob, TypeOK
<1>7. ASSUME NEW r \in InitJsons, BeginInitJson(r) PROVE (UploadedIsStored /\ GotIsStored)'
  BY <1>7, RequestKinds DEF BeginInitJson, TypeOK
<1>8. ASSUME NEW r \in InitJsons, InsertFile(r) PROVE (UploadedIsStored /\ GotIsStored)'
  BY SMTT(30), <1>8, RequestKinds DEF InsertFile, TypeOK
<1>9. ASSUME NEW r \in InitJsons, SetStarted(r) PROVE (UploadedIsStored /\ GotIsStored)'
  BY <1>9, RequestKinds DEF SetStarted, TypeOK
<1>10. ASSUME NEW r \in Uploads, BeginUpload(r) PROVE (UploadedIsStored /\ GotIsStored)'
  BY <1>10 DEF BeginUpload, TypeOK
<1>11. ASSUME NEW r \in Uploads, ReceiveFile(r) PROVE (UploadedIsStored /\ GotIsStored)'
  BY <1>11 DEF ReceiveFile, TypeOK
<1>12. ASSUME NEW r \in Uploads, MarkUploaded(r) PROVE (UploadedIsStored /\ GotIsStored)'
  BY <1>12 DEF MarkUploaded, TypeOK
<1>13. ASSUME NEW r \in Uploads, CountPending(r) PROVE (UploadedIsStored /\ GotIsStored)'
  BY <1>13 DEF CountPending, TypeOK
<1>14. ASSUME NEW r \in Uploads, SetCompleted(r) PROVE (UploadedIsStored /\ GotIsStored)'
  BY <1>14 DEF SetCompleted, TypeOK
<1>15. ASSUME NEW r \in Uploads, SetProcessing(r) PROVE (UploadedIsStored /\ GotIsStored)'
  BY <1>15 DEF SetProcessing, TypeOK
<1>16. ASSUME NEW r \in Uploads, Spawn(r) PROVE (UploadedIsStored /\ GotIsStored)'
  BY <1>16 DEF Spawn, TypeOK
<1>17. ASSUME NEW r \in Uploads, LoadFiles(r) PROVE (UploadedIsStored /\ GotIsStored)'
  BY <1>17 DEF LoadFiles, TypeOK
<1>18. ASSUME NEW r \in Uploads, LoadFilesFails(r) PROVE (UploadedIsStored /\ GotIsStored)'
  BY <1>18 DEF LoadFilesFails, TypeOK
<1>19. ASSUME NEW r \in Uploads, FetchFile(r) PROVE (UploadedIsStored /\ GotIsStored)'
  BY <1>19 DEF FetchFile, TypeOK
<1>20. ASSUME NEW r \in Uploads, StoreSuites(r) PROVE (UploadedIsStored /\ GotIsStored)'
  BY <1>20 DEF StoreSuites, TypeOK
<1>21. ASSUME NEW r \in Uploads, SetDuration(r) PROVE (UploadedIsStored /\ GotIsStored)'
  BY <1>21 DEF SetDuration, TypeOK
<1>22. ASSUME NEW r \in Uploads, SetComplete(r) PROVE (UploadedIsStored /\ GotIsStored)'
  BY <1>22 DEF SetComplete, TypeOK
<1>23. ASSUME NEW r \in Uploads, CountJobs(r) PROVE (UploadedIsStored /\ GotIsStored)'
  BY <1>23 DEF CountJobs, TypeOK
<1>24. ASSUME NEW r \in Uploads, FinishReport(r) PROVE (UploadedIsStored /\ GotIsStored)'
  BY <1>24 DEF FinishReport, TypeOK
<1>25. ASSUME NEW r \in Uploads, AnnounceReport(r) PROVE (UploadedIsStored /\ GotIsStored)'
  BY <1>25 DEF AnnounceReport, TypeOK
<1>26. ASSUME NEW r \in Request, Abort(r) PROVE (UploadedIsStored /\ GotIsStored)'
  BY <1>26 DEF Abort, TypeOK
<1>27. CASE Crash
  BY <1>27 DEF Crash, TypeOK
<1>28. CASE UNCHANGED vars
  BY <1>28 DEF vars, TypeOK
<1>29. QED
  BY <1>1, <1>2, <1>3, <1>4, <1>5, <1>6, <1>7, <1>8, <1>9, <1>10, <1>11,
     <1>12, <1>13, <1>14, <1>15, <1>16, <1>17, <1>18, <1>19, <1>20,
     <1>21, <1>22, <1>23, <1>24, <1>25, <1>26, <1>27, <1>28
     DEF Next, Rest, InitJobStep, InitJsonStep, UploadStep, ExtractStep

\* mark_json_files_uploaded never runs ahead of the object store, whatever
\* interleaves, aborts or crashes.
THEOREM UploadedAlwaysStored == Spec => []UploadedIsStored
<1>1. Init => UploadedIsStored /\ GotIsStored
  BY DEF Init, UploadedIsStored, GotIsStored, Request
<1>2. QED
  BY <1>1, UploadsStep, TypeCorrect, PTL DEF Spec

\* What makes ExtractionHasFiles inductive: an upload that gets past the first
\* test of all_json_files_uploaded has rows, one that gets past the second has
\* no pending rows, hence uploaded ones, and neither is ever undone.
TriggerHasFiles ==
    \A r \in Request :
        /\ pc[r] = "countPending" =>
             \E f \in File : fileStatus[target[r]][f] # "absent"
        /\ pc[r] \in {"setCompleted", "setProcessing", "spawn", "loadFiles"} =>
             \E f \in File : fileStatus[target[r]][f] = "uploaded"

\* Every action keeps the evidence all_json_files_uploaded has collected.
LEMMA TriggerStep ==
    TypeOK /\ TriggerHasFiles /\ [Next]_vars => TriggerHasFiles'
<1> SUFFICES ASSUME TypeOK, TriggerHasFiles, [Next]_vars
             PROVE  TriggerHasFiles'
  OBVIOUS
<1> USE DEF db, locals, history, Goto, Fault, Active, InitJobSteps,
            InitJsonSteps, UploadSteps, ExtractSteps, Request
<1>0. \A j \in Job, f \in File :
        /\ fileStatus[j][f] # "absent" => fileStatus'[j][f] # "absent"
        /\ fileStatus[j][f] = "uploaded" => fileStatus'[j][f] = "uploaded"
  <2>1. TAKE j \in Job
  <2>2. Files(j) \subseteq Files(j)' /\ Uploaded(j) \subseteq Uploaded(j)'
    BY FilesGrow
  <2>3. QED
    BY <2>2 DEF Files, Uploaded
<1> USE <1>0 DEF TriggerHasFiles
<1>1. ASSUME NEW r \in InitJobs, BeginInitJob(r) PROVE TriggerHasFiles'
  BY <1>1 DEF BeginInitJob, TypeOK, ForeignKeys
<1>2. ASSUME NEW r \in InitJobs, FindJob(r) PROVE TriggerHasFiles'
  BY <1>2 DEF FindJob, TypeOK, ForeignKeys
<1>3. ASSUME NEW r \in InitJobs, InsertJob(r) PROVE TriggerHasFiles'
  BY SMTT(30), <1>3 DEF InsertJob, TypeOK, ForeignKeys
<1>4. ASSUME NEW r \in InitJobs, InsertJobRefused(r) PROVE TriggerHasFiles'
  BY <1>4 DEF InsertJobRefused, TypeOK, ForeignKeys
<1>5. ASSUME NEW r \in InitJobs, StartUploading(r) PROVE TriggerHasFiles'
  BY <1>5 DEF StartUploading, TypeOK, ForeignKeys
<1>6. ASSUME NEW r \in InitJobs, RespondInitJob(r) PROVE TriggerHasFiles'
  BY ZenonT(30), <1>6 DEF RespondInitJob, TypeOK, ForeignKeys
<1>7. ASSUME NEW r \in InitJsons, BeginInitJson(r) PROVE TriggerHasFiles'
  BY SMTT(30), <1>7 DEF BeginInitJson, TypeOK, ForeignKeys
<1>8. ASSUME NEW r \in InitJsons, InsertFile(r) PROVE TriggerHasFiles'
  <2>1. /\ target' = target
        /\ \A q \in Request : pc'[q] = pc[q] \/ pc'[q] = "error"
    BY <1>8 DEF InsertFile, TypeOK
  <2>2. QED
    <3>1. \A q \in Request : pc[q] \in Active \ {"findJob", "insertJob"} => target[q] \in Job
      BY DEF TypeOK, ForeignKeys
    <3>2. \A q \in Request : target'[q] = target[q]
      BY <2>1
    <3>3. QED
      BY <2>1, <3>1, <3>2
<1>9. ASSUME NEW r \in InitJsons, SetStarted(r) PROVE TriggerHasFiles'
  BY ZenonT(30), <1>9 DEF SetStarted, TypeOK, ForeignKeys
<1>10. ASSUME NEW r \in Uploads, BeginUpload(r) PROVE TriggerHasFiles'
  BY <1>10 DEF BeginUpload, TypeOK, ForeignKeys
<1>11. ASSUME NEW r \in Uploads, ReceiveFile(r) PROVE TriggerHasFiles'
  BY <1>11 DEF ReceiveFile, TypeOK, ForeignKeys
<1>12. ASSUME NEW r \in Uploads, MarkUploaded(r) PROVE TriggerHasFiles'
  <2>1. Registered(target[r]) =>
          \E f \in File : fileStatus[target[r]][f] # "absent"
    BY DEF Registered, Files
  <2>2. QED
    BY <1>12, <2>1 DEF MarkUploaded, TypeOK, ForeignKeys
<1>13. ASSUME NEW r \in Uploads, CountPending(r) PROVE TriggerHasFiles'
  <2>1. AllUploaded(r) => \A f \in File : fileStatus[target[r]][f] # "pending"
    BY DEF AllUploaded, Pending
  <2>2. target[r] \in Job
    BY <1>13 DEF CountPending, TypeOK, ForeignKeys
  <2>3. \A f \in File : fileStatus[target[r]][f] \in {"pending", "uploaded", "absent"}
    BY <2>2 DEF TypeOK, FileStatus
  <2>4. QED
    BY <1>13, <2>1, <2>2, <2>3 DEF CountPending, TypeOK, ForeignKeys
<1>14. ASSUME NEW r \in Uploads, SetCompleted(r) PROVE TriggerHasFiles'
  BY ZenonT(30), <1>14 DEF SetCompleted, TypeOK, ForeignKeys
<1>15. ASSUME NEW r \in Uploads, SetProcessing(r) PROVE TriggerHasFiles'
  BY ZenonT(30), <1>15 DEF SetProcessing, TypeOK, ForeignKeys
<1>16. ASSUME NEW r \in Uploads, Spawn(r) PROVE TriggerHasFiles'
  BY <1>16 DEF Spawn, TypeOK, ForeignKeys
<1>17. ASSUME NEW r \in Uploads, LoadFiles(r) PROVE TriggerHasFiles'
  BY <1>17 DEF LoadFiles, TypeOK, ForeignKeys
<1>18. ASSUME NEW r \in Uploads, LoadFilesFails(r) PROVE TriggerHasFiles'
  BY ZenonT(30), <1>18 DEF LoadFilesFails, TypeOK, ForeignKeys
<1>19. ASSUME NEW r \in Uploads, FetchFile(r) PROVE TriggerHasFiles'
  <2>1. /\ target' = target
        /\ \A q \in Request : pc'[q] = pc[q] \/ pc'[q] = "store"
    BY <1>19 DEF FetchFile, TypeOK
  <2>2. QED
    <3>1. \A q \in Request : pc[q] \in Active \ {"findJob", "insertJob"} => target[q] \in Job
      BY DEF TypeOK, ForeignKeys
    <3>2. \A q \in Request : target'[q] = target[q]
      BY <2>1
    <3>3. QED
      BY <2>1, <3>1, <3>2
<1>20. ASSUME NEW r \in Uploads, StoreSuites(r) PROVE TriggerHasFiles'
  BY <1>20 DEF StoreSuites, TypeOK, ForeignKeys
<1>21. ASSUME NEW r \in Uploads, SetDuration(r) PROVE TriggerHasFiles'
  BY <1>21 DEF SetDuration, TypeOK, ForeignKeys
<1>22. ASSUME NEW r \in Uploads, SetComplete(r) PROVE TriggerHasFiles'
  BY ZenonT(30), <1>22 DEF SetComplete, TypeOK, ForeignKeys
<1>23. ASSUME NEW r \in Uploads, CountJobs(r) PROVE TriggerHasFiles'
  BY ZenonT(30), <1>23 DEF CountJobs, TypeOK, ForeignKeys
<1>24. ASSUME NEW r \in Uploads, FinishReport(r) PROVE TriggerHasFiles'
  BY ZenonT(30), <1>24 DEF FinishReport, TypeOK, ForeignKeys
<1>25. ASSUME NEW r \in Uploads, AnnounceReport(r) PROVE TriggerHasFiles'
  BY SMTT(30), <1>25 DEF AnnounceReport, TypeOK, ForeignKeys
<1>26. ASSUME NEW r \in Request, Abort(r) PROVE TriggerHasFiles'
  BY <1>26 DEF Abort, TypeOK, ForeignKeys
<1>27. CASE Crash
  BY <1>27 DEF Crash, TypeOK, ForeignKeys
<1>28. CASE UNCHANGED vars
  BY <1>28 DEF vars, TypeOK, ForeignKeys
<1>29. QED
  BY <1>1, <1>2, <1>3, <1>4, <1>5, <1>6, <1>7, <1>8, <1>9, <1>10, <1>11,
     <1>12, <1>13, <1>14, <1>15, <1>16, <1>17, <1>18, <1>19, <1>20,
     <1>21, <1>22, <1>23, <1>24, <1>25, <1>26, <1>27, <1>28
     DEF Next, Rest, InitJobStep, InitJsonStep, UploadStep, ExtractStep

\* A trigger always has something to extract: the "no uploaded JSON files"
\* branch of extract_job is dead code.
THEOREM ExtractionAlwaysHasFiles == Spec => []ExtractionHasFiles
<1>1. Init => TriggerHasFiles
  BY DEF Init, TriggerHasFiles
<1>2. TriggerHasFiles => ExtractionHasFiles
  BY DEF TriggerHasFiles, ExtractionHasFiles, Uploaded
<1>3. QED
  BY <1>1, <1>2, TriggerStep, TypeCorrect, PTL DEF Spec

-----------------------------------------------------------------------------
(* Completion of the report *)

\* A job that is complete has been finished by some task, and whoever is about
\* to complete the report has counted enough of them.
CountedJobs ==
    /\ CompletedJobs \subseteq finished
    /\ \A r \in Request : pc[r] = "finishReport" => Cardinality(finished) >= ExpectedJobs
    /\ CompleteReportHasJobs

\* Counting is monotone in sets of jobs.
LEMMA JobCount ==
    ASSUME NEW S \in SUBSET Job, NEW T \in SUBSET Job, S \subseteq T
    PROVE  /\ Cardinality(S) \in Nat
           /\ Cardinality(T) \in Nat
           /\ Cardinality(S) <= Cardinality(T)
<1>1. IsFiniteSet(T) /\ IsFiniteSet(S)
  BY JobsFinite, FS_Subset
<1>2. QED
  BY <1>1, FS_Subset, FS_CardinalityType

\* Every action keeps the count a task acts on true until it acts.
LEMMA CountedJobsStep ==
    TypeOK /\ CountedJobs /\ [Next]_vars => CountedJobs'
<1> SUFFICES ASSUME TypeOK, CountedJobs, [Next]_vars
             PROVE  CountedJobs'
  OBVIOUS
<1> USE DEF db, locals, history, Goto, Fault, Active, InitJobSteps,
            InitJsonSteps, UploadSteps, ExtractSteps, Request
<1> USE DEF CountedJobs, CompletedJobs, CompleteReportHasJobs
<1>1. ASSUME NEW r \in InitJobs, BeginInitJob(r) PROVE CountedJobs'
  BY <1>1 DEF BeginInitJob, TypeOK
<1>2. ASSUME NEW r \in InitJobs, FindJob(r) PROVE CountedJobs'
  BY <1>2 DEF FindJob, TypeOK
<1>3. ASSUME NEW r \in InitJobs, InsertJob(r) PROVE CountedJobs'
  BY <1>3 DEF InsertJob, TypeOK
<1>4. ASSUME NEW r \in InitJobs, InsertJobRefused(r) PROVE CountedJobs'
  BY <1>4 DEF InsertJobRefused, TypeOK
<1>5. ASSUME NEW r \in InitJobs, StartUploading(r) PROVE CountedJobs'
  BY <1>5 DEF StartUploading, TypeOK
<1>6. ASSUME NEW r \in InitJobs, RespondInitJob(r) PROVE CountedJobs'
  BY <1>6 DEF RespondInitJob, TypeOK
<1>7. ASSUME NEW r \in InitJsons, BeginInitJson(r) PROVE CountedJobs'
  BY <1>7 DEF BeginInitJson, TypeOK
<1>8. ASSUME NEW r \in InitJsons, InsertFile(r) PROVE CountedJobs'
  BY <1>8 DEF InsertFile, TypeOK
<1>9. ASSUME NEW r \in InitJsons, SetStarted(r) PROVE CountedJobs'
  BY <1>9 DEF SetStarted, TypeOK
<1>10. ASSUME NEW r \in Uploads, BeginUpload(r) PROVE CountedJobs'
  BY <1>10 DEF BeginUpload, TypeOK
<1>11. ASSUME NEW r \in Uploads, ReceiveFile(r) PROVE CountedJobs'
  BY <1>11 DEF ReceiveFile, TypeOK
<1>12. ASSUME NEW r \in Uploads, MarkUploaded(r) PROVE CountedJobs'
  BY <1>12 DEF MarkUploaded, TypeOK
<1>13. ASSUME NEW r \in Uploads, CountPending(r) PROVE CountedJobs'
  BY <1>13 DEF CountPending, TypeOK
<1>14. ASSUME NEW r \in Uploads, SetCompleted(r) PROVE CountedJobs'
  BY <1>14 DEF SetCompleted, TypeOK
<1>15. ASSUME NEW r \in Uploads, SetProcessing(r) PROVE CountedJobs'
  BY <1>15 DEF SetProcessing, TypeOK
<1>16. ASSUME NEW r \in Uploads, Spawn(r) PROVE CountedJobs'
  BY <1>16 DEF Spawn, TypeOK
<1>17. ASSUME NEW r \in Uploads, LoadFiles(r) PROVE CountedJobs'
  BY <1>17 DEF LoadFiles, TypeOK
<1>18. ASSUME NEW r \in Uploads, LoadFilesFails(r) PROVE CountedJobs'
  BY <1>18 DEF LoadFilesFails, TypeOK
<1>19. ASSUME NEW r \in Uploads, FetchFile(r) PROVE CountedJobs'
  BY <1>19 DEF FetchFile, TypeOK
<1>20. ASSUME NEW r \in Uploads, StoreSuites(r) PROVE CountedJobs'
  BY <1>20 DEF StoreSuites, TypeOK
<1>21. ASSUME NEW r \in Uploads, SetDuration(r) PROVE CountedJobs'
  BY <1>21 DEF SetDuration, TypeOK
<1>22. ASSUME NEW r \in Uploads, SetComplete(r) PROVE CountedJobs'
  <2>1. target[r] \in Job
    BY <1>22 DEF SetComplete, TypeOK, ForeignKeys
  <2>2. Cardinality(finished) >= ExpectedJobs => Cardinality(finished') >= ExpectedJobs
    <3>1. finished \in SUBSET Job /\ finished' \in SUBSET Job /\ finished \subseteq finished'
      BY <1>22, <2>1 DEF SetComplete, TypeOK
    <3>2. QED
      BY <3>1, JobCount, ExpectedJobsPositive
  <2>3. QED
    BY <1>22, <2>1, <2>2 DEF SetComplete, TypeOK
<1>23. ASSUME NEW r \in Uploads, CountJobs(r) PROVE CountedJobs'
  <2>1. AllJobsComplete => Cardinality(finished) >= ExpectedJobs
    <3>1. CompletedJobs \in SUBSET Job /\ finished \in SUBSET Job
      BY DEF TypeOK
    <3>2. QED
      BY <3>1, JobCount, ExpectedJobsPositive DEF AllJobsComplete
  <2>2. QED
    BY <1>23, <2>1 DEF CountJobs, TypeOK
<1>24. ASSUME NEW r \in Uploads, FinishReport(r) PROVE CountedJobs'
  BY <1>24 DEF FinishReport, TypeOK
<1>25. ASSUME NEW r \in Uploads, AnnounceReport(r) PROVE CountedJobs'
  BY <1>25 DEF AnnounceReport, TypeOK
<1>26. ASSUME NEW r \in Request, Abort(r) PROVE CountedJobs'
  BY <1>26 DEF Abort, TypeOK
<1>27. CASE Crash
  BY <1>27 DEF Crash, TypeOK
<1>28. CASE UNCHANGED vars
  BY <1>28 DEF vars, TypeOK
<1>29. QED
  BY <1>1, <1>2, <1>3, <1>4, <1>5, <1>6, <1>7, <1>8, <1>9, <1>10, <1>11,
     <1>12, <1>13, <1>14, <1>15, <1>16, <1>17, <1>18, <1>19, <1>20,
     <1>21, <1>22, <1>23, <1>24, <1>25, <1>26, <1>27, <1>28
     DEF Next, Rest, InitJobStep, InitJsonStep, UploadStep, ExtractStep

\* No report is completed before expected_jobs different jobs have delivered.
THEOREM ReportCompletesOnlyWithJobs == Spec => []CompleteReportHasJobs
<1>1. Init => CountedJobs
  BY DEF Init, CountedJobs, CompletedJobs, CompleteReportHasJobs
<1>2. CountedJobs => CompleteReportHasJobs
  BY DEF CountedJobs
<1>3. QED
  BY <1>1, <1>2, CountedJobsStep, TypeCorrect, PTL DEF Spec

\* CompletionNotLost is inductive: a task writes its own job before it counts,
\* so the task that brings the number up to expected_jobs is about to count.
LEMMA CompletionStep ==
    TypeOK /\ CompletionNotLost /\ [Next]_vars => CompletionNotLost'
<1> SUFFICES ASSUME TypeOK, CompletionNotLost, [Next]_vars,
                    Cardinality(CompletedJobs') >= ExpectedJobs,
                    reportStatus' # "complete", ~reopened', ~(faults' > 0)
             PROVE  \E q \in Request : pc'[q] \in {"countJobs", "finishReport"}
  BY DEF CompletionNotLost, CompletedJobs
<1> USE DEF db, locals, history, Goto, Fault, Active, InitJobSteps,
            InitJsonSteps, UploadSteps, ExtractSteps, Request

<1> DEFINE Counting == \E q \in Request : pc[q] \in {"countJobs", "finishReport"}
<1>0. ASSUME reportStatus # "complete", ~reopened, ~(faults > 0),
             CompletedJobs' \subseteq CompletedJobs
      PROVE  Counting
  <2>1. CompletedJobs \in SUBSET Job
    BY DEF CompletedJobs
  <2>2. Cardinality(CompletedJobs) >= ExpectedJobs
    BY <1>0, <2>1, JobCount, ExpectedJobsPositive
  <2>3. QED
    BY <1>0, <2>2 DEF CompletionNotLost
<1>1. ASSUME NEW r \in InitJobs, BeginInitJob(r) PROVE Counting'
  BY <1>1, <1>0 DEF BeginInitJob, TypeOK, CompletedJobs
<1>2. ASSUME NEW r \in InitJobs, FindJob(r) PROVE Counting'
  BY <1>2, <1>0 DEF FindJob, TypeOK, CompletedJobs
<1>3. ASSUME NEW r \in InitJobs, InsertJob(r) PROVE Counting'
  BY <1>3, <1>0 DEF InsertJob, TypeOK, CompletedJobs
<1>4. ASSUME NEW r \in InitJobs, InsertJobRefused(r) PROVE Counting'
  BY <1>4, <1>0 DEF InsertJobRefused, TypeOK, CompletedJobs
<1>5. ASSUME NEW r \in InitJobs, StartUploading(r) PROVE Counting'
  BY <1>5, <1>0 DEF StartUploading, TypeOK, CompletedJobs
<1>6. ASSUME NEW r \in InitJobs, RespondInitJob(r) PROVE Counting'
  BY <1>6, <1>0 DEF RespondInitJob, TypeOK, CompletedJobs
<1>7. ASSUME NEW r \in InitJsons, BeginInitJson(r) PROVE Counting'
  BY <1>7, <1>0 DEF BeginInitJson, TypeOK, CompletedJobs
<1>8. ASSUME NEW r \in InitJsons, InsertFile(r) PROVE Counting'
  BY <1>8, <1>0 DEF InsertFile, TypeOK, CompletedJobs
<1>9. ASSUME NEW r \in InitJsons, SetStarted(r) PROVE Counting'
  BY <1>9, <1>0 DEF SetStarted, TypeOK, CompletedJobs
<1>10. ASSUME NEW r \in Uploads, BeginUpload(r) PROVE Counting'
  BY <1>10, <1>0 DEF BeginUpload, TypeOK, CompletedJobs
<1>11. ASSUME NEW r \in Uploads, ReceiveFile(r) PROVE Counting'
  BY <1>11, <1>0 DEF ReceiveFile, TypeOK, CompletedJobs
<1>12. ASSUME NEW r \in Uploads, MarkUploaded(r) PROVE Counting'
  BY <1>12, <1>0 DEF MarkUploaded, TypeOK, CompletedJobs
<1>13. ASSUME NEW r \in Uploads, CountPending(r) PROVE Counting'
  BY <1>13, <1>0 DEF CountPending, TypeOK, CompletedJobs
<1>14. ASSUME NEW r \in Uploads, SetCompleted(r) PROVE Counting'
  BY <1>14, <1>0 DEF SetCompleted, TypeOK, CompletedJobs
<1>15. ASSUME NEW r \in Uploads, SetProcessing(r) PROVE Counting'
  BY <1>15, <1>0 DEF SetProcessing, TypeOK, CompletedJobs
<1>16. ASSUME NEW r \in Uploads, Spawn(r) PROVE Counting'
  BY <1>16, <1>0 DEF Spawn, TypeOK, CompletedJobs
<1>17. ASSUME NEW r \in Uploads, LoadFiles(r) PROVE Counting'
  BY <1>17, <1>0 DEF LoadFiles, TypeOK, CompletedJobs
<1>18. ASSUME NEW r \in Uploads, LoadFilesFails(r) PROVE Counting'
  BY <1>18, <1>0 DEF LoadFilesFails, TypeOK, CompletedJobs
<1>19. ASSUME NEW r \in Uploads, FetchFile(r) PROVE Counting'
  BY <1>19, <1>0 DEF FetchFile, TypeOK, CompletedJobs
<1>20. ASSUME NEW r \in Uploads, StoreSuites(r) PROVE Counting'
  BY <1>20, <1>0 DEF StoreSuites, TypeOK, CompletedJobs
<1>21. ASSUME NEW r \in Uploads, SetDuration(r) PROVE Counting'
  BY <1>21, <1>0 DEF SetDuration, TypeOK, CompletedJobs
<1>22. ASSUME NEW r \in Uploads, SetComplete(r) PROVE Counting'
  BY <1>22, <1>0 DEF SetComplete, TypeOK, CompletedJobs
<1>23. ASSUME NEW r \in Uploads, CountJobs(r) PROVE Counting'
  <2>1. CompletedJobs' = CompletedJobs
    BY <1>23 DEF CountJobs, CompletedJobs
  <2>2. AllJobsComplete
    BY <2>1 DEF AllJobsComplete
  <2>3. QED
    BY <1>23, <2>2 DEF CountJobs, TypeOK
<1>24. ASSUME NEW r \in Uploads, FinishReport(r) PROVE Counting'
  BY <1>24, <1>0 DEF FinishReport, TypeOK, CompletedJobs
<1>25. ASSUME NEW r \in Uploads, AnnounceReport(r) PROVE Counting'
  BY <1>25, <1>0 DEF AnnounceReport, TypeOK, CompletedJobs
<1>26. ASSUME NEW r \in Request, Abort(r) PROVE Counting'
  BY <1>26, <1>0 DEF Abort, TypeOK, CompletedJobs
<1>27. CASE Crash
  BY <1>27, <1>0 DEF Crash, TypeOK, CompletedJobs
<1>28. CASE UNCHANGED vars
  BY <1>28, <1>0 DEF vars, TypeOK, CompletedJobs
<1>29. QED
  BY <1>1, <1>2, <1>3, <1>4, <1>5, <1>6, <1>7, <1>8, <1>9, <1>10, <1>11,
     <1>12, <1>13, <1>14, <1>15, <1>16, <1>17, <1>18, <1>19, <1>20,
     <1>21, <1>22, <1>23, <1>24, <1>25, <1>26, <1>27, <1>28
     DEF Next, Rest, InitJobStep, InitJsonStep, UploadStep, ExtractStep

\* No completion is lost: with no failure and no late init_job, enough complete
\* jobs mean a complete report, now or after a count that is still to come.
THEOREM CompletionNeverLost == Spec => []CompletionNotLost
<1>1. Init => CompletionNotLost
  <2> SUFFICES ASSUME Init PROVE CompletionNotLost
    OBVIOUS
  <2>1. CompletedJobs = {}
    BY DEF Init, CompletedJobs
  <2>2. QED
    BY <2>1, FS_EmptySet, ExpectedJobsPositive DEF CompletionNotLost
<1>2. QED
  BY <1>1, CompletionStep, TypeCorrect, PTL DEF Spec

-----------------------------------------------------------------------------
(* The status lifecycle *)

\* A job with a task, or with a task about to be spawned, is past pending.
StartedJobs ==
    \A r \in Request :
        pc[r] \in {"spawn", "loadFiles", "fetch", "store", "setComplete"} =>
            jobStatus[target[r]] \notin {"none", "pending"}

\* Every action keeps a job with a task past pending.
LEMMA StartedJobsStep ==
    TypeOK /\ StartedJobs /\ [Next]_vars => StartedJobs'
<1> SUFFICES ASSUME TypeOK, StartedJobs, [Next]_vars
             PROVE  StartedJobs'
  OBVIOUS
<1> USE DEF db, locals, history, Goto, Fault, Active, InitJobSteps,
            InitJsonSteps, UploadSteps, ExtractSteps, Request
<1>0. \A q \in Request : pc[q] \in Active \ {"findJob", "insertJob"} =>
         target[q] \in Job /\ jobStatus[target[q]] # "none"
  BY DEF TypeOK, ForeignKeys, Exists
<1> USE DEF StartedJobs
<1>1. ASSUME NEW r \in InitJobs, BeginInitJob(r) PROVE StartedJobs'
  BY <1>1, <1>0 DEF BeginInitJob, TypeOK
<1>2. ASSUME NEW r \in InitJobs, FindJob(r) PROVE StartedJobs'
  BY <1>2, <1>0 DEF FindJob, TypeOK
<1>3. ASSUME NEW r \in InitJobs, InsertJob(r) PROVE StartedJobs'
  <2>1. PICK j \in Job : ~Exists(j) /\ jobStatus' = [jobStatus EXCEPT ![j] = "pending"]
                         /\ target' = [target EXCEPT ![r] = j]
    BY <1>3 DEF InsertJob
  <2>2. \A q \in Request : q # r => pc'[q] = pc[q] /\ target'[q] = target[q]
    BY <1>3, <2>1 DEF InsertJob, TypeOK
  <2>3. pc'[r] \in {"startUploading", "respond"}
    BY <1>3 DEF InsertJob, TypeOK
  <2>4. QED
    BY <1>0, <2>1, <2>2, <2>3 DEF TypeOK, Exists
<1>4. ASSUME NEW r \in InitJobs, InsertJobRefused(r) PROVE StartedJobs'
  BY <1>4, <1>0 DEF InsertJobRefused, TypeOK
<1>5. ASSUME NEW r \in InitJobs, StartUploading(r) PROVE StartedJobs'
  BY <1>5, <1>0 DEF StartUploading, TypeOK
<1>6. ASSUME NEW r \in InitJobs, RespondInitJob(r) PROVE StartedJobs'
  BY <1>6, <1>0 DEF RespondInitJob, TypeOK
<1>7. ASSUME NEW r \in InitJsons, BeginInitJson(r) PROVE StartedJobs'
  BY <1>7, <1>0 DEF BeginInitJson, TypeOK
<1>8. ASSUME NEW r \in InitJsons, InsertFile(r) PROVE StartedJobs'
  <2>1. /\ target' = target
        /\ \A q \in Request : pc'[q] = pc[q] \/ pc'[q] = "error"
    BY <1>8 DEF InsertFile, TypeOK
  <2>2. jobStatus' = jobStatus
    BY <1>8 DEF InsertFile
  <2>3. QED
    BY <2>1, <2>2, <1>8 DEF InsertFile
<1>9. ASSUME NEW r \in InitJsons, SetStarted(r) PROVE StartedJobs'
  BY <1>9, <1>0 DEF SetStarted, TypeOK
<1>10. ASSUME NEW r \in Uploads, BeginUpload(r) PROVE StartedJobs'
  BY <1>10, <1>0 DEF BeginUpload, TypeOK
<1>11. ASSUME NEW r \in Uploads, ReceiveFile(r) PROVE StartedJobs'
  BY <1>11, <1>0 DEF ReceiveFile, TypeOK
<1>12. ASSUME NEW r \in Uploads, MarkUploaded(r) PROVE StartedJobs'
  BY <1>12, <1>0 DEF MarkUploaded, TypeOK
<1>13. ASSUME NEW r \in Uploads, CountPending(r) PROVE StartedJobs'
  BY <1>13, <1>0 DEF CountPending, TypeOK
<1>14. ASSUME NEW r \in Uploads, SetCompleted(r) PROVE StartedJobs'
  BY <1>14, <1>0 DEF SetCompleted, TypeOK
<1>15. ASSUME NEW r \in Uploads, SetProcessing(r) PROVE StartedJobs'
  BY <1>15, <1>0 DEF SetProcessing, TypeOK
<1>16. ASSUME NEW r \in Uploads, Spawn(r) PROVE StartedJobs'
  BY <1>16, <1>0 DEF Spawn, TypeOK
<1>17. ASSUME NEW r \in Uploads, LoadFiles(r) PROVE StartedJobs'
  BY <1>17, <1>0 DEF LoadFiles, TypeOK
<1>18. ASSUME NEW r \in Uploads, LoadFilesFails(r) PROVE StartedJobs'
  BY <1>18, <1>0 DEF LoadFilesFails, TypeOK
<1>19. ASSUME NEW r \in Uploads, FetchFile(r) PROVE StartedJobs'
  <2>1. /\ target' = target
        /\ \A q \in Request : pc'[q] = pc[q] \/ (q = r /\ pc[q] = "fetch")
    BY <1>19 DEF FetchFile, TypeOK
  <2>2. jobStatus' = jobStatus
    BY <1>19 DEF FetchFile
  <2>3. QED
    BY <2>1, <2>2, <1>19 DEF FetchFile
<1>20. ASSUME NEW r \in Uploads, StoreSuites(r) PROVE StartedJobs'
  BY <1>20, <1>0 DEF StoreSuites, TypeOK
<1>21. ASSUME NEW r \in Uploads, SetDuration(r) PROVE StartedJobs'
  BY <1>21, <1>0 DEF SetDuration, TypeOK
<1>22. ASSUME NEW r \in Uploads, SetComplete(r) PROVE StartedJobs'
  BY <1>22, <1>0 DEF SetComplete, TypeOK
<1>23. ASSUME NEW r \in Uploads, CountJobs(r) PROVE StartedJobs'
  BY <1>23, <1>0 DEF CountJobs, TypeOK
<1>24. ASSUME NEW r \in Uploads, FinishReport(r) PROVE StartedJobs'
  BY <1>24, <1>0 DEF FinishReport, TypeOK
<1>25. ASSUME NEW r \in Uploads, AnnounceReport(r) PROVE StartedJobs'
  BY <1>25, <1>0 DEF AnnounceReport, TypeOK
<1>26. ASSUME NEW r \in Request, Abort(r) PROVE StartedJobs'
  BY <1>26, <1>0 DEF Abort, TypeOK
<1>27. CASE Crash
  BY <1>27, <1>0 DEF Crash, TypeOK
<1>28. CASE UNCHANGED vars
  BY <1>28, <1>0 DEF vars, TypeOK
<1>29. QED
  BY <1>1, <1>2, <1>3, <1>4, <1>5, <1>6, <1>7, <1>8, <1>9, <1>10, <1>11,
     <1>12, <1>13, <1>14, <1>15, <1>16, <1>17, <1>18, <1>19, <1>20,
     <1>21, <1>22, <1>23, <1>24, <1>25, <1>26, <1>27, <1>28
     DEF Next, Rest, InitJobStep, InitJsonStep, UploadStep, ExtractStep

\* Every step of the pipeline is a step of the lifecycle or leaves it alone.
LEMMA LifecycleStep ==
    TypeOK /\ CountedJobs /\ StartedJobs /\ [Next]_vars
        => [Lifecycle!Next]_(Lifecycle!lifecycle)
<1> SUFFICES ASSUME TypeOK, CountedJobs, StartedJobs, [Next]_vars
             PROVE  [Lifecycle!Next]_(Lifecycle!lifecycle)
  OBVIOUS
<1> USE DEF db, locals, history, Goto, Active, InitJobSteps, UploadSteps,
            ExtractSteps, Request, Lifecycle!lifecycle
<1>0. \A q \in Request : pc[q] \in Active \ {"findJob", "insertJob"} =>
         target[q] \in Job /\ jobStatus[target[q]] # "none"
  BY DEF TypeOK, ForeignKeys, Exists
<1>1. ASSUME NEW r \in InitJobs, InsertJob(r) PROVE Lifecycle!Next
  BY <1>1 DEF InsertJob, Exists, Lifecycle!Next, Lifecycle!AddJob
<1>2. ASSUME NEW r \in InitJobs, StartUploading(r) PROVE Lifecycle!Next
  BY <1>0, <1>2 DEF StartUploading, Lifecycle!Next, Lifecycle!ShowUploading
<1>3. ASSUME NEW r \in Uploads, SetProcessing(r) PROVE Lifecycle!Next
  BY <1>0, <1>3 DEF SetProcessing, Lifecycle!Next, Lifecycle!Process
<1>4. ASSUME NEW r \in Uploads, LoadFilesFails(r) PROVE Lifecycle!Next
  BY <1>0, <1>4 DEF LoadFilesFails, StartedJobs, Lifecycle!Next, Lifecycle!Fail
<1>5. ASSUME NEW r \in Uploads, SetComplete(r) PROVE Lifecycle!Next
  BY <1>0, <1>5 DEF SetComplete, StartedJobs, Lifecycle!Next, Lifecycle!Deliver
<1>6. ASSUME NEW r \in Uploads, FinishReport(r) PROVE Lifecycle!Next
  <2>1. Cardinality(finished) >= ExpectedJobs
    BY <1>6 DEF FinishReport, CountedJobs
  <2>2. Lifecycle!Cardinality(finished) = Cardinality(finished)
    BY Zenon DEF Cardinality, Lifecycle!Cardinality
  <2>3. QED
    BY <1>6, <2>1, <2>2 DEF FinishReport, Lifecycle!Next, Lifecycle!CompleteReport
<1>7. \/ \E r \in InitJobs : InsertJob(r) \/ StartUploading(r)
      \/ \E r \in Uploads : \/ SetProcessing(r) \/ LoadFilesFails(r)
                            \/ SetComplete(r) \/ FinishReport(r)
      \/ UNCHANGED <<reportStatus, jobStatus, finished>>
  BY ZenonT(30) DEF Next, Rest, InitJobStep, InitJsonStep, UploadStep, ExtractStep, vars,
         BeginInitJob, FindJob, InsertJobRefused, RespondInitJob,
         BeginInitJson, InsertFile, SetStarted, BeginUpload, ReceiveFile,
         MarkUploaded, CountPending, SetCompleted, Spawn, LoadFiles,
         FetchFile, StoreSuites, SetDuration, CountJobs, AnnounceReport,
         Abort, Crash
<1>8. QED
  BY <1>1, <1>2, <1>3, <1>4, <1>5, <1>6, <1>7

\* The handlers and the extraction task implement the status lifecycle.
THEOREM PipelineImplementsLifecycle == Spec => ImplementsLifecycle
<1>1. Init => Lifecycle!Init
  BY DEF Init, Lifecycle!Init
<1>2. Init => CountedJobs
  BY DEF Init, CountedJobs, CompletedJobs, CompleteReportHasJobs
<1>3. Init => StartedJobs
  BY DEF Init, StartedJobs
<1>4. QED
  BY <1>1, <1>2, <1>3, CountedJobsStep, StartedJobsStep, LifecycleStep,
     TypeCorrect, PTL DEF Spec, Lifecycle!Spec, ImplementsLifecycle

-----------------------------------------------------------------------------
(* Idempotence of init_job *)

\* The unique index keeps keys apart, and a request that is past the insert, or
\* has found a row, holds a job with its own key.
KeysHeld ==
    /\ \A i, j \in Job : jobKey[i] = jobKey[j] /\ jobKey[i] # NoKey => i = j
    /\ \A r \in InitJobs :
         pc[r] \in {"startUploading", "respond", "done"} =>
             /\ target[r] \in Job
             /\ Exists(target[r])
             /\ jobKey[target[r]] = KeyOf[r]

\* Every action keeps the keys apart and with the requests they came from.
LEMMA KeysHeldStep ==
    TypeOK /\ KeysHeld /\ [Next]_vars => KeysHeld'
<1> SUFFICES ASSUME TypeOK, KeysHeld, [Next]_vars
             PROVE  KeysHeld'
  OBVIOUS
<1> USE DEF db, locals, history, Goto, Request, KeysHeld, Exists
<1>1. ASSUME NEW r \in InitJobs, InsertJob(r) PROVE KeysHeld'
  <2>1. PICK j \in Job :
          /\ ~Exists(j)
          /\ jobStatus' = [jobStatus EXCEPT ![j] = "pending"]
          /\ jobKey' = [jobKey EXCEPT ![j] = KeyOf[r]]
          /\ target' = [target EXCEPT ![r] = j]
    BY <1>1 DEF InsertJob
  <2>2. \A i \in Job : jobKey[i] = KeyOf[r] => KeyOf[r] = NoKey
    BY <1>1 DEF InsertJob, KeyTaken, TypeOK, ForeignKeys
  <2>3. \A i \in Job : /\ i # j => jobKey'[i] = jobKey[i] /\ jobStatus'[i] = jobStatus[i]
                       /\ i = j => jobKey'[i] = KeyOf[r] /\ Exists(i)'
    BY <2>1 DEF TypeOK
  <2>4. \A q \in InitJobs : q # r => pc'[q] = pc[q] /\ target'[q] = target[q]
    BY <1>1, <2>1 DEF InsertJob, TypeOK
  <2>5. target'[r] = j
    BY <2>1 DEF TypeOK
  <2>6. QED
    BY <2>1, <2>2, <2>3, <2>4, <2>5
<1>2. ASSUME NEW r \in InitJobs, FindJob(r) PROVE KeysHeld'
  BY <1>2 DEF FindJob, TypeOK
<1>3. ASSUME NEW r \in InitJobs,
             \/ BeginInitJob(r) \/ InsertJobRefused(r)
             \/ StartUploading(r) \/ RespondInitJob(r)
      PROVE  KeysHeld'
  <2>1. /\ jobKey' = jobKey /\ jobStatus' = jobStatus /\ target' = target
        /\ \A q \in Request :
             \/ pc'[q] = pc[q]
             \/ pc'[q] \in {"insertJob", "findJob", "error"}
             \/ pc[q] \in {"startUploading", "respond"}
    BY <1>3 DEF BeginInitJob, InsertJobRefused, StartUploading, RespondInitJob,
                TypeOK
  <2>2. QED
    BY <2>1
<1>4. ASSUME NEW r \in InitJsons, BeginInitJson(r) \/ InitJsonStep(r)
      PROVE  KeysHeld'
  <2>1. /\ jobKey' = jobKey /\ jobStatus' = jobStatus
        /\ \A q \in Request : q # r => pc'[q] = pc[q] /\ target'[q] = target[q]
    BY <1>4 DEF InitJsonStep, BeginInitJson, InsertFile, SetStarted, TypeOK
  <2>2. QED
    BY <2>1, RequestKinds
<1>5. ASSUME NEW r \in Uploads, BeginUpload(r) \/ UploadStep(r) \/ ExtractStep(r)
      PROVE  KeysHeld'
  <2>1. /\ jobKey' = jobKey
        /\ \A q \in Request : q # r => pc'[q] = pc[q] /\ target'[q] = target[q]
    BY ZenonT(30), <1>5 DEF BeginUpload, UploadStep, ExtractStep, ReceiveFile,
                MarkUploaded, CountPending, SetCompleted, SetProcessing, Spawn,
                LoadFiles, LoadFilesFails, FetchFile, StoreSuites, SetDuration,
                SetComplete, CountJobs, FinishReport, AnnounceReport, TypeOK
  <2>2. \A j \in Job : Exists(j) => Exists(j)'
    BY <1>5 DEF BeginUpload, UploadStep, ExtractStep, ReceiveFile,
                MarkUploaded, CountPending, SetCompleted, SetProcessing, Spawn,
                LoadFiles, LoadFilesFails, FetchFile, StoreSuites, SetDuration,
                SetComplete, CountJobs, FinishReport, AnnounceReport, TypeOK
  <2>3. QED
    BY <2>1, <2>2, RequestKinds
<1>6. ASSUME NEW r \in Request, Abort(r) PROVE KeysHeld'
  BY <1>6 DEF Abort, TypeOK
<1>7. CASE Crash
  BY <1>7 DEF Crash, TypeOK
<1>8. CASE UNCHANGED vars
  BY <1>8 DEF vars
<1>9. QED
  BY <1>1, <1>2, <1>3, <1>4, <1>5, <1>6, <1>7, <1>8 DEF Next, Rest, InitJobStep

\* init_job is idempotent in the GitHub job id.
THEOREM InitJobIdempotent == Spec => []SameKeySameJob
<1>1. Init => KeysHeld
  BY DEF Init, KeysHeld, Request
<1>2. TypeOK /\ KeysHeld => SameKeySameJob
  BY DEF KeysHeld, SameKeySameJob
<1>3. QED
  BY <1>1, <1>2, KeysHeldStep, TypeCorrect, PTL DEF Spec

-----------------------------------------------------------------------------
(* At rest: steps without a failure *)

\* A step that leaves the failures at none is not a failure itself.
LEMMA FaultsStep ==
    ASSUME TypeOK, [Next]_vars, faults' = 0
    PROVE  /\ faults = 0
           /\ \A r \in Request : ~Abort(r)
           /\ ~Crash
<1> USE DEF TypeOK, Fault
<1>1. (\A r \in Request : ~Abort(r)) /\ ~Crash
  BY DEF Abort, Crash
<1>2. ASSUME NEW r \in Uploads, FetchFile(r) PROVE faults = 0
  BY <1>2 DEF FetchFile
<1>3. ASSUME NEW r \in Uploads, LoadFilesFails(r) \/ StoreSuites(r) \/ SetDuration(r)
      PROVE  faults = 0
  BY <1>3 DEF LoadFilesFails, StoreSuites, SetDuration
<1>4. \/ \E r \in Uploads : \/ FetchFile(r) \/ LoadFilesFails(r) \/ StoreSuites(r)
                            \/ SetDuration(r)
      \/ \E r \in Request : Abort(r)
      \/ Crash
      \/ UNCHANGED faults
  BY DEF Next, Rest, InitJobStep, InitJsonStep, UploadStep, ExtractStep, vars, history,
         BeginInitJob, FindJob, InsertJob, InsertJobRefused, StartUploading, RespondInitJob,
         BeginInitJson, InsertFile, SetStarted, BeginUpload, ReceiveFile, MarkUploaded,
         CountPending, SetCompleted, SetProcessing, Spawn, LoadFiles, SetComplete, CountJobs,
         FinishReport, AnnounceReport
<1> QED BY <1>1, <1>2, <1>3, <1>4

\* A trigger finds files, so without a failure extract_job does not fail a job.
LEMMA ExtractionStarts ==
    ASSUME TypeOK, TriggerHasFiles, NEW r \in Uploads, LoadFilesFails(r)
    PROVE  faults' # 0
<1>1. \E f \in File : fileStatus[target[r]][f] = "uploaded"
  BY DEF TriggerHasFiles, LoadFilesFails, Request
<1>2. Uploaded(target[r]) # {}
  BY <1>1 DEF Uploaded
<1> QED BY <1>2 DEF LoadFilesFails, Fault, TypeOK

-----------------------------------------------------------------------------
(* Extraction *)

\* What r has done, or is still to do, for every file of job j.
Covers(r, j) ==
    /\ target[r] = j
    /\ \/ pc[r] \in {"countPending", "setCompleted", "setProcessing", "spawn", "loadFiles"}
       \/ /\ pc[r] = "fetch"
          /\ Files(j) \subseteq todo[r] \cup got[r]
          /\ \A f \in got[r] : <<j, f>> \in extracted
       \/ /\ pc[r] = "store"
          /\ \A f \in Files(j) : <<j, f>> \in extracted /\ (f \in todo[r] \/ <<r, f>> \in suites)
       \/ /\ pc[r] \in {"setComplete", "countJobs", "finishReport", "announceReport", "done"}
          /\ \A f \in Files(j) : <<j, f>> \in extracted /\ <<r, f>> \in suites

AllSent(j) == Files(j) # {} /\ Pending(j) = {}
Extracts(r) == pc[r] \in {"spawn", "loadFiles", "fetch", "store", "setComplete"}

\* A job whose files have all arrived is covered by one upload, or the task it
\* has spawned.
Covered == \A j \in Job : AllSent(j) => \E r \in Uploads : Covers(r, j)

\* A job in processing has a task.
Attended ==
    \A j \in Job : /\ jobStatus[j] # "failed"
                   /\ jobStatus[j] = "processing" =>
                        \E r \in Uploads : target[r] = j /\ Extracts(r)

\* The job of a task that has stored suites is past pending.
SuitesOfStarted ==
    \A r \in Uploads, f \in File : <<r, f>> \in suites =>
        /\ pc[r] # "idle" /\ target[r] \in Job
        /\ jobStatus[target[r]] \notin {"none", "pending"}

Kept(r) ==
    /\ pc'[r] = pc[r] /\ target'[r] = target[r]
    /\ todo'[r] = todo[r] /\ got'[r] = got[r]

\* A step of another request leaves what r covers alone.
LEMMA CoversKept ==
    ASSUME NEW r, NEW j, Kept(r), Files(j)' = Files(j), extracted \subseteq extracted',
           suites \subseteq suites', Covers(r, j)
    PROVE  Covers(r, j)'
BY DEF Covers, Kept

\* The steps of a request that registers jobs or files.
LEMMA InitSteps ==
    ASSUME TypeOK, NEW r \in InitJobs \cup InitJsons,
           r \in InitJobs => BeginInitJob(r) \/ InitJobStep(r),
           r \in InitJsons => BeginInitJson(r) \/ InitJsonStep(r)
    PROVE  /\ \A q \in Uploads : Kept(q)
           /\ UNCHANGED <<extracted, suites>>
           /\ InsertJob(r) \/ UNCHANGED jobStatus
           /\ InsertFile(r) \/ UNCHANGED fileStatus
<1>1. \A q \in Uploads : q # r /\ q \in Request
  BY RequestKinds DEF Request
<1> USE DEF TypeOK, Goto, Request, db
<1>2. CASE r \in InitJobs
  <2>1. CASE BeginInitJob(r) \/ InsertJob(r) \/ InsertJobRefused(r)
    BY <1>1, <2>1 DEF BeginInitJob, InsertJob, InsertJobRefused, Kept
  <2>2. CASE FindJob(r)
    BY <1>1, <2>2 DEF FindJob, Kept
  <2>3. CASE StartUploading(r) \/ RespondInitJob(r)
    BY <1>1, <2>3 DEF StartUploading, RespondInitJob, Kept
  <2> QED BY <1>2, <2>1, <2>2, <2>3 DEF InitJobStep
<1>3. CASE r \in InitJsons
  <2>1. CASE BeginInitJson(r) \/ SetStarted(r)
    BY <1>1, <2>1 DEF BeginInitJson, SetStarted, Kept
  <2>2. CASE InsertFile(r)
    <3>1. UNCHANGED <<target, got, extracted, suites, jobStatus>>
      BY <2>2 DEF InsertFile
    <3>2. \A q \in Uploads : pc'[q] = pc[q] /\ todo'[q] = todo[q]
      BY <1>1, <2>2 DEF InsertFile
    <3> QED BY <2>2, <3>1, <3>2 DEF Kept
  <2> QED BY <1>3, <2>1, <2>2 DEF InitJsonStep
<1> QED BY <1>2, <1>3

\* The steps of an upload and of its task.
LEMMA TaskSteps ==
    ASSUME TypeOK, NEW r \in Uploads, BeginUpload(r) \/ UploadStep(r) \/ ExtractStep(r)
    PROVE  /\ \A q \in Uploads : q # r => Kept(q)
           /\ extracted \subseteq extracted' /\ suites \subseteq suites'
           /\ MarkUploaded(r) \/ UNCHANGED fileStatus
           /\ BeginUpload(r) \/ target' = target
           /\ SetProcessing(r) \/ SetComplete(r) \/ LoadFilesFails(r) \/ UNCHANGED jobStatus
           /\ StoreSuites(r) \/ UNCHANGED suites
<1> USE DEF TypeOK, Goto, Request, db, Kept
<1>1. CASE BeginUpload(r) \/ ReceiveFile(r)
  BY <1>1 DEF BeginUpload, ReceiveFile
<1>2. CASE \/ MarkUploaded(r) \/ CountPending(r) \/ SetCompleted(r) \/ SetProcessing(r) \/ Spawn(r)
  BY <1>2 DEF MarkUploaded, CountPending, SetCompleted, SetProcessing, Spawn
<1>3. CASE LoadFiles(r) \/ LoadFilesFails(r)
  BY <1>3 DEF LoadFiles, LoadFilesFails
<1>4. CASE FetchFile(r)
  BY <1>4 DEF FetchFile
<1>5. CASE StoreSuites(r)
  BY <1>5 DEF StoreSuites
<1>6. CASE SetDuration(r) \/ SetComplete(r) \/ CountJobs(r)
  BY <1>6 DEF SetDuration, SetComplete, CountJobs
<1>7. CASE FinishReport(r) \/ AnnounceReport(r)
  BY <1>7 DEF FinishReport, AnnounceReport
<1> QED BY <1>1, <1>2, <1>3, <1>4, <1>5, <1>6, <1>7 DEF UploadStep, ExtractStep

\* An upload takes files that have a row.
Taken == \A r \in Uploads : pc[r] = "receive" => todo[r] \cup got[r] \subseteq Files(target[r])

\* No step takes a file that has none.
LEMMA TakenStep ==
    ASSUME TypeOK, GotIsStored, Taken, [Next]_vars
    PROVE  Taken'
<1> USE DEF Request
<1>0. ASSUME NEW q \in Uploads, Kept(q)
      PROVE  pc'[q] = "receive" => todo'[q] \cup got'[q] \subseteq Files(target[q])'
  <2>1. pc[q] = "receive" => target[q] \in Job
    BY DEF TypeOK, ForeignKeys, Active, UploadSteps
  <2> QED BY <1>0, <2>1, FilesGrow DEF Taken, Kept
<1>1. ASSUME NEW r \in InitJobs \cup InitJsons,
             r \in InitJobs => BeginInitJob(r) \/ InitJobStep(r),
             r \in InitJsons => BeginInitJson(r) \/ InitJsonStep(r)
      PROVE  Taken'
  BY <1>0, <1>1, InitSteps DEF Taken
<1>2. ASSUME NEW r \in Uploads, BeginUpload(r) \/ UploadStep(r) \/ ExtractStep(r)
      PROVE  Taken'
  <2> SUFFICES ASSUME pc'[r] = "receive" PROVE todo'[r] \cup got'[r] \subseteq Files(target[r])'
    BY <1>0, <1>2, TaskSteps DEF Taken
  <2>1. CASE BeginUpload(r)
    BY <2>1 DEF BeginUpload, GotIsStored, TypeOK, Files, Pending, db
  <2>2. CASE ReceiveFile(r)
    BY <2>2 DEF ReceiveFile, Taken, TypeOK, Files, db
  <2>3. CASE \/ MarkUploaded(r) \/ CountPending(r) \/ SetCompleted(r) \/ SetProcessing(r)
             \/ Spawn(r) \/ LoadFiles(r) \/ LoadFilesFails(r)
    BY <2>3 DEF MarkUploaded, CountPending, SetCompleted, SetProcessing, Spawn, LoadFiles,
                LoadFilesFails, Goto, TypeOK
  <2>4. CASE FetchFile(r)
    BY <2>4 DEF FetchFile, Goto, TypeOK
  <2>5. CASE \/ StoreSuites(r) \/ SetDuration(r) \/ SetComplete(r) \/ CountJobs(r)
             \/ FinishReport(r) \/ AnnounceReport(r)
    BY <2>5 DEF StoreSuites, SetDuration, SetComplete, CountJobs, FinishReport, AnnounceReport,
                Goto, TypeOK
  <2> QED BY <1>2, <2>1, <2>2, <2>3, <2>4, <2>5 DEF UploadStep, ExtractStep
<1>3. CASE \E r \in Request : Abort(r)
  BY <1>3 DEF Abort, Taken, TypeOK, Files, db, Goto
<1>4. CASE Crash
  BY <1>4 DEF Crash, Taken, TypeOK, Files, db
<1>5. CASE UNCHANGED vars
  BY <1>5 DEF vars, locals, Taken, Files, db
<1> QED BY <1>1, <1>2, <1>3, <1>4, <1>5, RequestKinds DEF Next, Rest

\* An upload, or its task, that covers a job goes on to cover it.
LEMMA CoveringGoesOn ==
    ASSUME TypeOK, TriggerHasFiles, NEW r \in Uploads,
           BeginUpload(r) \/ UploadStep(r) \/ ExtractStep(r),
           faults' = 0, NEW j \in Job, Pending(j) = {}, UNCHANGED fileStatus,
           Covers(r, j)
    PROVE  Covers(r, j)'
<1> USE DEF TypeOK, Goto, Request, Files
<1>1. target[r] = j /\ r \in Request /\ Files(j) \subseteq Uploaded(j)
  BY DEF Covers, Pending, Uploaded, FileStatus
<1>2. CASE BeginUpload(r) \/ ReceiveFile(r) \/ MarkUploaded(r)
  BY <1>2 DEF BeginUpload, ReceiveFile, MarkUploaded, Covers
<1>3. CASE CountPending(r)
  BY <1>1, <1>3 DEF CountPending, AllUploaded, Covers
<1>4. CASE SetCompleted(r) \/ SetProcessing(r) \/ Spawn(r)
  BY <1>4 DEF SetCompleted, SetProcessing, Spawn, Covers
<1>5. CASE LoadFiles(r)
  BY <1>1, <1>5 DEF LoadFiles, Covers
<1>6. CASE LoadFilesFails(r)
  BY <1>6, ExtractionStarts
<1>7. CASE FetchFile(r)
  <2>1. PICK f \in todo[r] :
          /\ got' = [got EXCEPT ![r] = @ \cup {f}]
          /\ extracted' = extracted \cup {<<j, f>>}
          /\ IF todo[r] = {f}
               THEN /\ todo' = [todo EXCEPT ![r] = got'[r]] /\ pc' = [pc EXCEPT ![r] = "store"]
               ELSE /\ todo' = [todo EXCEPT ![r] = @ \ {f}] /\ UNCHANGED pc
    <3>1. PICK f \in todo[r], parsed \in BOOLEAN, marked \in BOOLEAN :
            FetchFile(r)!2!(f, parsed, marked)
      BY <1>7 DEF FetchFile
    <3>2. parsed /\ marked
      BY <3>1 DEF Fault
    <3>3. got' = [got EXCEPT ![r] = @ \cup {f}] /\ extracted' = extracted \cup {<<j, f>>}
      BY <1>1, <3>1, <3>2
    <3> QED BY <3>1, <3>3
  <2>2. /\ pc[r] = "fetch" /\ target' = target
        /\ Files(j) \subseteq todo[r] \cup got[r] /\ \A g \in got[r] : <<j, g>> \in extracted
    BY <1>7 DEF FetchFile, Covers
  <2>3. got'[r] = got[r] \cup {f} /\ \A g \in got'[r] : <<j, g>> \in extracted'
    BY <1>1, <2>1, <2>2
  <2>4. CASE todo[r] = {f}
    BY <1>1, <2>1, <2>2, <2>3, <2>4 DEF Covers
  <2>5. CASE todo[r] # {f}
    BY <1>1, <2>1, <2>2, <2>3, <2>5 DEF Covers
  <2> QED BY <2>4, <2>5
<1>8. CASE StoreSuites(r)
  BY <1>1, <1>8 DEF StoreSuites, Fault, Covers
<1>9. CASE SetDuration(r)
  BY <1>1, <1>9 DEF SetDuration, Covers
<1>10. CASE SetComplete(r) \/ CountJobs(r) \/ FinishReport(r) \/ AnnounceReport(r)
  BY <1>1, <1>10 DEF SetComplete, CountJobs, FinishReport, AnnounceReport, Covers, db
<1> QED BY <1>2, <1>3, <1>4, <1>5, <1>6, <1>7, <1>8, <1>9, <1>10 DEF UploadStep, ExtractStep

\* Every action keeps all jobs whose files have arrived covered.
LEMMA CoveredStep ==
    ASSUME TypeOK, TriggerHasFiles, Taken, Covered, [Next]_vars, faults' = 0
    PROVE  Covered'
<1> SUFFICES ASSUME NEW j \in Job, AllSent(j)'
             PROVE  (\E q \in Uploads : Covers(q, j))'
  BY DEF Covered
<1> USE DEF Request
<1>1. ASSUME AllSent(j), UNCHANGED <<fileStatus, extracted, suites>>, \A q \in Uploads : Kept(q)
      PROVE  (\E q \in Uploads : Covers(q, j))'
  BY <1>1, CoversKept DEF Covered, Files
<1>2. ASSUME NEW r \in InitJobs \cup InitJsons,
             r \in InitJobs => BeginInitJob(r) \/ InitJobStep(r),
             r \in InitJsons => BeginInitJson(r) \/ InitJsonStep(r)
      PROVE  (\E q \in Uploads : Covers(q, j))'
  <2>1. /\ \A q \in Uploads : Kept(q)
        /\ UNCHANGED <<extracted, suites>>
        /\ InsertFile(r) \/ UNCHANGED fileStatus
    BY <1>2, InitSteps
  <2>2. CASE UNCHANGED fileStatus
    BY <1>1, <2>1, <2>2 DEF AllSent, Files, Pending
  <2>3. CASE InsertFile(r) /\ ~UNCHANGED fileStatus
    <3>1. PICK f \in todo[r] : fileStatus' = [fileStatus EXCEPT ![target[r]][f] = "pending"]
      BY <2>3 DEF InsertFile
    <3>2. target[r] \in Job /\ f \in File
      BY <2>3 DEF InsertFile, TypeOK, ForeignKeys, Active, InitJsonSteps
    <3>3. target[r] # j
      BY <3>1, <3>2 DEF AllSent, Pending, TypeOK
    <3>4. fileStatus'[j] = fileStatus[j]
      BY <3>1, <3>2, <3>3 DEF TypeOK
    <3>5. Files(j)' = Files(j) /\ AllSent(j)
      BY <3>4 DEF AllSent, Files, Pending
    <3> QED BY <2>1, <3>5, CoversKept DEF Covered
  <2> QED BY <2>1, <2>2, <2>3
<1>3. ASSUME NEW r \in Uploads, BeginUpload(r) \/ UploadStep(r) \/ ExtractStep(r)
      PROVE  (\E q \in Uploads : Covers(q, j))'
  <2>1. /\ \A q \in Uploads : q # r => Kept(q)
        /\ extracted \subseteq extracted' /\ suites \subseteq suites'
        /\ MarkUploaded(r) \/ UNCHANGED fileStatus
    BY <1>3, TaskSteps
  <2>2. CASE UNCHANGED fileStatus
    <3>1. Files(j)' = Files(j) /\ AllSent(j)
      BY <2>2 DEF AllSent, Files, Pending
    <3>2. PICK q \in Uploads : Covers(q, j)
      BY <3>1 DEF Covered
    <3>3. CASE q = r
      BY <1>3, <2>2, <3>1, <3>2, <3>3, CoveringGoesOn DEF AllSent
    <3>4. CASE q # r
      BY <2>1, <3>1, <3>2, <3>4, CoversKept
    <3> QED BY <3>3, <3>4
  <2>3. CASE MarkUploaded(r) /\ target[r] = j
    <3>1. got[r] \subseteq Files(j) /\ r \in Request
      BY <2>3 DEF MarkUploaded, Taken
    <3>2. Files(j)' = Files(j)
      BY <2>3, <3>1 DEF MarkUploaded, Files, TypeOK
    <3>3. Registered(target[r])
      BY <2>3, <3>2 DEF AllSent, Registered
    <3>4. pc'[r] = "countPending" /\ target'[r] = j
      BY <2>3, <3>1, <3>3 DEF MarkUploaded, Goto, TypeOK
    <3> QED BY <3>4 DEF Covers
  <2>4. CASE MarkUploaded(r) /\ target[r] # j
    <3>1. fileStatus'[j] = fileStatus[j]
      BY <2>4 DEF MarkUploaded, TypeOK
    <3>2. Files(j)' = Files(j) /\ AllSent(j)
      BY <3>1 DEF AllSent, Files, Pending
    <3>3. PICK q \in Uploads : Covers(q, j)
      BY <3>2 DEF Covered
    <3>4. q # r
      BY <2>4, <3>3 DEF Covers
    <3> QED BY <2>1, <3>2, <3>3, <3>4, CoversKept
  <2> QED BY <2>1, <2>2, <2>3, <2>4
<1>4. CASE UNCHANGED vars
  BY <1>1, <1>4 DEF vars, db, locals, Kept, AllSent, Files, Pending
<1> QED BY <1>2, <1>3, <1>4, FaultsStep, RequestKinds DEF Next, Rest

\* Every action keeps a task for each job in processing, and fails none.
LEMMA AttendedStep ==
    ASSUME TypeOK, TriggerHasFiles, Attended, [Next]_vars, faults' = 0
    PROVE  Attended'
<1> SUFFICES ASSUME NEW j \in Job
             PROVE  /\ jobStatus'[j] # "failed"
                    /\ jobStatus'[j] = "processing" =>
                         \E q \in Uploads : target'[q] = j /\ Extracts(q)'
  BY DEF Attended
<1> USE DEF Request
<1>1. ASSUME jobStatus'[j] = jobStatus[j] \/ jobStatus'[j] = "pending",
             \A q \in Uploads : target[q] = j /\ Extracts(q) => target'[q] = j /\ Extracts(q)'
      PROVE  /\ jobStatus'[j] # "failed"
             /\ jobStatus'[j] = "processing" =>
                  \E q \in Uploads : target'[q] = j /\ Extracts(q)'
  BY <1>1 DEF Attended
<1>2. ASSUME NEW r \in InitJobs \cup InitJsons,
             r \in InitJobs => BeginInitJob(r) \/ InitJobStep(r),
             r \in InitJsons => BeginInitJson(r) \/ InitJsonStep(r)
      PROVE  /\ jobStatus'[j] = jobStatus[j] \/ jobStatus'[j] = "pending"
             /\ \A q \in Uploads : target[q] = j /\ Extracts(q) => target'[q] = j /\ Extracts(q)'
  <2>1. \A q \in Uploads : target[q] = j /\ Extracts(q) => target'[q] = j /\ Extracts(q)'
    BY <1>2, InitSteps DEF Kept, Extracts
  <2>2. InsertJob(r) => jobStatus'[j] = jobStatus[j] \/ jobStatus'[j] = "pending"
    BY DEF InsertJob, TypeOK
  <2> QED BY <1>2, <2>1, <2>2, InitSteps
<1>3. ASSUME NEW r \in Uploads, BeginUpload(r) \/ UploadStep(r) \/ ExtractStep(r)
      PROVE  /\ jobStatus'[j] # "failed"
             /\ jobStatus'[j] = "processing" =>
                  \E q \in Uploads : target'[q] = j /\ Extracts(q)'
  <2>0. \A q \in Uploads : q # r => (target[q] = j /\ Extracts(q) => target'[q] = j /\ Extracts(q)')
    BY <1>3, TaskSteps DEF Kept, Extracts
  <2>1. CASE SetProcessing(r)
    <3>1. pc'[r] = "spawn" /\ target'[r] = target[r]
          /\ jobStatus' = [jobStatus EXCEPT ![target[r]] = "processing"]
      BY <2>1 DEF SetProcessing, Goto, TypeOK
    <3>2. Extracts(r)' /\ pc[r] = "setProcessing" /\ ~Extracts(r)
      BY <2>1, <3>1 DEF SetProcessing, Extracts
    <3> QED BY <2>0, <3>1, <3>2 DEF Attended, TypeOK
  <2>2. CASE SetComplete(r)
    <3>1. target'[r] = target[r]
          /\ jobStatus' = [jobStatus EXCEPT ![target[r]] = "complete"]
      BY <2>2 DEF SetComplete
    <3> QED BY <2>0, <3>1 DEF Attended, TypeOK
  <2>3. CASE LoadFilesFails(r)
    BY <2>3, ExtractionStarts
  <2>4. CASE ~SetProcessing(r) /\ ~SetComplete(r) /\ ~LoadFilesFails(r)
    <3>1. UNCHANGED jobStatus
      BY <1>3, <2>4, TaskSteps
    <3>2. target[r] = j /\ Extracts(r) => target'[r] = j /\ Extracts(r)'
      <4>1. CASE \/ BeginUpload(r) \/ ReceiveFile(r) \/ MarkUploaded(r) \/ CountPending(r)
                 \/ SetCompleted(r) \/ Spawn(r) \/ LoadFiles(r)
        BY <4>1 DEF BeginUpload, ReceiveFile, MarkUploaded, CountPending, SetCompleted, Spawn,
                    LoadFiles, Goto, TypeOK, Extracts
      <4>2. CASE FetchFile(r)
        BY <4>2 DEF FetchFile, Goto, TypeOK, Extracts
      <4>3. CASE \/ StoreSuites(r) \/ SetDuration(r) \/ CountJobs(r) \/ FinishReport(r)
                 \/ AnnounceReport(r)
        BY <4>3 DEF StoreSuites, SetDuration, CountJobs, FinishReport, AnnounceReport, Goto,
                    TypeOK, Extracts
      <4> QED BY <1>3, <2>4, <4>1, <4>2, <4>3 DEF UploadStep, ExtractStep
    <3> QED BY <1>1, <2>0, <3>1, <3>2
  <2> QED BY <2>1, <2>2, <2>3, <2>4
<1>4. CASE UNCHANGED vars
  BY <1>1, <1>4 DEF vars, db, locals, Extracts
<1> QED BY <1>1, <1>2, <1>3, <1>4, FaultsStep, RequestKinds DEF Next, Rest

\* Every action keeps a job with suites past pending.
LEMMA SuitesOfStartedStep ==
    ASSUME TypeOK, StartedJobs, SuitesOfStarted, [Next]_vars
    PROVE  SuitesOfStarted'
<1> SUFFICES ASSUME NEW q \in Uploads, NEW f \in File, <<q, f>> \in suites'
             PROVE  /\ pc'[q] # "idle" /\ target'[q] \in Job
                    /\ jobStatus'[target'[q]] \notin {"none", "pending"}
  BY DEF SuitesOfStarted
<1> USE DEF Request
<1> DEFINE Past == /\ pc[q] # "idle" /\ target[q] \in Job
                   /\ jobStatus[target[q]] \notin {"none", "pending"}
<1>0. <<q, f>> \in suites => Past
  BY DEF SuitesOfStarted
<1>1. ASSUME NEW r \in InitJobs \cup InitJsons,
             r \in InitJobs => BeginInitJob(r) \/ InitJobStep(r),
             r \in InitJsons => BeginInitJson(r) \/ InitJsonStep(r)
      PROVE  Past'
  <2>1. Kept(q) /\ suites' = suites
    BY <1>1, InitSteps
  <2>2. Past
    BY <1>0, <2>1
  <2>3. InsertJob(r) => \/ jobStatus'[target[q]] = jobStatus[target[q]]
                        \/ jobStatus[target[q]] = "none"
    BY <2>2 DEF InsertJob, Exists, TypeOK
  <2>4. jobStatus'[target[q]] = jobStatus[target[q]]
    BY <1>1, <2>2, <2>3, InitSteps
  <2> QED BY <2>1, <2>2, <2>4 DEF Kept
<1>2. ASSUME NEW r \in Uploads, BeginUpload(r) \/ UploadStep(r) \/ ExtractStep(r)
      PROVE  Past'
  <2>1. Past
    <3>1. CASE <<q, f>> \in suites
      BY <1>0, <3>1
    <3>2. CASE <<q, f>> \notin suites
      <4>1. StoreSuites(r)
        BY <1>2, <3>2, TaskSteps
      <4>2. q = r /\ pc[r] = "store"
        BY <3>2, <4>1 DEF StoreSuites
      <4> QED BY <4>2 DEF StartedJobs, TypeOK, ForeignKeys, Active, ExtractSteps
    <3> QED BY <3>1, <3>2
  <2>2. target'[q] = target[q] /\ pc'[q] # "idle"
    <3>1. CASE q # r
      BY <1>2, <2>1, <3>1, TaskSteps DEF Kept
    <3>2. CASE q = r
      <4>1. ~BeginUpload(r) /\ target' = target
        BY <1>2, <2>1, <3>2, TaskSteps DEF BeginUpload
      <4>2. pc'[r] # "idle"
        <5>1. CASE \/ ReceiveFile(r) \/ MarkUploaded(r) \/ CountPending(r) \/ SetCompleted(r)
                   \/ SetProcessing(r) \/ Spawn(r) \/ LoadFiles(r) \/ LoadFilesFails(r)
          BY <5>1 DEF ReceiveFile, MarkUploaded, CountPending, SetCompleted, SetProcessing,
                      Spawn, LoadFiles, LoadFilesFails, Goto, TypeOK
        <5>2. CASE FetchFile(r)
          BY <5>2 DEF FetchFile, Goto, TypeOK
        <5>3. CASE \/ StoreSuites(r) \/ SetDuration(r) \/ SetComplete(r) \/ CountJobs(r)
                   \/ FinishReport(r) \/ AnnounceReport(r)
          BY <5>3 DEF StoreSuites, SetDuration, SetComplete, CountJobs, FinishReport,
                      AnnounceReport, Goto, TypeOK
        <5> QED BY <1>2, <4>1, <5>1, <5>2, <5>3 DEF UploadStep, ExtractStep
      <4> QED BY <3>2, <4>1, <4>2
    <3> QED BY <3>1, <3>2
  <2>3. jobStatus'[target[q]] \notin {"none", "pending"}
    BY <1>2, <2>1, TaskSteps DEF SetProcessing, SetComplete, LoadFilesFails, TypeOK
  <2> QED BY <2>1, <2>2, <2>3
<1>3. CASE \/ \E r \in Request : Abort(r)
           \/ Crash
           \/ UNCHANGED vars
  <2>1. UNCHANGED <<suites, target, jobStatus>>
    BY <1>3 DEF Abort, Crash, vars, db, locals
  <2>2. pc[q] # "idle" => pc'[q] # "idle"
    BY <1>3 DEF Abort, Crash, vars, locals, Goto, TypeOK
  <2> QED BY <1>0, <2>1, <2>2
<1> QED BY <1>1, <1>2, <1>3, RequestKinds DEF Next, Rest

DeliveryInv == faults = 0 => Covered /\ Attended

\* Whichever upload sent which file, and whatever was registered in between: at
\* rest, without a failure, a job whose files have all arrived is complete and
\* has the suites of every file.
THEOREM ExtractionNeverLost == Spec => []ExtractionNotLost
<1>1. Init => Taken /\ SuitesOfStarted /\ DeliveryInv
  BY DEF Init, Request, Taken, SuitesOfStarted, DeliveryInv, Covered, Attended, AllSent, Files
<1>2. TypeOK /\ TriggerHasFiles /\ Taken /\ DeliveryInv /\ [Next]_vars => DeliveryInv'
  BY FaultsStep, CoveredStep, AttendedStep DEF DeliveryInv
<1>3. ASSUME TypeOK, SuitesOfStarted, DeliveryInv PROVE ExtractionNotLost
  <2> SUFFICES ASSUME AtRest, faults = 0, NEW j \in Job, AllSent(j)
               PROVE  /\ jobStatus[j] = "complete"
                      /\ \A f \in Files(j) :
                           /\ <<j, f>> \in extracted
                           /\ \E r \in Uploads : target[r] = j /\ <<r, f>> \in suites
    BY DEF ExtractionNotLost, AllSent
  <2>1. PICK r \in Uploads : Covers(r, j)
    BY <1>3 DEF DeliveryInv, Covered
  <2>2. target[r] = j /\ \A f \in Files(j) : <<j, f>> \in extracted /\ <<r, f>> \in suites
    BY <2>1 DEF Covers, AtRest, Active, UploadSteps, ExtractSteps, Request
  <2>3. PICK f \in Files(j) : TRUE
    BY DEF AllSent
  <2>4. jobStatus[j] \notin {"none", "pending"}
    BY <1>3, <2>2, <2>3 DEF SuitesOfStarted, Files
  <2>5. \A q \in Uploads : ~Extracts(q)
    BY DEF AtRest, Extracts, Active, UploadSteps, ExtractSteps, Request
  <2>6. jobStatus[j] \notin {"failed", "processing"}
    BY <1>3, <2>5 DEF DeliveryInv, Attended
  <2> QED BY <1>3, <2>2, <2>4, <2>6 DEF TypeOK, JobStatus
<1>4. Init => UploadedIsStored /\ GotIsStored /\ TriggerHasFiles /\ StartedJobs
  BY DEF Init, UploadedIsStored, GotIsStored, TriggerHasFiles, StartedJobs, Request
<1> QED BY <1>1, <1>2, <1>3, <1>4, TypeCorrect, UploadsStep, TriggerStep, StartedJobsStep,
           TakenStep, SuitesOfStartedStep, PTL DEF Spec

-----------------------------------------------------------------------------
(* Events *)

\* Who is about to announce what.
OwesJob(q, j) == target[q] = j /\ pc[q] \in {"startUploading", "respond", "spawn", "countJobs"}
OwesReport(q) ==
    \/ pc[q] = "respond" /\ seen[q] = "initializing"
    \/ pc[q] = "announceReport"

AnnounceInv ==
    /\ \A q \in Request : pc[q] = "startUploading" => seen[q] = "initializing"
    /\ faults = 0 =>
         /\ \A j \in Job : j \in unannounced => \E q \in Request : OwesJob(q, j)
         /\ Report \in unannounced => \E q \in Request : OwesReport(q)

\* What a step of r must do to keep AnnounceInv.
KeepsOwing(r) ==
    /\ \A q \in Request \ {r} : pc'[q] = pc[q] /\ target'[q] = target[q] /\ seen'[q] = seen[q]
    /\ pc'[r] = "startUploading" => seen'[r] = "initializing"
    /\ \A j \in Job : j \in unannounced' =>
         \/ OwesJob(r, j)'
         \/ j \in unannounced /\ ~OwesJob(r, j)
    /\ Report \in unannounced' =>
         \/ OwesReport(r)'
         \/ Report \in unannounced /\ ~OwesReport(r)

\* Such a step keeps it: the others owe what they owed.
LEMMA OwingKept ==
    ASSUME AnnounceInv, NEW r \in Request, KeepsOwing(r), faults = 0
    PROVE  AnnounceInv'
<1>1. \A q \in Request \ {r} : (OwesReport(q) => OwesReport(q)')
                               /\ \A j \in Job : OwesJob(q, j) => OwesJob(q, j)'
  BY DEF KeepsOwing, OwesJob, OwesReport
<1> QED BY <1>1 DEF AnnounceInv, KeepsOwing

\* Every action that changes a status leaves somebody who will announce it.
LEMMA AnnounceStep ==
    ASSUME TypeOK, TriggerHasFiles, AnnounceInv, [Next]_vars
    PROVE  AnnounceInv'
<1> USE DEF Request, Goto
<1>1. CASE faults' # 0
  <2>1. ASSUME NEW r \in InitJobs, BeginInitJob(r) \/ InitJobStep(r)
        PROVE  \A q \in Request : pc'[q] = "startUploading" => seen'[q] = "initializing"
    BY <2>1 DEF BeginInitJob, InitJobStep, FindJob, InsertJob, InsertJobRefused, StartUploading,
                RespondInitJob, AnnounceInv, TypeOK
  <2>2. \/ \E r \in InitJobs : BeginInitJob(r) \/ InitJobStep(r)
        \/ /\ UNCHANGED seen
           /\ \A q \in Request : pc'[q] = "startUploading" => pc[q] = "startUploading"
    <3>1. ASSUME NEW r \in InitJsons, BeginInitJson(r) \/ InitJsonStep(r)
          PROVE  UNCHANGED seen
                 /\ \A q \in Request : pc'[q] = "startUploading" => pc[q] = "startUploading"
      BY <3>1 DEF BeginInitJson, InitJsonStep, InsertFile, SetStarted, TypeOK
    <3>2. ASSUME NEW r \in Uploads, BeginUpload(r) \/ UploadStep(r)
          PROVE  UNCHANGED seen
                 /\ \A q \in Request : pc'[q] = "startUploading" => pc[q] = "startUploading"
      BY <3>2 DEF BeginUpload, UploadStep, ReceiveFile, MarkUploaded, CountPending, SetCompleted,
                  SetProcessing, Spawn, TypeOK
    <3>3. ASSUME NEW r \in Uploads, ExtractStep(r)
          PROVE  UNCHANGED seen
                 /\ \A q \in Request : pc'[q] = "startUploading" => pc[q] = "startUploading"
      BY ZenonT(30), <3>3 DEF ExtractStep, LoadFiles, LoadFilesFails, FetchFile, StoreSuites,
                  SetDuration, SetComplete, CountJobs, FinishReport, AnnounceReport, TypeOK
    <3>4. CASE \/ \E r \in Request : Abort(r)
               \/ Crash
               \/ UNCHANGED vars
      BY <3>4 DEF Abort, Crash, vars, locals, TypeOK
    <3> QED BY <3>1, <3>2, <3>3, <3>4 DEF Next, Rest
  <2> QED BY <1>1, <2>1, <2>2 DEF AnnounceInv
<1>2. CASE faults' = 0
  <2>0. faults = 0 /\ (\A r \in Request : ~Abort(r)) /\ ~Crash
    BY <1>2, FaultsStep
  <2>1. ASSUME NEW r \in InitJobs, BeginInitJob(r) \/ FindJob(r) \/ InsertJobRefused(r)
        PROVE  KeepsOwing(r)
    BY <2>1 DEF BeginInitJob, FindJob, InsertJobRefused, KeepsOwing, OwesJob, OwesReport, TypeOK
  <2>2. ASSUME NEW r \in InitJobs, InsertJob(r) PROVE KeepsOwing(r)
    BY <2>2, AbsentValues DEF InsertJob, KeepsOwing, OwesJob, OwesReport, TypeOK
  <2>3. ASSUME NEW r \in InitJobs, StartUploading(r) \/ RespondInitJob(r) PROVE KeepsOwing(r)
    BY <2>3, AbsentValues
       DEF StartUploading, RespondInitJob, KeepsOwing, OwesJob, OwesReport, TypeOK, AnnounceInv
  <2>4. ASSUME NEW r \in InitJsons, BeginInitJson(r) \/ InitJsonStep(r) PROVE KeepsOwing(r)
    BY <2>4 DEF BeginInitJson, InitJsonStep, InsertFile, SetStarted, KeepsOwing, OwesJob,
                OwesReport, TypeOK
  <2>5. ASSUME NEW r \in Uploads,
               BeginUpload(r) \/ ReceiveFile(r) \/ MarkUploaded(r) \/ CountPending(r)
               \/ SetCompleted(r)
        PROVE  KeepsOwing(r)
    BY <2>5 DEF BeginUpload, ReceiveFile, MarkUploaded, CountPending, SetCompleted, KeepsOwing,
                OwesJob, OwesReport, TypeOK
  <2>6. ASSUME NEW r \in Uploads, SetProcessing(r) \/ Spawn(r) PROVE KeepsOwing(r)
    BY <2>6, AbsentValues DEF SetProcessing, Spawn, KeepsOwing, OwesJob, OwesReport, TypeOK,
                              ForeignKeys, Active, UploadSteps
  <2>7. ASSUME NEW r \in Uploads, LoadFiles(r) \/ FetchFile(r) \/ StoreSuites(r) \/ SetDuration(r)
        PROVE  KeepsOwing(r)
    BY <2>7 DEF LoadFiles, FetchFile, StoreSuites, SetDuration, KeepsOwing, OwesJob, OwesReport,
                TypeOK
  <2>8. ASSUME NEW r \in Uploads, SetComplete(r) \/ CountJobs(r) PROVE KeepsOwing(r)
    BY <2>8, AbsentValues DEF SetComplete, CountJobs, KeepsOwing, OwesJob, OwesReport, TypeOK,
                              ForeignKeys, Active, ExtractSteps
  <2>9. ASSUME NEW r \in Uploads, FinishReport(r) \/ AnnounceReport(r) PROVE KeepsOwing(r)
    BY <2>9, AbsentValues DEF FinishReport, AnnounceReport, KeepsOwing, OwesJob, OwesReport, TypeOK
  <2>10. \A r \in Uploads : ~LoadFilesFails(r)
    BY <1>2, ExtractionStarts
  <2>11. CASE UNCHANGED vars
    BY <2>11 DEF vars, locals, history, AnnounceInv, OwesJob, OwesReport
  <2> QED BY <2>0, <2>1, <2>2, <2>3, <2>4, <2>5, <2>6, <2>7, <2>8, <2>9, <2>10, <2>11, OwingKept
             DEF Next, Rest, InitJobStep, UploadStep, ExtractStep
<1> QED BY <1>1, <1>2

\* At rest, without a failure, an event has followed every change of a status.
THEOREM StatusAlwaysAnnounced == Spec => []AnnouncedAtRest
<1>1. Init => AnnounceInv /\ TriggerHasFiles
  BY DEF Init, AnnounceInv, TriggerHasFiles, Request
<1>2. ASSUME TypeOK, AnnounceInv PROVE AnnouncedAtRest
  <2>1. AtRest => \A q \in Request : ~OwesReport(q) /\ \A j \in Job : ~OwesJob(q, j)
    BY DEF AtRest, OwesReport, OwesJob, Active, InitJobSteps, UploadSteps, ExtractSteps
  <2> QED BY <1>2, <2>1 DEF AnnouncedAtRest, AnnounceInv, TypeOK
<1> QED BY <1>1, <1>2, TypeCorrect, TriggerStep, AnnounceStep, PTL DEF Spec
=============================================================================
