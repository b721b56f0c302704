--------------------------- MODULE ReportLifecycle ---------------------------
(***************************************************************************)
(* What the pipeline promises to somebody who only looks at the statuses   *)
(* of a report and of its jobs: a job is never complete before it has been *)
(* processing, it does not return to pending, and the report is complete   *)
(* only after expected_jobs different jobs have delivered results.         *)
(* A job may be processed again at any time, and a report that is already  *)
(* complete may be shown as uploading again.                               *)
(***************************************************************************)
EXTENDS Naturals, FiniteSets

CONSTANTS Job, ExpectedJobs

VARIABLES report, job, delivered

lifecycle == <<report, job, delivered>>

Init == /\ report = "initializing"
        /\ job = [j \in Job |-> "none"]
        /\ delivered = {}

AddJob(j) == /\ job[j] = "none"
             /\ job' = [job EXCEPT ![j] = "pending"]
             /\ UNCHANGED <<report, delivered>>

ShowUploading == /\ \E j \in Job : job[j] # "none"
                 /\ report' = "uploading"
                 /\ UNCHANGED <<job, delivered>>

Process(j) == /\ job[j] # "none"
              /\ job' = [job EXCEPT ![j] = "processing"]
              /\ UNCHANGED <<report, delivered>>

Deliver(j) == /\ job[j] \notin {"none", "pending"}
              /\ job' = [job EXCEPT ![j] = "complete"]
              /\ delivered' = delivered \cup {j}
              /\ UNCHANGED report

Fail(j) == /\ job[j] \notin {"none", "pending"}
           /\ job' = [job EXCEPT ![j] = "failed"]
           /\ UNCHANGED <<report, delivered>>

CompleteReport == /\ Cardinality(delivered) >= ExpectedJobs
                  /\ report' = "complete"
                  /\ UNCHANGED <<job, delivered>>

Next == \/ \E j \in Job : AddJob(j) \/ Process(j) \/ Deliver(j) \/ Fail(j)
        \/ ShowUploading
        \/ CompleteReport

Spec == Init /\ [][Next]_lifecycle
=============================================================================
