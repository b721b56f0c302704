-------------------------- MODULE MCReportPipeline --------------------------
(* Instances of ReportPipeline for TLC. *)
EXTENDS ReportPipeline, TLC

CONSTANTS k1, a3

\* No init_job request carries a GitHub job id; all but a3 carry the same one.
NoKeys  == [r \in InitJobs |-> NoKey]
Retried == [r \in InitJobs |-> IF r = a3 THEN NoKey ELSE k1]

\* A retry of init_job comes while its job is being registered, not when files are.
RetriesEarly ==
    (\E b \in InitJsons : pc[b] # "idle") =>
        \/ \A r \in InitJobs \ {a3} : pc[r] \in {"done", "error"}
        \/ \E r \in InitJobs \ {a3} : pc[r] = "idle"

Symmetry == Permutations(Job) \cup Permutations(File)
              \cup Permutations(InitJobs \ {a3}) \cup Permutations(InitJsons)
              \cup Permutations(Uploads)
=============================================================================
