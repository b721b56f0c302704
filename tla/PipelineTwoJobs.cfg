SPECIFICATION Spec
CONSTANTS
    Job = {j1, j2}
    File = {f1}
    k1 = k1
    a3 = a3
    Key = {k1}
    InitJobs = {a1, a2, a3}
    InitJsons = {b1, b2}
    Uploads = {u1, u2}
    KeyOf <- Retried
    ExpectedJobs = 2
    MaxFaults = 0
    NoJob = NoJob
    NoKey = NoKey
    Report = Report
SYMMETRY Symmetry
CONSTRAINT RetriesEarly
INVARIANTS
    CompleteReportHasJobs
    CompletionNotLost
    AnnouncedAtRest
    SameKeySameJob
