SPECIFICATION Spec
CONSTANTS
    Job = {j1, j2}
    File = {f1}
    k1 = k1
    a3 = a3
    Key = {k1}
    InitJobs = {a1, a3}
    InitJsons = {b1}
    Uploads = {u1}
    KeyOf <- Retried
    ExpectedJobs = 1
    MaxFaults = 0
    NoJob = NoJob
    NoKey = NoKey
    Report = Report
PROPERTIES
    OnlyFirstJobSetsUploading
