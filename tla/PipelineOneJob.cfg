SPECIFICATION Spec
CONSTANTS
    Job = {j1}
    File = {f1, f2}
    k1 = k1
    a3 = a3
    Key = {k1}
    InitJobs = {a1}
    InitJsons = {b1, b2}
    Uploads = {u1, u2}
    KeyOf <- NoKeys
    ExpectedJobs = 1
    MaxFaults = 1
    NoJob = NoJob
    NoKey = NoKey
    Report = Report
SYMMETRY Symmetry
INVARIANTS
    TypeOK
    UploadedIsStored
    ExtractionHasFiles
    ExtractionNotLost
PROPERTIES
    ImplementsLifecycle
