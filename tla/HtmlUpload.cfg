SPECIFICATION Spec
CONSTANTS
    File = {f1, f2}
    Inits = {i1, i2}
    Uploads = {u1, u2}
    Polls = {p1}
    Html = TRUE
    Modulus = 16
    MaxFaults = 1
SYMMETRY Symmetry
INVARIANTS
    TypeOK
    UploadedIsStored
    CompletedHasPath
    AllUploadedIsCompleted
