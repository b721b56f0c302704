SPECIFICATION AuthSpec
CONSTANTS
    t1 = t1
    t2 = t2
    b1 = b1
    Tab = {t1, t2}
    Browser = {b1}
    BrowserOf <- OneBrowser
    Account = {c1}
    AccessTTL = 1
    RefreshTTL = 2
    Leeway = 0
    Retention = 0
    MaxTokens = 3
    MaxUsers = 2
    MaxTroubles = 1
    None = None
    p1 = p1
    p2 = p2
    Policy = {p1, p2}
    Repo <- TwoRepos
    Pattern <- Patterns
    AllowedRepos <- OtherRepo
    Seeded <- AdminPolicy
    Admin = {d1, d2}
    Check = {v1, v2}
    PolicyTTL = 1
    KeyTTL = 1
    FetchTime = 1
    MaxKid = 2
    MaxEdits = 2
    MaxOutages = 1
    k1 = k1
    k2 = k2
    k3 = k3
    Key = {k1, k2, k3}
    Issued <- TwoKeys
    Call = {r1, r2}
    Duration <- Durations
    MaxCalls = 2
    MaxNow = 2
    Moving = {"session"}
SYMMETRY Symmetry
PROPERTY
    RefreshKeepsSignedIn
CHECK_DEADLOCK FALSE
