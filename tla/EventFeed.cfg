SPECIFICATION FairFeed
CONSTANTS
    Changes <- Kinds
    Query <- ListPage
    Capacity = 1
    PingInterval = 3
    PongTimeout = 1
    MaxAttempts = 1
    MaxChanges = 2
    MaxTroubles = 1
CONSTRAINT OneKindInTrouble
INVARIANTS
    FeedTypeOK
    BehindHasCause
    LiveNotTimedOut
    SilenceBounded
PROPERTIES
    Converges
    Settles
CHECK_DEADLOCK FALSE
