SPECIFICATION ResultsSpec
CONSTANTS
    f1 = f1
    f2 = f2
    c1 = c1
    c2 = c2
    File = {f1, f2}
    Inits = {i1}
    Uploads = {u1, u2}
    Polls = {}
    Html = FALSE
    Modulus = 16
    MaxFaults = 1
    Tasks = {t1}
    Case = {c1, c2}
    CasesOf <- AllCases
    Matches <- SomeMatch
    Sequence <- OneThenTwo
    NoCase = NoCase
    MaxLinkFaults = 1
    Documents <- Files
    Depth = 3
    Frameworks = {"cypress", "detox", "playwright", "jest"}
    FileCount = 2
    Extractor = {e1}
    Shot <- Shots
    AttachmentPrefix <- CiPrefix
    MaxExtractionFaults = 1
SYMMETRY Symmetry
INVARIANTS
    LinkTypeOK
    LinkingNotLost
    ResultsConserved
    SequenceOrders
    CountsMatchCases
    AttachmentsFound
