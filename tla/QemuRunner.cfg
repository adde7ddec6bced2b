CONSTANTS
    booting = booting
    login = login
    panic = panic
    junk = junk
    eBooting = eBooting
    eLogin = eLogin
    ePanic = ePanic
    file1 = file1
    None = None
    Line <- MCLine
    Decodable <- MCDecodable
    Expr <- MCExpr
    Matches <- MCMatches
    Path <- MCPath
    Chunks = 2
    Code <- MCCode
    Options <- MCOptions
    MaxOut = 1
    MaxMsgs = 2
    MaxBoots = 2
SPECIFICATION FairSpec
CHECK_DEADLOCK FALSE
INVARIANTS
    SuccessMeansScript
    ExpectationsMet
    DownloadsIntact
    NotCutShort
    NoOrphan
PROPERTIES
    Ends
