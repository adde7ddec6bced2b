CONSTANTS
    c1 = c1
    c2 = c2
    None = None
    Port69 = Port69
    Client <- MCClient
    Requests <- MCRequests
    MaxBlock = 4
    MaxData = 4
    Default = 2
    MaxServed = 2
SPECIFICATION FairSpec
CHECK_DEADLOCK FALSE
INVARIANTS
    CompleteMeansWhole
    WindowRespected
    EndsOnlyOnTrouble
PROPERTIES
    OrderedCopies
    Delivers
