CONSTANTS
    biosT = biosT
    espT = espT
    rootT = rootT
    dataT = dataT
    id1 = id1
    id2 = id2
    None = None
    Type <- MCType
    PartTypes <- MCPartTypes
    Foreign <- MCForeign
    Id <- MCId
SPECIFICATION FairSpec
INVARIANTS
    SuccessMeansInstalled
    BootsCompleteRoot
PROPERTIES
    ChangesWhatWasAgreed
    Recovers
