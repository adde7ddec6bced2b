CONSTANTS
    p1 = p1
    p2 = p2
    a = a
    b = b
    None = None
    Torn = Torn
    Other = Other
    Path <- MCPath
    Content <- MCContent
    Build <- MCBuild
    Root <- MCRoot
    BiosBoot = TRUE
    MidRunUpgrades = TRUE
    Interruptible <- NotBeforeSync
    ReadErrors = FALSE
SPECIFICATION Spec
INVARIANTS
    StaleBiosNoticed
    StampHonest
    SuccessIsDurable
    PrunesOnlyOwnFiles
PROPERTIES
    DurableStampProtocol
