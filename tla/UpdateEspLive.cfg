CONSTANTS
    p1 = p1
    p2 = p2
    a = a
    b = b
    None = None
    Torn = Torn
    Other = Other
    Path <- MCOnePath
    Content <- MCContent
    Build <- MCBuild
    Root <- MCTwoRoots
    BiosBoot = TRUE
    MidRunUpgrades = FALSE
    Interruptible <- AllPhases
    ReadErrors = TRUE
SPECIFICATION FairSpec
PROPERTIES
    Recovers
