CONSTANTS
    p1 = p1
    p2 = p2
    b1 = b1
    b2 = b2
    b3 = b3
    Upstream = Upstream
    None = None
    Package <- MCPackage
    Build <- MCBuild
    Makes <- MCMakes
    Wanted <- MCPackage
    LateUpgrades = FALSE
SPECIFICATION FairSpec
INVARIANTS
    LockedBetweenCalls
    SuccessIsComplete
PROPERTIES
    BuildsStay
    UseInstallsNamed
    Recovers
