CONSTANTS
    i1 = i1
    i2 = i2
    v1 = v1
    v2 = v2
    None = None
    Mixed = Mixed
    Image <- OneImage
    Version <- TwoVersions
    Legacy <- Nobody
    Method <- FuseMethods
    Plans <- DefaultPlan
    Failing <- AllCommands
    Killable <- Nobody
    Reboots = FALSE
    MaxMounts = 2
SPECIFICATION Spec
INVARIANTS
    StampIsTrue
