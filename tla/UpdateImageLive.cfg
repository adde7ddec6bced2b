CONSTANTS
    i1 = i1
    i2 = i2
    v1 = v1
    v2 = v2
    None = None
    Mixed = Mixed
    Image <- TwoImages
    Version <- OneVersion
    Legacy <- Nobody
    Method <- OneMethod
    Plans <- DefaultPlan
    Failing <- NotRecord
    Killable <- RecordedOnly
    Reboots = TRUE
    MaxMounts = 2
SPECIFICATION FairSpec
INVARIANTS
    BootsItsOwnRoot
PROPERTIES
    Recovers
