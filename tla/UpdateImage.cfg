CONSTANTS
    i1 = i1
    i2 = i2
    v1 = v1
    v2 = v2
    None = None
    Mixed = Mixed
    Image <- OneImage
    Version <- TwoVersions
    Legacy <- OneLegacy
    Method <- AllMethods
    Plans <- AllPlans
    Failing <- NotRecord
    Killable <- RecordedOnly
    Reboots = TRUE
    MaxMounts = 2
SPECIFICATION Spec
INVARIANTS
    SuccessMeansPopulated
PROPERTIES
    StampGoesLast
