SPECIFICATION FairSpec
CONSTANTS
    AllowedProcessors = {"gateway"}
    MaxInputBytes = 4
    Marker <- MCMarker
    SsnShape <- MCSsnShape
    PanLength = 3
    Bodies <- AllBodies
    s1 = s1
    s2 = s2
    Slots = {s1, s2}
    MaxEpoch = 2
    MaxProofs = 1
INVARIANTS
    TypeOK
    LogPassesAudit
    ZeroizationTruthful
    SuccessEarned
PROPERTY
    EverySessionProved
