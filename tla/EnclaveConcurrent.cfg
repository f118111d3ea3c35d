SPECIFICATION Spec
CONSTANTS
    AllowedProcessors = {"gateway"}
    MaxInputBytes = 4
    Marker <- MCMarker
    SsnShape <- MCSsnShape
    PanLength = 3
    Bodies <- PinnedBody
    s1 = s1
    s2 = s2
    Slots = {s1, s2}
    MaxEpoch = 2
    MaxProofs = 3
SYMMETRY SlotSymmetry
INVARIANTS
    CountersExact
    RepliesVerify
    HeadsAuthentic
PROPERTY
    ImplementsAuditLog
