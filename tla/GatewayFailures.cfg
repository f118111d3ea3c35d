SPECIFICATION GatewaySpec
CONSTANTS
    AllowedProcessors = {"gateway"}
    MaxInputBytes = 4
    Marker <- MCMarker
    SsnShape <- MCSsnShape
    PanLength = 3
    LedgerRequests = {}
    Bodies <- Prompts
    s1 = s1
    s2 = s2
    Slots = {s1, s2}
    c1 = c1
    Clients = {c1}
    MaxEpoch = 2
    MaxProofs = 1
SYMMETRY ClientSlotSymmetry
INVARIANT
    FailuresAreProved
