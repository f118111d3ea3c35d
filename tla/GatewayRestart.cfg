SPECIFICATION GatewaySpec
CONSTANTS
    AllowedProcessors = {"gateway"}
    MaxInputBytes = 4
    Marker <- MCMarker
    SsnShape <- MCSsnShape
    PanLength = 3
    LedgerRequests <- Questions
    Bodies <- Prompts
    s1 = s1
    s2 = s2
    Slots = {s1, s2}
    c1 = c1
    Clients = {c1}
    MaxEpoch = 2
    MaxProofs = 2
SYMMETRY ClientSlotSymmetry
INVARIANTS
    ConnectionsOK
    AnswersOwnCall
    GatewayTypeOK
    ReceiptsHold
    LoggedAtMostOnce
