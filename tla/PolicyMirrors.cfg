SPECIFICATION ComparisonSpec
CONSTANTS
    AllowedProcessors = {"gateway"}
    MaxInputBytes = 6
    Marker <- MCMarker
    SsnShape <- MCSsnShape
    PanLength = 3
    Alphabet = {"digit", "dash", "word", "udigit", "stray"}
    MaxText = 4
    Requested = {"gateway", "other"}
INVARIANTS
    MirrorsReferenceDenials
