SPECIFICATION ComparisonSpec
CONSTANTS
    AllowedProcessors = {"gateway"}
    MaxInputBytes = 6
    Marker <- MCMarker
    SsnShape <- MCSsnShape
    PanLength = 3
    Alphabet = {"digit", "dash", "word", "blank", "mark"}
    MaxText = 7
    Requested = {"gateway", "other"}
INVARIANTS
    AsciiDenialsAgree
    ExtraDenialsArePii
