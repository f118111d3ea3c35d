SPECIFICATION Spec
CONSTANTS
    MaxBoots = 2
    MaxSize = 17
    BundleSize = 3
    LieSize = 4
    MaxPath = 3
INVARIANTS
    ConsistencyComplete
    InclusionComplete
    InclusionSound
    BundleExact
PROPERTY
    AcceptedViewsExtend
