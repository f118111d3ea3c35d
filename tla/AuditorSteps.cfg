SPECIFICATION Spec
CONSTANTS
    MaxBoots = 2
    MaxSize = 3
    BundleSize = 3
    LieSize = 1
    MaxPath = 3
INVARIANT
    StepsAreAttested
