SPECIFICATION NitroSpec
CONSTANTS
    Root <- MCRoot
    Bundled <- MCBundled
    Presented <- MCPresented
    MsPerSec = 2
    MaxSkew = 1
    ExpectedPcr0 = "image"
    MaxBundle = 3
    MaxClock = 6
INVARIANTS
    CrateIsExact
    SdkIsExact
