\* A small window, the deployed hysteresis.
CONSTANTS
    Samples <- FiveSamples
    WindowSamples = 4
    HysteresisSamples = 3
    Thresholds <- SmallThresholds
SPECIFICATION Spec
INVARIANTS
    TypeOK
    SpikeHarmless
PROPERTIES
    ImplementsHysteresis
    FollowsLoad
