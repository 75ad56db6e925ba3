CONSTANTS
    h1 = h1
    h2 = h2
    Handlers = {h1, h2}
    Configs <- ConcurrentConfigs
SPECIFICATION LVSSafetySpec
CONSTRAINT BoundedCurrentWeight
SYMMETRY HandlerSymmetry
INVARIANTS
    LVSTypeOK
PROPERTIES
    SelectsUntilPanic
