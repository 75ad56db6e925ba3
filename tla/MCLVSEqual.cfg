CONSTANTS
    h1 = h1
    Handlers = {h1}
    Configs <- EqualConfigs
SPECIFICATION LVSSafetySpec
INVARIANTS
    GetDoesNotPanic
