CONSTANTS
    h1 = h1
    Handlers = {h1}
    Configs <- SequentialConfigs
SPECIFICATION LVSSpec
INVARIANTS
    GetDoesNotPanic
    GcdIsGreatest
PROPERTIES
    GetReturns
    Spec
