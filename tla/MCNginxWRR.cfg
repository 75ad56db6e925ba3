CONSTANTS
    h1 = h1
    h2 = h2
    Handlers = {h1, h2}
    Configs <- MCConfigs
SPECIFICATION NginxSpec
CONSTRAINT BoundedCurrentWeight
INVARIANTS
    Conservation
    ShareBounded
PROPERTIES
    SafetySpec
    NoStarvation
