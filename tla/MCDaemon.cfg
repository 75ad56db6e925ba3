\* Three PIDs: a stale file and two starts that find it.
CONSTANTS
    p1 = p1
    p2 = p2
    p3 = p3
    Pids = {p1, p2, p3}
    Files <- MCFiles
    Addresses <- MCAddresses
    Kinds <- MCKinds
SPECIFICATION DSpec
INVARIANTS
    AtMostOneDaemon
    FileNamesDaemon
    CheckInv
    ConfigSuffices
PROPERTIES
    TurnedAwayForCause
    CheckEnds
    ServesOrEnds
    DoubleStartResolved
