\* An IXFR query whose UDP exchange fails.
SPECIFICATION Spec
CONSTANTS
    Tries = 3
    Upstreams = {"udp"}
    Ids <- MCIds
    Requests <- IXFRRequests
    Replies <- FewReplies
INVARIANTS
    FailsOnlyAfterTries
