\* Every query, other servers' responses, and a doh-server with two tries.
SPECIFICATION ESpec
CONSTANTS
    Ids = {0, 7, 51966}
    Upstreams <- MCUpstreams
    Queries <- AllQueries
    HTTPResponses <- MCHTTPResponses
    DNSReplies <- MCDNSReplies
    Tries = 2
    Transports = {"udp"}
    Replies <- MCReplies
    Sizes <- MCSizes
INVARIANTS
    GoodResponseRelayed
    RequestUnderstood
    NoFalseSuccess
PROPERTIES
    ServiceSpec
