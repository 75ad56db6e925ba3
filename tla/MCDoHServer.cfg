\* Every request and reply, two tries over each transport.
SPECIFICATION Spec
CONSTANTS
    Tries = 2
    Upstreams = {"udp", "tcp", "tcp-tls"}
    Ids <- MCIds
    Requests <- AllRequests
    Replies <- AllReplies
INVARIANTS
    StreamWhenNeeded
    TailoredIsPrivate
    TransactionIDKept
    ResponseTypeKnown
PROPERTIES
    Responds
