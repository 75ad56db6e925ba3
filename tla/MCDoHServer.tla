------------------------------ MODULE MCDoHServer ------------------------------
(***************************************************************************)
(* Requests for DoHServer.  How a request is parsed does not depend on     *)
(* what its question asks, so the two are varied one at a time.            *)
(***************************************************************************)
EXTENDS DoHServer

MCIds == {0, Cafe}

Base == [method |-> "GET", header |-> "dns-message", ct |-> "", accept |-> "",
         name |-> "valid", args |-> "valid", dns |-> "message", body |-> "",
         root |-> FALSE, qtype |-> "A", rd |-> TRUE, id |-> Cafe,
         ecs |-> FALSE, ip |-> TRUE]

\* Every way to say what the request and the response are.
Dispatched ==
    {[Base EXCEPT !.header = h, !.ct = c, !.accept = a, !.name = n, !.dns = d, !.body = b] :
        h \in MediaTypes, c \in MediaTypes,
        a \in {"", "json", "dns-udpwireformat", "dns-message"},
        n \in {"", "valid"}, d \in {"", "message"}, b \in {"", "message"}}

\* Every content, over both APIs.
Parsed ==
    {[Base EXCEPT !.header = h, !.name = n, !.args = a, !.dns = d, !.body = b] :
        h \in {"dns-json", "dns-message"},
        n \in {"", "invalid", "valid"}, a \in {"invalid", "valid"},
        d \in {"", "undecodable", "dnscrypt", "malformed", "message"},
        b \in {"", "unreadable", "dnscrypt", "malformed", "message"}}

\* Every question, over both APIs.
Queried ==
    {[Base EXCEPT !.header = h, !.accept = a, !.qtype = q, !.root = root,
                  !.rd = rd, !.ecs = ecs, !.ip = ip] :
        h \in {"dns-json", "dns-message"}, a \in {"", "dns-udpwireformat"},
        q \in {"A", "AXFR", "IXFR"},
        root \in BOOLEAN, rd \in BOOLEAN, ecs \in BOOLEAN, ip \in BOOLEAN}

AllRequests == Dispatched \cup Parsed \cup Queried \cup {[Base EXCEPT !.method = "OPTIONS"]}

IXFRRequests == {[Base EXCEPT !.qtype = "IXFR"]}

\* What tells the control of doDNSQuery apart.
FewReplies ==
    [Truncated : BOOLEAN, soaOnly : BOOLEAN, HaveTTL : {TRUE},
     Rcode : {"NoError"}, packs : {TRUE}]

AllReplies ==
    LET good == [Truncated |-> FALSE, soaOnly |-> FALSE, HaveTTL |-> TRUE,
                 Rcode |-> "NoError", packs |-> TRUE]
    IN  FewReplies \cup {[good EXCEPT !.Rcode = "ServFail"],
                         [good EXCEPT !.Rcode = "BadVers"],
                         [good EXCEPT !.HaveTTL = FALSE], [good EXCEPT !.packs = FALSE]}
===============================================================================
