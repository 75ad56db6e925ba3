------------------------------- MODULE MCEndToEnd -------------------------------
\* Inputs for EndToEnd.
EXTENDS EndToEnd

MCUpstreams == Upstream

\* UDP payload sizes below 512, between the sizes of the replies and above.
AllQueries ==
    {q \in [Id : {7}, isTCP : BOOLEAN, Response : BOOLEAN, one : BOOLEAN,
            passthrough : BOOLEAN, inet : BOOLEAN, packs : BOOLEAN,
            edns : BOOLEAN, udpSize : {0, 300, 1232, 4096}] : q.edns = (q.udpSize # 0)}

\* A reply that fits everywhere, one over 512 and one over 1232 bytes.
MCSizes == {100, 1000, 2000}

\* The responses of other servers; sizes and codes vary for the good ones.
MCHTTPResponses ==
    [StatusCode : {200, 204, 301, 400, 503},
     type : {"json", "dns-message", "dns-udpwireformat", "other"},
     body : {"unreadable", "neither", "json", "wire"}, size : {100}, packs : BOOLEAN,
     Rcode : {"NoError"}]
    \cup [StatusCode : {200}, type : {"json", "dns-message"}, body : {"json", "wire"},
          size : MCSizes, packs : {TRUE}, Rcode : {"NoError", "ServFail", "BadVers"}]

MCDNSReplies == [size : MCSizes, packs : BOOLEAN, Rcode : {"NoError"}]

\* What the server's upstreams reply: as asked, a failure, a code above 15,
\* truncated, and a message that cannot be packed.
MCReplies ==
    LET good == [Truncated |-> FALSE, soaOnly |-> FALSE, HaveTTL |-> TRUE,
                 Rcode |-> "NoError", packs |-> TRUE]
    IN  {good, [good EXCEPT !.Rcode = "ServFail"], [good EXCEPT !.Rcode = "BadVers"],
         [good EXCEPT !.Truncated = TRUE], [good EXCEPT !.packs = FALSE]}
===============================================================================
