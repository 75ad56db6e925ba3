---------------------------- MODULE DoHServerProofs ----------------------------
(***************************************************************************)
(* The handler of doh-server, for every number of tries, every set of      *)
(* requests, IDs and upstream replies: what it writes is what it is        *)
(* allowed to write, whatever the upstream servers do.                     *)
(***************************************************************************)
EXTENDS DoHServer, TLAPS

\* Where doDNSQuery runs, or has ended with a panic.
Querying == {"try", "udp", "tcp", "tcp-tls", "truncation", "ixfr", "tried", "panicked"}

\* The query was made from the request, which was accepted.
QueryMade ==
    /\ request.method # "OPTIONS" /\ ErrCode(request) = 0
    /\ \E id \in Ids : query = QueryOf(request, id)

\* What a request that is answered at once is answered with.
AtOnce ==
    \/ /\ request.method = "OPTIONS"
       /\ written[1] = [status |-> 200, type |-> "", id |-> 0, cache |-> "", Rcode |-> "none"]
    \/ ErrCode(request) = 444 /\ written[1] = DNSCryptProxyResponse
    \/ ErrCode(request) \in {400, 415} /\ written[1] = FormatError(ErrCode(request))

\* What a reply is given back as.
Generated ==
    CASE ResponseType(request) = "json" -> GenerateResponseGoogle(query, response)
      [] OTHER -> GenerateResponseIETF(query, response)

\* Before the query nothing has happened, and during it nothing is written.
ProgressInv ==
    /\ request \in Requests
    /\ pc = "received" =>
          query = NoQuery /\ written = << >> /\ ~err /\ via = "none" /\ try = 0
    /\ pc \in Querying => QueryMade /\ written = << >>
    /\ pc = "try" => try = 0 \/ err
    /\ pc \in {"truncation", "ixfr"} => err \/ response # NoReply

\* What came over UDP: which checks of doDNSQuery a reply has passed by now.
DatagramInv ==
    /\ pc \in {"udp", "truncation"} \/ via = "udp" => query.qtype # "AXFR"
    /\ pc = "ixfr" /\ via = "udp" /\ ~err => ~response.Truncated
    /\ pc \in {"tried", "done"} /\ via = "udp" /\ ~err =>
          ~response.Truncated /\ (query.qtype = "IXFR" => ~response.soaOnly)

\* How the handler has ended.
EndInv ==
    /\ pc = "done" =>
          /\ Len(written) = 1
          /\ \/ query = NoQuery /\ ~err /\ via = "none" /\ AtOnce
             \/ QueryMade /\ err /\ try = Tries /\ written[1] = FormatError(503)
             \/ QueryMade /\ ~err /\ written[1] = Generated
    /\ pc = "panicked" => query.qtype = "IXFR" /\ err

IndInv == TypeOK /\ ProgressInv /\ DatagramInv /\ EndInv

-------------------------------------------------------------------------------
LEMMA ErrCodes == ASSUME NEW r \in Request PROVE ErrCode(r) \in {0, 400, 415, 444}
  BY DEF ErrCode, ParseGoogle, ParseIETF

\* A request that is accepted has a response type, whatever it accepts.
LEMMA ResponseTypes ==
    ASSUME NEW r \in Request, ErrCode(r) = 0
    PROVE  ResponseType(r) \in {"json", "dns-message"}
  BY DEF ErrCode, ResponseType, Wire

LEMMA QueryType ==
    ASSUME NEW r \in Request, NEW i \in Ids
    PROVE  /\ QueryOf(r, i) \in Query
           /\ QueryOf(r, i) # NoQuery
           /\ QueryOf(r, i).isTailored = ~r.ecs
           /\ QueryOf(r, i).subnet = Subnet(r)
           /\ ContentType(r) # "dns-json" => QueryOf(r, i).transactionID = r.id
  <1> DEFINE q == IF ContentType(r) = "dns-json" THEN QueryGoogle(r, i) ELSE QueryIETF(r, i)
  <1>1. /\ r.qtype \in {"A", "AXFR", "IXFR"} /\ r.rd \in BOOLEAN /\ r.id \in Ids
        /\ r.ecs \in BOOLEAN /\ (~r.ecs) \in BOOLEAN /\ r.root \in BOOLEAN
    BY DEF Request
  <1>2. Subnet(r) \in {"request", "client", "none"} /\ (Subnet(r) = "none" => ~r.ecs)
    BY DEF Subnet
  <1>3. q \in Query /\ q.isTailored = (~r.ecs) /\ q.subnet = Subnet(r)
    <2>1. CASE ContentType(r) = "dns-json"
      <3>1. q = QueryGoogle(r, i)
        BY <2>1
      <3> HIDE DEF q
      <3> QED
        BY <1>1, <1>2, <3>1, IdsAssumption DEF Query, QueryGoogle
    <2>2. CASE ContentType(r) # "dns-json"
      <3>1. q = QueryIETF(r, i)
        BY <2>2
      <3> HIDE DEF q
      <3> QED
        BY <1>1, <1>2, <3>1 DEF Query, QueryIETF
    <2> QED
      BY <2>1, <2>2
  <1>4. ContentType(r) # "dns-json" => q.transactionID = r.id
    BY DEF QueryIETF
  <1>5. QueryOf(r, i) = PatchRootRD(r, q)
    BY DEF QueryOf
  <1> HIDE DEF q
  <1>6. QueryOf(r, i) = [q EXCEPT !.rd = q.rd \/ r.root]
    BY <1>5 DEF PatchRootRD
  <1>7. (q.rd \/ r.root) \in BOOLEAN
    OBVIOUS
  <1>8. /\ QueryOf(r, i) \in Query
        /\ QueryOf(r, i).isTailored = q.isTailored
        /\ QueryOf(r, i).subnet = q.subnet
        /\ QueryOf(r, i).transactionID = q.transactionID
    BY <1>3, <1>6, <1>7 DEF Query
  <1>9. NoQuery.isTailored = FALSE /\ NoQuery.subnet = "none"
    BY DEF NoQuery
  <1> QED
    BY <1>2, <1>3, <1>4, <1>8, <1>9

LEMMA NoReplyRcode == NoReply.Rcode = "none" /\ NoReply \notin Replies
  <1>1. NoReply \notin Reply
    BY DEF Reply, NoReply
  <1> QED
    BY <1>1, RepliesAssumption DEF NoReply

LEMMA ReplyFields ==
    ASSUME NEW m \in Replies \cup {NoReply}
    PROVE  /\ m.Truncated \in BOOLEAN /\ m.soaOnly \in BOOLEAN
           /\ m.HaveTTL \in BOOLEAN /\ m.packs \in BOOLEAN
           /\ m.Rcode \in {"none", "NoError", "ServFail", "BadVers"}
  <1>1. CASE m = NoReply
    BY <1>1 DEF NoReply
  <1>2. CASE m \in Replies
    <2>1. m \in Reply
      BY <1>2, RepliesAssumption
    <2> QED
      BY <2>1 DEF Reply
  <1> QED
    BY <1>1, <1>2

\* Every HTTP response that the handler writes is one.
LEMMA AtOnceTypes ==
    /\ [status |-> 200, type |-> "", id |-> 0, cache |-> "", Rcode |-> "none"] \in HTTPResponse
    /\ DNSCryptProxyResponse \in HTTPResponse
    /\ FormatError(400) \in HTTPResponse /\ FormatError(415) \in HTTPResponse
    /\ FormatError(500) \in HTTPResponse /\ FormatError(503) \in HTTPResponse
  BY IdsAssumption DEF HTTPResponse, DNSCryptProxyResponse, FormatError

LEMMA GeneratedType ==
    ASSUME NEW q \in Query, NEW m \in Replies \cup {NoReply}
    PROVE  /\ GenerateResponseGoogle(q, m) \in HTTPResponse
           /\ GenerateResponseIETF(q, m) \in HTTPResponse
  <1>1. Status(m) \in {200, 503} /\ CacheControl(q, m) \in {"", "private", "public"}
    BY DEF Status, CacheControl
  <1>2. m.Rcode \in {"none", "NoError", "ServFail", "BadVers"}
    BY ReplyFields
  <1>3. q.transactionID \in Ids /\ 0 \in Ids
    BY IdsAssumption DEF Query
  <1>4. FormatError(500) \in HTTPResponse
    BY AtOnceTypes
  <1>5. GenerateResponseGoogle(q, m) \in HTTPResponse
    <2>1. [status |-> Status(m), type |-> "json", id |-> 0,
           cache |-> CacheControl(q, m), Rcode |-> m.Rcode] \in HTTPResponse
      BY <1>1, <1>2, <1>3 DEF HTTPResponse
    <2> QED
      BY <2>1, <1>4, Zenon DEF GenerateResponseGoogle
  <1>6. GenerateResponseIETF(q, m) \in HTTPResponse
    <2>1. [status |-> Status(m), type |-> "dns-message", id |-> q.transactionID,
           cache |-> CacheControl(q, m), Rcode |-> m.Rcode] \in HTTPResponse
      BY <1>1, <1>2, <1>3 DEF HTTPResponse
    <2> QED
      BY <2>1, <1>4, Zenon DEF GenerateResponseIETF
  <1> QED
    BY <1>5, <1>6

\* The first response is the only one.
LEMMA WriteOnce ==
    ASSUME written = << >>, NEW resp \in HTTPResponse, Write(resp)
    PROVE  /\ written' \in Seq(HTTPResponse) /\ Len(written') = 1
           /\ written'[1] = resp
           /\ pc' = "done"
  BY DEF Write

-------------------------------------------------------------------------------
LEMMA InitIndInv == Init => IndInv
  <1> SUFFICES ASSUME Init PROVE IndInv
    OBVIOUS
  <1>1. TypeOK
    <2>1. NoQuery \in Query
      BY IdsAssumption DEF Query, NoQuery
    <2>2. request \in Request
      BY RequestsAssumption DEF Init
    <2>3. try \in 0..Tries
      BY ConfigAssumption DEF Init
    <2>4. query \in Query /\ response \in Replies \cup {NoReply} /\ err \in BOOLEAN
      BY <2>1 DEF Init
    <2>5. written \in Seq(HTTPResponse) /\ Len(written) <= 1
      BY DEF Init
    <2> QED
      BY <2>2, <2>3, <2>4, <2>5 DEF Init, TypeOK
  <1> QED
    BY <1>1 DEF Init, IndInv, ProgressInv, DatagramInv, EndInv, Querying

\* An exchange leaves the variables with their types, and without an error there
\* is a reply.
LEMMA ExchangeType ==
    ASSUME TypeOK, NEW t \in {"udp", "tcp", "tcp-tls"},
           NEW next \in {"truncation", "ixfr", "tried"}, Exchange(t, next)
    PROVE  /\ TypeOK' /\ pc' = next /\ via' = t
           /\ err' \/ response' # NoReply
           /\ UNCHANGED <<request, query, try, written>>
  <1>1. /\ UNCHANGED <<request, query, try, written>> /\ pc' = next /\ via' = t
        /\ err' \in BOOLEAN /\ response' \in Replies \cup {NoReply}
        /\ err' \/ response' \in Replies
    BY DEF Exchange
  <1> QED
    BY <1>1, NoReplyRcode DEF TypeOK

LEMMA NextTypeOK == IndInv /\ [Next]_vars => TypeOK'
  <1> SUFFICES ASSUME IndInv, [Next]_vars PROVE TypeOK'
    OBVIOUS
  <1>0. TypeOK
    BY DEF IndInv
  <1>1. CASE Respond
    <2>1. written = << >>
      BY <1>1 DEF IndInv, ProgressInv, Respond
    <2>2. PICK resp \in HTTPResponse : Write(resp)
      <3>1. ErrCode(request) \in {400, 415} => FormatError(ErrCode(request)) \in HTTPResponse
        BY AtOnceTypes
      <3>2. \/ Write([status |-> 200, type |-> "", id |-> 0, cache |-> "", Rcode |-> "none"])
            \/ Write(DNSCryptProxyResponse)
            \/ ErrCode(request) \in {400, 415} /\ Write(FormatError(ErrCode(request)))
        BY <1>1, Zenon DEF Respond
      <3> QED
        BY <3>1, <3>2, AtOnceTypes, Zenon
    <2>3. /\ written' \in Seq(HTTPResponse) /\ Len(written') = 1 /\ pc' = "done"
      BY <2>1, <2>2, WriteOnce, Zenon
    <2>4. UNCHANGED <<request, query, try, response, err, via>>
      BY <1>1, Zenon DEF Respond
    <2> QED
      BY <1>0, <2>3, <2>4 DEF TypeOK
  <1>2. CASE Accept
    <2>1. query' \in Query
      BY <1>0, <1>2, QueryType DEF Accept, TypeOK
    <2> QED
      BY <1>0, <1>2, <2>1 DEF Accept, TypeOK
  <1>3. ASSUME NEW t \in Upstreams, PickUpstream(t) PROVE TypeOK'
    <2>1. try' \in 0..Tries
      BY <1>0, <1>3, ConfigAssumption DEF PickUpstream, TypeOK
    <2>2. pc' \in {"udp", "tcp", "tcp-tls"}
      BY <1>3, ConfigAssumption DEF PickUpstream
    <2> QED
      BY <1>0, <1>3, <2>1, <2>2 DEF PickUpstream, TypeOK
  <1>4. CASE ExchangeStream \/ ExchangeUDP \/ RetryTruncated \/ RetryIXFR
    BY <1>0, <1>4, ExchangeType DEF ExchangeStream, ExchangeUDP, RetryTruncated, RetryIXFR
  <1>5. CASE NotTruncated \/ NilPanics \/ NoIXFR \/ Retry
    BY <1>0, <1>5 DEF NotTruncated, NilPanics, NoIXFR, Retry, TypeOK
  <1>6. CASE GiveUp
    <2>1. written = << >>
      BY <1>6 DEF IndInv, ProgressInv, GiveUp, Querying
    <2>2. FormatError(503) \in HTTPResponse /\ Write(FormatError(503))
      BY <1>6, AtOnceTypes DEF GiveUp
    <2>3. written' \in Seq(HTTPResponse) /\ Len(written') = 1 /\ pc' = "done"
      BY <2>1, <2>2, WriteOnce, Zenon
    <2> QED
      BY <1>0, <1>6, <2>3 DEF GiveUp, TypeOK
  <1>7. CASE Answer
    <2>1. written = << >>
      BY <1>7 DEF IndInv, ProgressInv, Answer, Querying
    <2>2. CASE pc' = "panicked" /\ UNCHANGED written
      BY <1>0, <1>7, <2>2 DEF Answer, TypeOK
    <2>3. CASE \/ Write(GenerateResponseGoogle(query, response))
               \/ Write(GenerateResponseIETF(query, response))
      <3>1. written' \in Seq(HTTPResponse) /\ Len(written') = 1 /\ pc' = "done"
        BY <1>0, <2>1, <2>3, GeneratedType, WriteOnce DEF TypeOK
      <3> QED
        BY <1>0, <1>7, <3>1 DEF Answer, TypeOK
    <2> QED
      BY <1>7, <2>2, <2>3 DEF Answer
  <1>8. CASE Done \/ UNCHANGED vars
    BY <1>0, <1>8 DEF Done, vars, TypeOK
  <1> QED
    BY <1>1, <1>2, <1>3, <1>4, <1>5, <1>6, <1>7, <1>8 DEF Next, Step

LEMMA QueryStaysMade ==
    ASSUME QueryMade, UNCHANGED <<request, query>> PROVE QueryMade'
  BY DEF QueryMade

LEMMA NextProgressInv == IndInv /\ [Next]_vars => ProgressInv'
  <1> SUFFICES ASSUME IndInv, [Next]_vars PROVE ProgressInv'
    OBVIOUS
  <1>0. TypeOK /\ ProgressInv /\ EndInv
    BY DEF IndInv
  <1> USE DEF ProgressInv, Querying
  <1>1. CASE Respond
    BY <1>0, <1>1 DEF Respond, Write
  <1>2. CASE Accept
    <2>1. PICK i \in Ids : query' = QueryOf(request, i)
      BY <1>2 DEF Accept
    <2>2. QueryMade'
      BY <1>2, <2>1 DEF Accept, QueryMade
    <2>3. try = 0 \/ err
      BY <1>0, <1>2 DEF Accept
    <2> QED
      BY <1>0, <1>2, <2>2, <2>3 DEF Accept
  <1>3. ASSUME NEW t \in Upstreams, PickUpstream(t) PROVE ProgressInv'
    <2>1. pc' \in {"udp", "tcp", "tcp-tls"}
      BY <1>3, ConfigAssumption DEF PickUpstream
    <2> QED
      BY <1>0, <1>3, <2>1, QueryStaysMade DEF PickUpstream
  <1>4. ASSUME NEW t \in {"udp", "tcp", "tcp-tls"}, NEW next \in {"truncation", "ixfr", "tried"},
               pc \in Querying, Exchange(t, next)
        PROVE  ProgressInv'
    BY <1>0, <1>4, ExchangeType, QueryStaysMade
  <1>5. CASE ExchangeStream \/ ExchangeUDP \/ RetryTruncated \/ RetryIXFR
    BY <1>4, <1>5 DEF ExchangeStream, ExchangeUDP, RetryTruncated, RetryIXFR
  <1>6. CASE NotTruncated
    BY <1>0, <1>6, QueryStaysMade DEF NotTruncated
  <1>7. CASE NilPanics \/ NoIXFR \/ Retry
    BY <1>0, <1>7, QueryStaysMade DEF NilPanics, NoIXFR, Retry
  <1>8. CASE GiveUp
    BY <1>0, <1>8 DEF GiveUp, Write
  <1>9. CASE Answer
    <2>1. \/ pc' = "done"
          \/ pc' = "panicked" /\ UNCHANGED written
      BY <1>9, Zenon DEF Answer, Write
    <2>2. pc = "tried" /\ UNCHANGED <<request, query>>
      BY <1>9, Zenon DEF Answer
    <2> QED
      BY <1>0, <2>1, <2>2, QueryStaysMade
  <1>10. CASE Done \/ UNCHANGED vars
    BY <1>0, <1>10, QueryStaysMade DEF Done, vars
  <1> QED
    BY <1>1, <1>2, <1>3, <1>5, <1>6, <1>7, <1>8, <1>9, <1>10 DEF Next, Step

LEMMA NextDatagramInv == IndInv /\ [Next]_vars => DatagramInv'
  <1> SUFFICES ASSUME IndInv, [Next]_vars PROVE DatagramInv'
    OBVIOUS
  <1>0. TypeOK /\ ProgressInv /\ DatagramInv
    BY DEF IndInv
  <1> USE DEF DatagramInv
  <1>1. CASE Respond
    <2>1. via' = "none" /\ pc' = "done"
      BY <1>0, <1>1, Zenon DEF Respond, Write, ProgressInv
    <2> QED
      BY <2>1
  <1>2. CASE Accept
    BY <1>0, <1>2 DEF Accept, ProgressInv
  <1>3. ASSUME NEW t \in Upstreams, PickUpstream(t) PROVE DatagramInv'
    BY <1>0, <1>3, ConfigAssumption DEF PickUpstream
  <1>4. CASE ExchangeStream
    BY <1>0, <1>4, ExchangeType DEF ExchangeStream
  <1>5. CASE ExchangeUDP
    BY <1>0, <1>5, ExchangeType DEF ExchangeUDP
  <1>6. CASE RetryTruncated \/ RetryIXFR
    BY <1>0, <1>6, ExchangeType DEF RetryTruncated, RetryIXFR
  <1>7. CASE NotTruncated
    BY <1>0, <1>7 DEF NotTruncated
  <1>8. CASE NilPanics \/ NoIXFR \/ Retry
    BY <1>0, <1>8 DEF NilPanics, NoIXFR, Retry
  <1>9. CASE GiveUp
    <2>1. err \/ via # "udp"
      BY <1>0, <1>9, ConfigAssumption DEF GiveUp, ProgressInv
    <2> QED
      BY <1>0, <1>9, <2>1 DEF GiveUp, Write
  <1>10. CASE Answer
    <2>1. pc = "tried" /\ pc' \in {"done", "panicked"} /\ UNCHANGED <<query, response, err, via>>
      BY <1>10, Zenon DEF Answer, Write
    <2> QED
      BY <1>0, <2>1
  <1>11. CASE Done \/ UNCHANGED vars
    BY <1>0, <1>11 DEF Done, vars
  <1> QED
    BY <1>1, <1>2, <1>3, <1>4, <1>5, <1>6, <1>7, <1>8, <1>9, <1>10, <1>11 DEF Next, Step

LEMMA NextEndInv == IndInv /\ [Next]_vars => EndInv'
  <1> SUFFICES ASSUME IndInv, [Next]_vars PROVE EndInv'
    OBVIOUS
  <1>0. TypeOK /\ ProgressInv /\ EndInv
    BY DEF IndInv
  <1>1. CASE Respond
    <2>1. pc = "received" /\ UNCHANGED <<request, query, err, via>>
      BY <1>1, Zenon DEF Respond
    <2>2. query = NoQuery /\ written = << >> /\ ~err /\ via = "none"
      BY <1>0, <2>1 DEF ProgressInv
    <2>3. pc' = "done" /\ Len(written') = 1 /\ AtOnce'
      <3>1. CASE /\ request.method = "OPTIONS"
                 /\ Write([status |-> 200, type |-> "", id |-> 0, cache |-> "", Rcode |-> "none"])
        BY <2>1, <2>2, <3>1, AtOnceTypes, WriteOnce, Zenon DEF AtOnce
      <3>2. CASE ErrCode(request) = 444 /\ Write(DNSCryptProxyResponse)
        BY <2>1, <2>2, <3>2, AtOnceTypes, WriteOnce DEF AtOnce
      <3>3. CASE ErrCode(request) \in {400, 415} /\ Write(FormatError(ErrCode(request)))
        <4>1. FormatError(ErrCode(request)) \in HTTPResponse
          BY <3>3, AtOnceTypes
        <4>2. pc' = "done" /\ Len(written') = 1 /\ written'[1] = FormatError(ErrCode(request))
          BY <2>2, <3>3, <4>1, WriteOnce, Zenon
        <4> QED
          BY <2>1, <3>3, <4>2, Zenon DEF AtOnce
      <3> QED
        BY <1>1, <3>1, <3>2, <3>3, Zenon DEF Respond
    <2> QED
      BY <2>1, <2>2, <2>3 DEF EndInv
  <1>2. CASE Accept
    BY <1>2 DEF Accept, EndInv
  <1>3. ASSUME NEW t \in Upstreams, PickUpstream(t) PROVE EndInv'
    <2>1. pc' \in {"udp", "tcp", "tcp-tls"}
      BY <1>3, ConfigAssumption DEF PickUpstream
    <2> QED
      BY <2>1 DEF EndInv
  <1>4. CASE ExchangeStream \/ ExchangeUDP \/ RetryTruncated \/ RetryIXFR
    <2>1. pc' \in {"truncation", "ixfr", "tried"}
      BY <1>4 DEF ExchangeStream, ExchangeUDP, RetryTruncated, RetryIXFR, Exchange
    <2> QED
      BY <2>1 DEF EndInv
  <1>5. CASE NotTruncated \/ NoIXFR \/ Retry
    BY <1>5 DEF NotTruncated, NoIXFR, Retry, EndInv
  <1>6. CASE NilPanics
    BY <1>0, <1>6 DEF NilPanics, EndInv, ProgressInv
  <1>7. CASE GiveUp
    <2>1. QueryMade /\ written = << >> /\ err /\ try = Tries
      BY <1>0, <1>7, ConfigAssumption DEF GiveUp, ProgressInv, Querying
    <2>2. UNCHANGED <<request, query, try, err>> /\ Write(FormatError(503))
      BY <1>7 DEF GiveUp
    <2>3. pc' = "done" /\ Len(written') = 1 /\ written'[1] = FormatError(503)
      BY <2>1, <2>2, AtOnceTypes, WriteOnce, Zenon
    <2>4. QueryMade' /\ err' /\ try' = Tries
      BY <2>1, <2>2, QueryStaysMade
    <2> QED
      BY <2>3, <2>4 DEF EndInv, FormatError
  <1>8. CASE Answer
    <2>1. pc = "tried" /\ ~err /\ UNCHANGED <<request, query, try, response, err>>
      BY <1>8, Zenon DEF Answer
    <2>2. QueryMade /\ written = << >> /\ request \in Request /\ query \in Query
          /\ response \in Replies \cup {NoReply}
      BY <1>0, <2>1 DEF ProgressInv, Querying, TypeOK
    <2>3. ResponseType(request) \in {"json", "dns-message"}
      BY <2>2, ResponseTypes DEF QueryMade
    <2>4. Write(Generated)
      <3>1. CASE ResponseType(request) = "json"
        BY <1>8, <3>1, Zenon DEF Answer, Generated
      <3>2. CASE ResponseType(request) = "dns-message"
        <4>1. ResponseType(request) # "json"
          BY <3>2
        <4> QED
          BY <1>8, <3>2, <4>1, Zenon DEF Answer, Generated
      <3> QED
        BY <2>3, <3>1, <3>2
    <2>5. Generated \in HTTPResponse /\ Generated' = Generated
      BY <2>1, <2>2, GeneratedType DEF Generated
    <2>6. pc' = "done" /\ Len(written') = 1 /\ written'[1] = Generated'
      BY <2>2, <2>4, <2>5, WriteOnce, Zenon
    <2>7. QueryMade' /\ ~err'
      BY <2>1, <2>2, QueryStaysMade
    <2> QED
      BY <2>6, <2>7 DEF EndInv
  <1>9. CASE Done \/ UNCHANGED vars
    <2>1. UNCHANGED vars
      BY <1>9 DEF Done
    <2>2. /\ (QueryMade <=> QueryMade') /\ (AtOnce <=> AtOnce') /\ Generated' = Generated
      BY <2>1 DEF vars, QueryMade, AtOnce, Generated
    <2> QED
      BY <1>0, <2>1, <2>2 DEF EndInv, vars
  <1> QED
    BY <1>1, <1>2, <1>3, <1>4, <1>5, <1>6, <1>7, <1>8, <1>9 DEF Next, Step

LEMMA NextIndInv == IndInv /\ [Next]_vars => IndInv'
  BY NextTypeOK, NextProgressInv, NextDatagramInv, NextEndInv DEF IndInv

LEMMA ServerIndInv == SafetySpec => []IndInv
  BY InitIndInv, NextIndInv, PTL DEF SafetySpec

-------------------------------------------------------------------------------
(***************************************************************************)
(* Every variable of the handler keeps its type, and it writes at most one *)
(* HTTP response: patchDNSCryptProxyReqID's is not followed by another.    *)
(***************************************************************************)
THEOREM ServerTypeOK == SafetySpec => []TypeOK
  <1>1. IndInv => TypeOK
    BY DEF IndInv
  <1> QED
    BY <1>1, ServerIndInv, PTL

(***************************************************************************)
(* doDNSQuery gives back no reply of a datagram that it should have asked  *)
(* for over TCP, for any number of tries and any replies: DatagramInv      *)
(* follows the reply through the two second looks that doDNSQuery takes.   *)
(***************************************************************************)
THEOREM ServerStreamWhenNeeded == SafetySpec => []StreamWhenNeeded
  <1>1. IndInv => StreamWhenNeeded
    BY DEF IndInv, DatagramInv, StreamWhenNeeded, Answered
  <1> QED
    BY <1>1, ServerIndInv, PTL

(***************************************************************************)
(* A query with a subnet made from the client's address is tailored, and   *)
(* neither generator offers its reply to shared caches.                    *)
(***************************************************************************)
THEOREM ServerTailoredIsPrivate == SafetySpec => []TailoredIsPrivate
  <1>1. IndInv => TailoredIsPrivate
    <2> SUFFICES ASSUME IndInv, Answered, query.subnet = "client"
                 PROVE  written[1].cache # "public"
      BY DEF TailoredIsPrivate
    <2>1. QueryMade /\ written[1] = Generated /\ request \in Request
      BY DEF IndInv, EndInv, Answered, TypeOK
    <2>2. query.isTailored
      <3>1. PICK i \in Ids : query = QueryOf(request, i)
        BY <2>1 DEF QueryMade
      <3>2. query.isTailored = (~request.ecs) /\ query.subnet = Subnet(request)
        BY <2>1, <3>1, QueryType
      <3>3. ~request.ecs
        BY <3>2 DEF Subnet
      <3> QED
        BY <3>2, <3>3
    <2>3. CacheControl(query, response) # "public"
      BY <2>2 DEF CacheControl
    <2>4. /\ GenerateResponseGoogle(query, response).cache # "public"
          /\ GenerateResponseIETF(query, response).cache # "public"
      BY <2>3 DEF GenerateResponseGoogle, GenerateResponseIETF, FormatError
    <2> QED
      BY <2>1, <2>4, Zenon DEF Generated
  <1> QED
    BY <1>1, ServerIndInv, PTL

LEMMA ErrorIsJSON == ASSUME NEW c PROVE FormatError(c).type = "json"
  BY DEF FormatError

(***************************************************************************)
(* Whatever ID the query goes to the upstream under, a DNS message that    *)
(* answers one has the ID of the request; so has the answer to the probe   *)
(* of dnscrypt-proxy.                                                      *)
(***************************************************************************)
THEOREM ServerTransactionIDKept == SafetySpec => []TransactionIDKept
  <1>1. IndInv => TransactionIDKept
    <2> SUFFICES ASSUME IndInv, pc = "done", written[1].type = "dns-message",
                        ContentType(request) \in Wire
                 PROVE  written[1].id = request.id
      BY DEF TransactionIDKept
    <2>1. request \in Requests /\ request \in Request
      BY DEF IndInv, ProgressInv, TypeOK
    <2>2. ASSUME AtOnce PROVE written[1].id = request.id
      <3>0. /\ FormatError(ErrCode(request)).type = "json"
            /\ [status |-> 200, type |-> "", id |-> 0, cache |-> "", Rcode |-> "none"].type = ""
        BY ErrorIsJSON
      <3>1. ErrCode(request) = 444 /\ written[1] = DNSCryptProxyResponse
        BY <2>2, <3>0, Zenon DEF AtOnce
      <3>2. Binary(request) = "dnscrypt"
        BY <3>1, <2>1 DEF ErrCode, ParseGoogle, ParseIETF, Wire
      <3>3. "dnscrypt" \in {request.dns, request.body}
        BY <3>2 DEF Binary
      <3>4. request.id = Cafe
        BY <2>1, <3>3, ProbeAssumption
      <3>5. DNSCryptProxyResponse.id = Cafe
        BY DEF DNSCryptProxyResponse
      <3> QED
        BY <3>1, <3>4, <3>5
    <2>3. written[1] # FormatError(503)
      BY ErrorIsJSON
    <2>4. ASSUME QueryMade, written[1] = Generated PROVE written[1].id = request.id
      <3>1. PICK i \in Ids : query = QueryOf(request, i)
        BY <2>4 DEF QueryMade
      <3>2. query.transactionID = request.id
        BY <2>1, <3>1, QueryType DEF Wire
      <3>3. GenerateResponseGoogle(query, response).type = "json"
        BY ErrorIsJSON DEF GenerateResponseGoogle
      <3>4. written[1] = GenerateResponseIETF(query, response)
        BY <2>4, <3>3 DEF Generated
      <3>5. response.packs
        BY <3>4, ErrorIsJSON DEF GenerateResponseIETF
      <3> QED
        BY <3>2, <3>4, <3>5 DEF GenerateResponseIETF
    <2> QED
      BY <2>2, <2>3, <2>4 DEF IndInv, EndInv
  <1> QED
    BY <1>1, ServerIndInv, PTL

(***************************************************************************)
(* Every media type that handlerFunc accepts gives a response type: the    *)
(* panic "Unknown response Content-Type" is out of reach, and an IXFR      *)
(* query whose exchange failed is the only one that can panic.             *)
(***************************************************************************)
THEOREM ServerResponseTypeKnown == SafetySpec => []ResponseTypeKnown
  <1>1. IndInv => ResponseTypeKnown
    BY DEF IndInv, EndInv, ResponseTypeKnown
  <1> QED
    BY <1>1, ServerIndInv, PTL
===============================================================================
