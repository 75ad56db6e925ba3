---------------------------- MODULE EndToEndProofs ----------------------------
(***************************************************************************)
(* doh-client and doh-server together, for every set of queries, upstreams *)
(* and responses and any number of tries: they are a DNS service, they     *)
(* understand each other, and no failure on the way becomes a success.     *)
(*                                                                         *)
(* The server's part of the argument is the inductive invariant of module  *)
(* DoHServerProofs, whose lemmas are used for the instance here.           *)
(***************************************************************************)
EXTENDS EndToEnd, TLAPS

\* A response that must be relayed (GoodResponseRelayed).
Good(resp) ==
    /\ resp.StatusCode = 200 /\ resp.packs
    /\ \/ resp.type = "json" /\ resp.body = "json"
       \/ resp.type \in {"dns-message", "dns-udpwireformat"} /\ resp.body = "wire"

\* The handler of the client is under way to an upstream.
Relaying == {"selected", "pack", "packed", "do", "failed", "parse", "report"}

\* r.Id is 0 only between ClearID and RestoreID, or after Pack has failed.
IdInv ==
    /\ id \in {query.Id, 0}
    /\ query.packs /\ pc # "pack" => id = query.Id

\* There is one reply after the handler has come to an end of the exchange, and
\* none before.
ReplyInv ==
    /\ pc \in Relaying =>
          ~query.Response /\ query.one /\ ~query.passthrough /\ upstream \in Upstreams
    /\ pc \in {"received", "selected", "pack", "packed", "do", "parse"} => replies = << >>
    /\ pc \in {"failed", "report"} => Len(replies) = 1

\* What came back and what became of it.
ResponseInv ==
    /\ pc \notin {"parse", "report", "done"} => response = NoResponse
    /\ pc \in {"parse", "report"} => response \in HTTPResponse
    /\ pc \in {"report", "done"} /\ Good(response) =>
          Len(replies) = 1 /\ replies[1].origin = "upstream"

ClientInv == TypeOK /\ IdInv /\ ReplyInv /\ ResponseInv

\* What Parse writes.
Parsed == IF Parser(upstream.RequestType, response) = "json"
          THEN ParseResponseGoogle(response) ELSE ParseResponseIETF(response)

\* The size that a reply may have.
Limit == IF query.isTCP THEN MaxMsgSize
         ELSE IF query.edns /\ query.udpSize > 512 THEN query.udpSize ELSE 512

\* DoHServer's lemmas, for the server of this module.
ServerP == INSTANCE DoHServerProofs WITH
    Upstreams <- Transports, Requests <- ClientRequests,
    request <- sRequest, pc <- sPc, query <- sQuery, try <- sTry, response <- sReply,
    err <- sErr, via <- sVia, written <- sWritten

\* The server waits for a request, or handles one as module DoHServer says.
ServerInv ==
    /\ sPc = "idle" =>
          /\ sQuery = Server!NoQuery /\ sTry = 0 /\ sReply = Server!NoReply
          /\ sErr = FALSE /\ sVia = "none" /\ sWritten = << >>
    /\ sPc # "idle" => ServerP!IndInv

\* The server's request is the client's, and the client's response the server's.
JoinInv ==
    sPc # "idle" =>
        /\ pc \in {"do", "failed", "parse", "report", "done"} /\ upstream \in Upstreams
        /\ \E f \in Forms : sRequest = IF upstream.RequestType = "dns-json"
                                     THEN RequestGoogle(f) ELSE RequestIETF(f)
        /\ pc \in {"parse", "report"} =>
              /\ sPc = "done" /\ response.Rcode = sWritten[1].Rcode
              /\ response.body = "json" => sWritten[1].type = "json"

EIndInv == ClientInv /\ ServerInv /\ JoinInv /\ NoFalseSuccess

-------------------------------------------------------------------------------
\* All that matters of the largest size of a message.
LEMMA MaxSize == MaxMsgSize \in Nat /\ MaxMsgSize >= 512
  BY DEF MaxMsgSize

LEMMA QueryFields ==
    ASSUME query \in Queries
    PROVE  /\ query.Id \in Ids /\ query.udpSize \in 0..MaxMsgSize
           /\ query.isTCP \in BOOLEAN /\ query.Response \in BOOLEAN /\ query.one \in BOOLEAN
           /\ query.passthrough \in BOOLEAN /\ query.inet \in BOOLEAN
           /\ query.packs \in BOOLEAN /\ query.edns \in BOOLEAN
  <1>1. query \in Query
    BY QueriesAssumption
  <1> QED
    BY <1>1 DEF Query

LEMMA PreparedReply ==
    ASSUME id \in Ids, NEW rcode \in Rcodes
    PROVE  /\ PrepareReply(rcode) \in DNSResponse
           /\ PrepareReply(rcode).Id = id /\ PrepareReply(rcode).size = 12
           /\ PrepareReply(rcode).Rcode = rcode
  BY MaxSize DEF PrepareReply, DNSResponse, EmptySize

LEMMA LimitBounds == ASSUME query \in Queries PROVE Limit \in 512..MaxMsgSize
  BY QueryFields, MaxSize DEF Limit

\* A message is truncated to the limit of its query.
LEMMA FullReplyFields ==
    ASSUME query \in Queries, id \in Ids, NEW resp \in HTTPResponse
    PROVE  /\ FullReply(resp) \in DNSResponse
           /\ FullReply(resp).Id = id /\ FullReply(resp).size <= Limit
           /\ FullReply(resp).origin = "upstream"
           /\ FullReply(resp).Rcode = resp.Rcode
  <1> DEFINE msg == [Id |-> id, origin |-> "upstream", Rcode |-> resp.Rcode,
                     size |-> resp.size, Truncated |-> FALSE]
             size == IF query.isTCP THEN MaxMsgSize ELSE UDPSize(query)
             limit == IF size < 512 THEN 512 ELSE size
  <1>1. resp.size \in 0..MaxMsgSize /\ resp.Rcode \in Rcodes
    BY DEF HTTPResponse
  <1>2. limit = Limit /\ limit \in 512..MaxMsgSize
    BY QueryFields, MaxSize DEF Limit, UDPSize
  <1>3. msg \in DNSResponse
    BY <1>1 DEF DNSResponse
  <1>4. /\ msg.Id = id /\ msg.size = resp.size
        /\ msg.origin = "upstream" /\ msg.Rcode = resp.Rcode
    OBVIOUS
  <1>5. FullReply(resp) = IF msg.size <= limit THEN msg
                          ELSE [msg EXCEPT !.size = limit, !.Truncated = TRUE]
    BY DEF FullReply, Truncate
  <1> HIDE DEF msg, limit
  <1>6. CASE msg.size <= limit
    BY <1>2, <1>3, <1>4, <1>5, <1>6
  <1>7. CASE ~(msg.size <= limit)
    <2>1. FullReply(resp) = [msg EXCEPT !.size = limit, !.Truncated = TRUE]
      BY <1>5, <1>7
    <2>2. limit \in 0..MaxMsgSize /\ limit <= Limit
      BY <1>2
    <2> QED
      BY <1>3, <1>4, <2>1, <2>2 DEF DNSResponse
  <1> QED
    BY <1>6, <1>7

\* What Unmarshal leaves of a response that came as JSON.
Cut == [response EXCEPT !.Rcode = LowBits(@)]

LEMMA CutFields ==
    ASSUME response \in HTTPResponse
    PROVE  Cut \in HTTPResponse /\ Cut.Rcode = LowBits(response.Rcode)
  <1>1. LowBits(response.Rcode) \in Rcodes
    BY DEF LowBits, HTTPResponse, Rcodes
  <1> QED
    BY <1>1 DEF Cut, HTTPResponse

\* A good response is relayed; any other may be answered with SERVFAIL instead.
\* Only one that is JSON loses bits of its code.
LEMMA ParsedIs ==
    ASSUME response \in HTTPResponse
    PROVE  \/ Parsed = FullReply(response)
           \/ Parsed = FullReply(Cut) /\ response.body = "json"
           \/ Parsed = PrepareReply("ServFail") /\ ~Good(response)
  BY DEF Parsed, Parser, ParseResponseGoogle, ParseResponseIETF, Good, HTTPResponse, Cut

LEMMA WriteFirst ==
    ASSUME replies = << >>, NEW msg \in DNSResponse, Write(msg)
    PROVE  replies' \in Seq(DNSResponse) /\ Len(replies') = 1 /\ replies'[1] = msg
  BY DEF Write

-------------------------------------------------------------------------------
LEMMA InitClientInv == Init => ClientInv
  <1> SUFFICES ASSUME Init PROVE ClientInv
    OBVIOUS
  <1>1. id \in Ids
    BY QueryFields DEF Init
  <1>2. replies \in Seq(DNSResponse)
    BY DEF Init
  <1>3. TypeOK
    BY <1>1, <1>2 DEF Init, TypeOK
  <1>4. ~Good(response)
    BY DEF Init, Good, NoResponse
  <1> QED
    BY <1>3, <1>4 DEF Init, ClientInv, IdInv, ReplyInv, ResponseInv, Relaying

\* The end of a handler without a response.
LEMMA NotGood == ~Good(NoResponse)
  BY DEF Good, NoResponse

\* A step that ends the exchange with an error writes one of the client's own
\* replies.
LEMMA FailClientInv ==
    ASSUME ClientInv, NEW rcode \in Rcodes, Write(PrepareReply(rcode)),
           pc \in {"selected", "pack", "packed", "do"}, pc' = "failed",
           pc = "pack" => ~query.packs,
           err' \in {"timeout", "url", "other"},
           UNCHANGED <<query, id, upstream, response, report>>
    PROVE  ClientInv' /\ replies' = <<PrepareReply(rcode)>>
  <1>1. replies = << >> /\ id \in Ids /\ PrepareReply(rcode) \in DNSResponse
    BY PreparedReply DEF ClientInv, ReplyInv, TypeOK
  <1>2. /\ replies' \in Seq(DNSResponse) /\ Len(replies') = 1
        /\ replies' = <<PrepareReply(rcode)>>
    BY <1>1 DEF Write
  <1>3. TypeOK'
    BY <1>2 DEF ClientInv, TypeOK
  <1>4. IdInv'
    BY DEF ClientInv, IdInv
  <1>5. ReplyInv'
    BY <1>2 DEF ClientInv, ReplyInv, Relaying
  <1>6. ResponseInv'
    BY DEF ClientInv, ResponseInv
  <1> QED
    BY <1>2, <1>3, <1>4, <1>5, <1>6 DEF ClientInv

\* A response comes, from a doh-server or from another.
LEMMA ResponseClientInv ==
    ASSUME ClientInv, pc = "do", pc' = "parse", response' \in HTTPResponse,
           UNCHANGED <<query, id, upstream, err, replies, report>>
    PROVE  ClientInv'
  <1>1. TypeOK'
    BY DEF ClientInv, TypeOK
  <1>2. IdInv' /\ ReplyInv' /\ ResponseInv'
    BY DEF ClientInv, IdInv, ReplyInv, ResponseInv, Relaying
  <1> QED
    BY <1>1, <1>2 DEF ClientInv

\* What Parse writes is a reply to the query.
LEMMA ParsedFields ==
    ASSUME ClientInv, response \in HTTPResponse
    PROVE  /\ Parsed \in DNSResponse /\ Parsed.Id = id /\ Parsed.size <= Limit
           /\ \/ Parsed.Rcode \in {response.Rcode, "ServFail"}
              \/ Parsed.Rcode = LowBits(response.Rcode) /\ response.body = "json"
           /\ Good(response) => Parsed.origin = "upstream"
  <1>1. query \in Queries /\ id \in Ids
    BY DEF ClientInv, TypeOK
  <1>2. CASE Parsed = FullReply(response)
    BY <1>1, <1>2, FullReplyFields
  <1>4. CASE Parsed = FullReply(Cut) /\ response.body = "json"
    BY <1>1, <1>4, CutFields, FullReplyFields
  <1>3. CASE Parsed = PrepareReply("ServFail") /\ ~Good(response)
    <2>1. "ServFail" \in Rcodes
      BY DEF Rcodes
    <2>2. 12 <= Limit
      BY <1>1, LimitBounds, MaxSize
    <2> QED
      BY <1>1, <1>3, <2>1, <2>2, PreparedReply
  <1> QED
    BY <1>2, <1>3, <1>4, ParsedIs

LEMMA HandleClientInv == ClientInv /\ Handle => ClientInv'
  <1> SUFFICES ASSUME ClientInv, Handle PROVE ClientInv'
    OBVIOUS
  <1>0. TypeOK /\ IdInv /\ ReplyInv /\ ResponseInv
    BY DEF ClientInv
  <1>a. {"FormErr", "ServFail", "Refused"} \subseteq Rcodes
    BY DEF Rcodes
  <1>1. CASE Drop
    <2>1. TypeOK'
      BY <1>0, <1>1 DEF Drop, TypeOK
    <2> QED
      BY <1>0, <1>1, <2>1, NotGood DEF Drop, ClientInv, IdInv, ReplyInv, ResponseInv, Relaying
  <1>2. CASE RefuseQuestions \/ Passthrough
    <2>1. /\ pc = "received" /\ pc' = "done"
          /\ UNCHANGED <<query, id, upstream, response, err, report>>
      BY <1>2, Zenon DEF RefuseQuestions, Passthrough
    <2>2. replies = << >> /\ id \in Ids /\ response = NoResponse
      BY <1>0, <2>1 DEF ReplyInv, TypeOK, ResponseInv
    <2>3. replies' \in Seq(DNSResponse)
      <3>1. CASE UNCHANGED replies
        BY <1>0, <3>1 DEF TypeOK
      <3>2. CASE Write(PrepareReply("FormErr")) \/ Write(PrepareReply("ServFail"))
        BY <1>a, <2>2, <3>2, PreparedReply, WriteFirst
      <3>3. ASSUME NEW reply \in DNSReplies,
                   Write([Id |-> id, origin |-> "upstream", Rcode |-> reply.Rcode,
                          size |-> reply.size, Truncated |-> FALSE])
            PROVE  replies' \in Seq(DNSResponse)
        <4>1. reply \in DNSReply
          BY DNSRepliesAssumption
        <4>2. [Id |-> id, origin |-> "upstream", Rcode |-> reply.Rcode,
               size |-> reply.size, Truncated |-> FALSE] \in DNSResponse
          BY <2>2, <4>1 DEF DNSReply, DNSResponse
        <4> QED
          BY <2>2, <3>3, <4>2, WriteFirst, Zenon
      <3> QED
        BY <1>2, <3>1, <3>2, <3>3, Zenon DEF RefuseQuestions, Passthrough
    <2>4. TypeOK'
      BY <1>0, <2>1, <2>3 DEF TypeOK
    <2> QED
      BY <1>0, <2>1, <2>2, <2>4, NotGood
         DEF ClientInv, IdInv, ReplyInv, ResponseInv, Relaying
  <1>3. CASE Get
    <2>1. TypeOK'
      BY <1>0, <1>3 DEF Get, TypeOK
    <2> QED
      BY <1>0, <1>3, <2>1 DEF Get, ClientInv, IdInv, ReplyInv, ResponseInv, Relaying
  <1>4. CASE GenerateGoogle \/ GenerateIETF
    <2>1. CASE pc' = "do" /\ UNCHANGED <<replies, err>>
      <3>1. TypeOK'
        BY <1>0, <1>4, <2>1 DEF GenerateGoogle, GenerateIETF, TypeOK
      <3> QED
        BY <1>0, <1>4, <2>1, <3>1
           DEF GenerateGoogle, GenerateIETF, ClientInv, IdInv, ReplyInv, ResponseInv, Relaying
    <2>2. CASE /\ Write(PrepareReply("Refused")) \/ Write(PrepareReply("ServFail"))
               /\ pc' = "failed" /\ err' \in {"other", "url"}
      BY <1>4, <1>a, <2>2, FailClientInv DEF GenerateGoogle, GenerateIETF
    <2> QED
      BY <1>4, <2>1, <2>2 DEF GenerateGoogle, GenerateIETF
  <1>5. CASE ClearID \/ RestoreID
    <2>1. id' \in Ids
      <3>1. 0 \in Ids
        BY IdsAssumption
      <3>2. query.Id \in Ids
        BY <1>0, QueryFields DEF TypeOK
      <3> QED
        BY <1>5, <3>1, <3>2 DEF ClearID, RestoreID
    <2>2. TypeOK'
      BY <1>0, <1>5, <2>1 DEF ClearID, RestoreID, TypeOK
    <2> QED
      BY <1>0, <1>5, <2>2
         DEF ClearID, RestoreID, ClientInv, IdInv, ReplyInv, ResponseInv, Relaying
  <1>6. CASE PackFails
    BY <1>6, <1>a, FailClientInv DEF PackFails
  <1>7. CASE DoFails
    BY <1>7, <1>a, FailClientInv DEF DoFails
  <1>8. CASE ReportError \/ ReportStatus
    <2>1. report' \in {"none", "Timeout", "Error", "OK"}
      BY <1>0, <1>8 DEF ReportError, ReportStatus, TypeOK
    <2>2. pc \in {"failed", "report"} /\ pc' = "done"
          /\ UNCHANGED <<query, id, upstream, response, err, replies>>
      BY <1>8 DEF ReportError, ReportStatus
    <2>3. TypeOK'
      BY <1>0, <2>1, <2>2 DEF TypeOK
    <2> QED
      BY <1>0, <2>2, <2>3, NotGood DEF ClientInv, IdInv, ReplyInv, ResponseInv, Relaying
  <1>9. CASE Parse
    <2>1. /\ pc = "parse" /\ pc' = "report" /\ Write(Parsed)
          /\ UNCHANGED <<query, id, upstream, response, err, report>>
      BY <1>9 DEF Parse, Parsed
    <2>2. replies = << >> /\ response \in HTTPResponse
      BY <1>0, <2>1 DEF ReplyInv, ResponseInv
    <2>3. /\ replies' \in Seq(DNSResponse) /\ Len(replies') = 1 /\ replies'[1] = Parsed
      BY <2>1, <2>2, ParsedFields, WriteFirst, Zenon
    <2>4. Good(response) => replies'[1].origin = "upstream"
      BY <2>2, <2>3, ParsedFields
    <2>5. TypeOK'
      BY <1>0, <2>1, <2>3 DEF TypeOK
    <2> QED
      BY <1>0, <2>1, <2>2, <2>3, <2>4, <2>5
         DEF ClientInv, IdInv, ReplyInv, ResponseInv, Relaying
  <1> QED
    BY <1>1, <1>2, <1>3, <1>4, <1>5, <1>6, <1>7, <1>8, <1>9 DEF Handle

-------------------------------------------------------------------------------
\* What the server makes of the requests that generateRequestGoogle and
\* generateRequestIETF can make.
LEMMA GoogleFields ==
    ASSUME NEW f \in Forms
    PROVE  /\ RequestGoogle(f) \in ServerP!Request
           /\ RequestGoogle(f).method # "OPTIONS"
           /\ RequestGoogle(f).dns = "" /\ RequestGoogle(f).body = ""
           /\ ServerP!ErrCode(RequestGoogle(f)) \in {0, 400}
           /\ ServerP!ErrCode(RequestGoogle(f)) = 400 =>
                 "invalid" \in {RequestGoogle(f).name, RequestGoogle(f).args}
  <1> DEFINE r == RequestGoogle(f)
  <1>1. /\ f.qtype \in {"A", "IXFR"}
        /\ f.name \in {"invalid", "valid"} /\ f.args \in {"invalid", "valid"} /\ 0 \in Ids
    BY IdsAssumption DEF Forms
  <1>2. /\ r \in ServerP!Request
        /\ r.method = "GET" /\ r.ct = "dns-json" /\ r.name = f.name /\ r.args = f.args
        /\ r.dns = "" /\ r.body = ""
    BY <1>1 DEF RequestGoogle, ServerP!Request, ServerP!MediaTypes
  <1> HIDE DEF r
  <1>3. ServerP!ContentType(r) = "dns-json"
    BY <1>2 DEF ServerP!ContentType
  <1>4. ServerP!ErrCode(r) = ServerP!ParseGoogle(r)
    BY <1>3 DEF ServerP!ErrCode, ServerP!Wire
  <1>5. /\ ServerP!ParseGoogle(r) \in {0, 400}
        /\ ServerP!ParseGoogle(r) = 400 => r.name # "valid" \/ r.args # "valid"
    BY DEF ServerP!ParseGoogle
  <1>6. "invalid" \in {r.name, r.args} \/ (r.name = "valid" /\ r.args = "valid")
    BY <1>1, <1>2
  <1>7. ServerP!ErrCode(r) = 400 => "invalid" \in {r.name, r.args}
    BY <1>4, <1>5, <1>6
  <1> QED
    BY <1>2, <1>4, <1>5, <1>7 DEF r

LEMMA IETFFields ==
    ASSUME NEW f \in Forms
    PROVE  /\ RequestIETF(f) \in ServerP!Request
           /\ RequestIETF(f).method # "OPTIONS"
           /\ RequestIETF(f).dns # "dnscrypt" /\ RequestIETF(f).body # "dnscrypt"
           /\ ServerP!ErrCode(RequestIETF(f)) = 0
  <1> DEFINE r == RequestIETF(f)
  <1>1. f.qtype \in {"A", "IXFR"} /\ 0 \in Ids
    BY IdsAssumption DEF Forms
  <1>2. CASE f.post
    <2>1. /\ r \in ServerP!Request
          /\ r.method = "POST" /\ r.header = "dns-message" /\ r.ct = ""
          /\ r.dns = "" /\ r.body = "message"
      BY <1>1, <1>2 DEF RequestIETF, ServerP!Request, ServerP!MediaTypes
    <2> HIDE DEF r
    <2> QED
      BY <2>1 DEF r, ServerP!ErrCode, ServerP!ContentType, ServerP!ParseIETF,
                  ServerP!Binary, ServerP!Wire
  <1>3. CASE ~f.post
    <2>1. /\ r \in ServerP!Request
          /\ r.method = "GET" /\ r.header = "" /\ r.ct = "dns-message"
          /\ r.dns = "message" /\ r.body = ""
      BY <1>1, <1>3 DEF RequestIETF, ServerP!Request, ServerP!MediaTypes
    <2> HIDE DEF r
    <2> QED
      BY <2>1 DEF r, ServerP!ErrCode, ServerP!ContentType, ServerP!ParseIETF,
                  ServerP!Binary, ServerP!Wire
  <1> QED
    BY <1>2, <1>3

\* The assumptions of DoHServer hold of this server.
LEMMA ClientRequestsKnown ==
    ASSUME NEW r \in ClientRequests
    PROVE  r \in ServerP!Request /\ r.dns # "dnscrypt" /\ r.body # "dnscrypt"
  <1>1. ASSUME NEW f \in Forms, r = RequestGoogle(f)
        PROVE  r \in ServerP!Request /\ r.dns # "dnscrypt" /\ r.body # "dnscrypt"
    BY <1>1, GoogleFields
  <1>2. ASSUME NEW f \in Forms, r = RequestIETF(f)
        PROVE  r \in ServerP!Request /\ r.dns # "dnscrypt" /\ r.body # "dnscrypt"
    BY <1>2, IETFFields
  <1> QED
    BY <1>1, <1>2, Zenon DEF ClientRequests

LEMMA ServerAssumptions ==
    /\ /\ Tries \in Nat \ {0}
       /\ Transports \subseteq {"udp", "tcp", "tcp-tls"} /\ Transports # {}
    /\ 0 \in Ids /\ ServerP!Cafe \in Ids
    /\ ClientRequests \subseteq ServerP!Request
    /\ \A r \in ClientRequests : "dnscrypt" \in {r.dns, r.body} => r.id = ServerP!Cafe
    /\ Replies \subseteq ServerP!Reply
  <1>1. Tries \in Nat \ {0} /\ Transports \subseteq {"udp", "tcp", "tcp-tls"} /\ Transports # {}
    BY TriesAssumption, TransportsAssumption
  <1>2. 0 \in Ids /\ ServerP!Cafe \in Ids
    BY IdsAssumption, CafeAssumption DEF Server!Cafe, ServerP!Cafe
  <1>3. ClientRequests \subseteq ServerP!Request
    BY ClientRequestsKnown
  <1>4. \A r \in ClientRequests : "dnscrypt" \in {r.dns, r.body} => r.id = ServerP!Cafe
    BY ClientRequestsKnown
  <1>5. Replies \subseteq ServerP!Reply
    BY RepliesAssumption DEF Server!Reply, ServerP!Reply
  <1> QED
    BY <1>1, <1>2, <1>3, <1>4, <1>5, Zenon

LEMMA ServerInit == ServerP!Init => ServerP!IndInv
  BY ServerAssumptions, ServerP!InitIndInv

LEMMA ServerNext == ServerP!IndInv /\ [ServerP!Next]_(ServerP!vars) => ServerP!IndInv'
  BY ServerAssumptions, ServerP!NextIndInv

\* The server of EndToEnd is the one that the lemmas are about.
LEMMA SameServer == Server!Step => ServerP!Next
  <1> USE DEF Server!Exchange, ServerP!Exchange, Server!Write, ServerP!Write,
              Server!NoReply, ServerP!NoReply
  <1>1. Server!Respond => ServerP!Respond
    <2>1. Server!DNSCryptProxyResponse = ServerP!DNSCryptProxyResponse
      BY DEF Server!DNSCryptProxyResponse, ServerP!DNSCryptProxyResponse, Server!Cafe,
             ServerP!Cafe
    <2> QED
      BY <2>1 DEF Server!Respond, ServerP!Respond, Server!ErrCode, ServerP!ErrCode,
             Server!ContentType, ServerP!ContentType, Server!ParseGoogle, ServerP!ParseGoogle,
             Server!ParseIETF, ServerP!ParseIETF, Server!Binary, ServerP!Binary,
             Server!Wire, ServerP!Wire, Server!FormatError, ServerP!FormatError
  <1>2. Server!Accept => ServerP!Accept
    BY DEF Server!Accept, ServerP!Accept, Server!ErrCode, ServerP!ErrCode,
           Server!ContentType, ServerP!ContentType, Server!ParseGoogle, ServerP!ParseGoogle,
           Server!ParseIETF, ServerP!ParseIETF, Server!Binary, ServerP!Binary,
           Server!Wire, ServerP!Wire, Server!QueryOf, ServerP!QueryOf,
           Server!PatchRootRD, ServerP!PatchRootRD, Server!Subnet, ServerP!Subnet,
           Server!QueryGoogle, ServerP!QueryGoogle, Server!QueryIETF, ServerP!QueryIETF
  <1>3. ASSUME NEW t, Server!PickUpstream(t) PROVE ServerP!PickUpstream(t)
    BY <1>3 DEF Server!PickUpstream, ServerP!PickUpstream
  <1>4. /\ Server!ExchangeStream => ServerP!ExchangeStream
        /\ Server!ExchangeUDP => ServerP!ExchangeUDP
    BY DEF Server!ExchangeStream, ServerP!ExchangeStream, Server!ExchangeUDP,
           ServerP!ExchangeUDP
  <1>5. /\ Server!RetryTruncated => ServerP!RetryTruncated
        /\ Server!NotTruncated => ServerP!NotTruncated
    BY DEF Server!RetryTruncated, ServerP!RetryTruncated, Server!NotTruncated,
           ServerP!NotTruncated
  <1>6. /\ Server!RetryIXFR => ServerP!RetryIXFR
        /\ Server!NilPanics => ServerP!NilPanics
        /\ Server!NoIXFR => ServerP!NoIXFR
    BY DEF Server!RetryIXFR, ServerP!RetryIXFR, Server!NilPanics, ServerP!NilPanics,
           Server!NoIXFR, ServerP!NoIXFR
  <1>7. (Server!Retry => ServerP!Retry) /\ (Server!GiveUp => ServerP!GiveUp)
    BY DEF Server!Retry, ServerP!Retry, Server!GiveUp, ServerP!GiveUp, Server!FormatError,
           ServerP!FormatError
  <1>8. Server!Answer => ServerP!Answer
    BY DEF Server!Answer, ServerP!Answer, Server!ResponseType, ServerP!ResponseType,
           Server!ContentType, ServerP!ContentType, Server!Wire, ServerP!Wire,
           Server!GenerateResponseGoogle, ServerP!GenerateResponseGoogle,
           Server!GenerateResponseIETF, ServerP!GenerateResponseIETF, Server!FormatError,
           ServerP!FormatError, Server!Status, ServerP!Status, Server!CacheControl,
           ServerP!CacheControl
  <1> QED
    BY <1>1, <1>2, <1>3, <1>4, <1>5, <1>6, <1>7, <1>8, Zenon
       DEF Server!Step, ServerP!Next, ServerP!Step

\* A handler that has ended makes no step, and one that runs stays.
LEMMA ServerRuns ==
    ASSUME Server!Step PROVE sPc # "done" /\ sPc' # "idle"
  <1> USE DEF Server!Exchange, Server!Write
  <1>1. CASE Server!Respond \/ Server!Accept \/ Server!GiveUp \/ Server!Answer
    BY <1>1, Zenon DEF Server!Respond, Server!Accept, Server!GiveUp, Server!Answer
  <1>2. ASSUME NEW t \in Transports, Server!PickUpstream(t) PROVE sPc # "done" /\ sPc' # "idle"
    BY <1>2, TransportsAssumption DEF Server!PickUpstream
  <1>3. CASE Server!ExchangeStream \/ Server!ExchangeUDP
    BY <1>3 DEF Server!ExchangeStream, Server!ExchangeUDP
  <1>4. CASE \/ Server!RetryTruncated \/ Server!NotTruncated \/ Server!RetryIXFR
             \/ Server!NilPanics \/ Server!NoIXFR \/ Server!Retry
    BY <1>4 DEF Server!RetryTruncated, Server!NotTruncated, Server!RetryIXFR,
                Server!NilPanics, Server!NoIXFR, Server!Retry
  <1> QED
    BY <1>1, <1>2, <1>3, <1>4 DEF Server!Step

\* What a doh-server has answered a doh-client with.
LEMMA ServerAnswers ==
    ASSUME ServerInv, JoinInv, sPc = "done"
    PROVE  /\ sWritten[1].status \in {200, 400, 500, 503}
           /\ sWritten[1].type \in {"json", "dns-message"}
           /\ sWritten[1].Rcode \in {"NoError", "ServFail", "BadVers"}
           /\ sWritten[1].Rcode # "ServFail" => ~sErr /\ sReply.Rcode = sWritten[1].Rcode
           /\ sWritten[1].status = 400 =>
                 /\ upstream.RequestType = "dns-json"
                 /\ "invalid" \in {sRequest.name, sRequest.args}
  <1>1. PICK f \in Forms : sRequest = IF upstream.RequestType = "dns-json"
                                     THEN RequestGoogle(f) ELSE RequestIETF(f)
    BY DEF JoinInv
  <1>2. /\ sRequest.method # "OPTIONS" /\ ServerP!ErrCode(sRequest) \in {0, 400}
        /\ ServerP!ErrCode(sRequest) = 400 =>
              upstream.RequestType = "dns-json" /\ "invalid" \in {sRequest.name, sRequest.args}
    <2>1. CASE upstream.RequestType = "dns-json"
      <3>1. sRequest = RequestGoogle(f)
        BY <1>1, <2>1
      <3> QED
        BY <2>1, <3>1, GoogleFields
    <2>2. CASE upstream.RequestType # "dns-json"
      <3>1. sRequest = RequestIETF(f)
        BY <1>1, <2>2
      <3> QED
        BY <3>1, IETFFields
    <2> QED
      BY <2>1, <2>2
  <1>3. /\ sReply \in Replies \cup {ServerP!NoReply}
        /\ \/ ServerP!AtOnce
           \/ sWritten[1] = ServerP!FormatError(503)
           \/ ~sErr /\ sWritten[1] = ServerP!Generated
    <2>1. ServerP!TypeOK /\ ServerP!EndInv
      BY DEF ServerInv, ServerP!IndInv
    <2>2. sReply \in Replies \cup {ServerP!NoReply}
      BY <2>1 DEF ServerP!TypeOK
    <2> QED
      BY <2>1, <2>2, Zenon DEF ServerP!EndInv
  <1>4. ASSUME NEW c \in {400, 500, 503}
        PROVE  /\ ServerP!FormatError(c).status = c /\ ServerP!FormatError(c).type = "json"
               /\ ServerP!FormatError(c).Rcode = "ServFail"
    BY DEF ServerP!FormatError
  <1>5. CASE ServerP!AtOnce
    <2>1. /\ ServerP!ErrCode(sRequest) # 444
          /\ ServerP!ErrCode(sRequest) \in {400, 415} => ServerP!ErrCode(sRequest) = 400
      BY <1>2
    <2>2. /\ ServerP!ErrCode(sRequest) \in {400, 415}
          /\ sWritten[1] = ServerP!FormatError(ServerP!ErrCode(sRequest))
      BY <1>2, <1>5, <2>1, Zenon DEF ServerP!AtOnce
    <2>3. sWritten[1] = ServerP!FormatError(400) /\ ServerP!ErrCode(sRequest) = 400
      BY <2>1, <2>2
    <2> QED
      BY <1>2, <1>4, <2>3
  <1>6. CASE sWritten[1] = ServerP!FormatError(503)
    BY <1>4, <1>6
  <1>7. CASE ~sErr /\ sWritten[1] = ServerP!Generated
    <2>1. sReply.packs => sReply.Rcode \in {"NoError", "ServFail", "BadVers"}
      <3>1. ~ServerP!NoReply.packs
        BY DEF ServerP!NoReply
      <3>2. Replies \subseteq ServerP!Reply
        BY ServerAssumptions
      <3> QED
        BY <1>3, <3>1, <3>2 DEF ServerP!Reply
    <2>2. ServerP!Status(sReply) \in {200, 503}
      BY DEF ServerP!Status
    <2>3. CASE ~sReply.packs
      <3>1. ServerP!Generated = ServerP!FormatError(500)
        BY <2>3, Zenon DEF ServerP!Generated, ServerP!GenerateResponseGoogle,
                           ServerP!GenerateResponseIETF
      <3> QED
        BY <1>4, <1>7, <3>1
    <2>4. CASE sReply.packs
      <3>1. /\ ServerP!Generated.status = ServerP!Status(sReply)
            /\ ServerP!Generated.type \in {"json", "dns-message"}
            /\ ServerP!Generated.Rcode = sReply.Rcode
        BY <2>4 DEF ServerP!Generated, ServerP!GenerateResponseGoogle,
                    ServerP!GenerateResponseIETF
      <3> QED
        BY <1>7, <2>1, <2>2, <2>4, <3>1
    <2> QED
      BY <2>3, <2>4
  <1> QED
    BY <1>3, <1>5, <1>6, <1>7

-------------------------------------------------------------------------------
LEMMA InitEIndInv == EInit => EIndInv
  BY InitClientInv DEF EInit, EIndInv, ServerInv, JoinInv, NoFalseSuccess

LEMMA ClientStays == ASSUME ClientInv, UNCHANGED vars PROVE ClientInv'
  BY DEF vars, ClientInv, TypeOK, IdInv, ReplyInv, ResponseInv, Good

LEMMA ServerStays == ASSUME ServerInv, UNCHANGED serverVars PROVE ServerInv'
  <1>1. sPc # "idle" => ServerP!IndInv'
    BY ServerNext DEF ServerInv, serverVars, ServerP!vars
  <1> QED
    BY <1>1 DEF ServerInv, serverVars

LEMMA HandleEIndInv ==
    ASSUME EIndInv, Handle, UNCHANGED serverVars PROVE EIndInv'
  <1>0. ClientInv' /\ ServerInv'
    BY HandleClientInv, ServerStays DEF EIndInv
  <1>1. CASE sPc = "idle"
    BY <1>0, <1>1 DEF EIndInv, JoinInv, NoFalseSuccess, serverVars
  <1>2. CASE sPc # "idle"
    <2>1. pc \in {"do", "failed", "parse", "report", "done"}
      BY <1>2 DEF EIndInv, JoinInv
    <2>2. DoFails \/ ReportError \/ Parse \/ ReportStatus
      BY <2>1 DEF Handle, Drop, RefuseQuestions, Passthrough, Get, GenerateGoogle, ClearID,
                  PackFails, RestoreID, GenerateIETF
    <2>3. JoinInv'
      <3>1. /\ UNCHANGED <<upstream, response>> /\ pc' \in {"failed", "report", "done"}
            /\ pc' = "report" => pc = "parse"
        BY <2>2 DEF DoFails, ReportError, Parse, ReportStatus
      <3> QED
        BY <1>2, <3>1 DEF EIndInv, JoinInv, serverVars
    <2>4. NoFalseSuccess'
      <3>1. CASE DoFails
        <4>1. replies' = <<PrepareReply("ServFail")>>
          BY <3>1 DEF EIndInv, ClientInv, ReplyInv, DoFails, Write
        <4>2. PrepareReply("ServFail").Rcode = "ServFail"
          BY DEF PrepareReply
        <4> QED
          BY <4>1, <4>2 DEF NoFalseSuccess
      <3>2. CASE ReportError \/ ReportStatus
        BY <1>2, <3>2 DEF EIndInv, NoFalseSuccess, ReportError, ReportStatus, serverVars
      <3>3. CASE Parse
        <4>1. /\ replies' = <<Parsed>> /\ response \in HTTPResponse
              /\ sPc = "done" /\ response.Rcode = sWritten[1].Rcode
              /\ response.body = "json" => sWritten[1].type = "json"
          BY <1>2, <3>3 DEF EIndInv, ClientInv, ReplyInv, ResponseInv, JoinInv, Parse, Parsed,
                            Write
        <4>2. Parsed.Rcode = "NoError" =>
                 /\ ~sErr
                 /\ \/ sReply.Rcode = "NoError"
                    \/ sReply.Rcode \in Extended /\ sWritten[1].type = "json"
          BY <4>1, ParsedFields, ServerAnswers DEF EIndInv, LowBits, Extended
        <4> QED
          BY <4>1, <4>2 DEF NoFalseSuccess, serverVars
      <3> QED
        BY <2>2, <3>1, <3>2, <3>3
    <2> QED
      BY <1>0, <2>3, <2>4 DEF EIndInv
  <1> QED
    BY <1>1, <1>2

LEMMA SendEIndInv == EIndInv /\ Send => EIndInv'
  <1> SUFFICES ASSUME EIndInv, Send PROVE EIndInv'
    OBVIOUS
  <1>1. ClientInv'
    BY ClientStays DEF EIndInv, Send
  <1>2. PICK f \in Forms : sRequest' = IF upstream.RequestType = "dns-json"
                                      THEN RequestGoogle(f) ELSE RequestIETF(f)
    BY DEF Send
  <1>3. /\ pc = "do" /\ sPc = "idle" /\ sPc' = "received" /\ UNCHANGED vars
        /\ UNCHANGED <<sQuery, sTry, sReply, sErr, sVia, sWritten>>
    BY DEF Send
  <1>4. ServerInv'
    <2>1. sRequest' \in ClientRequests
      BY <1>2, Zenon DEF ClientRequests
    <2>2. /\ sQuery = ServerP!NoQuery /\ sTry = 0 /\ sReply = ServerP!NoReply
          /\ sErr = FALSE /\ sVia = "none" /\ sWritten = << >>
      BY <1>3 DEF EIndInv, ServerInv, Server!NoQuery, ServerP!NoQuery, Server!NoReply,
                  ServerP!NoReply
    <2>3. ServerP!Init'
      BY <1>3, <2>1, <2>2 DEF ServerP!Init
    <2>4. (ServerP!Init => ServerP!IndInv)'
      BY ServerInit, PTL
    <2> QED
      BY <1>3, <2>3, <2>4 DEF ServerInv
  <1>5. JoinInv'
    BY <1>2, <1>3 DEF EIndInv, ClientInv, ReplyInv, Relaying, JoinInv, vars
  <1>6. NoFalseSuccess'
    <2>1. replies' = << >>
      BY <1>3 DEF EIndInv, ClientInv, ReplyInv, vars
    <2> QED
      BY <2>1 DEF NoFalseSuccess
  <1> QED
    BY <1>1, <1>4, <1>5, <1>6 DEF EIndInv

LEMMA ServerStepEIndInv == EIndInv /\ ServerStep => EIndInv'
  <1> SUFFICES ASSUME EIndInv, ServerStep PROVE EIndInv'
    OBVIOUS
  <1>1. ClientInv' /\ UNCHANGED vars
    BY ClientStays DEF EIndInv, ServerStep
  <1>2. sPc # "idle" /\ Server!Step /\ sPc # "done" /\ sPc' # "idle"
    BY ServerRuns DEF ServerStep
  <1>3. ServerInv'
    <2>1. ServerP!IndInv'
      BY <1>2, SameServer, ServerNext DEF EIndInv, ServerInv
    <2> QED
      BY <1>2, <2>1 DEF ServerInv
  <1>4. UNCHANGED sRequest
    BY <1>2 DEF Server!Step, Server!Respond, Server!Accept, Server!PickUpstream,
         Server!ExchangeStream, Server!ExchangeUDP, Server!RetryTruncated,
         Server!NotTruncated, Server!RetryIXFR, Server!NilPanics, Server!NoIXFR,
         Server!Retry, Server!GiveUp, Server!Answer, Server!Exchange, Server!Write
  <1>5. JoinInv'
    BY <1>1, <1>2, <1>4 DEF EIndInv, JoinInv, vars
  <1>6. NoFalseSuccess'
    BY <1>1, <1>2 DEF EIndInv, NoFalseSuccess, vars
  <1> QED
    BY <1>1, <1>3, <1>5, <1>6 DEF EIndInv

LEMMA ReceiveEIndInv == EIndInv /\ Receive => EIndInv'
  <1> SUFFICES ASSUME EIndInv, Receive PROVE EIndInv'
    OBVIOUS
  <1>1. /\ pc = "do" /\ sPc = "done" /\ pc' = "parse" /\ UNCHANGED serverVars
        /\ UNCHANGED <<query, id, upstream, err, replies, report>>
    BY DEF Receive
  <1>2. PICK readable \in BOOLEAN, size \in Sizes, packs \in BOOLEAN :
          response' = ResponseOf(sWritten[1], readable, size, packs)
    BY DEF Receive
  <1>3. /\ sWritten[1].status \in 100..599 /\ sWritten[1].type \in {"json", "dns-message"}
        /\ sWritten[1].Rcode \in Rcodes
    BY <1>1, ServerAnswers DEF EIndInv, Rcodes, Extended
  <1>4. size \in 0..MaxMsgSize
    BY SizesAssumption
  <1>5. /\ response' \in HTTPResponse /\ response'.Rcode = sWritten[1].Rcode
        /\ response'.body = "json" => sWritten[1].type = "json"
    BY <1>2, <1>3, <1>4 DEF ResponseOf, HTTPResponse
  <1>6. ClientInv' /\ ServerInv'
    BY <1>1, <1>5, ResponseClientInv, ServerStays DEF EIndInv
  <1>7. JoinInv'
    BY <1>1, <1>5 DEF EIndInv, JoinInv, serverVars
  <1>8. NoFalseSuccess'
    BY <1>1 DEF EIndInv, NoFalseSuccess, serverVars
  <1> QED
    BY <1>6, <1>7, <1>8 DEF EIndInv

LEMMA NextEIndInv == EIndInv /\ [ENext]_allVars => EIndInv'
  <1> SUFFICES ASSUME EIndInv, [ENext]_allVars PROVE EIndInv'
    OBVIOUS
  <1>1. CASE Handle /\ UNCHANGED serverVars
    BY <1>1, HandleEIndInv
  <1>2. CASE sPc = "idle" /\ DoResponds /\ UNCHANGED serverVars
    <2>1. response' \in HTTPResponse
      BY <1>2, ResponsesAssumption DEF DoResponds
    <2>2. ClientInv' /\ ServerInv'
      BY <1>2, <2>1, ResponseClientInv, ServerStays DEF DoResponds, EIndInv
    <2> QED
      BY <1>2, <2>2 DEF EIndInv, JoinInv, NoFalseSuccess, serverVars
  <1>3. CASE Send
    BY <1>3, SendEIndInv
  <1>4. CASE ServerStep
    BY <1>4, ServerStepEIndInv
  <1>5. CASE Receive
    BY <1>5, ReceiveEIndInv
  <1>6. CASE EDone \/ UNCHANGED allVars
    <2>1. UNCHANGED vars /\ UNCHANGED serverVars
      BY <1>6 DEF EDone, allVars
    <2>2. ClientInv' /\ ServerInv'
      BY <2>1, ClientStays, ServerStays DEF EIndInv
    <2> QED
      BY <2>1, <2>2 DEF EIndInv, JoinInv, NoFalseSuccess, vars, serverVars
  <1> QED
    BY <1>1, <1>2, <1>3, <1>4, <1>5, <1>6 DEF ENext, ClientStep

LEMMA EndToEndInv == ESafetySpec => []EIndInv
  BY InitEIndInv, NextEIndInv, PTL DEF ESafetySpec

(***************************************************************************)
(* Every variable of the client keeps its type, whichever server responds: *)
(* in particular what a doh-server writes is a response that the client    *)
(* can be given.                                                           *)
(***************************************************************************)
THEOREM ClientTypeOK == ESafetySpec => []TypeOK
  <1>1. EIndInv => TypeOK
    BY DEF EIndInv, ClientInv
  <1> QED
    BY <1>1, EndToEndInv, PTL

(***************************************************************************)
(* A response of status 200 whose body is what its media type says reaches *)
(* the client of the query, whichever type of upstream it comes from.      *)
(***************************************************************************)
THEOREM ClientRelays == ESafetySpec => []GoodResponseRelayed
  <1>1. EIndInv => GoodResponseRelayed
    BY DEF EIndInv, ClientInv, ResponseInv, Good, GoodResponseRelayed
  <1> QED
    BY <1>1, EndToEndInv, PTL

(***************************************************************************)
(* parseRequestIETF accepts every message of generateRequestIETF, in a URL *)
(* and in a body, and parseRequestGoogle refuses only a name or an         *)
(* argument that it cannot parse.                                          *)
(***************************************************************************)
THEOREM Understood == ESafetySpec => []RequestUnderstood
  <1>1. EIndInv => RequestUnderstood
    <2> SUFFICES ASSUME EIndInv, sPc = "done", sWritten[1].status \in {400, 415}
                 PROVE  /\ upstream.RequestType = "dns-json"
                        /\ "invalid" \in {sRequest.name, sRequest.args}
      BY DEF RequestUnderstood
    <2>1. sWritten[1].status = 400
      BY ServerAnswers DEF EIndInv
    <2> QED
      BY <2>1, ServerAnswers DEF EIndInv
  <1> QED
    BY <1>1, EndToEndInv, PTL

(***************************************************************************)
(* NOERROR by way of a doh-server is the NOERROR of one of its upstreams.  *)
(***************************************************************************)
THEOREM NoSuccessInvented == ESafetySpec => []NoFalseSuccess
  <1>1. EIndInv => NoFalseSuccess
    BY DEF EIndInv
  <1> QED
    BY <1>1, EndToEndInv, PTL

-------------------------------------------------------------------------------
\* What the refinement mapping makes of the query.
ServiceIds == IF query.packs THEN {query.Id} ELSE {query.Id, 0}
ServiceLimit == IF query.isTCP \/ query.passthrough THEN MaxMsgSize
                ELSE IF query.edns /\ query.udpSize > 512 THEN query.udpSize ELSE 512
ServiceAnswers == IF query.Response THEN {0}
                  ELSE IF query.one /\ query.passthrough THEN {0, 1} ELSE {1}

LEMMA ServiceLimits ==
    ASSUME query \in Queries
    PROVE  12 <= ServiceLimit /\ Limit <= ServiceLimit
  BY QueryFields, MaxSize DEF ServiceLimit, Limit

\* A step that writes the reply is the abstract reply.
LEMMA ReplyStep ==
    ASSUME pc # "done", replies = << >>, 1 \in ServiceAnswers, NEW msg, Write(msg),
           msg.Id \in ServiceIds, msg.size <= ServiceLimit, UNCHANGED query
    PROVE  Service!Reply
  <1>1. Len(replies') = 1 /\ replies'[1] = msg
    BY DEF Write
  <1>2. (pc' = "done") \in BOOLEAN
    OBVIOUS
  <1> QED
    BY <1>1, <1>2 DEF Service!Reply, ServiceIds, ServiceLimit, ServiceAnswers

\* A step that ends the handler after what it owes is the abstract end.
LEMMA EndStep ==
    ASSUME pc # "done", pc' = "done", Len(replies) \in ServiceAnswers,
           UNCHANGED <<query, replies>>
    PROVE  Service!End
  BY DEF Service!End, ServiceAnswers

LEMMA StutterStep ==
    ASSUME pc # "done", pc' # "done", UNCHANGED <<query, replies>>
    PROVE  UNCHANGED Service!vars
  BY DEF Service!vars

\* The client's own replies are under an ID that they may have; r.Id is 0 in
\* "pack", where only a query that cannot be packed is answered.
LEMMA OwnReply ==
    ASSUME ClientInv, NEW rcode \in Rcodes, pc = "pack" => ~query.packs
    PROVE  /\ PrepareReply(rcode).Id \in ServiceIds
           /\ PrepareReply(rcode).size <= ServiceLimit
  <1>1. query \in Queries /\ id \in Ids /\ id \in {query.Id, 0}
    BY DEF ClientInv, TypeOK, IdInv
  <1>2. PrepareReply(rcode).Id = id /\ PrepareReply(rcode).size = 12
    BY <1>1, PreparedReply
  <1>3. id \in ServiceIds
    BY <1>1 DEF ClientInv, IdInv, ServiceIds
  <1> QED
    BY <1>1, <1>2, <1>3, ServiceLimits

LEMMA HandleIsService == ClientInv /\ Handle => [Service!Next]_(Service!vars)
  <1> SUFFICES ASSUME ClientInv, Handle PROVE [Service!Next]_(Service!vars)
    OBVIOUS
  <1>0. TypeOK /\ IdInv /\ ReplyInv /\ ResponseInv /\ query \in Queries
    BY DEF ClientInv, TypeOK
  <1>a. {"FormErr", "ServFail", "Refused"} \subseteq Rcodes
    BY DEF Rcodes
  <1>b. pc \in Relaying => 1 \in ServiceAnswers
    BY <1>0 DEF ReplyInv, ServiceAnswers
  <1> USE DEF Service!Next
  <1>1. CASE Drop
    <2>1. Len(replies) = 0 /\ ServiceAnswers = {0}
      BY <1>0, <1>1 DEF Drop, ReplyInv, ServiceAnswers
    <2> QED
      BY <1>1, <2>1, EndStep DEF Drop
  <1>2. CASE RefuseQuestions
    <2>1. replies = << >> /\ 1 \in ServiceAnswers
      BY <1>0, <1>2 DEF RefuseQuestions, ReplyInv, ServiceAnswers
    <2> QED
      BY <1>2, <1>a, <2>1, OwnReply, ReplyStep DEF RefuseQuestions
  <1>3. CASE Passthrough
    <2>1. /\ pc = "received" /\ pc' = "done" /\ UNCHANGED query
          /\ query.one /\ query.passthrough /\ ~query.Response
      BY <1>3, Zenon DEF Passthrough
    <2>2. replies = << >> /\ ServiceAnswers = {0, 1} /\ ServiceLimit = MaxMsgSize
      BY <1>0, <2>1 DEF ReplyInv, ServiceAnswers, ServiceLimit
    <2>3. CASE UNCHANGED replies
      BY <2>1, <2>2, <2>3, EndStep
    <2>4. CASE Write(PrepareReply("ServFail"))
      BY <1>a, <2>1, <2>2, <2>4, OwnReply, ReplyStep
    <2>5. ASSUME NEW reply \in DNSReplies,
                 Write([Id |-> id, origin |-> "upstream", Rcode |-> reply.Rcode,
                        size |-> reply.size, Truncated |-> FALSE])
          PROVE  Service!Reply
      <3> DEFINE msg == [Id |-> id, origin |-> "upstream", Rcode |-> reply.Rcode,
                         size |-> reply.size, Truncated |-> FALSE]
      <3>1. reply \in DNSReply
        BY DNSRepliesAssumption
      <3>2. msg.Id \in ServiceIds /\ msg.size <= ServiceLimit
        BY <1>0, <2>1, <2>2, <3>1, MaxSize DEF DNSReply, IdInv, ServiceIds
      <3>3. Write(msg)
        BY <2>5
      <3> HIDE DEF msg
      <3> QED
        BY <2>1, <2>2, <3>2, <3>3, ReplyStep
    <2> QED
      BY <1>3, <2>3, <2>4, <2>5, Zenon DEF Passthrough
  <1>4. CASE Get \/ ClearID \/ RestoreID
    BY <1>4, StutterStep DEF Get, ClearID, RestoreID
  <1>5. ASSUME NEW rcode \in {"FormErr", "ServFail", "Refused"}, Write(PrepareReply(rcode)),
               pc \in {"selected", "pack", "packed", "do"}, pc = "pack" => ~query.packs,
               UNCHANGED query
        PROVE  Service!Reply
    <2>1. replies = << >> /\ 1 \in ServiceAnswers
      BY <1>0, <1>5, <1>b DEF ReplyInv, Relaying
    <2> QED
      BY <1>5, <1>a, <2>1, OwnReply, ReplyStep
  <1>6. CASE GenerateGoogle \/ GenerateIETF
    BY <1>5, <1>6, StutterStep DEF GenerateGoogle, GenerateIETF
  <1>7. CASE PackFails \/ DoFails
    BY <1>5, <1>7 DEF PackFails, DoFails
  <1>8. CASE ReportError \/ ReportStatus
    <2>1. /\ pc \in {"failed", "report"} /\ pc' = "done" /\ UNCHANGED <<query, replies>>
      BY <1>8 DEF ReportError, ReportStatus
    <2>2. Len(replies) \in ServiceAnswers
      BY <1>0, <1>b, <2>1 DEF ReplyInv, Relaying
    <2> QED
      BY <2>1, <2>2, EndStep
  <1>9. CASE Parse
    <2>1. /\ pc = "parse" /\ Write(Parsed) /\ UNCHANGED query
      BY <1>9 DEF Parse, Parsed
    <2>2. replies = << >> /\ response \in HTTPResponse /\ 1 \in ServiceAnswers
      BY <1>0, <1>b, <2>1 DEF ReplyInv, ResponseInv, Relaying
    <2>3. Parsed.Id = id /\ Parsed.size <= Limit /\ Parsed.size \in Nat
      BY <2>2, ParsedFields, MaxSize DEF DNSResponse
    <2>4. Parsed.Id \in ServiceIds
      BY <1>0, <2>1, <2>3 DEF IdInv, ServiceIds
    <2>5. Parsed.size <= ServiceLimit
      BY <1>0, <2>3, ServiceLimits, LimitBounds, QueryFields, MaxSize DEF ServiceLimit
    <2> QED
      BY <2>1, <2>2, <2>4, <2>5, ReplyStep
  <1> QED
    BY <1>1, <1>2, <1>3, <1>4, <1>6, <1>7, <1>8, <1>9 DEF Handle

(***************************************************************************)
(* The two programs together are a DNS service (the safety part of         *)
(* ServiceSpec): under the refinement mapping every step is the reply, the *)
(* end, or nothing.  A query is answered at most once and before its       *)
(* handler ends, under its own ID and within the size that it can take,    *)
(* whatever fails and whichever upstream answers.                          *)
(***************************************************************************)
THEOREM EndToEndImplementsService == ESafetySpec => Service!SafetySpec
  <1>1. EInit => Service!Init
    BY DEF EInit, Init, Service!Init
  <1>2. EIndInv /\ [ENext]_allVars => [Service!Next]_(Service!vars)
    <2> SUFFICES ASSUME EIndInv, [ENext]_allVars PROVE [Service!Next]_(Service!vars)
      OBVIOUS
    <2>1. CASE Handle
      BY <2>1, HandleIsService DEF EIndInv
    <2>2. CASE DoResponds \/ Receive
      BY <2>2, StutterStep DEF DoResponds, Receive
    <2>3. CASE UNCHANGED vars
      BY <2>3 DEF vars, Service!vars
    <2> QED
      BY <2>1, <2>2, <2>3 DEF ENext, ClientStep, Send, ServerStep, EDone, allVars
  <1> QED
    BY <1>1, <1>2, EndToEndInv, PTL DEF ESafetySpec, Service!SafetySpec
===============================================================================
