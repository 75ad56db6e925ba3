------------------------------- MODULE DoHClient -------------------------------
(***************************************************************************)
(* doh-client: what happens to one DNS query, from handlerFunc through the *)
(* HTTP request to the reply and the status reported to the selector.      *)
(*                                                                         *)
(* Handlers of different queries share the selector only, which module     *)
(* Selector models.  Here Get returns any upstream.  The HTTP exchange and *)
(* the one with a bootstrap DNS server are external: they end with any     *)
(* response of HTTPResponses or DNSReplies, or with an error.              *)
(***************************************************************************)
EXTENDS Naturals, Sequences

CONSTANTS
    Ids,            \* DNS transaction IDs
    Upstreams,      \* the upstreams that the selector was given
    Queries,        \* the DNS messages a run may start with
    HTTPResponses,  \* the responses upstreams give
    DNSReplies      \* the messages bootstrap DNS servers reply with

\* dns.MaxMsgSize
MaxMsgSize == 65535

\* What the selectors' Add makes of the upstream types it accepts.
Upstream == [RequestType : {"dns-json", "dns-message"}, url : {"valid", "invalid"}]

(***************************************************************************)
(* Response: the QR bit; one: it has exactly one question; passthrough:    *)
(* the name has a suffix in c.passthrough; inet: its class is INET; packs: *)
(* Pack succeeds with the OPT record and the subnet added; edns: its OPT   *)
(* record has the UDP payload size udpSize.                                *)
(***************************************************************************)
Query == [Id : Ids, isTCP : BOOLEAN, Response : BOOLEAN, one : BOOLEAN,
          passthrough : BOOLEAN, inet : BOOLEAN, packs : BOOLEAN,
          edns : BOOLEAN, udpSize : 0..MaxMsgSize]

\* Extended: the codes above 15, of which a message has the low four bits in its
\* header and the others in its OPT record.
Extended == {"BadVers"}
Rcodes == {"NoError", "FormErr", "ServFail", "Refused"} \cup Extended

(***************************************************************************)
(* type: the media type in Content-Type; body: what the body can be parsed *)
(* as, unless it cannot be read to its end before ctx is done; size: the   *)
(* length of the DNS message made of it; packs: Pack of it succeeds;       *)
(* Rcode: the code in it.                                                  *)
(***************************************************************************)
HTTPResponse == [StatusCode : 100..599,
                 type : {"json", "dns-message", "dns-udpwireformat", "other"},
                 body : {"unreadable", "neither", "json", "wire"},
                 size : 0..MaxMsgSize, packs : BOOLEAN, Rcode : Rcodes]

DNSReply == [size : 0..MaxMsgSize, packs : BOOLEAN, Rcode : Rcodes]

ASSUME IdsAssumption == 0 \in Ids
ASSUME UpstreamsAssumption == Upstreams \subseteq Upstream /\ Upstreams # {}
ASSUME QueriesAssumption == Queries \subseteq Query
ASSUME ResponsesAssumption == HTTPResponses \subseteq HTTPResponse
ASSUME DNSRepliesAssumption == DNSReplies \subseteq DNSReply

VARIABLES
    query,     \* the message r as it arrived
    id,        \* r.Id
    pc,        \* where the handler is
    upstream,  \* what Get returned
    response,  \* req.response
    err,       \* req.err: none, a timeout, another *url.Error, another error
    replies,   \* what was written to w
    report     \* the status reported to the selector

vars == <<query, id, pc, upstream, response, err, replies, report>>

NoUpstream == [RequestType |-> "none", url |-> "none"]
NoResponse == [StatusCode |-> 0, type |-> "other", body |-> "neither", size |-> 0,
               packs |-> FALSE, Rcode |-> "none"]

-------------------------------------------------------------------------------
\* The size of a message without records but its question; any number up to
\* 512 would do.
EmptySize == 12

\* jsondns.PrepareReply(r) with an Rcode.
PrepareReply(rcode) ==
    [Id |-> id, origin |-> "self", Rcode |-> rcode, size |-> EmptySize, Truncated |-> FALSE]

DNSResponse == [Id : Ids, origin : {"self", "upstream"}, size : 0..MaxMsgSize,
                Rcode : Rcodes, Truncated : BOOLEAN]

\* req.udpSize: the OPT record that generateRequestIETF adds does not count.
UDPSize(q) == IF q.edns THEN q.udpSize ELSE 512

\* dns.Msg.Truncate drops records from msg until it has at most size bytes,
\* and at most 512 are never asked for.
Truncate(msg, size) ==
    LET limit == IF size < 512 THEN 512 ELSE size
    IN  IF msg.size <= limit THEN msg
        ELSE [msg EXCEPT !.size = limit, !.Truncated = TRUE]

\* Fault: the upstream is taken to answer in the format it was asked in.
ParserOfRequest(requestType, resp) == IF requestType = "dns-json" THEN "json" ELSE "wire"

\* Which of parseResponseGoogle and parseResponseIETF reads the response.
Parser(requestType, resp) ==
    CASE resp.type = "json" -> "json"
      [] resp.type \in {"dns-message", "dns-udpwireformat"} -> "wire"
      [] OTHER -> IF requestType = "dns-json" THEN "json" ELSE "wire"

\* What is written when the body is a message that Pack can pack.
FullReply(resp) ==
    Truncate([Id |-> id, origin |-> "upstream", Rcode |-> resp.Rcode, size |-> resp.size,
              Truncated |-> FALSE],
             IF query.isTCP THEN MaxMsgSize ELSE UDPSize(query))

\* jsondns.Unmarshal keeps Status & 0xf as the Rcode: BADVERS, 16, is NOERROR
\* then.  The high bits that it puts into the OPT record are reset by Pack.
LowBits(rcode) == IF rcode = "BadVers" THEN "NoError" ELSE rcode

\* A response with another status than 200 is read only if it says that it is
\* of the parser's own type.
ParseResponseGoogle(resp) ==
    IF /\ resp.StatusCode = 200 \/ resp.type = "json"
       /\ resp.body = "json" /\ resp.packs
    THEN FullReply([resp EXCEPT !.Rcode = LowBits(@)]) ELSE PrepareReply("ServFail")

ParseResponseIETF(resp) ==
    IF /\ resp.StatusCode = 200 \/ resp.type = "dns-message"
       /\ resp.body = "wire" /\ resp.packs
    THEN FullReply(resp) ELSE PrepareReply("ServFail")

Write(msg) == replies' = Append(replies, msg)

-------------------------------------------------------------------------------
Init ==
    /\ query \in Queries
    /\ id = query.Id
    /\ pc = "received"
    /\ upstream = NoUpstream
    /\ response = NoResponse
    /\ err = "none"
    /\ replies = << >>
    /\ report = "none"

\* "Received a response packet"
Drop ==
    /\ pc = "received"
    /\ query.Response
    /\ pc' = "done"
    /\ UNCHANGED <<query, id, upstream, response, err, replies, report>>

\* "Number of questions is not 1"
RefuseQuestions ==
    /\ pc = "received"
    /\ ~query.Response /\ ~query.one
    /\ Write(PrepareReply("FormErr"))
    /\ pc' = "done"
    /\ UNCHANGED <<query, id, upstream, response, err, report>>

\* The query is passed through to a bootstrap server, over the protocol it
\* came by.  A reply that WriteMsg cannot pack is lost.
Passthrough ==
    /\ pc = "received"
    /\ ~query.Response /\ query.one /\ query.passthrough
    /\ \/ \E reply \in DNSReplies :
            IF reply.packs
            THEN Write([Id |-> id, origin |-> "upstream", Rcode |-> reply.Rcode,
                        size |-> reply.size, Truncated |-> FALSE])
            ELSE UNCHANGED replies
       \/ Write(PrepareReply("ServFail"))
    /\ pc' = "done"
    /\ UNCHANGED <<query, id, upstream, response, err, report>>

\* c.selector.Get()
Get ==
    /\ pc = "received"
    /\ ~query.Response /\ query.one /\ ~query.passthrough
    /\ upstream' \in Upstreams
    /\ pc' = "selected"
    /\ UNCHANGED <<query, id, response, err, replies, report>>

\* generateRequestGoogle up to Do.
GenerateGoogle ==
    /\ pc = "selected"
    /\ upstream.RequestType = "dns-json"
    /\ \/ /\ ~query.inet
          /\ Write(PrepareReply("Refused"))
          /\ err' = "other" /\ pc' = "failed"
       \/ /\ query.inet /\ upstream.url = "invalid"
          /\ Write(PrepareReply("ServFail"))
          /\ err' = "url" /\ pc' = "failed"
       \/ /\ query.inet /\ upstream.url = "valid"
          /\ pc' = "do"
          /\ UNCHANGED <<replies, err>>
    /\ UNCHANGED <<query, id, upstream, response, report>>

\* generateRequestIETF sends the query under the ID 0: r.Id is cleared for
\* Pack, and restored when Pack succeeds.
ClearID ==
    /\ pc = "selected"
    /\ upstream.RequestType = "dns-message"
    /\ id' = 0
    /\ pc' = "pack"
    /\ UNCHANGED <<query, upstream, response, err, replies, report>>

PackFails ==
    /\ pc = "pack"
    /\ ~query.packs
    /\ Write(PrepareReply("FormErr"))
    /\ err' = "other" /\ pc' = "failed"
    /\ UNCHANGED <<query, id, upstream, response, report>>

RestoreID ==
    /\ pc = "pack"
    /\ query.packs
    /\ id' = query.Id
    /\ pc' = "packed"
    /\ UNCHANGED <<query, upstream, response, err, replies, report>>

\* http.NewRequest fails for a URL that it cannot parse.
GenerateIETF ==
    /\ pc = "packed"
    /\ \/ /\ upstream.url = "invalid"
          /\ Write(PrepareReply("ServFail"))
          /\ err' = "url" /\ pc' = "failed"
       \/ /\ upstream.url = "valid"
          /\ pc' = "do"
          /\ UNCHANGED <<replies, err>>
    /\ UNCHANGED <<query, id, upstream, response, report>>

\* c.httpClient.Do(req) returns the header of a response ...
DoResponds ==
    /\ pc = "do"
    /\ response' \in HTTPResponses
    /\ pc' = "parse"
    /\ UNCHANGED <<query, id, upstream, err, replies, report>>

\* Fault: the request is made again as often as it fails.
DoFailsRetries ==
    /\ pc = "do"
    /\ err' \in {"timeout", "url"}
    /\ UNCHANGED <<query, id, pc, upstream, response, replies, report>>

\* ... or fails, by the deadline of ctx or otherwise.
DoFails ==
    /\ pc = "do"
    /\ err' \in {"timeout", "url"}
    /\ Write(PrepareReply("ServFail"))
    /\ pc' = "failed"
    /\ UNCHANGED <<query, id, upstream, response, report>>

\* handlerFunc when req.err # nil.
ReportError ==
    /\ pc = "failed"
    /\ report' = IF err = "timeout" THEN "Timeout" ELSE report
    /\ pc' = "done"
    /\ UNCHANGED <<query, id, upstream, response, err, replies>>

Parse ==
    /\ pc = "parse"
    /\ Write(IF Parser(upstream.RequestType, response) = "json"
             THEN ParseResponseGoogle(response) ELSE ParseResponseIETF(response))
    /\ pc' = "report"
    /\ UNCHANGED <<query, id, upstream, response, err, report>>

\* The switch on req.response.StatusCode / 100.
ReportStatus ==
    /\ pc = "report"
    /\ report' = CASE response.StatusCode \div 100 = 5 -> "Error"
                   [] response.StatusCode \div 100 = 2 -> "OK"
                   [] OTHER -> report
    /\ pc' = "done"
    /\ UNCHANGED <<query, id, upstream, response, err, replies>>

Done == pc = "done" /\ UNCHANGED vars

\* What the handler does by itself; the deadline of ctx included.
Handle == \/ Drop \/ RefuseQuestions \/ Passthrough \/ Get
          \/ GenerateGoogle \/ ClearID \/ PackFails \/ RestoreID \/ GenerateIETF
          \/ DoFails \/ ReportError \/ Parse \/ ReportStatus

Step == Handle \/ DoResponds

Next == Step \/ Done

SafetySpec == Init /\ [][Next]_vars

\* The handler runs to its end: Get returns, and ctx bounds the exchange.
Spec == SafetySpec /\ WF_vars(Step)

-------------------------------------------------------------------------------
\* Every variable has its type; in particular only statuses that the selectors
\* know are reported.
TypeOK ==
    /\ query \in Queries
    /\ id \in Ids
    /\ pc \in {"received", "selected", "pack", "packed", "do", "failed", "parse",
              "report", "done"}
    /\ upstream \in Upstreams \cup {NoUpstream}
    /\ response \in HTTPResponse \cup {NoResponse}
    /\ err \in {"none", "timeout", "url", "other"}
    /\ replies \in Seq(DNSResponse)
    /\ report \in {"none", "Timeout", "Error", "OK"}

(***************************************************************************)
(* The client asks for one format and accepts the other: a response of     *)
(* status 200 whose media type tells what its body is reaches the client   *)
(* of the query, whichever type of upstream it comes from.                 *)
(***************************************************************************)
GoodResponseRelayed ==
    /\ pc = "done" /\ response.StatusCode = 200 /\ response.packs
    /\ \/ response.type = "json" /\ response.body = "json"
       \/ response.type \in {"dns-message", "dns-udpwireformat"} /\ response.body = "wire"
    => replies[1].origin = "upstream"
===============================================================================
