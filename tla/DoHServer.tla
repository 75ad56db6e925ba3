------------------------------- MODULE DoHServer -------------------------------
(***************************************************************************)
(* doh-server: what happens to one HTTP request, from handlerFunc through  *)
(* the tries of doDNSQuery to the HTTP response.                           *)
(*                                                                         *)
(* Requests share nothing but the read-only configuration, so one of them  *)
(* is modelled.  The exchanges with the upstream DNS servers are external: *)
(* each ends with any reply of Replies or with an error, which stands for  *)
(* a timeout, a refused connection, a cancelled context and, when it comes *)
(* with a reply, a message that could not be parsed to its end.            *)
(***************************************************************************)
EXTENDS Naturals, Sequences, FiniteSets

CONSTANTS
    Tries,      \* conf.Tries
    Upstreams,  \* the transports of conf.Upstream
    Ids,        \* DNS transaction IDs
    Requests,   \* the HTTP requests a run may start with
    Replies     \* the DNS messages upstream servers reply with

\* loadConfig makes Tries at least 1 and refuses other transports.
ASSUME ConfigAssumption ==
    /\ Tries \in Nat \ {0}
    /\ Upstreams \subseteq {"udp", "tcp", "tcp-tls"} /\ Upstreams # {}

MediaTypes == {"", "dns-json", "dns-message", "dns-udpwireformat", "other"}

(***************************************************************************)
(* method; header and ct: the media type in Content-Type and in the form   *)
(* value ct; accept: the first media type of Accept that handlerFunc       *)
(* knows; name and args: the form values of the JSON API, args standing    *)
(* for type, cd and edns_client_subnet; dns and body: the DNS message in   *)
(* the form value dns and in the body, "dnscrypt" being the probe of       *)
(* dnscrypt-proxy; root, qtype, rd, id: what the DNS message asks; ecs:    *)
(* whether it, or the JSON arguments, give a client subnet; ip: whether    *)
(* findClientIP finds an address of the client.                            *)
(***************************************************************************)
Request ==
    [method : {"OPTIONS", "GET", "POST"},
     header : MediaTypes, ct : MediaTypes,
     accept : {"", "json", "dns-udpwireformat", "dns-message"},
     name : {"", "invalid", "valid"}, args : {"invalid", "valid"},
     dns  : {"", "undecodable", "dnscrypt", "malformed", "message"},
     body : {"", "unreadable", "dnscrypt", "malformed", "message"},
     root : BOOLEAN, qtype : {"A", "AXFR", "IXFR"}, rd : BOOLEAN,
     id : Ids, ecs : BOOLEAN, ip : BOOLEAN]

\* Truncated: the TC bit; soaOnly: the answer is a single SOA record;
\* HaveTTL: it has a record; packs: Pack and json.Marshal of it succeed.
\* BadVers stands for the codes above 15, whose high bits are in an OPT record.
Reply == [Truncated : BOOLEAN, soaOnly : BOOLEAN, HaveTTL : BOOLEAN,
          Rcode : {"NoError", "ServFail", "BadVers"}, packs : BOOLEAN]

\* The transaction ID in the probe of dnscrypt-proxy, 0xcafe.
Cafe == 51966

ASSUME IdsAssumption == 0 \in Ids /\ Cafe \in Ids
ASSUME RequestsAssumption == Requests \subseteq Request
ASSUME ProbeAssumption == \A r \in Requests : "dnscrypt" \in {r.dns, r.body} => r.id = Cafe
ASSUME RepliesAssumption == Replies \subseteq Reply

\* req.response before an exchange and after one without a reply.
NoReply == [Truncated |-> FALSE, soaOnly |-> FALSE, HaveTTL |-> FALSE,
            Rcode |-> "none", packs |-> FALSE]

VARIABLES
    request,   \* the HTTP request
    pc,        \* where its handler is
    query,     \* req.request and the fields next to it
    try,       \* i of the loop in doDNSQuery, counted from 1
    response,  \* req.response
    err,       \* err # nil after the last exchange
    via,       \* the transport of the last exchange
    written    \* the HTTP responses written

vars == <<request, pc, query, try, response, err, via, written>>

-------------------------------------------------------------------------------
\* The form value ct overrides the header; without either it is guessed.
ContentType(r) ==
    IF r.ct # "" THEN r.ct
    ELSE IF r.header # "" THEN r.header
    ELSE IF r.name # "" THEN "dns-json"
    ELSE IF r.dns # "" THEN "dns-message"
    ELSE ""

Wire == {"dns-message", "dns-udpwireformat"}

\* Fault: the older media type is not known here.
ResponseTypeNoUDPWire(r) ==
    IF r.accept = "json" THEN "json"
    ELSE IF r.accept \in Wire THEN "dns-message"
    ELSE IF ContentType(r) = "dns-json" THEN "json"
    ELSE IF ContentType(r) = "dns-message" THEN "dns-message"
    ELSE ""

ResponseType(r) ==
    IF r.accept = "json" THEN "json"
    ELSE IF r.accept \in Wire THEN "dns-message"
    ELSE IF ContentType(r) = "dns-json" THEN "json"
    ELSE IF ContentType(r) \in Wire THEN "dns-message"
    ELSE ""

\* errcode of parseRequestGoogle.
ParseGoogle(r) == IF r.name = "valid" /\ r.args = "valid" THEN 0 ELSE 400

\* Fault: a body is not read.
BinaryOfForm(r) == r.dns

\* The body is read when there is no dns value and the header (not ct) says
\* that it is a DNS message.
Binary(r) == IF r.dns = "" /\ r.header \in Wire THEN r.body ELSE r.dns

\* errcode of parseRequestIETF; 444 says that it has responded already.
ParseIETF(r) ==
    CASE Binary(r) = "dnscrypt" -> 444
      [] Binary(r) = "message"  -> 0
      [] OTHER                  -> 400

ErrCode(r) ==
    CASE ContentType(r) = "dns-json" -> ParseGoogle(r)
      [] ContentType(r) \in Wire     -> ParseIETF(r)
      [] OTHER                       -> 415

(***************************************************************************)
(* The query for the upstream.  subnet: the client subnet is the           *)
(* request's, the one of the client's address, or there is none.           *)
(***************************************************************************)
Query == [Id : Ids, qtype : {"A", "AXFR", "IXFR"}, rd : BOOLEAN,
          transactionID : Ids, subnet : {"request", "client", "none"},
          isTailored : BOOLEAN]

NoQuery == [Id |-> 0, qtype |-> "A", rd |-> FALSE, transactionID |-> 0,
            subnet |-> "none", isTailored |-> FALSE]

Subnet(r) == IF r.ecs THEN "request" ELSE IF r.ip THEN "client" ELSE "none"

\* parseRequestGoogle: SetQuestion asks with RD under the ID id; there is no ID
\* to give back.
QueryGoogle(r, id) ==
    [Id |-> id, qtype |-> r.qtype, rd |-> TRUE, transactionID |-> 0,
     subnet |-> Subnet(r), isTailored |-> ~r.ecs]

\* Fault: isTailored is found out after the client's subnet was added.
QueryIETFNotTailored(r, id) ==
    [Id |-> id, qtype |-> r.qtype, rd |-> r.rd, transactionID |-> r.id,
     subnet |-> Subnet(r), isTailored |-> Subnet(r) = "none"]

\* Fault: transactionID is taken from the message after its ID was changed.
QueryIETFFreshID(r, id) ==
    [Id |-> id, qtype |-> r.qtype, rd |-> r.rd, transactionID |-> id,
     subnet |-> Subnet(r), isTailored |-> ~r.ecs]

\* parseRequestIETF: the ID of the message is kept and replaced by id.
QueryIETF(r, id) ==
    [Id |-> id, qtype |-> r.qtype, rd |-> r.rd, transactionID |-> r.id,
     subnet |-> Subnet(r), isTailored |-> ~r.ecs]

\* patchRootRD turns RD on for the root.
PatchRootRD(r, q) == [q EXCEPT !.rd = @ \/ r.root]

QueryOf(r, id) == PatchRootRD(r, IF ContentType(r) = "dns-json" THEN QueryGoogle(r, id)
                                 ELSE QueryIETF(r, id))

\* Rcode: what the body gives as the code of the DNS reply.
HTTPResponse == [status : {200, 400, 415, 500, 503}, type : {"", "json", "dns-message"},
                 id : Ids, cache : {"", "private", "public"},
                 Rcode : {"none", "NoError", "ServFail", "Refused", "BadVers"}]

\* Fault: the field Status of the error is left out.
FormatErrorNoStatus(errcode) ==
    [status |-> errcode, type |-> "json", id |-> 0, cache |-> "", Rcode |-> "NoError"]

\* jsondns.FormatError
FormatError(errcode) ==
    [status |-> errcode, type |-> "json", id |-> 0, cache |-> "", Rcode |-> "ServFail"]

\* What patchDNSCryptProxyReqID responds with.
DNSCryptProxyResponse ==
    [status |-> 200, type |-> "dns-message", id |-> Cafe, cache |-> "", Rcode |-> "Refused"]

Status(reply) == IF reply.Rcode = "ServFail" THEN 503 ELSE 200

CacheControl(q, reply) ==
    IF ~reply.HaveTTL THEN "" ELSE IF q.isTailored THEN "private" ELSE "public"

\* JSON has no ID; Marshal gives the code with its high bits.
GenerateResponseGoogle(q, reply) ==
    IF ~reply.packs THEN FormatError(500)
    ELSE [status |-> Status(reply), type |-> "json", id |-> 0,
          cache |-> CacheControl(q, reply), Rcode |-> reply.Rcode]

GenerateResponseIETF(q, reply) ==
    IF ~reply.packs THEN FormatError(500)
    ELSE [status |-> Status(reply), type |-> "dns-message", id |-> q.transactionID,
          cache |-> CacheControl(q, reply), Rcode |-> reply.Rcode]

Write(resp) == written' = Append(written, resp) /\ pc' = "done"

-------------------------------------------------------------------------------
Init ==
    /\ request \in Requests
    /\ pc = "received"
    /\ query = NoQuery
    /\ try = 0
    /\ response = NoReply
    /\ err = FALSE
    /\ via = "none"
    /\ written = << >>

\* handlerFunc up to doDNSQuery, when the request is answered at once.
Respond ==
    /\ pc = "received"
    /\ \/ /\ request.method = "OPTIONS"
          /\ Write([status |-> 200, type |-> "", id |-> 0, cache |-> "", Rcode |-> "none"])
       \/ /\ request.method # "OPTIONS"
          /\ ErrCode(request) = 444
          /\ Write(DNSCryptProxyResponse)
       \/ /\ request.method # "OPTIONS"
          /\ ErrCode(request) \in {400, 415}
          /\ Write(FormatError(ErrCode(request)))
    /\ UNCHANGED <<request, query, try, response, err, via>>

\* handlerFunc up to doDNSQuery, when there is a query to make.
Accept ==
    /\ pc = "received"
    /\ request.method # "OPTIONS"
    /\ ErrCode(request) = 0
    /\ \E id \in Ids : query' = QueryOf(request, id)
    /\ pc' = "try"
    /\ UNCHANGED <<request, try, response, err, via, written>>

\* Fault: the try is not counted.
PickUpstreamUncounted(t) ==
    /\ pc = "try"
    /\ try < Tries
    /\ pc' = IF t = "udp" /\ query.qtype # "AXFR" THEN "udp"
             ELSE IF t = "udp" THEN "tcp" ELSE t
    /\ UNCHANGED <<request, query, try, response, err, via, written>>

\* The head of the loop: an upstream is drawn for this try.
PickUpstream(t) ==
    /\ pc = "try"
    /\ try < Tries
    /\ try' = try + 1
    /\ pc' = IF t = "udp" /\ query.qtype # "AXFR" THEN "udp"
             ELSE IF t = "udp" THEN "tcp" ELSE t
    /\ UNCHANGED <<request, query, response, err, via, written>>

\* ExchangeContext over t ends with a reply or with an error.
Exchange(t, next) ==
    /\ via' = t
    /\ \/ response' \in Replies /\ err' = FALSE
       \/ response' \in Replies \cup {NoReply} /\ err' = TRUE
    /\ pc' = next
    /\ UNCHANGED <<request, query, try, written>>

ExchangeStream ==
    \E t \in {"tcp", "tcp-tls"} : pc = t /\ Exchange(t, "tried")

ExchangeUDP == pc = "udp" /\ Exchange("udp", "truncation")

\* Fault: the truncated reply is kept when the exchange over TCP fails.
RetryTruncatedKeeps ==
    /\ pc = "truncation"
    /\ ~err /\ response.Truncated
    /\ \/ Exchange("tcp", "ixfr")
       \/ pc' = "ixfr" /\ UNCHANGED <<request, query, try, response, err, via, written>>

\* A truncated reply is asked for again over TCP.
RetryTruncated ==
    /\ pc = "truncation"
    /\ ~err /\ response.Truncated
    /\ Exchange("tcp", "ixfr")

NotTruncated ==
    /\ pc = "truncation"
    /\ err \/ ~response.Truncated
    /\ pc' = "ixfr"
    /\ UNCHANGED <<request, query, try, response, err, via, written>>

\* An IXFR answered with a single SOA is asked for again over TCP.
RetryIXFR ==
    /\ pc = "ixfr"
    /\ query.qtype = "IXFR"
    /\ response # NoReply
    /\ response.soaOnly
    /\ Exchange("tcp", "tried")

\* len(req.response.Answer) with req.response nil: net/http recovers the
\* panic and aborts the connection.
NilPanics ==
    /\ pc = "ixfr"
    /\ query.qtype = "IXFR"
    /\ response = NoReply
    /\ pc' = "panicked"
    /\ UNCHANGED <<request, query, try, response, err, via, written>>

NoIXFR ==
    /\ pc = "ixfr"
    /\ query.qtype # "IXFR" \/ (response # NoReply /\ ~response.soaOnly)
    /\ pc' = "tried"
    /\ UNCHANGED <<request, query, try, response, err, via, written>>

\* The end of a try that failed.
Retry ==
    /\ pc = "tried"
    /\ err
    /\ pc' = "try"
    /\ UNCHANGED <<request, query, try, response, err, via, written>>

\* doDNSQuery returns the last error.
GiveUp ==
    /\ pc = "try"
    /\ try = Tries
    /\ Write(FormatError(503))
    /\ UNCHANGED <<request, query, try, response, err, via>>

\* The response is generated, or panic("Unknown response Content-Type").
Answer ==
    /\ pc = "tried"
    /\ ~err
    /\ CASE ResponseType(request) = "json" -> Write(GenerateResponseGoogle(query, response))
         [] ResponseType(request) = "dns-message" -> Write(GenerateResponseIETF(query, response))
         [] OTHER -> pc' = "panicked" /\ UNCHANGED written
    /\ UNCHANGED <<request, query, try, response, err, via>>

Done == pc \in {"done", "panicked"} /\ UNCHANGED vars

Step == \/ Respond \/ Accept
        \/ \E t \in Upstreams : PickUpstream(t)
        \/ ExchangeStream \/ ExchangeUDP \/ RetryTruncated \/ NotTruncated
        \/ RetryIXFR \/ NilPanics \/ NoIXFR
        \/ Retry \/ GiveUp \/ Answer

Next == Step \/ Done

SafetySpec == Init /\ [][Next]_vars

\* The server runs the handler to its end, and an exchange ends by Timeout.
Spec == SafetySpec /\ WF_vars(Step)

-------------------------------------------------------------------------------
\* Every variable has its type, and at most one HTTP response is written, also
\* when a parser has responded itself (errcode 444).
TypeOK ==
    /\ request \in Request
    /\ pc \in {"received", "try", "udp", "tcp", "tcp-tls", "truncation", "ixfr",
              "tried", "done", "panicked"}
    /\ query \in Query
    /\ try \in 0..Tries
    /\ response \in Replies \cup {NoReply}
    /\ err \in BOOLEAN
    /\ via \in {"none", "udp", "tcp", "tcp-tls"}
    /\ written \in Seq(HTTPResponse) /\ Len(written) <= 1

\* The reply that is given back.
Answered == pc = "done" /\ query # NoQuery /\ ~err

(***************************************************************************)
(* No reply that came over UDP is given back when it is truncated, answers *)
(* a zone transfer, or answers an incremental transfer with a single SOA.  *)
(* doDNSQuery must ask again over TCP in each of these cases, and an error *)
(* of the second exchange must not bring the first reply back.             *)
(***************************************************************************)
StreamWhenNeeded ==
    Answered /\ via = "udp" =>
        /\ ~response.Truncated
        /\ query.qtype # "AXFR"
        /\ query.qtype = "IXFR" => ~response.soaOnly

(***************************************************************************)
(* A reply to a query that carries a subnet made from the client's address *)
(* is not offered to shared caches, whichever parser made the query and    *)
(* whichever generator answers it.                                         *)
(***************************************************************************)
TailoredIsPrivate ==
    Answered /\ query.subnet = "client" => written[1].cache # "public"

(***************************************************************************)
(* A DNS message is answered, when with a DNS message, under its own ID,   *)
(* although the query to the upstream had another one.                     *)
(***************************************************************************)
TransactionIDKept ==
    pc = "done" /\ written[1].type = "dns-message" /\ ContentType(request) \in Wire
        => written[1].id = request.id

(***************************************************************************)
(* The handler never comes to panic("Unknown response Content-Type"): a    *)
(* request whose media type is accepted has a response type too.           *)
(***************************************************************************)
ResponseTypeKnown == pc = "panicked" => query.qtype = "IXFR" /\ err

(***************************************************************************)
(* A query fails only after Tries tries.  doh-server.conf: "Number of      *)
(* tries if upstream DNS fails".                                           *)
(***************************************************************************)
FailsOnlyAfterTries ==
    pc \in {"done", "panicked"} /\ err => try = Tries

(***************************************************************************)
(* Every request gets an HTTP response, whatever the upstream servers do,  *)
(* an IXFR query at least an end.  (handlerFunc, doDNSQuery.)              *)
(***************************************************************************)
Responds == <>(pc = "done" \/ (pc = "panicked" /\ query.qtype = "IXFR"))
===============================================================================
