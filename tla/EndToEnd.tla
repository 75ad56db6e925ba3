-------------------------------- MODULE EndToEnd --------------------------------
(***************************************************************************)
(* doh-client with doh-server: a DNS query goes from handlerFunc of the    *)
(* client over HTTP to handlerFunc of the server, to its upstream servers  *)
(* and all the way back.                                                   *)
(*                                                                         *)
(* The two run on: the deadline of the client may pass at any time, and    *)
(* the server finishes a request whose client has gone.  An upstream that  *)
(* is not a doh-server answers with any of HTTPResponses, as in DoHClient. *)
(***************************************************************************)
EXTENDS DoHClient

CONSTANTS
    Tries, Transports, Replies,  \* of the server
    Sizes                        \* the lengths of the messages it responds with

VARIABLES sRequest, sPc, sQuery, sTry, sReply, sErr, sVia, sWritten

serverVars == <<sRequest, sPc, sQuery, sTry, sReply, sErr, sVia, sWritten>>
allVars == <<vars, serverVars>>

\* How the question comes to the server: in a URL or, if that is too long, in a
\* body; whether the server can parse the name and the type in a JSON request.
Forms == [post : BOOLEAN, name : {"invalid", "valid"}, args : {"invalid", "valid"},
          qtype : {"A", "IXFR"}]

\* generateRequestGoogle.  (Subnets are the matter of module Messages.)
RequestGoogle(f) ==
    [method |-> "GET", header |-> "", ct |-> "dns-json", accept |-> "json",
     name |-> f.name, args |-> f.args, dns |-> "", body |-> "",
     root |-> FALSE, qtype |-> f.qtype, rd |-> TRUE, id |-> 0, ecs |-> FALSE, ip |-> TRUE]

\* generateRequestIETF
RequestIETF(f) ==
    [method |-> IF f.post THEN "POST" ELSE "GET",
     header |-> IF f.post THEN "dns-message" ELSE "",
     ct     |-> IF f.post THEN "" ELSE "dns-message", accept |-> "dns-message",
     name   |-> "", args |-> "valid",
     dns    |-> IF f.post THEN "" ELSE "message",
     body   |-> IF f.post THEN "message" ELSE "",
     root   |-> FALSE, qtype |-> f.qtype, rd |-> TRUE, id |-> 0, ecs |-> FALSE, ip |-> TRUE]

ClientRequests == {RequestGoogle(f) : f \in Forms} \cup {RequestIETF(f) : f \in Forms}

NoRequest == [method |-> "none"]

Server == INSTANCE DoHServer WITH
    Upstreams <- Transports, Requests <- ClientRequests,
    request <- sRequest, pc <- sPc, query <- sQuery, try <- sTry, response <- sReply,
    err <- sErr, via <- sVia, written <- sWritten

\* What the client sees of a response of the server.
ResponseOf(w, readable, size, packs) ==
    [StatusCode |-> w.status, type |-> w.type,
     body |-> IF ~readable THEN "unreadable" ELSE IF w.type = "json" THEN "json" ELSE "wire",
     size |-> size, packs |-> packs, Rcode |-> w.Rcode]

\* What DoHServer assumes of its constants, and that a message has a length.
ASSUME TriesAssumption == Tries \in Nat \ {0}
ASSUME TransportsAssumption ==
    Transports \subseteq {"udp", "tcp", "tcp-tls"} /\ Transports # {}
ASSUME CafeAssumption == Server!Cafe \in Ids
ASSUME RepliesAssumption == Replies \subseteq Server!Reply
ASSUME SizesAssumption == Sizes \subseteq 0..MaxMsgSize

-------------------------------------------------------------------------------
EInit ==
    /\ Init
    /\ sRequest = NoRequest
    /\ sPc = "idle"
    /\ sQuery = Server!NoQuery
    /\ sTry = 0
    /\ sReply = Server!NoReply
    /\ sErr = FALSE
    /\ sVia = "none"
    /\ sWritten = << >>

ClientStep ==
    /\ Handle \/ (sPc = "idle" /\ DoResponds)
    /\ UNCHANGED serverVars

\* The request reaches a doh-server.
Send ==
    /\ pc = "do" /\ sPc = "idle"
    /\ \E f \in Forms : sRequest' = IF upstream.RequestType = "dns-json"
                                   THEN RequestGoogle(f) ELSE RequestIETF(f)
    /\ sPc' = "received"
    /\ UNCHANGED <<sQuery, sTry, sReply, sErr, sVia, sWritten>>
    /\ UNCHANGED vars

ServerStep == sPc # "idle" /\ Server!Step /\ UNCHANGED vars

\* Do returns the response of the server; the body may still fail to arrive.
Receive ==
    /\ pc = "do" /\ sPc = "done"
    /\ \E readable \in BOOLEAN, size \in Sizes, packs \in BOOLEAN :
          response' = ResponseOf(sWritten[1], readable, size, packs)
    /\ pc' = "parse"
    /\ UNCHANGED <<query, id, upstream, err, replies, report>>
    /\ UNCHANGED serverVars

EDone ==
    /\ pc = "done" /\ sPc \in {"idle", "done", "panicked"}
    /\ UNCHANGED allVars

ENext == ClientStep \/ Send \/ ServerStep \/ Receive \/ EDone

ESafetySpec == EInit /\ [][ENext]_allVars

\* The client's handler runs on by itself: nothing is asked of the server.
ESpec == ESafetySpec /\ WF_allVars(ClientStep)

-------------------------------------------------------------------------------
(***************************************************************************)
(* A doh-server understands every DNS message that a doh-client sends it,  *)
(* in the URL or in the body; what it refuses is a name or a type of the   *)
(* JSON API.  (generateRequestIETF and parseRequestIETF agree.)            *)
(***************************************************************************)
RequestUnderstood ==
    sPc = "done" /\ sWritten[1].status \in {400, 415} =>
        upstream.RequestType = "dns-json" /\ "invalid" \in {sRequest.name, sRequest.args}

(***************************************************************************)
(* A query is answered with success by way of a doh-server only when one   *)
(* of the server's upstreams succeeded: no failure on the way, a refused   *)
(* request, an exhausted try or a message that cannot be packed, turns     *)
(* into NOERROR, although FormatError gives its errors as JSON whatever    *)
(* was asked for.  The exception that the code makes: a code above 15      *)
(* loses its high bits when it comes as JSON (unmarshal.go), so that       *)
(* BADVERS arrives as NOERROR; as a DNS message it arrives as it is.       *)
(***************************************************************************)
NoFalseSuccess ==
    sPc # "idle" =>
        \A i \in DOMAIN replies : replies[i].Rcode = "NoError" =>
            /\ sPc = "done" /\ ~sErr
            /\ \/ sReply.Rcode = "NoError"
               \/ sReply.Rcode \in Extended /\ sWritten[1].type = "json"

(***************************************************************************)
(* The two programs together are a DNS service: DNSService, safety and     *)
(* liveness.  A query is answered once and in the end, whatever fails on   *)
(* the way and whenever the deadline passes; under its own ID, although it *)
(* is sent under the ID 0 ("TransactionID is now preserved", Changelog.md);*)
(* over UDP with no more than its own OPT record allows, and not the one   *)
(* that generateRequestIETF adds to it.  The exceptions that the code      *)
(* makes: a response packet is not answered; a reply of a bootstrap server *)
(* that cannot be packed is lost, and may be of any size; a query that     *)
(* generateRequestIETF cannot pack is answered under the ID 0.             *)
(***************************************************************************)
Service == INSTANCE DNSService WITH
    ids     <- IF query.packs THEN {query.Id} ELSE {query.Id, 0},
    limit   <- IF query.isTCP \/ query.passthrough THEN MaxMsgSize
               ELSE IF query.edns /\ query.udpSize > 512 THEN query.udpSize ELSE 512,
    answers <- IF query.Response THEN {0}
               ELSE IF query.one /\ query.passthrough THEN {0, 1} ELSE {1},
    replies <- replies,
    ended   <- pc = "done"

ServiceSpec == Service!Spec
===============================================================================
