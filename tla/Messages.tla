-------------------------------- MODULE Messages --------------------------------
(***************************************************************************)
(* What is in the messages of one exchange: the client subnet on its way   *)
(* from the DNS client over doh-client, a reverse proxy and doh-server to  *)
(* the resolver, and the records on their way back, which may take long:   *)
(* doh-server offers its responses to HTTP caches.                         *)
(*                                                                         *)
(* Modules DoHClient and DoHServer have the control of the two handlers,   *)
(* of which these are the steps that succeed.                              *)
(***************************************************************************)
EXTENDS GlobalIP, JSONDNS, SequencesExt

CONSTANT Exchanges  \* the exchanges a run may start with

\* A client subnet in a query, as dns.Msg.Unpack reads it.
Subnet == [Address : Addresses, Netmask : 0..128]

(***************************************************************************)
(* An exchange.  json: the upstream's request type is dns-json; NoECS of   *)
(* doh-client, AllowNonGlobal and Precise of doh-server: options; client:  *)
(* the DNS client's address; own: the subnet in its query; peer: the       *)
(* address that connects to doh-server; forwarded, real: X-Forwarded-For   *)
(* and X-Real-IP, if a reverse proxy sets them; msg: the resolver's reply, *)
(* which repeats the subnet it was asked with if echo; at, delay: when it  *)
(* is made and how long the response may take; renews: a proxy or a cache  *)
(* on the way writes a new Date; behind: by how much doh-client's clock is *)
(* behind doh-server's.                                                    *)
(***************************************************************************)
Exchange ==
    [json : BOOLEAN, NoECS : BOOLEAN, AllowNonGlobal : BOOLEAN, Precise : BOOLEAN,
     client : Addresses, own : Subnet \cup {NoSubnet}, peer : Addresses,
     forwarded : Seq(Addresses \cup {Nil}), real : Seq(Addresses \cup {Nil}),
     msg : [Rcode : Nat, Answer : Seq(RR), Ns : Seq(RR), Extra : Seq(RR)],
     echo : BOOLEAN, at : Nat, delay : Nat, renews : BOOLEAN, behind : Nat]

ASSUME ExchangesAssumption == Exchanges \subseteq Exchange

\* A DNS message has OPT records in its additional section only, and with them a
\* subnet and the high bits of an Rcode.
ASSUME MessagesAssumption ==
    \A e \in Exchanges :
        /\ \A i \in DOMAIN e.msg.Answer : e.msg.Answer[i].type # "OPT"
        /\ \A i \in DOMAIN e.msg.Ns : e.msg.Ns[i].type # "OPT"
        /\ e.echo \/ e.msg.Rcode > 15 => \E i \in DOMAIN e.msg.Extra : e.msg.Extra[i].type = "OPT"

VARIABLES
    x,      \* the exchange
    pc,
    sent,   \* the subnet in the HTTP request
    mask,   \* req.ednsClientNetmask of doh-client
    asked,  \* the subnet in the query to the resolver
    resp,   \* the HTTP response
    clock,  \* doh-server's, in ticks
    reply   \* the message for the DNS client

vars == <<x, pc, sent, mask, asked, resp, clock, reply>>

PrefixLength(ip) == IF Len(ip) = 4 THEN 24 ELSE 56

\* The subnet of an address, as both programs make it by default.
SubnetOf(ip) == [Address |-> Mask(ip, PrefixLength(ip)), Netmask |-> PrefixLength(ip)]

Zero == <<0, 0, 0, 0>>

-------------------------------------------------------------------------------
\* Fault: with NoECS there is no subnet.
clientFindNone ==
    IF x.NoECS THEN NoSubnet
    ELSE IF x.own # NoSubnet THEN x.own
    ELSE IF IsGlobalIP(x.client) THEN SubnetOf(x.client) ELSE NoSubnet

\* findClientIP of doh-client.
clientFindClientIP ==
    IF x.NoECS THEN [Address |-> Zero, Netmask |-> 0]
    ELSE IF x.own # NoSubnet THEN x.own
    ELSE IF IsGlobalIP(x.client) THEN SubnetOf(x.client) ELSE NoSubnet

\* generateRequestIETF keeps the subnet of the query whatever NoECS says, and
\* sets the lengths of other prefixes itself.
IETFSubnet ==
    LET found == clientFindClientIP
    IN  IF x.own # NoSubnet \/ found.Address = Nil THEN x.own
        ELSE [found EXCEPT !.Netmask = PrefixLength(found.Address)]

\* The position of the first global address, 0 if there is none.
FirstGlobal(ips) == SelectInSeq(ips, IsGlobalIP)

\* Fault: the address of the connection is not looked at.
serverFindAny ==
    LET global == FirstGlobal(x.forwarded)
        remote == IF x.real # << >> THEN x.real[1] ELSE x.peer
    IN  IF global # 0 THEN x.forwarded[global] ELSE remote

\* findClientIP of doh-server: the first global address of X-Forwarded-For, or
\* X-Real-IP, which handlerFunc has also put in the place of the peer's address.
\* (The parameter no_ecs is not for doh-client, which never sends it.)
serverFindClientIP ==
    LET global == FirstGlobal(x.forwarded)
        remote == IF x.real # << >> THEN x.real[1] ELSE x.peer
    IN  IF global # 0 THEN x.forwarded[global]
        ELSE IF x.AllowNonGlobal \/ IsGlobalIP(remote) THEN remote ELSE Nil

\* Fault: an address that is found takes precedence over the subnet sent.
ServerSubnetFound ==
    LET ip == serverFindClientIP
    IN  IF ip = Nil THEN sent
        ELSE IF x.Precise /\ ~x.json THEN [Address |-> ip, Netmask |-> 8 * Len(ip)]
        ELSE SubnetOf(ip)

\* The subnet that parseRequestGoogle or parseRequestIETF puts in the query; only
\* the latter looks at Precise.  (The former leaves the masking to Pack.)
ServerSubnet ==
    LET ip == serverFindClientIP
    IN  IF sent # NoSubnet \/ ip = Nil THEN sent
        ELSE IF x.Precise /\ ~x.json THEN [Address |-> ip, Netmask |-> 8 * Len(ip)]
        ELSE SubnetOf(ip)

\* dns.Msg.Pack of a client subnet.
Packed(subnet) == [subnet EXCEPT !.Address = Mask(@, subnet.Netmask)]

\* Fault: a negative difference is added to the TTL.
TimeDeltaSigned(date) == date - resp.LastModified

\* parseResponseIETF: by how much the response has aged according to its headers.
TimeDelta(date) == IF date > resp.LastModified THEN date - resp.LastModified ELSE 0

fixRecordTTL(rr, delta) ==
    [rr EXCEPT !.TTL = IF @ * Ticks > delta THEN (@ * Ticks - delta) \div Ticks ELSE 0]

FixedTTLs(rrs, delta) == [i \in DOMAIN rrs |-> fixRecordTTL(rrs[i], delta)]

-------------------------------------------------------------------------------
NoMessage == [Rcode |-> 0, Answer |-> << >>, Ns |-> << >>, Extra |-> << >>,
              subnet |-> NoSubnet]
NoResponse == [body |-> NoMessage, Date |-> 0, LastModified |-> 0,
               HaveTTL |-> FALSE, LeastTTL |-> 0]

Init ==
    /\ x \in Exchanges
    /\ pc = "query"
    /\ sent = NoSubnet /\ mask = 255 /\ asked = NoSubnet
    /\ resp = NoResponse /\ reply = NoMessage
    /\ clock = x.at

\* The subnet in doh-client's request.
RequestSubnet == IF x.json THEN clientFindClientIP ELSE Packed(IETFSubnet)

\* doh-client generates its request.
GenerateRequest ==
    /\ pc = "query"
    /\ sent' = RequestSubnet
    /\ mask' = RequestSubnet.Netmask
    /\ pc' = "request"
    /\ UNCHANGED <<x, asked, resp, clock, reply>>

\* doh-server makes a query of it.
ParseRequest ==
    /\ pc = "request"
    /\ asked' = Packed(ServerSubnet)
    /\ pc' = "asked"
    /\ UNCHANGED <<x, sent, mask, resp, clock, reply>>

\* The reply of the resolver.
Answered ==
    [Rcode |-> x.msg.Rcode, Answer |-> x.msg.Answer, Ns |-> x.msg.Ns, Extra |-> x.msg.Extra,
     subnet |-> IF x.echo THEN asked ELSE NoSubnet]

\* The response that doh-server generates of it at the given time.
Response(now) ==
    [body |-> IF x.json THEN Marshal(Answered, now) ELSE Answered,
     Date |-> Second(now), LastModified |-> Second(now),
     HaveTTL |-> LeastTTL(Answered).HaveTTL, LeastTTL |-> LeastTTL(Answered).LeastTTL]

\* The resolver replies and doh-server generates its response.
GenerateResponse ==
    /\ pc = "asked"
    /\ resp' = Response(clock)
    /\ pc' = "response"
    /\ UNCHANGED <<x, sent, mask, asked, clock, reply>>

\* Time passes: the response is on its way or in a cache.
Tick ==
    /\ pc = "response"
    /\ clock < x.at + x.delay
    /\ clock' = clock + 1
    /\ UNCHANGED <<x, pc, sent, mask, asked, resp, reply>>

\* The message that doh-client makes of the response: parseResponseGoogle with the
\* clock of the client, parseResponseIETF with the Date of the server or of the
\* proxy.  (The OPT record is in the Rcode and the subnet.)
Parsed(now) ==
    LET delta == TimeDelta(IF x.renews THEN Second(now) ELSE resp.Date)
    IN  IF x.json THEN Unmarshal(resp.body, mask, now)
        ELSE [resp.body EXCEPT !.Answer = FixedTTLs(@, delta), !.Ns = FixedTTLs(@, delta),
                               !.Extra = FixedTTLs(Only(@, NotOPT), delta)]

\* doh-client parses the response.
ParseResponse ==
    /\ pc = "response"
    /\ reply' = Parsed(clock - x.behind)
    /\ pc' = "done"
    /\ UNCHANGED <<x, sent, mask, asked, resp, clock>>

Done == pc = "done" /\ UNCHANGED vars

Next == GenerateRequest \/ ParseRequest \/ GenerateResponse \/ Tick \/ ParseResponse \/ Done

Spec == Init /\ [][Next]_vars

-------------------------------------------------------------------------------
Asked == pc \in {"asked", "response", "done"}

\* Every address that one of the programs could take for the client's.
Candidates ==
    {x.client, x.peer} \cup {x.forwarded[i] : i \in DOMAIN x.forwarded}
                       \cup {x.real[i] : i \in DOMAIN x.real}

(***************************************************************************)
(* doh-server.conf: "By default, non global IP addresses are never         *)
(* forwarded to upstream servers", and of a global one only the first 24   *)
(* or 56 bits, unless ecs_use_precise_ip is set: a subnet that neither the *)
(* DNS client nor no_ecs gave is the subnet of a global address.  What is  *)
(* global is said by the first and last addresses of the networks that are *)
(* not, so that the bytes and masks of globalip.go must agree with them.   *)
(***************************************************************************)
SubnetIsGlobal ==
    Asked /\ asked # NoSubnet /\ x.own = NoSubnet /\ ~x.NoECS /\ ~x.AllowNonGlobal =>
        \E ip \in Candidates :
            /\ ip # Nil /\ OutsideSpecialRanges(ip)
            /\ \/ asked = SubnetOf(ip)
               \/ x.Precise /\ asked = [Address |-> ip, Netmask |-> 8 * Len(ip)]

(***************************************************************************)
(* no_ecs holds to the end: neither the DNS client's nor doh-client's      *)
(* address becomes a subnet in the query of a doh-server, through any      *)
(* proxy and whatever the server's options.  (The exception: a query with  *)
(* a subnet of its own keeps it in a dns-message.)                         *)
(***************************************************************************)
NoECSHides == Asked /\ x.NoECS /\ (x.json \/ x.own = NoSubnet) => asked.Address = Zero

(***************************************************************************)
(* The resolver is asked on behalf of the DNS client: with the subnet in   *)
(* its query, else with that of its address if it is global, and not with  *)
(* the address of doh-client or of a proxy, which the server sees.         *)
(***************************************************************************)
ClientSubnetWins ==
    Asked /\ ~x.NoECS =>
        /\ x.own # NoSubnet => asked = Packed(x.own)
        /\ x.own = NoSubnet /\ OutsideSpecialRanges(x.client) => asked = SubnetOf(x.client)

(***************************************************************************)
(* The subnet in the reply to the DNS client is the one that the resolver  *)
(* was asked with, although JSON carries only its address and doh-client   *)
(* puts the netmask back, also if doh-server added the subnet.             *)
(***************************************************************************)
SubnetEchoed == pc = "done" /\ x.echo => reply.subnet = asked

\* Records without their TTLs.
Contents(rrs) == [i \in DOMAIN rrs |-> Kind(rrs[i])]

\* The records of the resolver's reply that reach the DNS client.
Kept(s) == Only(x.msg[s], IF x.json THEN Readable ELSE NotOPT)

(***************************************************************************)
(* The DNS client gets the resolver's records, section by section and in   *)
(* order, and its Rcode.  Over the JSON API a record that cannot be        *)
(* written in it is missing and takes none of the others with it, and of   *)
(* an Rcode the low 4 bits arrive: Unmarshal means to keep the others in   *)
(* the OPT record, but Pack sets them anew from the Rcode that it has cut. *)
(***************************************************************************)
RecordsKept ==
    pc = "done" =>
        /\ \A s \in Sections : Contents(reply[s]) = Contents(Kept(s))
        /\ reply.Rcode = IF x.json THEN x.msg.Rcode % 16 ELSE x.msg.Rcode

(***************************************************************************)
(* No way makes a TTL longer than it was: not a Date before Last-Modified, *)
(* not an expiry time in the past.  Only the JSON API adds what the clock  *)
(* of doh-client is behind, as its expiry times are absolute.              *)
(***************************************************************************)
TTLNeverGrows ==
    pc = "done" =>
        \A s \in Sections : \A i \in DOMAIN reply[s] :
            reply[s][i].TTL * Ticks <=
                Kept(s)[i].TTL * Ticks + IF x.json THEN x.behind ELSE 0

\* HTTP caches honour max-age.
WithinMaxAge == clock - x.at <= resp.LeastTTL * Ticks

(***************************************************************************)
(* A record that spent its life in HTTP caches is not kept longer than the *)
(* resolver said, but for the second that Date and Last-Modified do not    *)
(* show: up to max-age the rest of its life is all the DNS client gets, so *)
(* that max-age must be the least TTL of all, and an expiry time that lies *)
(* a fraction of a second back must not bring the TTL back.  (With JSON    *)
(* and clocks that agree, or with a Date that the cache renews.)           *)
(***************************************************************************)
ExpiresOnTime ==
    pc = "done" /\ x.behind = 0 /\ (x.json \/ x.renews) /\ WithinMaxAge =>
        \A s \in Sections : \A i \in DOMAIN reply[s] :
            clock + reply[s][i].TTL * Ticks
                <= x.at + Kept(s)[i].TTL * Ticks + IF x.json THEN 0 ELSE Ticks - 1
===============================================================================
