-------------------------------- MODULE JSONDNS --------------------------------
(***************************************************************************)
(* json-dns: a DNS message as JSON and back, what both do with times to    *)
(* live, response codes, client subnets and records that they cannot       *)
(* express.                                                                *)
(*                                                                         *)
(* Times are counted in ticks of half a second, as an expiry time is       *)
(* written with seconds and read with a clock that is more exact.          *)
(***************************************************************************)
EXTENDS Integers, Sequences, FiniteSetsExt

Ticks == 2  \* per second

\* time.Format and the HTTP headers drop what is below a second.
Second(t) == (t \div Ticks) * Ticks

\* Division of a time.Duration is towards zero.
Seconds(d) == IF d >= 0 THEN d \div Ticks ELSE -((-d) \div Ticks)

(***************************************************************************)
(* A record of a message.  type: one that TypeToString knows, another, or  *)
(* the OPT record, whose TTL is not a time but holds flags; name: whether  *)
(* it is written with one of the characters that unmarshalRR refuses.      *)
(***************************************************************************)
RR == [type : {"known", "unknown", "OPT"}, name : {"plain", "escaped"}, TTL : Nat]

\* The records of a message, by section.
Sections == {"Answer", "Ns", "Extra"}

\* What a record is, apart from its times.
Kind(rr) == <<rr.type, rr.name>>

\* The records of the given kinds, in their order: a loop that skips the others.
Only(rrs, kinds) ==
    LET only[i \in 0..Len(rrs)] ==
            IF i = 0 THEN << >>
            ELSE IF Kind(rrs[i]) \in kinds THEN Append(only[i - 1], rrs[i])
            ELSE only[i - 1]
    IN  only[Len(rrs)]

\* All but OPT records, and what dns.NewRR can read.
NotOPT == {"known", "unknown"} \X {"plain", "escaped"}
Readable == {<<"known", "plain">>}

NoSubnet == [Address |-> << >>, Netmask |-> 255]

-------------------------------------------------------------------------------
marshalRR(rr, now) ==
    [type |-> rr.type, name |-> rr.name, TTL |-> rr.TTL,
     Expires |-> Second(now + rr.TTL * Ticks)]

\* The records that count for the least TTL.
Counted(msg) == msg.Answer \o msg.Ns \o Only(msg.Extra, NotOPT)

\* HaveTTL and LeastTTL, as Marshal finds them in one pass.
LeastTTL(msg) ==
    LET rrs == Counted(msg)
        ttls == {rrs[i].TTL : i \in DOMAIN rrs}
    IN  [HaveTTL |-> ttls # {}, LeastTTL |-> IF ttls = {} THEN 0 ELSE Min(ttls)]

\* The records of a section as Marshal writes them.
Marshalled(rrs, now) == [i \in DOMAIN rrs |-> marshalRR(rrs[i], now)]

\* Marshal.  The status is the whole Rcode, put together from the header and the
\* OPT record, whose client subnet becomes an address and a scope.
Marshal(msg, now) ==
    [Status |-> msg.Rcode,
     Answer |-> Marshalled(msg.Answer, now), Ns |-> Marshalled(msg.Ns, now),
     Extra |-> Marshalled(Only(msg.Extra, NotOPT), now),
     EdnsClientSubnet |-> msg.subnet.Address]

-------------------------------------------------------------------------------
\* Fault: the remaining time is rounded down.
unmarshalRRFloor(rr, now) ==
    LET ttl == (rr.Expires - now) \div Ticks
    IN  [type |-> rr.type, name |-> rr.name, TTL |-> IF ttl >= 0 THEN ttl ELSE rr.TTL]

\* unmarshalRR: a time that lies in the past leaves the TTL as it was.  (So does
\* one that does not fit in 32 bits, which no clock here reaches.)
unmarshalRR(rr, now) ==
    LET ttl == Seconds(rr.Expires - now)
    IN  [type |-> rr.type, name |-> rr.name, TTL |-> IF ttl >= 0 THEN ttl ELSE rr.TTL]

\* Fault: a record that cannot be read takes its section with it.
UnmarshalledAllOrNone(rrs, now) ==
    IF \A i \in DOMAIN rrs : Kind(rrs[i]) \in Readable
    THEN [i \in DOMAIN rrs |-> unmarshalRR(rrs[i], now)] ELSE << >>

\* The records of a section that can be read.
Unmarshalled(rrs, now) ==
    LET read == Only(rrs, Readable)
    IN  [i \in DOMAIN read |-> unmarshalRR(read[i], now)]

\* Fault: the netmask that stands for none is kept.
EchoNetmaskKept(address, netmask) == netmask

\* The netmask of the subnet in the reply: that of the request, if it had one.
EchoNetmask(address, netmask) ==
    IF netmask # 255 THEN netmask ELSE IF Len(address) = 4 THEN 24 ELSE 56

(***************************************************************************)
(* Unmarshal and Pack: the low bits of the status become the Rcode, and    *)
(* Pack derives the bits in the OPT record from the Rcode again.           *)
(***************************************************************************)
Unmarshal(resp, netmask, now) ==
    [Rcode |-> resp.Status % 16,
     Answer |-> Unmarshalled(resp.Answer, now), Ns |-> Unmarshalled(resp.Ns, now),
     Extra |-> Unmarshalled(resp.Extra, now),
     subnet |-> IF resp.EdnsClientSubnet = << >> THEN NoSubnet
                ELSE [Address |-> resp.EdnsClientSubnet,
                      Netmask |-> EchoNetmask(resp.EdnsClientSubnet, netmask)]]
===============================================================================
