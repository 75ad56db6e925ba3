------------------------------- MODULE MCMessages -------------------------------
(***************************************************************************)
(* Exchanges for Messages.  Subnets and records do not depend on each      *)
(* other, so they are varied one at a time.                                *)
(***************************************************************************)
EXTENDS Messages

\* Global and other addresses of both families, none of them a network's own.
G4 == <<8, 8, 4, 9>>
H4 == <<93, 184, 1, 7>>
P4 == <<192, 168, 1, 9>>
G6 == Ones(<<32, 1, 13>>, 16)
U6 == Ones(<<253, 7>>, 16)

Rec(ttl) == [type |-> "known", name |-> "plain", TTL |-> ttl]
OPT == [type |-> "OPT", name |-> "plain", TTL |-> 0]

Base == [json |-> FALSE, NoECS |-> FALSE, AllowNonGlobal |-> FALSE, Precise |-> FALSE,
         client |-> P4, own |-> NoSubnet, peer |-> H4, forwarded |-> << >>, real |-> << >>,
         msg |-> [Rcode |-> 0, Answer |-> <<Rec(3)>>, Ns |-> << >>, Extra |-> <<OPT>>],
         echo |-> TRUE, at |-> 0, delay |-> 0, renews |-> FALSE, behind |-> 0]

\* Every way in which an address can become a subnet.
Subnets ==
    {[Base EXCEPT !.json = j, !.NoECS = n, !.AllowNonGlobal = a, !.Precise = p, !.client = c,
                  !.own = o, !.peer = r, !.forwarded = f, !.real = x1, !.echo = e] :
        j \in BOOLEAN, n \in BOOLEAN, a \in BOOLEAN, p \in BOOLEAN, c \in {G4, P4, G6},
        o \in {NoSubnet, [Address |-> <<8, 8, 4, 9>>, Netmask |-> 12], SubnetOf(G6)},
        r \in {H4, U6}, f \in {<< >>, <<Nil, U6, G6>>, <<P4>>}, x1 \in {<< >>, <<P4>>, <<H4>>, <<Nil>>},
        e \in BOOLEAN}

\* The addresses at both sides of every limit of a network that is not global.
Lowest == {r[1] : r \in SpecialRanges}
Highest == {r[2] : r \in SpecialRanges}

Before(ip) ==
    [i \in DOMAIN ip |-> IF \A j \in (i + 1)..Len(ip) : ip[j] = 0
                         THEN (ip[i] + 255) % 256 ELSE ip[i]]
After(ip) ==
    [i \in DOMAIN ip |-> IF \A j \in (i + 1)..Len(ip) : ip[j] = 255
                         THEN (ip[i] + 1) % 256 ELSE ip[i]]

Limits ==
    {[Base EXCEPT !.client = c] :
        c \in Lowest \cup Highest \cup {Before(a) : a \in Lowest} \cup {After(a) : a \in Highest}}

\* TTLs below, at and above the time that a response takes.
Aged ==
    {[Base EXCEPT !.json = j, !.at = t, !.delay = 7, !.renews = d, !.behind = b,
                  !.msg.Answer = <<Rec(k), Rec(3)>>, !.msg.Ns = <<Rec(l)>>,
                  !.msg.Extra = <<OPT, Rec(2)>>] :
        j \in BOOLEAN, t \in {0, 1}, d \in BOOLEAN, b \in {0, 3}, k \in 0..3, l \in 0..3}

\* Messages with no record, with only an OPT record, and with records that the
\* JSON API cannot express.
Odd ==
    {[Base EXCEPT !.json = j, !.msg.Rcode = IF ex = << >> THEN rc % 16 ELSE rc, !.echo = ex # << >>,
                  !.msg.Answer = an, !.msg.Ns = ns, !.msg.Extra = ex] :
        j \in BOOLEAN, rc \in {0, 2, 3, 16, 23},
        an \in {<< >>, <<[Rec(2) EXCEPT !.name = "escaped"], Rec(3)>>,
                <<Rec(1), [Rec(2) EXCEPT !.type = "unknown"], Rec(2)>>},
        ns \in {<< >>, <<Rec(1)>>}, ex \in {<< >>, <<OPT>>, <<Rec(3), OPT, Rec(1)>>}}

AllExchanges == Subnets \cup Limits \cup Aged \cup Odd
===============================================================================
