-------------------------------- MODULE GlobalIP --------------------------------
(***************************************************************************)
(* json-dns/globalip.go: addresses, networks and the table of networks     *)
(* that are not global.  An address is the sequence of its bytes, 4 or 16; *)
(* Nil is the address that could not be parsed.                            *)
(***************************************************************************)
EXTENDS Naturals, Sequences

Nil == << >>

Byte == 0..255

\* net.IP, in the form that To4 gives it.  All code that depends on the family of
\* an address calls To4 first, and so does GetByIP of iptree: a v4-mapped address
\* is the 4 bytes of its IPv4 address here, as globalip_test.go has it.
Addresses == {ip \in Seq(Byte) : Len(ip) \in {4, 16}}

\* The 16 bytes of an IPv6 address that begins with prefix.
V6(prefix) == [i \in 1..16 |-> IF i <= Len(prefix) THEN prefix[i] ELSE 0]

\* net.IP.Mask: the first ones bits of an address.
Mask(ip, ones) ==
    [i \in DOMAIN ip |->
        IF 8 * i <= ones THEN ip[i]
        ELSE IF 8 * (i - 1) >= ones THEN 0
        ELSE (ip[i] \div 2^(8 * i - ones)) * 2^(8 * i - ones)]

\* defaultFilter: the networks that init inserts, with the bits of their masks.
defaultFilter ==
    {<< <<0, 0, 0, 0>>, 8 >>, << <<10, 0, 0, 0>>, 8 >>, << <<100, 64, 0, 0>>, 10 >>,
     << <<127, 0, 0, 0>>, 8 >>, << <<169, 254, 0, 0>>, 16 >>, << <<172, 16, 0, 0>>, 12 >>,
     << <<192, 0, 0, 0>>, 29 >>, << <<192, 88, 99, 0>>, 24 >>, << <<192, 168, 0, 0>>, 16 >>,
     << <<240, 0, 0, 0>>, 4 >>,
     << V6(<< >>), 127 >>, << V6(<<1>>), 64 >>, << V6(<<252>>), 7 >>, << V6(<<254, 128>>), 10 >>}

IsGlobalIP(ip) ==
    /\ ip # Nil
    /\ ~\E net \in defaultFilter : Len(net[1]) = Len(ip) /\ Mask(ip, net[2]) = net[1]

-------------------------------------------------------------------------------
\* Addresses in their order.
NotAfter(a, b) ==
    a = b \/ \E i \in DOMAIN a : a[i] < b[i] /\ \A j \in 1..(i - 1) : a[j] = b[j]

\* The last address that begins with prefix, and the one with every bit set.
Ones(prefix, n) == [i \in 1..n |-> IF i <= Len(prefix) THEN prefix[i] ELSE 255]

\* The same networks by their first and last addresses: a check of the masks and
\* limits of globalip.go.  They are its own choice from RFC 6890 and not complete:
\* 192.0.0.8 to 192.0.0.255, the networks for documentation and benchmarks
\* (192.0.2.0/24, 198.18.0.0/15, 198.51.100.0/24, 203.0.113.0/24, 2001:db8::/32)
\* count as global.
SpecialRanges ==
    {<< <<0, 0, 0, 0>>, Ones(<<0>>, 4) >>, << <<10, 0, 0, 0>>, Ones(<<10>>, 4) >>,
     << <<100, 64, 0, 0>>, Ones(<<100, 127>>, 4) >>, << <<127, 0, 0, 0>>, Ones(<<127>>, 4) >>,
     << <<169, 254, 0, 0>>, Ones(<<169, 254>>, 4) >>, << <<172, 16, 0, 0>>, Ones(<<172, 31>>, 4) >>,
     << <<192, 0, 0, 0>>, <<192, 0, 0, 7>> >>, << <<192, 88, 99, 0>>, <<192, 88, 99, 255>> >>,
     << <<192, 168, 0, 0>>, Ones(<<192, 168>>, 4) >>, << <<240, 0, 0, 0>>, Ones(<< >>, 4) >>,
     << V6(<< >>), [V6(<< >>) EXCEPT ![16] = 1] >>,
     << V6(<<1>>), Ones(<<1, 0, 0, 0, 0, 0, 0, 0>>, 16) >>,
     << V6(<<252>>), Ones(<<253>>, 16) >>, << V6(<<254, 128>>), Ones(<<254, 191>>, 16) >>}

\* What IsGlobalIP should say of an address, given the networks of the table.
OutsideSpecialRanges(ip) ==
    \A r \in SpecialRanges : Len(r[1]) = Len(ip) => ~(NotAfter(r[1], ip) /\ NotAfter(ip, r[2]))
===============================================================================
