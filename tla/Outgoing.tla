-------------------------------- MODULE Outgoing --------------------------------
(***************************************************************************)
(* The connections that doh-client opens: to upstreams, for which          *)
(* DialContext looks up a host and tries its addresses, to the bootstrap   *)
(* servers that this lookup asks, for queries that are passed through to   *)
(* them, and for the health probes of the weighted selectors.  The option  *)
(* interface binds all but the probes to addresses of a network interface, *)
(* if it has one of the family; they can change while the program runs.    *)
(***************************************************************************)
EXTENDS Naturals, Sequences, SequencesExt

CONSTANTS
    Configs,       \* the options of a run
    AddressLists,  \* what ifi.Addrs can return, << >> also if there is no interface
    Hosts,         \* what a lookup can return: sequences of addresses
    MaxChanges,    \* how often the addresses of the interface change
    MaxLookups     \* how often the resolver asks a bootstrap server

Address == [family : {4, 6}, id : Nat]

\* No address: a net.IP or a LocalAddr that is nil.
Nil == [family |-> 0, id |-> 0]

\* Interface: whether the option is set; NoIPv6; WRR: whether upstream_selector is
\* one of the weighted ones, which probe; bootstrap: addresses of servers.
ASSUME ConfigsAssumption ==
    \A c \in Configs : c.Interface \in BOOLEAN /\ c.NoIPv6 \in BOOLEAN
                       /\ c.WRR \in BOOLEAN /\ c.bootstrap \in Seq(Address)
ASSUME EnvironmentAssumption ==
    AddressLists \cup Hosts \subseteq Seq(Address) /\ {MaxChanges, MaxLookups} \subseteq Nat

VARIABLES
    conf,
    addrs,    \* the addresses of the interface
    changes,  \* how often they have changed
    pc,       \* of NewClient, then of DialContext
    local,    \* localV4 and localV6, as newHTTPClient found them, by family
    dnsLocal, \* LocalAddr of udpClient and tcpClient
    dial,     \* of DialContext: lookups made, the addresses of the host and what is
              \* left of them in the loop, the connections tried
    other     \* the last connection that is not of DialContext, and what for

env == <<conf, addrs, changes>>
vars == <<env, pc, local, dnsLocal, dial, other>>

NoDial == [lookups |-> 0, host |-> << >>, ips |-> << >>, tried |-> << >>]

-------------------------------------------------------------------------------
\* The first address of a family on the interface.
FirstOf(family) ==
    LET first == SelectInSeq(addrs, LAMBDA a : a.family = family)
    IN  IF first = 0 \/ (family = 6 /\ conf.NoIPv6) THEN Nil ELSE addrs[first]

getInterfaceIPs == [f \in {4, 6} |-> IF conf.Interface THEN FirstOf(f) ELSE Nil]

\* It returns an error: there is no address, or no interface.
InterfaceError == conf.Interface /\ \A f \in {4, 6} : FirstOf(f) = Nil

Init ==
    /\ conf \in Configs /\ addrs \in AddressLists /\ changes = 0
    /\ pc = "NewClient"
    /\ local = [f \in {4, 6} |-> Nil] /\ dnsLocal = Nil
    /\ dial = NoDial /\ other = [for |-> "none"]

\* The addresses of the interface change, or it goes or comes.
ChangeAddresses ==
    /\ changes < MaxChanges
    /\ addrs' \in AddressLists \ {addrs}
    /\ changes' = changes + 1
    /\ UNCHANGED <<conf, pc, local, dnsLocal, dial, other>>

\* NewClient: the dialers of udpClient and tcpClient have one address for all.
NewClient ==
    /\ pc = "NewClient"
    /\ pc' = IF InterfaceError THEN "exit" ELSE "newHTTPClient"
    /\ dnsLocal' = IF getInterfaceIPs[4] # Nil THEN getInterfaceIPs[4] ELSE getInterfaceIPs[6]
    /\ UNCHANGED <<env, local, dial, other>>

\* newHTTPClient looks at the interface again, for the last time.
newHTTPClient ==
    /\ pc = "newHTTPClient"
    /\ pc' = IF InterfaceError THEN "exit" ELSE "ready"
    /\ local' = getInterfaceIPs
    /\ UNCHANGED <<env, dnsLocal, dial, other>>

-------------------------------------------------------------------------------
\* A socket is bound to nothing, or to an address that the machine has, and is
\* connected to an address of the same family.
CanConnect(from, to) == from = Nil \/ (from \in Range(addrs) /\ from.family = to.family)

\* A query is passed through: Exchange of udpClient or tcpClient with a bootstrap
\* server.  If it cannot connect the reply is SERVFAIL.
Passthrough ==
    /\ pc = "ready"
    /\ \E server \in Range(conf.bootstrap) :
          /\ CanConnect(dnsLocal, server)
          /\ other' = [for |-> "passthrough", local |-> dnsLocal, remote |-> server]
    /\ UNCHANGED <<env, pc, local, dnsLocal, dial>>

\* The transport has no idle connection to the upstream and calls DialContext.
DialContext ==
    /\ pc = "ready"
    /\ pc' = "lookup" /\ dial' = NoDial
    /\ UNCHANGED <<env, local, dnsLocal, other>>

\* LocalAddr of a connection to a bootstrap server: the interface is looked at
\* again, and if that fails or finds no address of the server's family there is none.
BootstrapLocal(server) == getInterfaceIPs[server.family]

\* Dial of bootstrapResolver, with a server drawn at random.
BootstrapDial ==
    /\ pc = "lookup" /\ dial.lookups < MaxLookups
    /\ \E server \in Range(conf.bootstrap) :
          /\ other' = [for |-> "lookup", local |-> BootstrapLocal(server), remote |-> server]
          /\ pc' = IF CanConnect(other'.local, server) THEN "asked" ELSE "lookup"
    /\ dial' = [dial EXCEPT !.lookups = @ + 1]
    /\ UNCHANGED <<env, local, dnsLocal>>

\* The lookup ends with addresses, from a bootstrap server or, without one, from
\* the resolver of the system; or it asks again, or ends without.
LookedUp ==
    /\ pc = "asked" \/ (pc = "lookup" /\ conf.bootstrap = << >>)
    /\ \E host \in Hosts : dial' = [dial EXCEPT !.host = host, !.ips = host]
    /\ pc' = "loop"
    /\ UNCHANGED <<env, local, dnsLocal, other>>
LookupAgain ==
    /\ pc = "asked" /\ dial.lookups < MaxLookups
    /\ pc' = "lookup"
    /\ UNCHANGED <<env, local, dnsLocal, dial, other>>
LookupFails ==
    /\ pc \in {"lookup", "asked"}
    /\ conf.bootstrap = << >> \/ dial.lookups = MaxLookups
    /\ pc' = "ready"
    /\ UNCHANGED <<env, local, dnsLocal, dial, other>>

\* The network that DialContext is called with.
Network == IF conf.NoIPv6 THEN "tcp4" ELSE "tcp"

\* An address that the loop does not skip or, if the network is tcp4, one that
\* the DialContext of the base dialer does not.
Usable(ip) ==
    /\ Network = "tcp4" => ip.family = 4
    /\ conf.Interface => local[ip.family] # Nil

Skip ==
    /\ pc = "loop" /\ dial.ips # << >>
    /\ ~Usable(dial.ips[1])
    /\ dial' = [dial EXCEPT !.ips = Tail(@)]
    /\ UNCHANGED <<env, pc, local, dnsLocal, other>>

\* Fault: LocalAddr is set for IPv4 only.
DialLocalV4(ip) == IF ip.family = 4 THEN local[4] ELSE Nil

\* LocalAddr of a connection to an upstream.
DialLocal(ip) == local[ip.family]

\* The next connection is tried.
Try ==
    /\ pc = "loop" /\ dial.ips # << >>
    /\ Usable(dial.ips[1])
    /\ dial' = [dial EXCEPT !.ips = Tail(@), !.tried =
                   Append(@, [local |-> DialLocal(dial.ips[1]), remote |-> dial.ips[1]])]
    /\ UNCHANGED <<env, local, dnsLocal, other>>

Connect == Try /\ CanConnect(DialLocal(dial.ips[1]), dial.ips[1]) /\ pc' = "connected"

\* Fault: an error ends the loop.
DialErrorReturns == Try /\ pc' = "failed"

\* lastErr, and on to the next address.
DialError == Try /\ UNCHANGED pc

\* No address is left: lastErr, or none matched.
DialFails ==
    /\ pc = "loop" /\ dial.ips = << >>
    /\ pc' = "failed"
    /\ UNCHANGED <<env, local, dnsLocal, dial, other>>

\* A probe: the http.Client of the selector has the transport, the dialer and the
\* resolver of the system.  The probes run beside everything else once Start has
\* called StartEvaluate.
ProbeDial ==
    /\ conf.WRR /\ pc \notin {"NewClient", "newHTTPClient", "exit"}
    /\ \E host \in Hosts : \E ip \in Range(host) :
          other' = [for |-> "probe", local |-> Nil, remote |-> ip]
    /\ UNCHANGED <<env, pc, local, dnsLocal, dial>>

\* The connection is closed, or the failure has been reported.
Close ==
    /\ pc \in {"connected", "failed"}
    /\ pc' = "ready"
    /\ UNCHANGED <<env, local, dnsLocal, dial, other>>

-------------------------------------------------------------------------------
\* The steps of a dial.
DialStep == BootstrapDial \/ LookedUp \/ LookupAgain \/ LookupFails \/ Skip
            \/ Connect \/ DialError \/ DialFails

\* main ends the process with the error of NewClient.
Exited == pc = "exit" /\ UNCHANGED vars

Next == NewClient \/ newHTTPClient \/ Passthrough \/ DialContext \/ DialStep \/ Close
        \/ ProbeDial \/ ChangeAddresses \/ Exited

Spec == Init /\ [][Next]_vars

-------------------------------------------------------------------------------
(***************************************************************************)
(* With interface set no connection that a query travels on, to an         *)
(* upstream or passed through to a bootstrap server, leaves by the default *)
(* route, whatever families the interface, the upstream and the bootstrap  *)
(* servers have and whatever becomes of the interface's addresses.  (The   *)
(* probes, and lookups in a family that the interface has not, do leave by *)
(* it: OutgoingBound.)                                                     *)
(***************************************************************************)
BoundToInterface ==
    conf.Interface =>
        /\ pc = "connected" =>
              LET conn == dial.tried[Len(dial.tried)]
              IN  conn.local # Nil /\ conn.local.family = conn.remote.family
        /\ other.for = "passthrough" => other.local # Nil

(***************************************************************************)
(* What doh-client.conf says of the option interface, "Interface to bind   *)
(* to for outgoing connections": with it every connection is bound.  It is *)
(* not what the code does.  The http.Client that the weighted selectors    *)
(* probe upstreams with knows nothing of the option.                       *)
(***************************************************************************)
OutgoingBound ==
    conf.Interface => BoundToInterface /\ (other.for # "none" => other.local # Nil)

(***************************************************************************)
(* A dial fails only after it tried every address of the host that the     *)
(* options and the families of the interface at the start allow, and no    *)
(* other: one that cannot be reached does not hide the next, and with      *)
(* no_ipv6, "Disable IPv6 when querying upstream", none is tried over IPv6.*)
(***************************************************************************)
TriesEveryAddress ==
    pc = "failed" =>
        {conn.remote : conn \in Range(dial.tried)} =
            {ip \in Range(dial.host) :
                /\ conf.NoIPv6 => ip.family = 4
                /\ conf.Interface => local[ip.family] # Nil}
===============================================================================
