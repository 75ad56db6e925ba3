---------------------------- MODULE OutgoingProofs ----------------------------
(***************************************************************************)
(* Theorems about the connections that doh-client opens: which of them are *)
(* bound to the interface, and which addresses a dial tries.               *)
(***************************************************************************)
EXTENDS Outgoing, WellFoundedInduction, TLAPS

LocalAddress == Address \cup {Nil}

Pcs == {"NewClient", "exit", "newHTTPClient", "ready", "lookup", "asked", "loop",
        "connected", "failed"}

TypeOK ==
    /\ conf \in Configs /\ addrs \in Seq(Address) /\ changes \in Nat
    /\ pc \in Pcs
    /\ local \in [{4, 6} -> LocalAddress] /\ dnsLocal \in LocalAddress
    /\ dial \in [lookups : Nat, host : Seq(Address), ips : Seq(Address),
                 tried : Seq([local : LocalAddress, remote : Address])]

-------------------------------------------------------------------------------
\* A nonempty set of positions has a first one.
LEMMA FirstPosition ==
  ASSUME NEW S \in SUBSET Nat, S # {}
  PROVE  Min(S) \in S
  <1> DEFINE less == OpToRel(<, Nat)
  <1>1. PICK n \in S : \A m \in S : ~(<<m, n>> \in less)
    <2> HIDE DEF less
    <2>1. IsWellFoundedOn(less, Nat)
      BY NatLessThanWellFounded DEF less
    <2> QED
      BY <2>1, WFMin
  <1>2. \A m \in S : m < n => <<m, n>> \in less
    <2>1. less = {ss \in Nat \X Nat : ss[1] < ss[2]}
      BY DEF OpToRel
    <2> QED
      BY <2>1
  <1> HIDE DEF less
  <1>3. \A m \in S : ~(m < n)
    BY <1>1, <1>2
  <1>4. n \in S /\ \A m \in S : n <= m
    BY <1>3
  <1> QED
    BY <1>4 DEF Min

\* A nonempty sequence has a last element.
LEMMA LastOfSeq ==
  ASSUME NEW S, NEW s \in Seq(S), s # << >>
  PROVE  Len(s) \in DOMAIN s /\ s[Len(s)] \in S
  <1>1. Len(s) \in Nat \ {0}
    OBVIOUS
  <1> QED
    BY <1>1

\* getInterfaceIPs returns nil or an address of the family that is asked for.
LEMMA FirstOfFamily ==
  ASSUME addrs \in Seq(Address), NEW f \in {4, 6}
  PROVE  /\ FirstOf(f) \in LocalAddress
         /\ FirstOf(f) # Nil => FirstOf(f).family = f
  <1> DEFINE I == {i \in 1..Len(addrs) : addrs[i].family = f}
  <1>1. \A a \in Address : a # Nil
    BY DEF Address, Nil
  <1>2. CASE I = {}
    <2>1. SelectInSeq(addrs, LAMBDA a : a.family = f) = 0
      BY <1>2 DEF SelectInSeq
    <2>2. FirstOf(f) = Nil
      BY <2>1 DEF FirstOf
    <2> QED
      BY <2>2 DEF LocalAddress
  <1>3. CASE I # {}
    <2>1. Min(I) \in I
      BY <1>3, FirstPosition
    <2>2. SelectInSeq(addrs, LAMBDA a : a.family = f) = Min(I)
      BY <1>3 DEF SelectInSeq
    <2>3. addrs[Min(I)] \in Address /\ addrs[Min(I)].family = f /\ Min(I) # 0
      BY <2>1
    <2>4. FirstOf(f) = IF f = 6 /\ conf.NoIPv6 THEN Nil ELSE addrs[Min(I)]
      BY <2>2, <2>3 DEF FirstOf
    <2> QED
      BY <1>1, <2>3, <2>4 DEF LocalAddress
  <1> QED
    BY <1>2, <1>3

-------------------------------------------------------------------------------
\* The addresses kept are of their families, and with interface set there is one
\* for the connections to bootstrap servers.
LocalInv ==
    /\ \A f \in {4, 6} : local[f] # Nil => local[f].family = f
    /\ conf.Interface /\ pc \notin {"NewClient", "exit"} => dnsLocal # Nil
    /\ conf.Interface /\ other.for = "passthrough" => other.local # Nil

\* Every connection tried is one that the options and the families of the
\* interface allow, from the address of its family.
TriedInv ==
    /\ pc \in {"NewClient", "newHTTPClient", "lookup", "asked"} => dial.tried = << >>
    /\ pc = "connected" => dial.tried # << >>
    /\ \A i \in DOMAIN dial.tried :
          /\ dial.tried[i].local = local[dial.tried[i].remote.family]
          /\ Usable(dial.tried[i].remote)

\* The remote addresses of connections, and the addresses of a list that the loop
\* does not skip.
Remotes(tried) == {tried[i].remote : i \in DOMAIN tried}
Allowed(ips) == {ip \in Range(ips) : Usable(ip)}

\* In the loop every usable address of the host was tried or is still to come.
LoopInv ==
    /\ pc = "loop" => Remotes(dial.tried) \cup Allowed(dial.ips) = Allowed(dial.host)
    /\ pc = "failed" => Remotes(dial.tried) = Allowed(dial.host)

IndInv == TypeOK /\ LocalInv /\ TriedInv /\ LoopInv

-------------------------------------------------------------------------------
LEMMA InitIndInv == Init => IndInv
  <1> SUFFICES ASSUME Init PROVE IndInv
    OBVIOUS
  <1>1. TypeOK
    BY EnvironmentAssumption
    DEF Init, TypeOK, Pcs, LocalAddress, NoDial
  <1>2. LocalInv /\ TriedInv /\ LoopInv
    BY DEF Init, LocalInv, TriedInv, LoopInv, NoDial
  <1> QED
    BY <1>1, <1>2 DEF IndInv

LEMMA InterfaceIPs ==
  ASSUME TypeOK
  PROVE  /\ getInterfaceIPs \in [{4, 6} -> LocalAddress]
         /\ \A f \in {4, 6} : getInterfaceIPs[f] # Nil => getInterfaceIPs[f].family = f
         /\ conf.Interface /\ ~InterfaceError =>
               getInterfaceIPs[4] # Nil \/ getInterfaceIPs[6] # Nil
  <1>1. \A f \in {4, 6} : /\ FirstOf(f) \in LocalAddress
                          /\ FirstOf(f) # Nil => FirstOf(f).family = f
    BY FirstOfFamily DEF TypeOK
  <1> QED
    BY <1>1 DEF getInterfaceIPs, InterfaceError, LocalAddress

\* A step of the loop takes the first address that is left.
LEMMA LoopTakesFirst ==
  ASSUME TypeOK, dial.ips # << >>
  PROVE  /\ dial.ips[1] \in Address
         /\ Tail(dial.ips) \in Seq(Address)
         /\ Range(dial.ips) = {dial.ips[1]} \cup Range(Tail(dial.ips))
  <1> DEFINE ips == dial.ips
  <1>1. ips \in Seq(Address) /\ ips # << >>
    BY DEF TypeOK
  <1> HIDE DEF ips
  <1>2. /\ ips[1] \in Address /\ Tail(ips) \in Seq(Address)
        /\ Len(ips) \in Nat \ {0} /\ Len(Tail(ips)) = Len(ips) - 1
        /\ \A i \in 1..Len(Tail(ips)) : Tail(ips)[i] = ips[i + 1]
    BY <1>1
  <1>3. Range(ips) = {ips[i] : i \in 1..Len(ips)}
    BY <1>1 DEF Range
  <1>4. Range(Tail(ips)) = {Tail(ips)[i] : i \in 1..Len(Tail(ips))}
    <2>1. DOMAIN Tail(ips) = 1..Len(Tail(ips))
      BY <1>2
    <2> QED
      BY <2>1 DEF Range
  <1>5. ASSUME NEW i \in 1..Len(ips), i # 1
        PROVE  ips[i] \in Range(Tail(ips))
    <2>1. i - 1 \in 1..Len(Tail(ips)) /\ Tail(ips)[i - 1] = ips[i]
      BY <1>2, <1>5
    <2> QED
      BY <2>1, <1>4
  <1>6. ASSUME NEW i \in 1..Len(Tail(ips))
        PROVE  Tail(ips)[i] \in Range(ips)
    BY <1>2, <1>3
  <1>7. ips[1] \in Range(ips)
    BY <1>2, <1>3
  <1>8. Range(ips) = {ips[1]} \cup Range(Tail(ips))
    BY <1>3, <1>4, <1>5, <1>6, <1>7
  <1> QED
    BY <1>2, <1>8 DEF ips

LEMMA NextTypeOK == TypeOK /\ [Next]_vars => TypeOK'
  <1> SUFFICES ASSUME TypeOK, [Next]_vars PROVE TypeOK'
    OBVIOUS
  <1> USE DEF TypeOK, Pcs
  <1>1. CASE NewClient
    BY <1>1, InterfaceIPs DEF NewClient, env
  <1>2. CASE newHTTPClient
    BY <1>2, InterfaceIPs DEF newHTTPClient, env
  <1>3. CASE Passthrough
    BY <1>3 DEF Passthrough, env
  <1>4. CASE DialContext
    BY <1>4 DEF DialContext, env, NoDial
  <1>5. CASE BootstrapDial
    <2>1. pc' \in {"asked", "lookup"}
      BY <1>5 DEF BootstrapDial
    <2>2. dial' = [dial EXCEPT !.lookups = dial.lookups + 1]
          /\ UNCHANGED <<env, local, dnsLocal>>
      BY <1>5 DEF BootstrapDial
    <2> QED
      BY <2>1, <2>2 DEF env
  <1>6. CASE LookedUp
    BY <1>6, EnvironmentAssumption DEF LookedUp, env
  <1>7. CASE LookupAgain
    BY <1>7 DEF LookupAgain, env
  <1>8. CASE LookupFails
    BY <1>8 DEF LookupFails, env
  <1>9. CASE Skip
    BY <1>9, LoopTakesFirst DEF Skip, env
  <1>10. CASE Connect \/ DialError
    <2>1. Try /\ pc' \in Pcs
      BY <1>10 DEF Connect, DialError, Try
    <2>2. DialLocal(dial.ips[1]) \in LocalAddress
      BY <2>1, LoopTakesFirst DEF Try, DialLocal, Address
    <2> DEFINE conn == [local |-> DialLocal(dial.ips[1]), remote |-> dial.ips[1]]
    <2>3. dial.ips[1] \in Address /\ Tail(dial.ips) \in Seq(Address)
      BY <2>1, LoopTakesFirst DEF Try
    <2>4. conn \in [local : LocalAddress, remote : Address]
      BY <2>2, <2>3
    <2>5. dial' = [dial EXCEPT !.ips = Tail(dial.ips), !.tried = Append(dial.tried, conn)]
      BY <2>1 DEF Try
    <2> HIDE DEF conn
    <2>6. Append(dial.tried, conn) \in Seq([local : LocalAddress, remote : Address])
      BY <2>4
    <2>7. dial' \in [lookups : Nat, host : Seq(Address), ips : Seq(Address),
                    tried : Seq([local : LocalAddress, remote : Address])]
      BY <2>3, <2>5, <2>6
    <2> QED
      BY <2>1, <2>7 DEF Try, env
  <1>11. CASE DialFails
    BY <1>11 DEF DialFails, env
  <1>12. CASE Close
    BY <1>12 DEF Close, env
  <1>13. CASE ChangeAddresses
    BY <1>13, EnvironmentAssumption DEF ChangeAddresses
  <1>14. CASE ProbeDial \/ Exited \/ UNCHANGED vars
    BY <1>14 DEF ProbeDial, Exited, vars, env
  <1> QED
    BY <1>1, <1>2, <1>3, <1>4, <1>5, <1>6, <1>7, <1>8, <1>9, <1>10, <1>11, <1>12,
       <1>13, <1>14
    DEF Next, DialStep

LEMMA NextLocalInv == TypeOK /\ LocalInv /\ [Next]_vars => LocalInv'
  <1> SUFFICES ASSUME TypeOK, LocalInv, [Next]_vars PROVE LocalInv'
    OBVIOUS
  <1> USE DEF LocalInv
  <1>1. CASE NewClient
    BY <1>1, InterfaceIPs DEF NewClient, env
  <1>2. CASE newHTTPClient
    BY <1>2, InterfaceIPs DEF newHTTPClient, env
  <1>3. CASE Passthrough
    BY <1>3 DEF Passthrough, env
  <1>4. CASE BootstrapDial
    BY <1>4 DEF BootstrapDial, env
  <1>5. CASE DialContext \/ LookedUp \/ LookupAgain \/ LookupFails
    BY <1>5 DEF DialContext, LookedUp, LookupAgain, LookupFails, env
  <1>6. CASE Skip \/ Connect \/ DialError \/ DialFails \/ Close
    BY <1>6 DEF Skip, Connect, DialError, Try, DialFails, Close, env
  <1>7. CASE ChangeAddresses \/ Exited \/ UNCHANGED vars
    BY <1>7 DEF ChangeAddresses, Exited, vars, env
  <1>8. CASE ProbeDial
    BY <1>8 DEF ProbeDial, env
  <1> QED
    BY <1>1, <1>2, <1>3, <1>4, <1>5, <1>6, <1>7, <1>8 DEF Next, DialStep

\* What Try adds to the connections.
LEMMA TryAppends ==
  ASSUME TypeOK, Try
  PROVE  LET conn == [local |-> local[dial.ips[1].family], remote |-> dial.ips[1]]
         IN  /\ dial'.tried = Append(dial.tried, conn)
             /\ dial'.ips = Tail(dial.ips) /\ dial'.host = dial.host
             /\ UNCHANGED <<conf, local, other>>
             /\ pc = "loop" /\ dial.ips # << >> /\ Usable(dial.ips[1])
             /\ dial.tried \in Seq([local : LocalAddress, remote : Address])
  BY DEF TypeOK, Try, DialLocal, env

LEMMA NextTriedInv == TypeOK /\ TriedInv /\ [Next]_vars => TriedInv'
  <1> SUFFICES ASSUME TypeOK, TriedInv, [Next]_vars PROVE TriedInv'
    OBVIOUS
  <1>1. CASE UNCHANGED <<conf, local, dial>>
             /\ (pc' \in {"NewClient", "newHTTPClient", "lookup", "asked"} =>
                    pc \in {"NewClient", "newHTTPClient", "lookup", "asked"})
             /\ (pc' = "connected" => pc = "connected")
    BY <1>1 DEF TriedInv, Usable, Network
  <1>2. CASE newHTTPClient
    <2>1. dial' = dial /\ dial.tried = << >> /\ pc' \in {"exit", "ready"}
      BY <1>2 DEF newHTTPClient, TriedInv
    <2> QED
      BY <2>1 DEF TriedInv
  <1>3. CASE DialContext
    <2>1. dial'.tried = << >> /\ pc' = "lookup"
      BY <1>3 DEF DialContext, NoDial
    <2> QED
      BY <2>1 DEF TriedInv
  <1>4. CASE BootstrapDial
    <2>1. dial.tried = << >> /\ dial'.tried = dial.tried /\ pc' \in {"lookup", "asked"}
      BY <1>4 DEF BootstrapDial, TriedInv, TypeOK
    <2> QED
      BY <2>1 DEF TriedInv
  <1>5. CASE LookedUp
    <2>1. dial.tried = << >> /\ dial'.tried = dial.tried /\ pc' = "loop"
      BY <1>5 DEF LookedUp, TriedInv, TypeOK
    <2> QED
      BY <2>1 DEF TriedInv
  <1>6. CASE Skip
    BY <1>6 DEF Skip, TriedInv, TypeOK, Usable, Network, env
  <1>7. CASE Connect \/ DialError
    <2> DEFINE conn == [local |-> local[dial.ips[1].family], remote |-> dial.ips[1]]
    <2>1. Try /\ pc' \in {"loop", "connected"}
      BY <1>7 DEF Connect, DialError, Try
    <2>2. /\ dial'.tried = Append(dial.tried, conn) /\ UNCHANGED <<conf, local>>
          /\ Usable(conn.remote) /\ conn.local = local[conn.remote.family]
          /\ dial.tried \in Seq([local : LocalAddress, remote : Address])
      BY <2>1, TryAppends
    <2> HIDE DEF conn
    <2>3. DOMAIN dial'.tried = 1..(Len(dial.tried) + 1) /\ dial'.tried # << >>
      BY <2>2
    <2>4. ASSUME NEW i \in DOMAIN dial'.tried
          PROVE  /\ dial'.tried[i].local = local[dial'.tried[i].remote.family]
                 /\ Usable(dial'.tried[i].remote)
      <3>1. CASE i = Len(dial.tried) + 1
        BY <2>2, <3>1
      <3>2. CASE i \in DOMAIN dial.tried
        <4>1. dial'.tried[i] = dial.tried[i]
          BY <2>2, <3>2
        <4> QED
          BY <3>2, <4>1 DEF TriedInv
      <3>3. i = Len(dial.tried) + 1 \/ i \in DOMAIN dial.tried
        BY <2>2, <2>3, <2>4
      <3> QED
        BY <3>1, <3>2, <3>3
    <2>5. (\A i \in DOMAIN dial.tried : Usable(dial.tried[i].remote))'
      BY <2>2, <2>4 DEF Usable, Network
    <2> QED
      BY <2>1, <2>2, <2>3, <2>4, <2>5 DEF TriedInv
  <1> QED
    BY <1>1, <1>2, <1>3, <1>4, <1>5, <1>6, <1>7
    DEF Next, DialStep, NewClient, Passthrough, LookupAgain, LookupFails, DialFails,
        Close, ProbeDial, ChangeAddresses, Exited, vars, env, TypeOK, Pcs

LEMMA NextLoopInv == TypeOK /\ TriedInv /\ LoopInv /\ [Next]_vars => LoopInv'
  <1> SUFFICES ASSUME TypeOK, TriedInv, LoopInv, [Next]_vars PROVE LoopInv'
    OBVIOUS
  <1>1. CASE pc' \notin {"loop", "failed"}
    BY <1>1 DEF LoopInv
  <1>2. CASE UNCHANGED <<conf, local, dial, pc>>
    BY <1>2 DEF LoopInv, Allowed, Usable, Network
  <1>3. CASE LookedUp
    <2>1. /\ dial.tried = << >> /\ dial'.tried = dial.tried /\ pc' = "loop"
          /\ dial'.ips = dial'.host
      BY <1>3 DEF LookedUp, TriedInv, TypeOK
    <2>2. Remotes(dial'.tried) = {}
      BY <2>1 DEF Remotes
    <2>3. Allowed(dial.ips)' = Allowed(dial.host)'
      BY <2>1 DEF Allowed
    <2> QED
      BY <2>1, <2>2, <2>3 DEF LoopInv
  <1>4. CASE Skip
    <2>1. /\ pc = "loop" /\ pc' = "loop" /\ UNCHANGED <<conf, local>>
          /\ dial.ips # << >> /\ ~Usable(dial.ips[1])
          /\ dial'.tried = dial.tried /\ dial'.host = dial.host
          /\ dial'.ips = Tail(dial.ips)
      BY <1>4 DEF Skip, env, TypeOK
    <2>2. Allowed(dial.ips)' = Allowed(dial.ips) /\ Allowed(dial.host)' = Allowed(dial.host)
      BY <2>1, LoopTakesFirst DEF Allowed, Usable, Network
    <2> QED
      BY <2>1, <2>2 DEF LoopInv
  <1>5. CASE DialError
    <2> DEFINE conn == [local |-> local[dial.ips[1].family], remote |-> dial.ips[1]]
    <2>1. Try /\ pc = "loop" /\ pc' = "loop"
      BY <1>5 DEF DialError, Try
    <2>2. /\ dial'.tried = Append(dial.tried, conn) /\ UNCHANGED <<conf, local>>
          /\ Usable(conn.remote) /\ conn.remote = dial.ips[1] /\ dial.ips # << >>
          /\ dial'.ips = Tail(dial.ips) /\ dial'.host = dial.host
          /\ dial.tried \in Seq([local : LocalAddress, remote : Address])
      BY <2>1, TryAppends
    <2> HIDE DEF conn
    <2>3. Remotes(dial'.tried) = Remotes(dial.tried) \cup {conn.remote}
      <3>1. /\ DOMAIN dial'.tried = 1..(Len(dial.tried) + 1)
            /\ DOMAIN dial.tried = 1..Len(dial.tried) /\ Len(dial.tried) \in Nat
            /\ \A i \in 1..Len(dial.tried) : dial'.tried[i] = dial.tried[i]
            /\ dial'.tried[Len(dial.tried) + 1] = conn
        BY <2>2
      <3>2. 1..(Len(dial.tried) + 1) = (1..Len(dial.tried)) \cup {Len(dial.tried) + 1}
        BY <3>1
      <3> QED
        BY <3>1, <3>2 DEF Remotes
    <2>4. Allowed(dial.ips) = Allowed(dial.ips)' \cup {conn.remote}
      BY <2>2, LoopTakesFirst DEF Allowed, Usable, Network
    <2>5. Allowed(dial.host)' = Allowed(dial.host)
      BY <2>2 DEF Allowed, Usable, Network
    <2> QED
      BY <2>1, <2>3, <2>4, <2>5 DEF LoopInv
  <1>6. CASE DialFails
    <2>1. /\ pc = "loop" /\ pc' = "failed" /\ dial.ips = << >>
          /\ UNCHANGED <<conf, local, dial>>
      BY <1>6 DEF DialFails, env
    <2>2. Allowed(dial.ips) = {}
      BY <2>1 DEF Allowed, Range
    <2>3. Allowed(dial.host)' = Allowed(dial.host)
      BY <2>1 DEF Allowed, Usable, Network
    <2> QED
      BY <2>1, <2>2, <2>3 DEF LoopInv
  <1> QED
    BY <1>1, <1>2, <1>3, <1>4, <1>5, <1>6
    DEF Next, DialStep, NewClient, newHTTPClient, Passthrough, DialContext, BootstrapDial,
        LookupAgain, LookupFails, Connect, Close, ProbeDial, ChangeAddresses, Exited,
        vars, env

LEMMA NextIndInv == IndInv /\ [Next]_vars => IndInv'
  BY NextTypeOK, NextLocalInv, NextTriedInv, NextLoopInv DEF IndInv

LEMMA OutgoingIndInv == Spec => []IndInv
  BY InitIndInv, NextIndInv, PTL DEF Spec

-------------------------------------------------------------------------------
(***************************************************************************)
(* Type correctness of NewClient, newHTTPClient and DialContext: a local   *)
(* address is nil or an address, whatever the interface's addresses are    *)
(* when it is looked at.                                                   *)
(***************************************************************************)
THEOREM OutgoingTypeOK == Spec => []TypeOK
  BY OutgoingIndInv, PTL DEF IndInv

(***************************************************************************)
(* With interface set, a connection that a query travels on is bound: one  *)
(* of DialContext to an address of the family it connects to, and one that *)
(* passes a query through, for all interfaces, hosts and changes of        *)
(* addresses.  It says nothing of the probes, which are not.               *)
(***************************************************************************)
THEOREM ConnectionsBound == Spec => []BoundToInterface
  <1>1. IndInv => BoundToInterface
    <2> SUFFICES ASSUME IndInv, conf.Interface PROVE BoundToInterface
      BY DEF BoundToInterface
    <2>1. ASSUME pc = "connected"
          PROVE  /\ dial.tried[Len(dial.tried)].local # Nil
                 /\ dial.tried[Len(dial.tried)].local.family =
                       dial.tried[Len(dial.tried)].remote.family
      <3> DEFINE n == Len(dial.tried)
      <3>1. dial.tried \in Seq([local : LocalAddress, remote : Address]) /\ dial.tried # << >>
        BY <2>1 DEF IndInv, TypeOK, TriedInv
      <3>2. /\ n \in DOMAIN dial.tried
            /\ dial.tried[n] \in [local : LocalAddress, remote : Address]
        BY <3>1, LastOfSeq
      <3> HIDE DEF n
      <3>3. dial.tried[n].remote.family \in {4, 6}
        BY <3>2 DEF Address
      <3>4. /\ dial.tried[n].local = local[dial.tried[n].remote.family]
            /\ local[dial.tried[n].remote.family] # Nil
        BY <3>2 DEF IndInv, TriedInv, Usable
      <3>5. dial.tried[n].local.family = dial.tried[n].remote.family
        BY <3>3, <3>4 DEF IndInv, LocalInv
      <3> QED
        BY <3>4, <3>5 DEF n
    <2>2. other.for = "passthrough" => other.local # Nil
      BY DEF IndInv, LocalInv
    <2> QED
      BY <2>1, <2>2 DEF BoundToInterface
  <1> QED
    BY OutgoingIndInv, <1>1, PTL

(***************************************************************************)
(* The loop of DialContext gives up only after every address of the host   *)
(* that the options and the interface allow, and tries no other.           *)
(***************************************************************************)
THEOREM EveryAddressTried == Spec => []TriesEveryAddress
  <1>1. IndInv => TriesEveryAddress
    <2> SUFFICES ASSUME IndInv, pc = "failed" PROVE TriesEveryAddress
      BY DEF TriesEveryAddress
    <2>1. {conn.remote : conn \in Range(dial.tried)} = Remotes(dial.tried)
      BY DEF Range, Remotes
    <2>2. Allowed(dial.host) = {ip \in Range(dial.host) :
                                  /\ conf.NoIPv6 => ip.family = 4
                                  /\ conf.Interface => local[ip.family] # Nil}
      BY DEF Allowed, Usable, Network
    <2>3. Remotes(dial.tried) = Allowed(dial.host)
      BY DEF IndInv, LoopInv
    <2> QED
      BY <2>1, <2>2, <2>3 DEF TriesEveryAddress
  <1> QED
    BY OutgoingIndInv, <1>1, PTL
===============================================================================
