--------------------------------- MODULE Daemon ---------------------------------
(***************************************************************************)
(* The life of a process of doh-client or doh-server: checkPIDFile, the    *)
(* configuration file, the listeners of Start, and its end with the first  *)
(* of them that fails.  Processes share the PID file and the sockets of    *)
(* the machine.                                                            *)
(***************************************************************************)
EXTENDS PidFile, Sequences

CONSTANTS
    Files,      \* what the configuration files of a run say
    Addresses,  \* the addresses that can be listened on
    Kinds       \* the prefixes or request types that upstreams can have

(***************************************************************************)
(* A configuration file.  decodes: it is TOML and has no unknown option;   *)
(* listen: the addresses; upstream: the prefixes of doh-server's upstreams *)
(* or the request types of doh-client's; timeout, tries; and for           *)
(* doh-server cert and key, whether they are given, client_auth, and ca,   *)
(* whether the file of tls_client_auth_ca can be read.                     *)
(***************************************************************************)
ConfigFile ==
    [program : {"doh-client", "doh-server"}, decodes : BOOLEAN,
     listen : Seq(Addresses), upstream : Seq(Kinds), timeout : Nat, tries : Nat,
     cert : BOOLEAN, key : BOOLEAN, client_auth : BOOLEAN, ca : BOOLEAN]

ASSUME FilesAssumption == Files \subseteq ConfigFile
ASSUME DefaultsAssumption ==
    /\ {"127.0.0.1:53", "[::1]:53", "127.0.0.1:8053", "[::1]:8053"} \subseteq Addresses
    /\ {"google", "udp"} \subseteq Kinds

VARIABLES
    conf,      \* the configuration of each process, once it is loaded
    listeners  \* what each goroutine of Start does

vars == <<pidVars, conf, listeners>>

NoConf == [program |-> "none"]

\* Loaded, and its goroutines are on their way.
Up(p) == proc[p] = "daemon" /\ conf[p] # NoConf

-------------------------------------------------------------------------------
\* Fault: upstreams and the pair of cert and key are not looked at.
LoadsAnything(f) == f.decodes

\* LoadConfig and loadConfig find no error.
Loads(f) ==
    /\ f.decodes
    /\ f.program = "doh-server" =>
          /\ f.cert = f.key
          /\ \A i \in DOMAIN f.upstream : f.upstream[i] \in {"udp", "tcp", "tcp-tls"}

\* What they put in the place of options that are not given.
WithDefaults(f) ==
    LET client == f.program = "doh-client"
    IN  [f EXCEPT
            !.listen   = IF @ # << >> THEN @
                         ELSE IF client THEN <<"127.0.0.1:53", "[::1]:53">>
                         ELSE <<"127.0.0.1:8053", "[::1]:8053">>,
            !.upstream = IF @ # << >> THEN @
                         ELSE IF client THEN <<"google">> ELSE <<"udp", "udp">>,
            !.timeout  = IF @ = 0 THEN 10 ELSE @,
            !.tries    = IF @ = 0 THEN 1 ELSE @]

\* The sockets of Start: those of doh-client for UDP come first.
Sockets(c) ==
    LET On(net) == [i \in DOMAIN c.listen |-> <<net, c.listen[i]>>]
    IN  IF c.program = "doh-client" THEN On("udp") \o On("tcp") ELSE On("tcp")

\* The process ends: its sockets are closed.
Exit(p) ==
    /\ End(p)
    /\ conf' = [conf EXCEPT ![p] = NoConf]
    /\ listeners' = [listeners EXCEPT ![p] = << >>]

-------------------------------------------------------------------------------
DInit ==
    /\ Init
    /\ conf = [p \in Pids |-> NoConf]
    /\ listeners = [p \in Pids |-> << >>]

\* main after checkPIDFile: the configuration is loaded, the client or the server
\* is made of it and Start spawns the listeners, unless one of them ends the
\* process, as doh-server's Start does when it cannot authenticate clients.
Launch(p) ==
    /\ proc[p] = "daemon" /\ conf[p] = NoConf
    /\ \E f \in Files :
          IF Loads(f) /\ (f.client_auth => f.ca)
          THEN /\ conf' = [conf EXCEPT ![p] = WithDefaults(f)]
               /\ listeners' = [listeners EXCEPT ![p] =
                                   [i \in DOMAIN Sockets(conf'[p]) |-> "starting"]]
               /\ UNCHANGED pidVars
          ELSE Exit(p)

\* Some process listens on the socket.
InUse(socket) ==
    \E q \in Pids : \E j \in DOMAIN listeners[q] :
        listeners[q][j] = "serving" /\ Sockets(conf[q])[j] = socket

\* Fault: the socket is opened with SO_REUSEPORT.
BindShared(p, i) ==
    /\ listeners[p][i] = "starting"
    /\ listeners' = [listeners EXCEPT ![p][i] = "serving"]
    /\ UNCHANGED <<pidVars, conf>>

\* ListenAndServe takes the socket or returns an error.
Bind(p, i) ==
    /\ listeners[p][i] = "starting"
    /\ listeners' = [listeners EXCEPT ![p][i] =
                        IF InUse(Sockets(conf[p])[i]) THEN "failed" ELSE "serving"]
    /\ UNCHANGED <<pidVars, conf>>

\* ListenAndServe returns an error for another reason: the address is not the
\* machine's, the port needs a privilege, a certificate cannot be read.
ListenFails(p, i) ==
    /\ listeners[p][i] \in {"starting", "serving"}
    /\ listeners' = [listeners EXCEPT ![p][i] = "failed"]
    /\ UNCHANGED <<pidVars, conf>>

\* Fault: Start waits for all results before it looks at them.
ReturnLast(p) ==
    /\ Up(p)
    /\ \A i \in DOMAIN listeners[p] : listeners[p][i] = "failed"
    /\ Exit(p)

\* Start receives the first error and returns, and main does.  (A listener that
\* returns no error, after which Start would wait for the others, would have been
\* shut down, which no code does.)
Return(p) ==
    /\ Up(p)
    /\ \E i \in DOMAIN listeners[p] : listeners[p][i] = "failed"
    /\ Exit(p)

-------------------------------------------------------------------------------
\* The steps that a process takes if it runs.
Work(p) ==
    \/ Check(p) /\ UNCHANGED <<conf, listeners>>
    \/ Launch(p)
    \/ \E i \in DOMAIN listeners[p] : Bind(p, i)
    \/ Return(p)

\* What happens to processes.
Fate(p) ==
    \/ (Start(p) \/ StartUnrelated(p) \/ EndUnrelated(p)) /\ UNCHANGED <<conf, listeners>>
    \/ Exit(p)
    \/ \E i \in DOMAIN listeners[p] : ListenFails(p, i)

DNext == \E p \in Pids : Work(p) \/ Fate(p)

\* A process of the programs is not suspended.
DSpec == DInit /\ [][DNext]_vars /\ \A p \in Pids : WF_vars(Work(p))

-------------------------------------------------------------------------------
(***************************************************************************)
(* checkPIDFile ends: the retry after the removal of a stale file cannot   *)
(* go on for ever unless starts overlap.                                   *)
(***************************************************************************)
CheckEnds == \A p \in Pids : proc[p] \in Checking ~> proc[p] \notin Checking \/ overlap

\* Every goroutine of Start has its socket.
Serving(p) == Up(p) /\ \A i \in DOMAIN listeners[p] : listeners[p][i] = "serving"

(***************************************************************************)
(* A daemon does not stay half alive, with the PID file telling that it    *)
(* runs and one of its sockets dead: once it has passed checkPIDFile it    *)
(* serves on all its sockets or it ends, and so again whenever one of them *)
(* fails.                                                                  *)
(***************************************************************************)
ServesOrEnds == \A p \in Pids : proc[p] = "daemon" ~> Serving(p) \/ proc[p] # "daemon"

\* Two daemons that want the same socket.
Contend(p, q) ==
    /\ Up(p) /\ Up(q)
    /\ \E i \in DOMAIN listeners[p], j \in DOMAIN listeners[q] :
          Sockets(conf[p])[i] = Sockets(conf[q])[j]

(***************************************************************************)
(* What checkPIDFile cannot prevent the sockets undo: when two starts that *)
(* overlap let two daemons through, one of them ends before long.          *)
(***************************************************************************)
DoubleStartResolved ==
    \A p, q \in Pids : p # q => (Contend(p, q) ~> ~Contend(p, q))

(***************************************************************************)
(* Every configuration that loads has what the handlers take for granted:  *)
(* Get and doDNSQuery draw an upstream, of a kind that doDNSQuery knows,   *)
(* the loop of tries runs at least once, a deadline does not pass at once, *)
(* a key has its certificate, and Start does not return without a listener.*)
(***************************************************************************)
ConfigSuffices ==
    \A p \in Pids : Up(p) =>
        /\ conf[p].upstream # << >> /\ conf[p].timeout > 0 /\ listeners[p] # << >>
        /\ conf[p].program = "doh-server" =>
              /\ conf[p].tries > 0 /\ conf[p].cert = conf[p].key
              /\ \A i \in DOMAIN conf[p].upstream :
                    conf[p].upstream[i] \in {"udp", "tcp", "tcp-tls"}
===============================================================================
