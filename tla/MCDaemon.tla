-------------------------------- MODULE MCDaemon --------------------------------
(***************************************************************************)
(* Configuration files for Daemon.                                         *)
(***************************************************************************)
EXTENDS Daemon

\* A file in which every option is left out.
Empty(program) ==
    [program |-> program, decodes |-> TRUE, listen |-> << >>, upstream |-> << >>,
     timeout |-> 0, tries |-> 0, cert |-> FALSE, key |-> FALSE,
     client_auth |-> FALSE, ca |-> FALSE]

MCAddresses == {"127.0.0.1:53", "[::1]:53", "127.0.0.1:8053", "[::1]:8053"}

MCKinds == {"google", "ietf", "udp", "tcp", "tcp-tls", "https"}

MCFiles ==
    {Empty("doh-server"),
     [Empty("doh-client") EXCEPT !.listen = <<"127.0.0.1:8053">>, !.upstream = <<"ietf">>],
     [Empty("doh-client") EXCEPT !.decodes = FALSE],
     [Empty("doh-server") EXCEPT !.upstream = <<"udp", "https">>],
     [Empty("doh-server") EXCEPT !.key = TRUE],
     [Empty("doh-server") EXCEPT !.client_auth = TRUE]}
===============================================================================
