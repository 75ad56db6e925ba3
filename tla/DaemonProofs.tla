------------------------------ MODULE DaemonProofs ------------------------------
(***************************************************************************)
(* checkPIDFile keeps daemons apart as long as no check is begun during    *)
(* another, for any number of processes, with PIDs in use again, processes *)
(* killed at any point and daemons that end because of their listeners.    *)
(***************************************************************************)
EXTENDS Daemon, TLAPS

\* The inductive invariant: a daemon's PID is in the file, and what a check
\* has read is still there when it acts on it.
IndInv == PidTypeOK /\ FileNamesDaemon /\ CheckInv

LEMMA InitIndInv == Init => IndInv
  <1> SUFFICES ASSUME Init PROVE IndInv
    OBVIOUS
  <1>1. PidTypeOK
    BY PidsAssumption DEF Init, PidTypeOK, Checking
  <1>2. FileNamesDaemon
    BY DEF Init, FileNamesDaemon
  <1>3. CheckInv
    BY DEF Init, CheckInv, Checking, NoFile
  <1> QED
    BY <1>1, <1>2, <1>3 DEF IndInv

LEMMA NextPidTypeOK == PidTypeOK /\ [Next]_pidVars => PidTypeOK'
  <1> SUFFICES ASSUME PidTypeOK, [Next]_pidVars PROVE PidTypeOK'
    OBVIOUS
  <1> USE DEF PidTypeOK, Checking, Goto, Forget
  <1>1. ASSUME NEW p \in Pids, Start(p) \/ StartUnrelated(p) \/ EndUnrelated(p)
        PROVE  PidTypeOK'
    BY <1>1 DEF Start, StartUnrelated, EndUnrelated
  <1>2. ASSUME NEW p \in Pids, End(p) PROVE PidTypeOK'
    BY <1>2, PidsAssumption DEF End
  <1>3. ASSUME NEW p \in Pids, Open(p) PROVE PidTypeOK'
    BY <1>3 DEF Open
  <1>4. ASSUME NEW p \in Pids, Read(p) PROVE PidTypeOK'
    BY <1>4 DEF Read
  <1>5. ASSUME NEW p \in Pids, Stat(p) PROVE PidTypeOK'
    BY <1>5, PidsAssumption DEF Stat
  <1>6. ASSUME NEW p \in Pids, Remove(p) PROVE PidTypeOK'
    BY <1>6, PidsAssumption DEF Remove
  <1>7. ASSUME NEW p \in Pids, Write(p) PROVE PidTypeOK'
    <2>1. file' = NoFile \/ file' \in [by : Pids, pid : Pids \cup {"empty"}]
      <3>1. CASE file.by = p
        <4>1. file # NoFile
          BY <3>1, PidsAssumption DEF NoFile
        <4> QED
          BY <1>7, <3>1, <4>1 DEF Write
      <3>2. CASE file.by # p
        BY <1>7, <3>2 DEF Write
      <3> QED
        BY <3>1, <3>2
    <2> QED
      BY <1>7, <2>1 DEF Write
  <1>8. CASE UNCHANGED pidVars
    BY <1>8 DEF pidVars
  <1> QED
    BY <1>1, <1>2, <1>3, <1>4, <1>5, <1>6, <1>7, <1>8 DEF Next, Check

LEMMA NextIndInv == IndInv /\ [Next]_pidVars => IndInv'
  <1> SUFFICES ASSUME IndInv, [Next]_pidVars PROVE IndInv'
    OBVIOUS
  <1>0. PidTypeOK'
    BY NextPidTypeOK DEF IndInv
  <1> SUFFICES FileNamesDaemon' /\ CheckInv'
    BY <1>0 DEF IndInv
  <1> USE DEF IndInv, PidTypeOK, FileNamesDaemon, CheckInv, Checking, Goto, Forget
  <1>1. ASSUME NEW p \in Pids, Start(p)
        PROVE  FileNamesDaemon' /\ CheckInv'
    BY <1>1 DEF Start
  <1>2. ASSUME NEW p \in Pids, StartUnrelated(p) \/ EndUnrelated(p)
        PROVE  FileNamesDaemon' /\ CheckInv'
    BY <1>2 DEF StartUnrelated, EndUnrelated
  <1>3. ASSUME NEW p \in Pids, End(p)
        PROVE  FileNamesDaemon' /\ CheckInv'
    BY <1>3 DEF End
  <1>4. ASSUME NEW p \in Pids, Open(p)
        PROVE  FileNamesDaemon' /\ CheckInv'
    <2>1. file = NoFile /\ ~overlap => \A q \in Pids : proc[q] # "daemon"
      BY PidsAssumption DEF NoFile
    <2>2. [by |-> p, pid |-> "empty"] # NoFile
      BY DEF NoFile
    <2> QED
      BY <1>4, <2>1, <2>2 DEF Open
  <1>5. ASSUME NEW p \in Pids, Read(p)
        PROVE  FileNamesDaemon' /\ CheckInv'
    BY <1>5 DEF Read
  <1>6. ASSUME NEW p \in Pids, Stat(p)
        PROVE  FileNamesDaemon' /\ CheckInv'
    BY <1>6 DEF Stat, Alive
  <1>7. ASSUME NEW p \in Pids, Remove(p)
        PROVE  FileNamesDaemon' /\ CheckInv'
    <2>1. ~overlap => \A q \in Pids : proc[q] # "daemon"
      BY <1>7 DEF Remove
    <2>2. NoFile.pid # "empty"
      BY DEF NoFile
    <2> QED
      BY <1>7, <2>1, <2>2 DEF Remove
  <1>8. ASSUME NEW p \in Pids, Write(p)
        PROVE  FileNamesDaemon' /\ CheckInv'
    <2>1. CASE overlap
      BY <1>8, <2>1 DEF Write
    <2>2. CASE ~overlap
      <3>1. file = [by |-> p, pid |-> "empty"]
        BY <1>8, <2>2 DEF Write
      <3>2. \A q \in Pids : proc[q] # "daemon"
        BY <3>1, <2>2, PidsAssumption
      <3>3. file'.pid = p /\ p # "empty"
        BY <1>8, <3>1, PidsAssumption DEF Write
      <3> QED
        BY <1>8, <3>2, <3>3 DEF Write
    <2> QED
      BY <2>1, <2>2
  <1>9. CASE UNCHANGED pidVars
    BY <1>9 DEF pidVars
  <1> QED
    BY <1>1, <1>2, <1>3, <1>4, <1>5, <1>6, <1>7, <1>8, <1>9 DEF Next, Check

\* Whatever a process does after checkPIDFile, the PID file sees steps of PidFile.
LEMMA StepImplementsPidFile == [DNext]_vars => [Next]_pidVars
  <1> SUFFICES ASSUME [DNext]_vars PROVE [Next]_pidVars
    OBVIOUS
  <1>1. ASSUME NEW p \in Pids, Work(p) PROVE [Next]_pidVars
    <2>1. CASE Check(p)
      BY <2>1 DEF Next
    <2>2. CASE Launch(p)
      BY <2>2 DEF Launch, Exit, Next
    <2>3. ASSUME NEW i \in DOMAIN listeners[p], Bind(p, i) PROVE [Next]_pidVars
      BY <2>3 DEF Bind
    <2>4. CASE Return(p)
      BY <2>4 DEF Return, Exit, Next
    <2> QED
      BY <1>1, <2>1, <2>2, <2>3, <2>4 DEF Work
  <1>2. ASSUME NEW p \in Pids, Fate(p) PROVE [Next]_pidVars
    BY <1>2 DEF Fate, Exit, ListenFails, Next
  <1>3. CASE UNCHANGED vars
    BY <1>3 DEF vars
  <1> QED
    BY <1>1, <1>2, <1>3 DEF DNext

LEMMA DaemonIndInv == DSpec => []IndInv
  <1>1. DInit => IndInv
    BY InitIndInv DEF DInit
  <1>2. IndInv /\ [DNext]_vars => IndInv'
    BY StepImplementsPidFile, NextIndInv
  <1> QED
    BY <1>1, <1>2, PTL DEF DSpec

(***************************************************************************)
(* The variables of checkPIDFile keep their types through the whole life   *)
(* of the daemons.                                                         *)
(***************************************************************************)
THEOREM DaemonTypeOK == DSpec => []PidTypeOK
  <1>1. IndInv => PidTypeOK
    BY DEF IndInv
  <1> QED
    BY <1>1, DaemonIndInv, PTL

(***************************************************************************)
(* What a check that is alone has read is still there when it acts on it.  *)
(***************************************************************************)
THEOREM DaemonCheckInv == DSpec => []CheckInv
  <1>1. IndInv => CheckInv
    BY DEF IndInv
  <1> QED
    BY <1>1, DaemonIndInv, PTL

(***************************************************************************)
(* As long as no check is begun during another, the PID file names the     *)
(* daemon that runs.                                                       *)
(***************************************************************************)
THEOREM FileNames == DSpec => []FileNamesDaemon
  <1>1. IndInv => FileNamesDaemon
    BY DEF IndInv
  <1> QED
    BY <1>1, DaemonIndInv, PTL

(***************************************************************************)
(* As long as no check is begun during another, no two daemons run on the  *)
(* same PID file, although no daemon removes it, and although a check can  *)
(* be killed between any two of its system calls.                          *)
(***************************************************************************)
THEOREM OneDaemon == DSpec => []AtMostOneDaemon
  <1>1. FileNamesDaemon => AtMostOneDaemon
    BY DEF FileNamesDaemon, AtMostOneDaemon
  <1> QED
    BY <1>1, FileNames, PTL

\* A check that is alone and gives up has a reason to.
LEMMA GivesUpForCause ==
  ASSUME IndInv, ~overlap, NEW p \in Pids, Read(p) \/ Stat(p) \/ Remove(p),
         proc'[p] = "none"
  PROVE  \/ \E q \in Pids : proc[q] = "daemon"
         \/ file.pid \in Pids /\ (proc[file.pid] = "unrelated" \/ file.pid = p)
         \/ crashed
  <1> USE DEF IndInv, PidTypeOK, CheckInv, Checking, Goto
  <1>1. CASE Read(p)
    <2>1. file.pid = "empty"
      BY <1>1 DEF Read
    <2>2. \A q \in Pids : proc[q] # "write"
      BY <1>1 DEF Read
    <2> QED
      BY <2>1, <2>2
  <1>2. CASE Stat(p)
    <2>1. seen[p] = file.pid /\ seen[p] \in Pids
      BY <1>2 DEF Stat
    <2>2. Alive(seen[p])
      BY <1>2 DEF Stat
    <2> QED
      BY <1>2, <2>1, <2>2 DEF Stat, Alive
  <1>3. CASE Remove(p)
    <2>1. file = NoFile /\ file.pid \in Pids
      BY <1>3 DEF Remove
    <2> QED
      BY <2>1, PidsAssumption DEF NoFile
  <1> QED
    BY <1>1, <1>2, <1>3

(***************************************************************************)
(* The files that daemons leave behind, however they end, keep no start    *)
(* from going through that is alone.                                       *)
(***************************************************************************)
THEOREM TurnedAway == DSpec => TurnedAwayForCause
  <1>1. IndInv /\ [DNext]_vars =>
          [\A p \in Pids :
             (Read(p) \/ Stat(p) \/ Remove(p)) /\ ~overlap /\ proc'[p] = "none" =>
                 \/ \E q \in Pids : proc[q] = "daemon"
                 \/ file.pid \in Pids /\ (proc[file.pid] = "unrelated" \/ file.pid = p)
                 \/ crashed]_pidVars
    BY GivesUpForCause
  <1> QED
    BY <1>1, DaemonIndInv, PTL DEF DSpec, TurnedAwayForCause

-------------------------------------------------------------------------------
\* What loadConfig and LoadConfig leave of a file they accept.
Accepted ==
    {c \in ConfigFile :
        /\ c.listen # << >> /\ c.upstream # << >> /\ c.timeout > 0 /\ c.tries > 0
        /\ c.program = "doh-server" =>
              /\ c.cert = c.key
              /\ \A i \in DOMAIN c.upstream : c.upstream[i] \in {"udp", "tcp", "tcp-tls"}}

\* A process that has its configuration has a goroutine for each socket.
ConfInv ==
    /\ conf \in [Pids -> Accepted \cup {NoConf}]
    /\ listeners \in [Pids -> Seq({"starting", "serving", "failed"})]
    /\ \A p \in Pids : conf[p] # NoConf => listeners[p] # << >>

\* Sequences of two elements and of one.
LEMMA PairSeq ==
  ASSUME NEW S
  PROVE  /\ \A a \in S : <<a>> \in Seq(S)
         /\ \A a, b \in S : <<a, b>> \in Seq(S)
  OBVIOUS

\* The defaults and the checks of the two programs.
LEMMA LoadedAccepted ==
  ASSUME NEW f \in Files, Loads(f)
  PROVE  WithDefaults(f) \in Accepted
  <1> DEFINE c == WithDefaults(f)
  <1>1. f \in ConfigFile
    BY FilesAssumption
  <1>2. /\ c.program = f.program /\ c.cert = f.cert /\ c.key = f.key
        /\ c.listen # << >> /\ c.upstream # << >> /\ c.timeout > 0 /\ c.tries > 0
    BY <1>1 DEF ConfigFile, WithDefaults
  <1>3. c \in ConfigFile
    <2> DEFINE l == IF f.listen # << >> THEN f.listen
                    ELSE IF f.program = "doh-client" THEN <<"127.0.0.1:53", "[::1]:53">>
                    ELSE <<"127.0.0.1:8053", "[::1]:8053">>
               u == IF f.upstream # << >> THEN f.upstream
                    ELSE IF f.program = "doh-client" THEN <<"google">> ELSE <<"udp", "udp">>
               t == IF f.timeout = 0 THEN 10 ELSE f.timeout
               n == IF f.tries = 0 THEN 1 ELSE f.tries
    <2>1. l \in Seq(Addresses) /\ u \in Seq(Kinds) /\ t \in Nat /\ n \in Nat
      <3>1. /\ <<"127.0.0.1:53", "[::1]:53">> \in Seq(Addresses)
            /\ <<"127.0.0.1:8053", "[::1]:8053">> \in Seq(Addresses)
        BY DefaultsAssumption, PairSeq
      <3>2. <<"google">> \in Seq(Kinds) /\ <<"udp", "udp">> \in Seq(Kinds)
        BY DefaultsAssumption, PairSeq
      <3>3. f.listen \in Seq(Addresses) /\ f.upstream \in Seq(Kinds)
        BY <1>1 DEF ConfigFile
      <3>4. t \in Nat /\ n \in Nat
        BY <1>1 DEF ConfigFile
      <3> QED
        BY <3>1, <3>2, <3>3, <3>4
    <2>2. c = [f EXCEPT !.listen = l, !.upstream = u, !.timeout = t, !.tries = n]
      BY DEF WithDefaults
    <2> HIDE DEF c, l, u, t, n
    <2> QED
      BY <1>1, <2>1, <2>2 DEF ConfigFile
  <1>4. ASSUME f.program = "doh-server"
        PROVE  \A i \in DOMAIN c.upstream : c.upstream[i] \in {"udp", "tcp", "tcp-tls"}
    <2>1. c.upstream = IF f.upstream # << >> THEN f.upstream ELSE <<"udp", "udp">>
      BY <1>1, <1>4 DEF ConfigFile, WithDefaults
    <2> QED
      BY <1>4, <2>1 DEF Loads
  <1>5. f.program = "doh-server" => f.cert = f.key
    BY DEF Loads
  <1> HIDE DEF c
  <1> QED
    BY <1>2, <1>3, <1>4, <1>5 DEF Accepted, c

\* Start has a listener for every configuration that it gets.
LEMMA SocketsNonempty ==
  ASSUME NEW c \in Accepted
  PROVE  /\ [i \in DOMAIN Sockets(c) |-> "starting"] \in Seq({"starting", "serving", "failed"})
         /\ [i \in DOMAIN Sockets(c) |-> "starting"] # << >>
  <1> DEFINE udp == [i \in DOMAIN c.listen |-> <<"udp", c.listen[i]>>]
             tcp == [i \in DOMAIN c.listen |-> <<"tcp", c.listen[i]>>]
             n == Len(c.listen)
  <1>1. c.listen \in Seq(Addresses) /\ c.listen # << >>
    BY DEF Accepted, ConfigFile
  <1>2. n \in Nat \ {0} /\ DOMAIN c.listen = 1..n
    BY <1>1
  <1> HIDE DEF n
  <1>3. udp \in Seq({"udp", "tcp"} \X Addresses) /\ tcp \in Seq({"udp", "tcp"} \X Addresses)
        /\ Len(udp) = n /\ Len(tcp) = n
    <2>1. \A i \in 1..n : c.listen[i] \in Addresses
      BY <1>1, <1>2
    <2>2. udp \in [1..n -> {"udp", "tcp"} \X Addresses] /\ tcp \in [1..n -> {"udp", "tcp"} \X Addresses]
      BY <1>2, <2>1
    <2> HIDE DEF udp, tcp
    <2> QED
      BY <1>2, <2>2
  <1> HIDE DEF udp, tcp
  <1>4. Sockets(c) = IF c.program = "doh-client" THEN udp \o tcp ELSE tcp
    BY DEF Sockets, udp, tcp
  <1>5. \E m \in Nat \ {0} : DOMAIN Sockets(c) = 1..m
    <2>1. DOMAIN tcp = 1..n /\ DOMAIN (udp \o tcp) = 1..(n + n) /\ n + n \in Nat \ {0}
      <3>1. udp \o tcp \in Seq({"udp", "tcp"} \X Addresses) /\ Len(udp \o tcp) = n + n
        BY <1>3
      <3>2. DOMAIN (udp \o tcp) = 1..Len(udp \o tcp)
        BY <3>1
      <3>3. DOMAIN tcp = 1..n
        BY <1>3
      <3> QED
        BY <1>2, <3>1, <3>2, <3>3
    <2> QED
      BY <1>2, <1>4, <2>1
  <1>6. PICK m \in Nat \ {0} : DOMAIN Sockets(c) = 1..m
    BY <1>5
  <1> QED
    BY <1>6

LEMMA NextConfInv == ConfInv /\ [DNext]_vars => ConfInv'
  <1> SUFFICES ASSUME ConfInv, [DNext]_vars PROVE ConfInv'
    OBVIOUS
  <1> USE DEF ConfInv
  <1>1. ASSUME NEW p \in Pids, Exit(p) PROVE ConfInv'
    BY <1>1 DEF Exit
  <1>2. ASSUME NEW p \in Pids, Launch(p) PROVE ConfInv'
    <2>1. PICK f \in Files :
             \/ /\ Loads(f)
                /\ conf' = [conf EXCEPT ![p] = WithDefaults(f)]
                /\ listeners' = [listeners EXCEPT ![p] =
                                    [i \in DOMAIN Sockets(conf'[p]) |-> "starting"]]
             \/ Exit(p)
      BY <1>2 DEF Launch
    <2>2. CASE Exit(p)
      BY <1>1, <2>2
    <2>3. CASE ~Exit(p)
      <3> DEFINE c == WithDefaults(f)
                 new == [i \in DOMAIN Sockets(c) |-> "starting"]
      <3>1. c \in Accepted
        BY <2>1, <2>3, LoadedAccepted
      <3>2. conf' = [conf EXCEPT ![p] = c]
        BY <2>1, <2>3
      <3> HIDE DEF c
      <3>3. conf'[p] = c
        BY <3>2
      <3>4. listeners' = [listeners EXCEPT ![p] = new]
        BY <2>1, <2>3, <3>3
      <3>5. new \in Seq({"starting", "serving", "failed"}) /\ new # << >>
        BY <3>1, SocketsNonempty
      <3> HIDE DEF new
      <3> QED
        BY <3>1, <3>2, <3>4, <3>5
    <2> QED
      BY <2>2, <2>3
  <1>3. ASSUME NEW p \in Pids, NEW i \in DOMAIN listeners[p], Bind(p, i) \/ ListenFails(p, i)
        PROVE  ConfInv'
    <2>1. PICK s \in {"starting", "serving", "failed"} :
             listeners' = [listeners EXCEPT ![p][i] = s] /\ UNCHANGED conf
      BY <1>3 DEF Bind, ListenFails
    <2>2. listeners[p] \in Seq({"starting", "serving", "failed"})
      OBVIOUS
    <2>3. [listeners[p] EXCEPT ![i] = s] \in Seq({"starting", "serving", "failed"})
          /\ [listeners[p] EXCEPT ![i] = s] # << >>
      BY <2>2
    <2>4. listeners' = [listeners EXCEPT ![p] = [listeners[p] EXCEPT ![i] = s]]
      BY <2>1
    <2> QED
      BY <2>1, <2>3, <2>4
  <1>4. CASE UNCHANGED <<conf, listeners>>
    BY <1>4
  <1>5. ASSUME NEW p \in Pids, Work(p) PROVE ConfInv'
    BY <1>1, <1>2, <1>3, <1>4, <1>5 DEF Work, Return
  <1>6. ASSUME NEW p \in Pids, Fate(p) PROVE ConfInv'
    BY <1>1, <1>3, <1>4, <1>6 DEF Fate
  <1> QED
    BY <1>4, <1>5, <1>6 DEF DNext, vars

(***************************************************************************)
(* A daemon that is up, of either program and with any configuration file, *)
(* has an upstream of a kind that it can ask, tries, a timeout, a listener *)
(* and no key without a certificate.                                       *)
(***************************************************************************)
THEOREM ConfigurationSuffices == DSpec => []ConfigSuffices
  <1>1. DInit => ConfInv
    BY DEF DInit, ConfInv
  <1>2. ConfInv => ConfigSuffices
    BY DEF ConfInv, ConfigSuffices, Up, Accepted
  <1> QED
    BY <1>1, <1>2, NextConfInv, PTL DEF DSpec
===============================================================================
