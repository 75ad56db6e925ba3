-------------------------------- MODULE PidFile --------------------------------
(***************************************************************************)
(* checkPIDFile of doh-client and doh-server (the two are the same code):  *)
(* what keeps a second daemon from starting on the same PID file.          *)
(*                                                                         *)
(* Every process of the machine is known by its PID.  A process runs       *)
(* checkPIDFile in steps that are one system call each; others run in      *)
(* between.  No code removes the file when a daemon ends, so a file that   *)
(* names a dead process is the normal case after a restart, and the PID it *)
(* names can be in use again, by an unrelated process or by a new daemon.  *)
(***************************************************************************)
EXTENDS Naturals, FiniteSets

CONSTANT Pids  \* the PIDs that are given out, again after their process has ended

ASSUME PidsAssumption == "empty" \notin Pids /\ "absent" \notin Pids

VARIABLES
    file,     \* the PID file: by, who created it, and pid, its content
    proc,     \* what runs under each PID, if anything
    seen,     \* pid as parsed from the file by a process in checkPIDFile
    overlap,  \* a history variable: one check was begun during another
    crashed   \* a history variable: a check ended between creation and write

pidVars == <<file, proc, seen, overlap, crashed>>

\* Steps of checkPIDFile, named after the system call that comes next.
Checking == {"open", "read", "stat", "remove", "write"}

\* /proc/<p> exists
Alive(p) == proc[p] \in Checking \cup {"daemon", "unrelated"}

\* There is no PID file.
NoFile == [by |-> "absent", pid |-> "absent"]

Init ==
    /\ file = NoFile
    /\ proc = [p \in Pids |-> "none"]
    /\ seen = [p \in Pids |-> "absent"]
    /\ overlap = FALSE /\ crashed = FALSE

Goto(p, state) == proc' = [proc EXCEPT ![p] = state]

\* The local variable pid goes out of scope.
Forget(p) == seen' = [seen EXCEPT ![p] = "absent"]

-------------------------------------------------------------------------------
\* A daemon is started with -pid-file.
Start(p) ==
    /\ proc[p] = "none"
    /\ Goto(p, "open")
    /\ overlap' = (overlap \/ \E q \in Pids : proc[q] \in Checking)
    /\ UNCHANGED <<file, seen, crashed>>

\* An unrelated process is started, or ends.
StartUnrelated(p) ==
    proc[p] = "none" /\ Goto(p, "unrelated") /\ UNCHANGED <<file, seen, overlap, crashed>>
EndUnrelated(p) ==
    proc[p] = "unrelated" /\ Goto(p, "none") /\ UNCHANGED <<file, seen, overlap, crashed>>

\* Fault: O_EXCL is left out.
OpenNoExcl(p) ==
    /\ proc[p] = "open"
    /\ file' = [by |-> p, pid |-> "empty"] /\ Goto(p, "write")
    /\ UNCHANGED <<seen, overlap, crashed>>

\* os.OpenFile with O_CREATE|O_EXCL
Open(p) ==
    /\ proc[p] = "open"
    /\ IF file = NoFile
       THEN file' = [by |-> p, pid |-> "empty"] /\ Goto(p, "write")
       ELSE Goto(p, "read") /\ UNCHANGED file
    /\ UNCHANGED <<seen, overlap, crashed>>

\* os.ReadFile and ParseUint.  A file that is gone or holds no number is an
\* error: main logs it and exits.
Read(p) ==
    /\ proc[p] = "read"
    /\ IF file.pid \in Pids
       THEN Goto(p, "stat") /\ seen' = [seen EXCEPT ![p] = file.pid]
       ELSE Goto(p, "none") /\ UNCHANGED seen
    /\ UNCHANGED <<file, overlap, crashed>>

\* Fault: the result of Stat is taken the wrong way round.
StatInverted(p) ==
    /\ proc[p] = "stat"
    /\ IF Alive(seen[p]) THEN Goto(p, "remove") /\ UNCHANGED seen
                         ELSE Goto(p, "none") /\ Forget(p)
    /\ UNCHANGED <<file, overlap, crashed>>

\* os.Stat of /proc/<pid>: "Already running on PID %d, exiting.", or stale.
Stat(p) ==
    /\ proc[p] = "stat"
    /\ IF Alive(seen[p]) THEN Goto(p, "none") /\ Forget(p)
                         ELSE Goto(p, "remove") /\ UNCHANGED seen
    /\ UNCHANGED <<file, overlap, crashed>>

\* Fault: an error of Remove is ignored.
RemoveIgnored(p) ==
    /\ proc[p] = "remove"
    /\ Goto(p, "open") /\ Forget(p)
    /\ UNCHANGED <<file, overlap, crashed>>

\* os.Remove, then retry; an error if the file is gone.
Remove(p) ==
    /\ proc[p] = "remove"
    /\ IF file = NoFile THEN Goto(p, "none") ELSE Goto(p, "open")
    /\ file' = NoFile /\ Forget(p)
    /\ UNCHANGED <<overlap, crashed>>

\* Fault: the PID is not written.
WriteNothing(p) ==
    proc[p] = "write" /\ Goto(p, "daemon") /\ UNCHANGED <<file, seen, overlap, crashed>>

\* f.WriteString of the own PID to the file that Open created.  If it has been
\* removed since, what is written is lost; the daemon goes on to serve.
Write(p) ==
    /\ proc[p] = "write"
    /\ file' = IF file.by = p THEN [file EXCEPT !.pid = p] ELSE file
    /\ Goto(p, "daemon")
    /\ UNCHANGED <<seen, overlap, crashed>>

\* A daemon ends or is killed, or the check does at any point, at the last one
\* also because the PID could not be written.
End(p) ==
    /\ proc[p] \in Checking \cup {"daemon"}
    /\ Goto(p, "none") /\ Forget(p)
    /\ crashed' = (crashed \/ proc[p] = "write")
    /\ UNCHANGED <<file, overlap>>

Check(p) == Open(p) \/ Read(p) \/ Stat(p) \/ Remove(p) \/ Write(p)

Next ==
    \E p \in Pids :
        Start(p) \/ StartUnrelated(p) \/ EndUnrelated(p) \/ Check(p) \/ End(p)

SafetySpec == Init /\ [][Next]_pidVars

-------------------------------------------------------------------------------
\* Every variable has its type, and the PID that is looked up or found stale was
\* read from the file before.
PidTypeOK ==
    /\ file = NoFile \/ file \in [by : Pids, pid : Pids \cup {"empty"}]
    /\ proc \in [Pids -> Checking \cup {"none", "daemon", "unrelated"}]
    /\ seen \in [Pids -> Pids \cup {"absent"}]
    /\ overlap \in BOOLEAN /\ crashed \in BOOLEAN
    /\ \A p \in Pids : proc[p] \in {"stat", "remove"} <=> seen[p] \in Pids

(***************************************************************************)
(* Two daemons never run on the same PID file ("Already running on PID %d, *)
(* exiting."), provided that no check was begun during another: two starts *)
(* that find the same stale file both remove it, the second one the file   *)
(* that the first has created since, and both go on to serve.              *)
(***************************************************************************)
AtMostOneDaemon ==
    ~overlap => \A p, q \in Pids : proc[p] = "daemon" /\ proc[q] = "daemon" => p = q

(***************************************************************************)
(* While a daemon runs the file holds its PID, so that a supervision       *)
(* system that reads the file finds the daemon; again provided that no     *)
(* check was begun during another, as one of two that overlap may remove   *)
(* the file of the other, or write to a file that is removed.              *)
(***************************************************************************)
FileNamesDaemon == ~overlap => \A p \in Pids : proc[p] = "daemon" => file.pid = p

\* What a check that runs alone knows of the file and of the other processes, and
\* when a file can be empty.
CheckInv ==
    ~overlap =>
        /\ \A p, q \in Pids : proc[p] \in Checking /\ proc[q] \in Checking => p = q
        /\ \A p \in Pids :
              /\ proc[p] = "write" => file = [by |-> p, pid |-> "empty"]
              /\ proc[p] \in {"stat", "remove"} => seen[p] = file.pid
              /\ proc[p] = "remove" => proc[seen[p]] # "daemon"
              /\ proc[p] = "read" => file # NoFile
        /\ file.pid = "empty" => crashed \/ \E p \in Pids : proc[p] = "write"

(***************************************************************************)
(* A start that is alone is turned away only while a daemon runs, or while *)
(* the PID in the file is in use by something else, the process that is    *)
(* starting included, or after a crash left an empty file: the files that  *)
(* daemons leave behind keep nobody from starting.                         *)
(***************************************************************************)
TurnedAwayForCause ==
    [][\A p \in Pids :
          (Read(p) \/ Stat(p) \/ Remove(p)) /\ ~overlap /\ proc'[p] = "none" =>
              \/ \E q \in Pids : proc[q] = "daemon"
              \/ file.pid \in Pids /\ (proc[file.pid] = "unrelated" \/ file.pid = p)
              \/ crashed]_pidVars
===============================================================================
