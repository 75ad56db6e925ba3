------------------------------- MODULE Selector -------------------------------
(***************************************************************************)
(* The selector interface of doh-client (doh-client/selector) and the      *)
(* bookkeeping of effectiveWeight that its weighted implementations share. *)
(*                                                                         *)
(* The upstreams of the configuration are added one by one by NewClient,   *)
(* the listeners are started, then StartEvaluate launches the health       *)
(* probes.  Handlers are the goroutines of concurrent DNS queries: each    *)
(* takes an upstream from Get, queries it, and reports what happened.      *)
(* Every change of effectiveWeight is an atomic.AddInt32 that may be       *)
(* followed by a clamping atomic.StoreInt32; the two are separate steps    *)
(* here, as any other goroutine may run between them.                      *)
(*                                                                         *)
(* Get is what the interface promises, some upstream of the configuration, *)
(* which is also all that RandomSelector does.  NginxWRR and LVSWRR give   *)
(* the real algorithms of Get and implement this module.                   *)
(*                                                                         *)
(* Upstreams are numbered from 1; index i of the Go slice is number i + 1. *)
(***************************************************************************)
EXTENDS Integers, Sequences, FiniteSets

CONSTANTS
    Handlers,  \* the queries that can be in progress at the same time
    Configs    \* the [upstream] sections the process may be started with

Types == {"Google", "IETF"}

\* An upstream of the [upstream] section; validURL is FALSE when
\* http.NewRequest rejects the URL.
Entry == [Type : Types, weight : Int, validURL : BOOLEAN]

\* upstream_selector, the upstreams in the order NewClient adds them, and what
\* can become of queries and probes with them: the statuses that handlers
\* report and the outcomes that probes have.
Config == [selector : {"nginx", "lvs", "random"}, entries : Seq(Entry),
           statuses : SUBSET {"Timeout", "Error", "OK"},
           outcomes : SUBSET {"unreachable", "badStatus", "badBody", "answered"}]

ASSUME HandlersAssumption == IsFiniteSet(Handlers)
ASSUME ConfigsAssumption == /\ Configs \subseteq Config
                            /\ \A c \in Configs : c.entries # << >>

VARIABLES
    config,           \* the [upstream] section this process was started with, and
                      \* what its upstreams do
    phase,            \* where the process is in its life
    upstreams,        \* ws.upstreams: Type, weight and URL of each
    effectiveWeight,  \* upstreams[u].effectiveWeight
    pc,               \* where each handler is
    chosen,           \* the upstream a handler got from Get, 0 if none
    probe             \* where the probe goroutine of each upstream is

vars == <<config, phase, upstreams, effectiveWeight, pc, chosen, probe>>

-------------------------------------------------------------------------------
(***************************************************************************)
(* What is added to effectiveWeight for a reported status and for the      *)
(* outcome of a probe.  "badBody" stands for a body that does not decode   *)
(* and for a Status other than 0; the IETF check does not read the body.   *)
(***************************************************************************)
NginxReport == [Timeout |-> -5, Error |-> -3, OK |-> 1]
LVSReport   == [Timeout |-> -5, Error |-> -2, OK |-> 1]

\* RandomSelector.ReportUpstreamStatus has an empty body.
RandomReport == [Timeout |-> 0, Error |-> 0, OK |-> 0]

NginxProbe == [Google |-> [unreachable |-> -10, badStatus |-> -3,
                           badBody |-> -2, answered |-> 5],
               IETF   |-> [unreachable |-> -10, badStatus |-> -5,
                           answered |-> 5]]

LVSProbe == [Google |-> [unreachable |-> -5, badStatus |-> -3,
                         badBody |-> -2, answered |-> 5],
             IETF   |-> [unreachable |-> -5, badStatus |-> -3,
                         answered |-> 5]]

ReportDelta == [nginx |-> NginxReport, lvs |-> LVSReport,
                random |-> RandomReport][config.selector]

\* RandomSelector.StartEvaluate has an empty body: it has no probes.
ProbeDelta == IF config.selector = "nginx" THEN NginxProbe ELSE LVSProbe

\* The largest step down and the largest step up of the tables above.
MaxPenalty == 10
MaxReward  == 5

-------------------------------------------------------------------------------
Init ==
    /\ config \in Configs
    /\ phase = "configuring"
    /\ upstreams = << >>
    /\ effectiveWeight = << >>
    /\ probe = << >>
    /\ pc = [h \in Handlers |-> "idle"]
    /\ chosen = [h \in Handlers |-> 0]

\* The entry that NewClient adds next.
NextEntry == config.entries[Len(upstreams) + 1]

\* The Upstream that Add appends.  RandomSelector.Add takes no weight: the
\* field keeps its zero value.
NewUpstream ==
    [Type |-> NextEntry.Type,
     weight |-> IF config.selector = "random" THEN 0 ELSE NextEntry.weight,
     validURL |-> NextEntry.validURL]

\* Add, called by NewClient for the next entry.
Add ==
    /\ phase = "configuring"
    /\ Len(upstreams) < Len(config.entries)
    /\ config.selector = "lvs" => NextEntry.weight >= 1
    /\ upstreams' = Append(upstreams, NewUpstream)
    /\ effectiveWeight' = Append(effectiveWeight, NewUpstream.weight)
    /\ probe' = Append(probe, "none")
    /\ UNCHANGED <<config, phase, pc, chosen>>

\* LVSWRRSelector.Add returns an error for a weight below 1, NewClient
\* returns it and main exits.
AddRefused ==
    /\ phase = "configuring"
    /\ Len(upstreams) < Len(config.entries)
    /\ config.selector = "lvs"
    /\ NextEntry.weight < 1
    /\ phase' = "failed"
    /\ UNCHANGED <<config, upstreams, effectiveWeight, pc, chosen, probe>>

\* NewClient is done and Start has launched the listeners: queries may arrive.
Listen ==
    /\ phase = "configuring"
    /\ Len(upstreams) = Len(config.entries)
    /\ phase' = "serving"
    /\ UNCHANGED <<config, upstreams, effectiveWeight, pc, chosen, probe>>

\* StartEvaluate: the first round of probes, one goroutine per upstream.
StartEvaluate ==
    /\ phase = "serving"
    /\ config.selector # "random"
    /\ \A u \in DOMAIN upstreams : probe[u] = "none"
    /\ probe' = [u \in DOMAIN upstreams |-> "running"]
    /\ UNCHANGED <<config, phase, upstreams, effectiveWeight, pc, chosen>>

-------------------------------------------------------------------------------
\* Handler h goes on with what Get returned: number u, whatever that is.
Got(h, u) ==
    /\ pc' = [pc EXCEPT ![h] = "query"]
    /\ chosen' = [chosen EXCEPT ![h] = u]
    /\ UNCHANGED <<config, phase, upstreams, effectiveWeight, probe>>

\* Get returns an upstream to handler h: one of those that were added.
Get(h, u) ==
    /\ phase = "serving"
    /\ pc[h] = "idle"
    /\ u \in DOMAIN upstreams
    /\ Got(h, u)

\* Fault: the penalty is not clamped.
OwedStoreNoMin(u, d, done) ==
    IF d > 0 /\ effectiveWeight[u] + d > upstreams[u].weight THEN "storeMax" ELSE done

\* The store that an AddInt32 of d to effectiveWeight[u] obliges the same
\* goroutine to make, or done when the sum is in range.
OwedStore(u, d, done) ==
    LET w == effectiveWeight[u] + d
    IN  IF d < 0 /\ w < 1 THEN "storeMin"
        ELSE IF d > 0 /\ w > upstreams[u].weight THEN "storeMax"
        ELSE done

\* ReportUpstreamStatus, up to and including its AddInt32.
ReportUpstreamStatus(h, status) ==
    /\ phase = "serving"
    /\ pc[h] = "query"
    /\ LET u == chosen[h]
           d == ReportDelta[status]
       IN /\ effectiveWeight' = [effectiveWeight EXCEPT ![u] = @ + d]
          /\ pc' = [pc EXCEPT ![h] = OwedStore(u, d, "idle")]
          /\ chosen' = [chosen EXCEPT ![h] =
                          IF OwedStore(u, d, "idle") = "idle" THEN 0 ELSE @]
    /\ UNCHANGED <<config, phase, upstreams, probe>>

\* handlerFunc returns without a report: the request could not be made or
\* sent, or the response was neither a 2xx nor a 5xx.
NoReport(h) ==
    /\ phase = "serving"
    /\ pc[h] = "query"
    /\ pc' = [pc EXCEPT ![h] = "idle"]
    /\ chosen' = [chosen EXCEPT ![h] = 0]
    /\ UNCHANGED <<config, phase, upstreams, effectiveWeight, probe>>

\* The value that an owed store writes.
ClampValue(u, store) == IF store = "storeMin" THEN 1 ELSE upstreams[u].weight

\* The StoreInt32 that ends ReportUpstreamStatus.
ReportStore(h) ==
    /\ phase = "serving"
    /\ pc[h] \in {"storeMin", "storeMax"}
    /\ effectiveWeight' = [effectiveWeight EXCEPT ![chosen[h]] =
                             ClampValue(chosen[h], pc[h])]
    /\ pc' = [pc EXCEPT ![h] = "idle"]
    /\ chosen' = [chosen EXCEPT ![h] = 0]
    /\ UNCHANGED <<config, phase, upstreams, probe>>

-------------------------------------------------------------------------------
\* The probe of u ends with the given outcome, up to its AddInt32.
ProbeAnswer(u, outcome) ==
    /\ phase = "serving"
    /\ u \in DOMAIN upstreams
    /\ probe[u] = "running"
    /\ upstreams[u].validURL
    /\ outcome \in DOMAIN ProbeDelta[upstreams[u].Type]
    /\ LET d == ProbeDelta[upstreams[u].Type][outcome]
       IN /\ effectiveWeight' = [effectiveWeight EXCEPT ![u] = @ + d]
          /\ probe' = [probe EXCEPT ![u] = OwedStore(u, d, "done")]
    /\ UNCHANGED <<config, phase, upstreams, pc, chosen>>

\* The StoreInt32 that ends the probe.
ProbeStore(u) ==
    /\ phase = "serving"
    /\ u \in DOMAIN upstreams
    /\ probe[u] \in {"storeMin", "storeMax"}
    /\ effectiveWeight' = [effectiveWeight EXCEPT ![u] = ClampValue(u, probe[u])]
    /\ probe' = [probe EXCEPT ![u] = "done"]
    /\ UNCHANGED <<config, phase, upstreams, pc, chosen>>

\* Fault: the upstreams are probed once only.
NextRoundNever == FALSE /\ UNCHANGED vars

\* wg.Wait returns, the loop sleeps and launches the next round.
NextRound ==
    /\ phase = "serving"
    /\ \A u \in DOMAIN upstreams : probe[u] = "done"
    /\ probe' = [u \in DOMAIN upstreams |-> "running"]
    /\ UNCHANGED <<config, phase, upstreams, effectiveWeight, pc, chosen>>

\* http.NewRequest rejects the URL: the panic in the goroutine ends the process.
ProbePanics(u) ==
    /\ phase = "serving"
    /\ u \in DOMAIN upstreams
    /\ probe[u] = "running"
    /\ ~upstreams[u].validURL
    /\ phase' = "panicked"
    /\ UNCHANGED <<config, upstreams, effectiveWeight, pc, chosen, probe>>

\* A process that has ended takes no step.
Ended == phase \in {"failed", "panicked"} /\ UNCHANGED vars

-------------------------------------------------------------------------------
\* Every upstream number that some configuration has.
Numbers == UNION {DOMAIN c.entries : c \in Configs}

\* The steps of startup but Add, to which implementations add state.
Begin == AddRefused \/ Listen \/ StartEvaluate

Startup == Add \/ Begin

Report(h) == (\E s \in config.statuses : ReportUpstreamStatus(h, s)) \/ NoReport(h)

Probe(u) == \/ \E o \in config.outcomes : ProbeAnswer(u, o)
            \/ ProbeStore(u)
            \/ ProbePanics(u)

\* All the steps but Add and Get, which the implementations refine.
Bookkeeping ==
    \/ Begin
    \/ \E h \in Handlers : Report(h) \/ ReportStore(h)
    \/ \E u \in Numbers : Probe(u)
    \/ NextRound
    \/ Ended

Next == Add \/ Bookkeeping \/ \E h \in Handlers, u \in Numbers : Get(h, u)

(***************************************************************************)
(* Goroutines that can run do run, and a probe always ends because         *)
(* http.Client has a Timeout.  Nothing makes a query arrive.               *)
(***************************************************************************)
Fairness ==
    /\ WF_vars(Startup)
    /\ \A h \in Handlers : WF_vars(ReportStore(h))
    /\ \A u \in Numbers : WF_vars(Probe(u))
    /\ WF_vars(NextRound)

SafetySpec == Init /\ [][Next]_vars

Spec == SafetySpec /\ Fairness

-------------------------------------------------------------------------------
\* The states of probe.
ProbeStates == {"none", "running", "storeMin", "storeMax", "done"}

\* Every variable has its type, the sequences that are indexed by upstream have
\* the same length, and a handler holds an upstream exactly while it uses it
\* (handlerFunc).
TypeOK ==
    /\ config \in Configs
    /\ phase \in {"configuring", "failed", "serving", "panicked"}
    /\ upstreams \in Seq(Entry) /\ Len(upstreams) <= Len(config.entries)
    /\ effectiveWeight \in Seq(Int) /\ Len(effectiveWeight) = Len(upstreams)
    /\ probe \in Seq(ProbeStates) /\ Len(probe) = Len(upstreams)
    /\ pc \in [Handlers -> {"idle", "query", "storeMin", "storeMax"}]
    /\ chosen \in [Handlers -> {0} \cup DOMAIN upstreams]
    /\ \A h \in Handlers : pc[h] = "idle" <=> chosen[h] = 0

\* The number of goroutines that still have to make the given store to u.
Owed(u, store) ==
    Cardinality({h \in Handlers : pc[h] = store /\ chosen[h] = u})
      + (IF probe[u] = store THEN 1 ELSE 0)

(***************************************************************************)
(* However reports and probes of the same upstream interleave between the  *)
(* AddInt32 and the StoreInt32, effectiveWeight leaves 1..weight by at     *)
(* most one step per goroutine that is about to clamp it: it is in range   *)
(* whenever no store is owed, it cannot drift, and it cannot overflow.     *)
(* (lvsWRRSelector.go and nginxWRRSelector.go, every AddInt32.)            *)
(***************************************************************************)
WeightClamped ==
    \A u \in DOMAIN upstreams : upstreams[u].weight >= 1 =>
        /\ effectiveWeight[u] >= 1 - MaxPenalty * Owed(u, "storeMin")
        /\ effectiveWeight[u] <= upstreams[u].weight
                                   + MaxReward * Owed(u, "storeMax")

\* A report or a probe that punishes u.
Fails(u) ==
    \/ \E h \in Handlers, s \in config.statuses \ {"OK"} :
           chosen[h] = u /\ ReportUpstreamStatus(h, s)
    \/ \E o \in config.outcomes \ {"answered"} : ProbeAnswer(u, o)

(***************************************************************************)
(* An upstream that was punished comes back: if from some time on no       *)
(* report and no probe lowers it, its effectiveWeight reaches its weight   *)
(* and stays there (above it only until an owed store), even if no query   *)
(* is ever sent to it, and in spite of clamping stores that were owed from *)
(* earlier failures.  (StartEvaluate, checkGoogleResponse,                 *)
(* checkIETFResponse.)                                                     *)
(***************************************************************************)
Recovery ==
    \A u \in Numbers :
        <>[][~Fails(u)]_vars =>
            <>[](phase = "serving" /\ u \in DOMAIN upstreams =>
                   effectiveWeight[u] >= upstreams[u].weight)
===============================================================================
