------------------------------- MODULE NginxWRR -------------------------------
(***************************************************************************)
(* NginxWRRSelector: smooth weighted round robin without a lock.           *)
(*                                                                         *)
(* Get walks over the upstreams, adds the effectiveWeight of each to its   *)
(* currentWeight, keeps the best so far, and finally takes the total back  *)
(* from the best one.  Each access to a shared field is an atomic          *)
(* operation and a step of its own here, so that the walks of concurrent   *)
(* handlers interleave with each other and with reports and probes.        *)
(*                                                                         *)
(* A handler is in Get while its pc is "idle" and its walk is not Fresh;   *)
(* all the other steps are those of module Selector, which this module     *)
(* implements with its variables as they are.                              *)
(***************************************************************************)
EXTENDS Selector, Functions

ASSUME NginxAssumption == \A c \in Configs : c.selector = "nginx"

VARIABLES
    currentWeight,  \* upstreams[u].currentWeight
    walk            \* the local variables of each handler's call of Get

getVars == <<currentWeight, walk>>

nginxVars == <<vars, getVars>>

(***************************************************************************)
(* at: the next atomic operation; i: the loop variable; ew: the local      *)
(* effectiveWeight; ci: currentWeight of i as loaded for the comparison;   *)
(* best: bestUpstreamIndex, 0 standing for -1.                             *)
(***************************************************************************)
Fresh == [at |-> "load", i |-> 1, ew |-> 0, ci |-> 0, total |-> 0, best |-> 0]

NginxInit ==
    /\ Init
    /\ currentWeight = << >>
    /\ walk = [h \in Handlers |-> Fresh]

\* Add leaves currentWeight of the new upstream at its zero value.
NginxAdd ==
    /\ Add
    /\ currentWeight' = Append(currentWeight, 0)
    /\ UNCHANGED walk

InGet(h, at) == phase = "serving" /\ pc[h] = "idle" /\ walk[h].at = at

\* The walk after upstream i has been compared: the next one, or the end.
Advance(w) == IF w.i < Len(upstreams)
              THEN [w EXCEPT !.at = "load", !.i = @ + 1]
              ELSE [w EXCEPT !.at = "subtract"]

\* effectiveWeight := atomic.LoadInt32(&ws.upstreams[i].effectiveWeight)
LoadEffective(h) ==
    /\ InGet(h, "load")
    /\ walk' = [walk EXCEPT ![h].at = "add",
                            ![h].ew = effectiveWeight[walk[h].i]]
    /\ UNCHANGED <<vars, currentWeight>>

\* Fault: the weight is stored, not added.
AddCurrentStores(h) ==
    /\ InGet(h, "add")
    /\ LET w == [walk[h] EXCEPT !.total = @ + walk[h].ew, !.ew = 0]
       IN /\ currentWeight' = [currentWeight EXCEPT ![w.i] = walk[h].ew]
          /\ walk' = [walk EXCEPT ![h] =
                        IF w.best = 0 THEN Advance([w EXCEPT !.best = w.i])
                        ELSE [w EXCEPT !.at = "loadCurrent"]]
    /\ UNCHANGED vars

\* atomic.AddInt32(&ws.upstreams[i].currentWeight, effectiveWeight), then the
\* local total, and best when there is none yet.
AddCurrent(h) ==
    /\ InGet(h, "add")
    /\ LET w == [walk[h] EXCEPT !.total = @ + walk[h].ew, !.ew = 0]
       IN /\ currentWeight' = [currentWeight EXCEPT ![w.i] = @ + walk[h].ew]
          /\ walk' = [walk EXCEPT ![h] =
                        IF w.best = 0 THEN Advance([w EXCEPT !.best = w.i])
                        ELSE [w EXCEPT !.at = "loadCurrent"]]
    /\ UNCHANGED vars

\* The left operand of the comparison.
LoadCurrent(h) ==
    /\ InGet(h, "loadCurrent")
    /\ walk' = [walk EXCEPT ![h].at = "compare",
                            ![h].ci = currentWeight[walk[h].i]]
    /\ UNCHANGED <<vars, currentWeight>>

\* Fault: best is one too far.
CompareNext(h) ==
    /\ InGet(h, "compare")
    /\ LET w == [walk[h] EXCEPT !.ci = 0]
           better == walk[h].ci > currentWeight[w.best]
       IN walk' = [walk EXCEPT ![h] =
                     Advance(IF better THEN [w EXCEPT !.best = w.i + 1] ELSE w)]
    /\ UNCHANGED <<vars, currentWeight>>

\* Fault: the lowest one is the best.
CompareLess(h) ==
    /\ InGet(h, "compare")
    /\ LET w == [walk[h] EXCEPT !.ci = 0]
           better == walk[h].ci < currentWeight[w.best]
       IN walk' = [walk EXCEPT ![h] =
                     Advance(IF better THEN [w EXCEPT !.best = w.i] ELSE w)]
    /\ UNCHANGED <<vars, currentWeight>>

\* The right operand is loaded, compared, and best follows.
Compare(h) ==
    /\ InGet(h, "compare")
    /\ LET w == [walk[h] EXCEPT !.ci = 0]
           better == walk[h].ci > currentWeight[w.best]
       IN walk' = [walk EXCEPT ![h] =
                     Advance(IF better THEN [w EXCEPT !.best = w.i] ELSE w)]
    /\ UNCHANGED <<vars, currentWeight>>

\* Fault: the total is made anew from the weights of now.
SubtractReread(h) ==
    /\ InGet(h, "subtract")
    /\ LET w == walk[h]
       IN /\ currentWeight' = [currentWeight EXCEPT ![w.best] =
                                 @ - SumFunction(effectiveWeight)]
          /\ Got(h, w.best)
    /\ walk' = [walk EXCEPT ![h] = Fresh]

\* atomic.AddInt32(&ws.upstreams[best].currentWeight, -total); return it.
Subtract(h) ==
    /\ InGet(h, "subtract")
    /\ LET w == walk[h]
       IN /\ currentWeight' = [currentWeight EXCEPT ![w.best] = @ - w.total]
          /\ Got(h, w.best)
    /\ walk' = [walk EXCEPT ![h] = Fresh]

GetStep(h) == \/ LoadEffective(h) \/ AddCurrent(h) \/ LoadCurrent(h)
              \/ Compare(h) \/ Subtract(h)

NginxNext == NginxAdd \/ (Bookkeeping /\ UNCHANGED getVars) \/ \E h \in Handlers : GetStep(h)

\* A walk that has begun is carried through.
NginxFairness ==
    /\ WF_nginxVars(NginxAdd \/ (Begin /\ UNCHANGED getVars))
    /\ \A h \in Handlers :
          /\ WF_nginxVars(ReportStore(h) /\ UNCHANGED getVars)
          /\ WF_nginxVars(walk[h] # Fresh /\ GetStep(h))
    /\ \A u \in Numbers : WF_nginxVars(Probe(u) /\ UNCHANGED getVars)
    /\ WF_nginxVars(NextRound /\ UNCHANGED getVars)

NginxSafetySpec == NginxInit /\ [][NginxNext]_nginxVars

NginxSpec == NginxSafetySpec /\ NginxFairness

-------------------------------------------------------------------------------
\* Every variable has its type, the loop variable and bestUpstreamIndex of Get
\* are in range where they are used as an index, and a walk ends with its call.
NginxTypeOK ==
    /\ currentWeight \in [DOMAIN upstreams -> Int]
    /\ walk \in [Handlers ->
                   [at : {"load", "add", "loadCurrent", "compare", "subtract"},
                    i : Nat, ew : Int, ci : Int, total : Int, best : Nat]]
    /\ \A h \in Handlers :
          /\ walk[h].i \in DOMAIN upstreams \/ walk[h] = Fresh
          /\ walk[h].best \in {0} \cup DOMAIN upstreams
          /\ walk[h].at \in {"loadCurrent", "compare", "subtract"} => walk[h].best # 0
          /\ walk[h] # Fresh => pc[h] = "idle" /\ phase \in {"serving", "panicked"}

(***************************************************************************)
(* No weight is lost or made up by concurrent walks: what the upstreams    *)
(* hold together is exactly what the unfinished calls of Get have handed   *)
(* out and not yet taken back, so it is zero whenever no Get is running.   *)
(* (Get, the AddInt32 of every upstream and the one of the best.)          *)
(***************************************************************************)
Conservation ==
    SumFunction(currentWeight)
      = SumFunction([h \in Handlers |-> walk[h].total])

\* Nothing changes the weights: no status is reported, no probe ends.
Steady ==
    /\ config.statuses = {} /\ config.outcomes = {}
    /\ \A u \in DOMAIN config.entries : config.entries[u].weight >= 0

(***************************************************************************)
(* While the weights do not change, every upstream gets its share however  *)
(* the walks of concurrent handlers interleave: its currentWeight is what  *)
(* its turns so far fall short of its share.  One handler overdraws an     *)
(* upstream by at most a round of all the weights; of k handlers, one that *)
(* compares stale values may overdraw it by a round more for each handler  *)
(* that has picked meanwhile, 1 + 2 + ... + k rounds together.  What the   *)
(* others are overdrawn by is the most that one can have in store beyond   *)
(* what the k walks have handed out.  (Get.)                               *)
(***************************************************************************)
ShareBounded ==
    LET round == SumFunction(effectiveWeight)
        k == Cardinality(Handlers)
        overdraft == ((k * (k + 1)) \div 2) * round
    IN  Steady => \A u \in DOMAIN currentWeight :
            /\ currentWeight[u] >= - overdraft
            /\ currentWeight[u] <= k * round + (Len(upstreams) - 1) * overdraft

(***************************************************************************)
(* No upstream starves: while the weights do not change and as long as     *)
(* calls of Get keep returning, each upstream keeps being returned,        *)
(* however the walks of concurrent handlers interleave and however stale   *)
(* the currentWeight they compare.  (Get.)                                 *)
(***************************************************************************)
NoStarvation ==
    \A u \in Numbers :
        []<><<\E h \in Handlers : Subtract(h)>>_nginxVars =>
            \/ <>[](~Steady \/ phase # "serving" \/ u \notin DOMAIN upstreams)
            \/ []<><<\E h \in Handlers : walk[h].best = u /\ Subtract(h)>>_nginxVars
===============================================================================
