-------------------------------- MODULE LVSWRR --------------------------------
(***************************************************************************)
(* LVSWRRSelector: the weighted round robin of Linux Virtual Server,       *)
(* without a lock.                                                         *)
(*                                                                         *)
(* Get moves lastChoose round the upstreams; each time it comes back to    *)
(* the first one, currentWeight goes down by the gcd of the effective      *)
(* weights, or back up by their maximum once it is not positive; the       *)
(* upstream at lastChoose is returned if its effectiveWeight reaches       *)
(* currentWeight.  Every access to a shared field is an atomic operation   *)
(* and a step of its own.                                                  *)
(*                                                                         *)
(* A handler is in Get while its pc is "idle" and its walk is not Fresh;   *)
(* the other steps are those of module Selector.                           *)
(***************************************************************************)
EXTENDS Selector

ASSUME LVSAssumption == \A c \in Configs : c.selector = "lvs"

VARIABLES
    lastChoose,     \* ls.lastChoose, an index of the Go slice
    currentWeight,  \* ls.currentWeight
    walk            \* the local variables of each handler's call of Get

getVars == <<lastChoose, currentWeight, walk>>
lvsVars == <<vars, getVars>>

(***************************************************************************)
(* at: the next atomic operation, or an iteration of the loop of gcd;      *)
(* i: the loop variable of gcdWeight and maxWeight; x, y: the operands of  *)
(* gcd; res: the result so far of gcdWeight or maxWeight, and any other    *)
(* value loaded for a later use.                                           *)
(***************************************************************************)
Fresh == [at |-> "call", i |-> 0, x |-> 0, y |-> 0, res |-> 0]

LVSInit ==
    /\ Init
    /\ lastChoose = -1
    /\ currentWeight = 0
    /\ walk = [h \in Handlers |-> Fresh]

InGet(h, at) == phase = "serving" /\ pc[h] = "idle" /\ walk[h].at = at

\* effectiveWeight of index i of the Go slice.
EffectiveWeight(i) == effectiveWeight[i + 1]

\* The walk goes on with w.
Walk(h, w) == walk' = [walk EXCEPT ![h] = w]

\* The only upstream is returned at once.
GetOnly(h) ==
    /\ InGet(h, "call")
    /\ Len(upstreams) = 1
    /\ Got(h, 1)
    /\ UNCHANGED getVars

\* atomic.LoadInt32(&ls.lastChoose) at the head of the loop.
LoadLast(h) ==
    /\ InGet(h, "call") \/ InGet(h, "again")
    /\ Len(upstreams) > 1
    /\ Walk(h, [Fresh EXCEPT !.at = "storeLast", !.res = lastChoose])
    /\ UNCHANGED <<vars, lastChoose, currentWeight>>

\* Fault: the index is not wrapped round.
StoreLastNoWrap(h) ==
    /\ InGet(h, "storeLast")
    /\ lastChoose' = walk[h].res + 1
    /\ Walk(h, [Fresh EXCEPT !.at = "testLast"])
    /\ UNCHANGED <<vars, currentWeight>>

\* The step to the next upstream, from the value that was loaded.
StoreLast(h) ==
    /\ InGet(h, "storeLast")
    /\ lastChoose' = (walk[h].res + 1) % Len(upstreams)
    /\ Walk(h, [Fresh EXCEPT !.at = "testLast"])
    /\ UNCHANGED <<vars, currentWeight>>

\* lastChoose == 0
TestLast(h) ==
    /\ InGet(h, "testLast")
    /\ Walk(h, [Fresh EXCEPT !.at = IF lastChoose = 0 THEN "gcdFirst" ELSE "index"])
    /\ UNCHANGED <<vars, lastChoose, currentWeight>>

-------------------------------------------------------------------------------
\* gcdWeight loads the first upstream's weight twice, x before y.
GcdFirst(h) ==
    /\ InGet(h, "gcdFirst")
    /\ Walk(h, [walk[h] EXCEPT !.at = "gcdOperand", !.x = EffectiveWeight(0)])
    /\ UNCHANGED <<vars, lastChoose, currentWeight>>

\* The second operand of gcd: the weight of index i.
GcdOperand(h) ==
    /\ InGet(h, "gcdOperand")
    /\ Walk(h, [walk[h] EXCEPT !.at = "gcd", !.y = EffectiveWeight(walk[h].i)])
    /\ UNCHANGED <<vars, lastChoose, currentWeight>>

\* Go's %, whose result has the sign of the dividend.
Rem(x, y) == LET AbsVal(z) == IF z < 0 THEN -z ELSE z
                 r == AbsVal(x) % AbsVal(y)
             IN  IF x < 0 THEN -r ELSE r

\* Fault: the loop goes on with the operands it had.
GcdLoopStuck(w, x, y) ==
    IF Rem(x, y) # 0 THEN w
    ELSE IF w.i + 1 < Len(upstreams)
         THEN [w EXCEPT !.at = "gcdOperand", !.i = @ + 1, !.x = y, !.y = 0]
         ELSE [Fresh EXCEPT !.at = "decrease", !.res = y]

\* Fault: the larger operand is returned.
GcdLoopLarger(w, x, y) ==
    IF Rem(x, y) # 0 THEN [w EXCEPT !.x = Rem(x, y), !.y = y]
    ELSE IF w.i + 1 < Len(upstreams)
         THEN [w EXCEPT !.at = "gcdOperand", !.i = @ + 1, !.x = x, !.y = 0]
         ELSE [Fresh EXCEPT !.at = "decrease", !.res = x]

\* One iteration of the loop of gcd after the swap, x >= y and y # 0.
GcdLoop(w, x, y) ==
    IF Rem(x, y) # 0 THEN [w EXCEPT !.x = Rem(x, y), !.y = y]
    ELSE IF w.i + 1 < Len(upstreams)
         THEN [w EXCEPT !.at = "gcdOperand", !.i = @ + 1, !.x = y, !.y = 0]
         ELSE [Fresh EXCEPT !.at = "decrease", !.res = y]

Larger(w)  == IF w.x < w.y THEN w.y ELSE w.x
Smaller(w) == IF w.x < w.y THEN w.x ELSE w.y

GcdIterate(h) ==
    /\ InGet(h, "gcd")
    /\ Smaller(walk[h]) # 0
    /\ Walk(h, GcdLoop(walk[h], Larger(walk[h]), Smaller(walk[h])))
    /\ UNCHANGED <<vars, lastChoose, currentWeight>>

\* An integer division by zero ends the process.
GcdPanics(h) ==
    /\ InGet(h, "gcd")
    /\ Smaller(walk[h]) = 0
    /\ phase' = "panicked"
    /\ UNCHANGED <<config, upstreams, effectiveWeight, pc, chosen, probe, getVars>>

-------------------------------------------------------------------------------
\* Fault: the gcd is taken from the upstream's weight.
DecreaseWrongField(h) ==
    /\ InGet(h, "decrease")
    /\ effectiveWeight' = [effectiveWeight EXCEPT ![lastChoose + 1] = @ - walk[h].res]
    /\ Walk(h, [Fresh EXCEPT !.at = "testCurrent"])
    /\ UNCHANGED <<config, phase, upstreams, pc, chosen, probe, lastChoose, currentWeight>>

\* atomic.AddInt32(&ls.currentWeight, -ls.gcdWeight())
Decrease(h) ==
    /\ InGet(h, "decrease")
    /\ currentWeight' = currentWeight - walk[h].res
    /\ Walk(h, [Fresh EXCEPT !.at = "testCurrent"])
    /\ UNCHANGED <<vars, lastChoose>>

\* currentWeight <= 0
TestCurrent(h) ==
    /\ InGet(h, "testCurrent")
    /\ Walk(h, [Fresh EXCEPT !.at = IF currentWeight <= 0 THEN "max" ELSE "index"])
    /\ UNCHANGED <<vars, lastChoose, currentWeight>>

\* Fault: maxWeight leaves out the last upstream.
MaxIterateShort(h) ==
    /\ InGet(h, "max")
    /\ LET w == walk[h]
           e == EffectiveWeight(w.i)
       IN Walk(h, [w EXCEPT !.res = IF e > @ THEN e ELSE @,
                            !.i = @ + 1,
                            !.at = IF w.i + 2 < Len(upstreams) THEN @ ELSE "increase"])
    /\ UNCHANGED <<vars, lastChoose, currentWeight>>

\* One iteration of maxWeight.
MaxIterate(h) ==
    /\ InGet(h, "max")
    /\ LET w == walk[h]
           e == EffectiveWeight(w.i)
       IN Walk(h, [w EXCEPT !.res = IF e > @ THEN e ELSE @,
                            !.i = @ + 1,
                            !.at = IF w.i + 1 < Len(upstreams) THEN @ ELSE "increase"])
    /\ UNCHANGED <<vars, lastChoose, currentWeight>>

\* atomic.AddInt32(&ls.currentWeight, ls.maxWeight())
Increase(h) ==
    /\ InGet(h, "increase")
    /\ currentWeight' = currentWeight + walk[h].res
    /\ Walk(h, [Fresh EXCEPT !.at = "testZero"])
    /\ UNCHANGED <<vars, lastChoose>>

TestZero(h) ==
    /\ InGet(h, "testZero")
    /\ currentWeight # 0
    /\ Walk(h, [Fresh EXCEPT !.at = "index"])
    /\ UNCHANGED <<vars, lastChoose, currentWeight>>

\* panic("current weight is 0")
ZeroPanics(h) ==
    /\ InGet(h, "testZero")
    /\ currentWeight = 0
    /\ phase' = "panicked"
    /\ UNCHANGED <<config, upstreams, effectiveWeight, pc, chosen, probe, getVars>>

-------------------------------------------------------------------------------
\* The comparison that decides: lastChoose, the weight it selects and
\* currentWeight are loaded one after the other.
LoadIndex(h) ==
    /\ InGet(h, "index")
    /\ Walk(h, [Fresh EXCEPT !.at = "loadEffective", !.i = lastChoose])
    /\ UNCHANGED <<vars, lastChoose, currentWeight>>

LoadEffective(h) ==
    /\ InGet(h, "loadEffective")
    /\ Walk(h, [Fresh EXCEPT !.at = "compare", !.res = EffectiveWeight(walk[h].i)])
    /\ UNCHANGED <<vars, lastChoose, currentWeight>>

Compare(h) ==
    /\ InGet(h, "compare")
    /\ Walk(h, [Fresh EXCEPT !.at = IF walk[h].res >= currentWeight
                                    THEN "return" ELSE "again"])
    /\ UNCHANGED <<vars, lastChoose, currentWeight>>

\* Fault: the upstream after lastChoose is returned.
ReturnNext(h) ==
    /\ InGet(h, "return")
    /\ Got(h, lastChoose + 2)
    /\ Walk(h, Fresh)
    /\ UNCHANGED <<lastChoose, currentWeight>>

\* lastChoose is loaded once more for the result.
Return(h) ==
    /\ InGet(h, "return")
    /\ Got(h, lastChoose + 1)
    /\ Walk(h, Fresh)
    /\ UNCHANGED <<lastChoose, currentWeight>>

GetStep(h) ==
    \/ GetOnly(h) \/ LoadLast(h) \/ StoreLast(h) \/ TestLast(h)
    \/ GcdFirst(h) \/ GcdOperand(h) \/ GcdIterate(h) \/ GcdPanics(h)
    \/ Decrease(h) \/ TestCurrent(h) \/ MaxIterate(h) \/ Increase(h)
    \/ TestZero(h) \/ ZeroPanics(h)
    \/ LoadIndex(h) \/ LoadEffective(h) \/ Compare(h) \/ Return(h)

LVSNext == \/ (Add \/ Bookkeeping) /\ UNCHANGED getVars
           \/ \E h \in Handlers : GetStep(h)

\* A call of Get that has begun is carried on with.
LVSFairness ==
    /\ WF_lvsVars((Add \/ Begin) /\ UNCHANGED getVars)
    /\ \A h \in Handlers :
          /\ WF_lvsVars(ReportStore(h) /\ UNCHANGED getVars)
          /\ WF_lvsVars(walk[h] # Fresh /\ GetStep(h))
    /\ \A u \in Numbers : WF_lvsVars(Probe(u) /\ UNCHANGED getVars)
    /\ WF_lvsVars(NextRound /\ UNCHANGED getVars)

LVSSafetySpec == LVSInit /\ [][LVSNext]_lvsVars

LVSSpec == LVSSafetySpec /\ LVSFairness

-------------------------------------------------------------------------------
\* The values of at.
Ats == {"call", "again", "storeLast", "testLast", "gcdFirst", "gcdOperand", "gcd",
        "decrease", "testCurrent", "max", "increase", "testZero",
        "index", "loadEffective", "compare", "return"}

\* Every variable has its type, and lastChoose and the loop variables of Get,
\* gcdWeight and maxWeight are in range where they are used as an index.
LVSTypeOK ==
    /\ lastChoose \in -1 .. Len(upstreams) - 1
    /\ currentWeight \in Int
    /\ walk \in [Handlers -> [at : Ats, i : Nat, x : Int, y : Int, res : Int]]
    /\ \A h \in Handlers :
          /\ walk[h] # Fresh => pc[h] = "idle" /\ phase \in {"serving", "panicked"}
          /\ walk[h].at \in {"gcdOperand", "gcd", "max", "loadEffective"} =>
                walk[h].i < Len(upstreams)
          /\ walk[h].at \in {"index", "loadEffective", "compare", "return"} =>
                lastChoose >= 0

\* The process ends in a panic of Get.
Crash == /\ phase = "serving"
         /\ phase' = "panicked"
         /\ UNCHANGED <<config, upstreams, effectiveWeight, pc, chosen, probe>>

(***************************************************************************)
(* Until a panic ends the process, concurrent calls of Get, reports and    *)
(* probes do what the Selector interface lets them do: Get returns one of  *)
(* the upstreams that were added, although lastChoose is loaded again for  *)
(* the result after other handlers may have moved it, and no step of Get   *)
(* touches an effectiveWeight.  (LVSWRRSelector.Get.)                      *)
(***************************************************************************)
SelectsUntilPanic == Init /\ [][Next \/ Crash]_vars

(***************************************************************************)
(* Get returns an upstream: it neither divides by zero in gcd nor runs     *)
(* into panic("current weight is 0").                                      *)
(***************************************************************************)
GetDoesNotPanic == phase # "panicked"

(***************************************************************************)
(* Get returns an upstream: a call that has begun comes to its return      *)
(* statement (or the process ends).  The loop of Get leaves no upstream    *)
(* behind for ever, and the loops of gcd end.                              *)
(***************************************************************************)
GetReturns ==
    \A h \in Handlers :
        walk[h] # Fresh ~> walk[h] = Fresh \/ phase = "panicked"

\* d divides every effective weight.
DividesAll(d) == \A u \in DOMAIN upstreams : effectiveWeight[u] % d = 0

(***************************************************************************)
(* What Get takes from currentWeight, the result of the pairwise gcd loop, *)
(* is the greatest common divisor of all the effective weights, while they *)
(* do not change during the call.  (gcdWeight, gcd.)                       *)
(***************************************************************************)
GcdIsGreatest ==
    \A h \in Handlers : walk[h].at = "decrease" =>
        LET g == walk[h].res
        IN  /\ g >= 1
            /\ DividesAll(g)
            /\ \A d \in g + 1 .. effectiveWeight[1] : ~DividesAll(d)
===============================================================================
