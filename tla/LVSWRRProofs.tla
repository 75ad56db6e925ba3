----------------------------- MODULE LVSWRRProofs -----------------------------
(***************************************************************************)
(* LVSWRR does what the Selector interface allows until a panic of Get     *)
(* ends the process, and its indexes stay in range.  One query at a time,  *)
(* gcdWeight returns the greatest common divisor, and Get does not panic   *)
(* unless all the weights are equal.                                       *)
(***************************************************************************)
EXTENDS LVSWRR, SelectorProofs

-------------------------------------------------------------------------------
WalkType == [at : Ats, i : Nat, x : Int, y : Int, res : Int]

\* What the local variables of a call of Get are at each point of it.
WalkInv(w) ==
    /\ w \in WalkType
    /\ w.at = "call" => w = Fresh
    /\ w # Fresh => Len(upstreams) > 1
    /\ w.at = "gcdFirst" => w.i = 0
    /\ w.at \in {"gcdOperand", "gcd", "max", "loadEffective"} => w.i < Len(upstreams)
    /\ w.at \notin {"call", "storeLast"} => lastChoose >= 0

LVSIndInv ==
    /\ lastChoose \in -1 .. Len(upstreams) - 1
    /\ currentWeight \in Int
    /\ walk \in [Handlers -> WalkType]
    /\ \A h \in Handlers :
          /\ WalkInv(walk[h])
          /\ walk[h] # Fresh => pc[h] = "idle" /\ phase \in {"serving", "panicked"}

LEMMA FreshType == Fresh \in WalkType /\ Fresh.i = 0
  BY DEF Fresh, WalkType, Ats

\* The next iterations of the loops of gcdWeight and of maxWeight.
LEMMA IterationType ==
  ASSUME NEW w \in WalkType, NEW at \in Ats, NEW i \in Nat, NEW x \in Int, NEW y \in Int
  PROVE  /\ [w EXCEPT !.at = at, !.i = i, !.x = x, !.y = y] \in WalkType
         /\ [w EXCEPT !.res = x, !.i = i, !.at = at] \in WalkType
  BY DEF WalkType

LEMMA LVSInitIndInv == LVSInit => LVSIndInv
  <1> SUFFICES ASSUME LVSInit PROVE LVSIndInv
    OBVIOUS
  <1>1. Fresh \in WalkType
    BY DEF Fresh, WalkType, Ats
  <1>2. WalkInv(Fresh)
    BY <1>1 DEF WalkInv, Fresh
  <1> QED
    BY <1>1, <1>2 DEF LVSInit, Init, LVSIndInv

\* A step of Get that only walks on: what is to be shown of it.
LEMMA WalkOn ==
  ASSUME LVSIndInv, NEW h \in Handlers, NEW at, InGet(h, at), UNCHANGED vars,
         NEW w, Walk(h, w), WalkInv(w)',
         lastChoose' \in -1 .. Len(upstreams) - 1, lastChoose >= 0 => lastChoose' >= 0,
         currentWeight' \in Int
  PROVE  LVSIndInv'
  <1>1. w \in WalkType
    BY DEF WalkInv
  <1>2. walk' = [walk EXCEPT ![h] = w] /\ walk' \in [Handlers -> WalkType]
    BY <1>1 DEF Walk, LVSIndInv
  <1>3. UNCHANGED <<upstreams, pc, phase>>
    BY DEF vars
  <1>4. ASSUME NEW g \in Handlers
        PROVE  /\ WalkInv(walk[g])'
               /\ walk'[g] # Fresh => pc'[g] = "idle" /\ phase' \in {"serving", "panicked"}
    <2>1. CASE g = h
      <3>1. walk'[g] = w
        BY <1>2, <2>1 DEF LVSIndInv
      <3> QED
        BY <3>1, <1>3, <2>1 DEF InGet, WalkInv
    <2>2. CASE g # h
      <3>1. walk'[g] = walk[g]
        BY <1>2, <2>2 DEF LVSIndInv
      <3>2. WalkInv(walk[g]) /\ (walk[g] # Fresh => pc[g] = "idle" /\ phase \in {"serving", "panicked"})
        BY DEF LVSIndInv
      <3>3. lastChoose \in Int /\ lastChoose' \in Int
        BY <1>3 DEF LVSIndInv
      <3> QED
        BY <3>1, <3>2, <3>3, <1>3 DEF WalkInv
    <2> QED
      BY <2>1, <2>2
  <1> QED
    BY <1>2, <1>3, <1>4 DEF LVSIndInv

\* Go's % of two integers is an integer.
LEMMA RemType ==
  ASSUME NEW x \in Int, NEW y \in Int, y # 0
  PROVE  Rem(x, y) \in Int
  <1> DEFINE a == IF x < 0 THEN -x ELSE x
             b == IF y < 0 THEN -y ELSE y
  <1>1. a \in Nat /\ b \in Nat \ {0}
    OBVIOUS
  <1>2. Rem(x, y) = IF x < 0 THEN -(a % b) ELSE a % b
    BY DEF Rem
  <1> HIDE DEF a, b
  <1>3. a % b \in Int
    BY <1>1
  <1> QED
    BY <1>2, <1>3

\* What a step of Get loads from an upstream's weight.
LEMMA EffectiveWeightType ==
  ASSUME TypeOK, NEW i \in Nat, i < Len(upstreams)
  PROVE  EffectiveWeight(i) \in Int
  <1>1. effectiveWeight \in Seq(Int) /\ Len(effectiveWeight) = Len(upstreams)
        /\ Len(upstreams) \in Nat
    BY DEF TypeOK
  <1>2. i + 1 \in 1..Len(effectiveWeight)
    BY <1>1
  <1> QED
    BY <1>1, <1>2 DEF EffectiveWeight

\* A step of Get from w is one from a state that LVSIndInv describes.
LEMMA AtStep ==
  ASSUME TypeOK, LVSIndInv, NEW h \in Handlers, NEW at, InGet(h, at)
  PROVE  /\ walk[h] \in WalkType /\ walk[h].at = at /\ WalkInv(walk[h])
         /\ lastChoose \in -1 .. Len(upstreams) - 1 /\ currentWeight \in Int
         /\ Len(upstreams) \in Nat
  BY DEF LVSIndInv, InGet, TypeOK

\* A step that leaves lastChoose alone.
LEMMA WalkOnHere ==
  ASSUME LVSIndInv, NEW h \in Handlers, NEW at, InGet(h, at),
         NEW w, Walk(h, w), WalkInv(w), UNCHANGED <<vars, lastChoose>>, currentWeight' \in Int
  PROVE  LVSIndInv'
  <1>1. WalkInv(w)'
    BY DEF WalkInv, vars
  <1>2. lastChoose' \in -1 .. Len(upstreams) - 1 /\ (lastChoose >= 0 => lastChoose' >= 0)
    BY DEF LVSIndInv
  <1> QED
    BY <1>1, <1>2, WalkOn

\* Where Get is, there are upstreams, and lastChoose is one of them once it has
\* been stored.
LEMMA InsideGet ==
  ASSUME TypeOK, LVSIndInv, NEW h \in Handlers, NEW from, InGet(h, from), from # "call"
  PROVE  Len(upstreams) > 1 /\ (from # "storeLast" => lastChoose >= 0)
  <1>1. WalkInv(walk[h]) /\ walk[h].at = from
    BY AtStep
  <1>2. walk[h] # Fresh
    BY <1>1 DEF Fresh
  <1> QED
    BY <1>1, <1>2 DEF WalkInv

\* Get goes on, with an index that is in range where it is used.
LEMMA GoOn ==
  ASSUME TypeOK, LVSIndInv, NEW h \in Handlers,
         NEW from, InGet(h, from), from \notin {"call", "storeLast"},
         NEW w \in WalkType, Walk(h, w), w.at # "call", w.at = "gcdFirst" => w.i = 0,
         w.at \in {"gcdOperand", "gcd", "max", "loadEffective"} => w.i < Len(upstreams),
         UNCHANGED <<vars, lastChoose>>, currentWeight' \in Int
  PROVE  LVSIndInv'
  <1>1. Len(upstreams) > 1 /\ lastChoose >= 0
    BY InsideGet
  <1>2. WalkInv(w)
    BY <1>1 DEF WalkInv
  <1> QED
    BY <1>2, WalkOnHere

\* The steps that test or load something and keep at most one value.
LEMMA SimpleSteps ==
  ASSUME TypeOK, LVSIndInv, NEW h \in Handlers,
         \/ TestLast(h) \/ Decrease(h) \/ TestCurrent(h) \/ Increase(h) \/ TestZero(h)
         \/ LoadIndex(h) \/ LoadEffective(h) \/ Compare(h)
  PROVE  LVSIndInv'
  <1>1. /\ Len(upstreams) \in Nat /\ currentWeight \in Int
        /\ walk[h].res \in Int /\ walk[h].i \in Nat
        /\ lastChoose \in -1 .. Len(upstreams) - 1
    BY DEF TypeOK, LVSIndInv, WalkType
  <1>2. \A from : InGet(h, from) /\ from # "call" => Len(upstreams) > 1
    BY InsideGet
  <1>3. CASE TestLast(h)
    <2> DEFINE w == [Fresh EXCEPT !.at = IF lastChoose = 0 THEN "gcdFirst" ELSE "index"]
    <2>1. /\ InGet(h, "testLast") /\ Walk(h, w) /\ UNCHANGED <<vars, lastChoose>>
          /\ currentWeight' \in Int
      BY <1>3, <1>1 DEF TestLast
    <2>2. w \in WalkType /\ w.at \in {"gcdFirst", "index"} /\ w.i = 0
      BY <1>1 DEF Fresh, WalkType, Ats
    <2> HIDE DEF w
    <2> QED
      BY <1>1, <1>2, <2>1, <2>2, GoOn
  <1>4. CASE Decrease(h)
    <2> DEFINE w == [Fresh EXCEPT !.at = "testCurrent"]
    <2>1. /\ InGet(h, "decrease") /\ Walk(h, w) /\ UNCHANGED <<vars, lastChoose>>
          /\ currentWeight' \in Int
      BY <1>4, <1>1 DEF Decrease
    <2>2. w \in WalkType /\ w.at \in {"testCurrent"} /\ w.i = 0
      BY <1>1 DEF Fresh, WalkType, Ats
    <2> HIDE DEF w
    <2> QED
      BY <1>1, <1>2, <2>1, <2>2, GoOn
  <1>5. CASE TestCurrent(h)
    <2> DEFINE w == [Fresh EXCEPT !.at = IF currentWeight <= 0 THEN "max" ELSE "index"]
    <2>1. /\ InGet(h, "testCurrent") /\ Walk(h, w) /\ UNCHANGED <<vars, lastChoose>>
          /\ currentWeight' \in Int
      BY <1>5, <1>1 DEF TestCurrent
    <2>2. w \in WalkType /\ w.at \in {"max", "index"} /\ w.i = 0
      BY <1>1 DEF Fresh, WalkType, Ats
    <2> HIDE DEF w
    <2> QED
      BY <1>1, <1>2, <2>1, <2>2, GoOn
  <1>6. CASE Increase(h)
    <2> DEFINE w == [Fresh EXCEPT !.at = "testZero"]
    <2>1. /\ InGet(h, "increase") /\ Walk(h, w) /\ UNCHANGED <<vars, lastChoose>>
          /\ currentWeight' \in Int
      BY <1>6, <1>1 DEF Increase
    <2>2. w \in WalkType /\ w.at \in {"testZero"} /\ w.i = 0
      BY <1>1 DEF Fresh, WalkType, Ats
    <2> HIDE DEF w
    <2> QED
      BY <1>1, <1>2, <2>1, <2>2, GoOn
  <1>7. CASE TestZero(h)
    <2> DEFINE w == [Fresh EXCEPT !.at = "index"]
    <2>1. /\ InGet(h, "testZero") /\ Walk(h, w) /\ UNCHANGED <<vars, lastChoose>>
          /\ currentWeight' \in Int
      BY <1>7, <1>1 DEF TestZero
    <2>2. w \in WalkType /\ w.at \in {"index"} /\ w.i = 0
      BY <1>1 DEF Fresh, WalkType, Ats
    <2> HIDE DEF w
    <2> QED
      BY <1>1, <1>2, <2>1, <2>2, GoOn
  <1>8. CASE LoadIndex(h)
    <2> DEFINE w == [Fresh EXCEPT !.at = "loadEffective", !.i = lastChoose]
    <2>1. /\ InGet(h, "index") /\ Walk(h, w) /\ UNCHANGED <<vars, lastChoose>>
          /\ currentWeight' \in Int
      BY <1>8, <1>1 DEF LoadIndex
    <2>2. w \in WalkType /\ w.at \in {"loadEffective"} /\ w.i < Len(upstreams)
      <3>1. lastChoose \in Nat /\ lastChoose < Len(upstreams)
        BY <1>1, <2>1, InsideGet
      <3> QED
        BY <3>1, FreshType DEF WalkType, Ats
    <2> HIDE DEF w
    <2> QED
      BY <1>1, <1>2, <2>1, <2>2, GoOn
  <1>9. CASE LoadEffective(h)
    <2> DEFINE w == [Fresh EXCEPT !.at = "compare", !.res = EffectiveWeight(walk[h].i)]
    <2>1. /\ InGet(h, "loadEffective") /\ Walk(h, w) /\ UNCHANGED <<vars, lastChoose>>
          /\ currentWeight' \in Int
      BY <1>9, <1>1 DEF LoadEffective
    <2>2. w \in WalkType /\ w.at \in {"compare"} /\ w.i = 0
      <3>1. EffectiveWeight(walk[h].i) \in Int
        BY <1>1, <2>1, AtStep, EffectiveWeightType DEF WalkInv
      <3> QED
        BY <3>1, FreshType DEF WalkType, Ats
    <2> HIDE DEF w
    <2> QED
      BY <1>1, <1>2, <2>1, <2>2, GoOn
  <1>10. CASE Compare(h)
    <2> DEFINE w == [Fresh EXCEPT !.at = IF walk[h].res >= currentWeight THEN "return" ELSE "again"]
    <2>1. /\ InGet(h, "compare") /\ Walk(h, w) /\ UNCHANGED <<vars, lastChoose>>
          /\ currentWeight' \in Int
      BY <1>10, <1>1 DEF Compare
    <2>2. w \in WalkType /\ w.at \in {"return", "again"} /\ w.i = 0
      BY <1>1 DEF Fresh, WalkType, Ats
    <2> HIDE DEF w
    <2> QED
      BY <1>1, <1>2, <2>1, <2>2, GoOn
  <1> QED
    BY <1>3, <1>4, <1>5, <1>6, <1>7, <1>8, <1>9, <1>10

\* The loops of gcdWeight, gcd and maxWeight keep their index in range.
LEMMA LoopSteps ==
  ASSUME TypeOK, LVSIndInv, NEW h \in Handlers,
         GcdFirst(h) \/ GcdOperand(h) \/ GcdIterate(h) \/ MaxIterate(h)
  PROVE  LVSIndInv'
  <1> DEFINE v == walk[h]
  <1>1. v \in WalkType /\ v.at \in Ats /\ v.i \in Nat /\ v.x \in Int /\ v.y \in Int /\ v.res \in Int
    BY DEF LVSIndInv, WalkType
  <1>2. Len(upstreams) \in Nat /\ currentWeight \in Int
    BY DEF TypeOK, LVSIndInv
  <1>3. ASSUME NEW from \in {"gcdFirst", "gcdOperand", "gcd", "max"}, InGet(h, from)
        PROVE  v.at = from /\ v.i < Len(upstreams) /\ Len(upstreams) > 1
               /\ (from = "gcdFirst" => v.i = 0)
    BY <1>2, <1>3, AtStep, InsideGet DEF WalkInv
  <1>4. CASE GcdFirst(h)
    <2> DEFINE w == [v EXCEPT !.at = "gcdOperand", !.x = EffectiveWeight(0)]
    <2>1. InGet(h, "gcdFirst") /\ Walk(h, w) /\ UNCHANGED <<vars, lastChoose, currentWeight>>
      BY <1>4 DEF GcdFirst
    <2>2. EffectiveWeight(0) \in Int
      BY <1>2, <1>3, <2>1, EffectiveWeightType
    <2>3. w \in WalkType /\ w.at = "gcdOperand" /\ w.i = v.i
      BY <1>1, <2>2 DEF WalkType, Ats
    <2> HIDE DEF w
    <2> QED
      BY <1>2, <1>3, <2>1, <2>3, GoOn
  <1>5. CASE GcdOperand(h)
    <2> DEFINE w == [v EXCEPT !.at = "gcd", !.y = EffectiveWeight(v.i)]
    <2>1. InGet(h, "gcdOperand") /\ Walk(h, w) /\ UNCHANGED <<vars, lastChoose, currentWeight>>
      BY <1>5 DEF GcdOperand
    <2>2. EffectiveWeight(v.i) \in Int
      BY <1>1, <1>2, <1>3, <2>1, EffectiveWeightType
    <2>3. w \in WalkType /\ w.at = "gcd" /\ w.i = v.i
      BY <1>1, <2>2 DEF WalkType, Ats
    <2> HIDE DEF w
    <2> QED
      BY <1>2, <1>3, <2>1, <2>3, GoOn
  <1>6. CASE GcdIterate(h)
    <2> DEFINE x == Larger(v)
               y == Smaller(v)
               w == GcdLoop(v, x, y)
    <2>1. /\ InGet(h, "gcd") /\ Walk(h, w) /\ UNCHANGED <<vars, lastChoose, currentWeight>>
          /\ y # 0
      BY <1>6 DEF GcdIterate
    <2>2. x \in Int /\ y \in Int
      BY <1>1 DEF Larger, Smaller
    <2> HIDE DEF x, y
    <2>3. Rem(x, y) \in Int
      BY <2>1, <2>2, RemType
    <2>4. w \in WalkType
      <3>1. CASE Rem(x, y) # 0
        <4>1. w = [v EXCEPT !.x = Rem(x, y), !.y = y]
          BY <3>1 DEF GcdLoop
        <4> QED
          BY <1>1, <2>2, <2>3, <4>1 DEF WalkType
      <3>2. CASE Rem(x, y) = 0 /\ v.i + 1 < Len(upstreams)
        <4>1. w = [v EXCEPT !.at = "gcdOperand", !.i = v.i + 1, !.x = y, !.y = 0]
          BY <3>2 DEF GcdLoop
        <4>2. "gcdOperand" \in Ats /\ v.i + 1 \in Nat /\ 0 \in Int
          BY <1>1 DEF Ats
        <4> HIDE DEF v, w
        <4> QED
          BY <1>1, <2>2, <4>1, <4>2, IterationType
      <3>3. CASE Rem(x, y) = 0 /\ ~(v.i + 1 < Len(upstreams))
        <4>1. w = [Fresh EXCEPT !.at = "decrease", !.res = y]
          BY <3>3 DEF GcdLoop
        <4> QED
          BY <2>2, <4>1, FreshType DEF WalkType, Ats
      <3> QED
        BY <3>1, <3>2, <3>3
    <2>5. \/ w.at = v.at /\ w.i = v.i
          \/ w.at = "gcdOperand" /\ w.i < Len(upstreams)
          \/ w.at = "decrease"
      BY <1>1, <1>2, <2>2, <2>3 DEF WalkType, GcdLoop, Fresh
    <2> HIDE DEF w
    <2> QED
      BY <1>2, <1>3, <2>1, <2>4, <2>5, GoOn
  <1>7. CASE MaxIterate(h)
    <2> DEFINE e == EffectiveWeight(v.i)
               w == [v EXCEPT !.res = IF e > @ THEN e ELSE @,
                              !.i = @ + 1,
                              !.at = IF v.i + 1 < Len(upstreams) THEN @ ELSE "increase"]
    <2>1. InGet(h, "max") /\ Walk(h, w) /\ UNCHANGED <<vars, lastChoose, currentWeight>>
      BY <1>7 DEF MaxIterate
    <2>2. e \in Int
      BY <1>1, <1>2, <1>3, <2>1, EffectiveWeightType
    <2> HIDE DEF e
    <2>3. w \in WalkType
      <3> DEFINE r == IF e > v.res THEN e ELSE v.res
                 at == IF v.i + 1 < Len(upstreams) THEN v.at ELSE "increase"
      <3>1. r \in Int /\ at \in Ats
        BY <1>1, <2>2 DEF Ats
      <3>2. w = [v EXCEPT !.res = r, !.i = v.i + 1, !.at = at]
        BY <1>1
      <3>3. v.i + 1 \in Nat
        BY <1>1
      <3> HIDE DEF r, at, v, w
      <3> QED
        BY <1>1, <3>1, <3>2, <3>3, IterationType
    <2>4. /\ w.at \in {v.at, "increase"}
          /\ w.at = v.at => w.i < Len(upstreams) \/ v.at = "increase"
      BY <1>1, <1>2, <2>2 DEF WalkType
    <2> HIDE DEF w
    <2> QED
      BY <1>2, <1>3, <2>1, <2>3, <2>4, GoOn
  <1> QED
    BY <1>4, <1>5, <1>6, <1>7

LEMMA GetStepIndInv ==
  ASSUME TypeOK, LVSIndInv, NEW h \in Handlers, GetStep(h)
  PROVE  LVSIndInv'
  <1>1. CASE GetOnly(h) \/ Return(h)
    <2>1. /\ walk' = [walk EXCEPT ![h] = Fresh] /\ Fresh \in WalkType
          /\ UNCHANGED <<lastChoose, currentWeight>>
      <3>1. CASE GetOnly(h)
        <4>1. walk[h] = Fresh
          BY <3>1, AtStep DEF GetOnly, WalkInv
        <4> QED
          BY <3>1, <4>1 DEF GetOnly, LVSIndInv, getVars
      <3>2. CASE Return(h)
        BY <3>2 DEF Return, Walk, Fresh, WalkType, Ats
      <3> QED
        BY <1>1, <3>1, <3>2
    <2>2. UNCHANGED <<upstreams, phase>> /\ pc' = [pc EXCEPT ![h] = "query"]
      BY <1>1 DEF GetOnly, Return, Got
    <2>3. WalkInv(Fresh)'
      BY <2>1 DEF WalkInv, Fresh
    <2>4. ASSUME NEW g \in Handlers
          PROVE  /\ WalkInv(walk[g])'
                 /\ walk'[g] # Fresh => pc'[g] = "idle" /\ phase' \in {"serving", "panicked"}
      <3>1. CASE g = h
        <4>1. walk'[g] = Fresh
          BY <2>1, <3>1 DEF LVSIndInv
        <4> QED
          BY <2>3, <4>1
      <3>2. CASE g # h
        BY <2>1, <2>2, <3>2 DEF LVSIndInv, WalkInv, TypeOK
      <3> QED
        BY <3>1, <3>2
    <2> QED
      BY <2>1, <2>2, <2>4 DEF LVSIndInv
  <1>2. CASE LoadLast(h)
    <2> DEFINE w == [Fresh EXCEPT !.at = "storeLast", !.res = lastChoose]
    <2>1. PICK at \in {"call", "again"} : InGet(h, at)
      BY <1>2 DEF LoadLast
    <2>2. lastChoose \in Int /\ currentWeight \in Int
      BY DEF LVSIndInv
    <2>3. UNCHANGED <<vars, lastChoose, currentWeight>> /\ Len(upstreams) > 1 /\ Walk(h, w)
      BY <1>2 DEF LoadLast
    <2>4. w \in WalkType /\ w.at = "storeLast"
      BY <2>2, FreshType DEF WalkType, Ats
    <2> HIDE DEF w
    <2>5. WalkInv(w)
      BY <2>3, <2>4 DEF WalkInv
    <2> QED
      BY <2>1, <2>2, <2>3, <2>5, WalkOnHere
  <1>3. CASE StoreLast(h)
    <2> DEFINE w == [Fresh EXCEPT !.at = "testLast"]
    <2>1. /\ InGet(h, "storeLast") /\ UNCHANGED <<vars, currentWeight>> /\ Walk(h, w)
          /\ lastChoose' = (walk[h].res + 1) % Len(upstreams)
      BY <1>3 DEF StoreLast
    <2>2. walk[h].res + 1 \in Int /\ Len(upstreams) \in Nat /\ Len(upstreams) > 1
      BY <2>1, AtStep, InsideGet DEF WalkType
    <2>3. lastChoose' \in 0 .. Len(upstreams) - 1
      BY <2>1, <2>2
    <2>4. w \in WalkType /\ w.at = "testLast"
      BY DEF Fresh, WalkType, Ats
    <2> HIDE DEF w
    <2>5. WalkInv(w)'
      BY <2>1, <2>2, <2>3, <2>4 DEF WalkInv, vars
    <2> QED
      BY <2>1, <2>2, <2>3, <2>5, AtStep, WalkOn
  <1>4. CASE GcdPanics(h) \/ ZeroPanics(h)
    BY <1>4 DEF GcdPanics, ZeroPanics, getVars, LVSIndInv, WalkInv
  <1> QED
    BY <1>1, <1>2, <1>3, <1>4, SimpleSteps, LoopSteps DEF GetStep

\* While the selector is built nobody is in Get, and the bookkeeping does not
\* disturb who is.
LEMMA OtherStepIndInv ==
  ASSUME TypeOK, LVSIndInv, Add \/ Bookkeeping \/ UNCHANGED vars, UNCHANGED getVars
  PROVE  LVSIndInv'
  <1>1. UNCHANGED <<lastChoose, currentWeight, walk>>
    BY DEF getVars
  <1>2. CASE Add
    <2>1. /\ phase = "configuring" /\ phase' = phase /\ pc' = pc
          /\ upstreams' = Append(upstreams, NewUpstream)
      BY <1>2 DEF Add
    <2>2. \A h \in Handlers : walk[h] = Fresh
      BY <2>1 DEF LVSIndInv
    <2>3. WalkInv(Fresh)'
      BY DEF WalkInv, Fresh, WalkType, Ats
    <2>4. Len(upstreams) \in Nat /\ Len(upstreams') = Len(upstreams) + 1
      BY <2>1 DEF TypeOK
    <2> QED
      BY <1>1, <2>1, <2>2, <2>3, <2>4 DEF LVSIndInv
  <1>3. ASSUME UNCHANGED upstreams,
               phase' = phase \/ phase = "configuring" \/ phase' = "panicked",
               \A h \in Handlers : pc'[h] = pc[h] \/ pc[h] # "idle"
        PROVE  LVSIndInv'
    BY <1>1, <1>3 DEF LVSIndInv, WalkInv
  <1>4. CASE Begin
    BY <1>3, <1>4 DEF Begin, AddRefused, Listen, StartEvaluate
  <1>5. ASSUME NEW h \in Handlers, Report(h) \/ ReportStore(h) PROVE LVSIndInv'
    <2>1. UNCHANGED <<upstreams, phase>> /\ pc[h] # "idle"
          /\ \E s : pc' = [pc EXCEPT ![h] = s]
      BY <1>5 DEF Report, ReportStore, ReportUpstreamStatus, NoReport
    <2> QED
      BY <1>3, <2>1 DEF TypeOK
  <1>6. ASSUME NEW u, Probe(u) PROVE LVSIndInv'
    BY <1>3, <1>6 DEF Probe, ProbeAnswer, ProbeStore, ProbePanics
  <1>7. CASE NextRound \/ Ended \/ UNCHANGED vars
    BY <1>3, <1>7 DEF NextRound, Ended, vars
  <1> QED
    BY <1>2, <1>4, <1>5, <1>6, <1>7 DEF Bookkeeping

(***************************************************************************)
(* A call of Get ends in a step of the interface or in a panic; its other  *)
(* steps change nothing that the interface knows of.  That the lastChoose  *)
(* which the last step loads once more is the index of an upstream is what *)
(* LVSIndInv says of it.                                                   *)
(***************************************************************************)
LEMMA LVSStep ==
  ASSUME TypeOK, LVSIndInv, [LVSNext]_lvsVars
  PROVE  [Next \/ Crash]_vars
  <1>1. CASE Add \/ Bookkeeping
    BY <1>1 DEF Next
  <1>2. ASSUME NEW h \in Handlers, GetStep(h)
        PROVE  [Next \/ Crash]_vars
    <2>1. ASSUME NEW u \in DOMAIN upstreams, NEW at, InGet(h, at), Got(h, u)
          PROVE  Next
      BY <2>1, UpstreamNumbers DEF Next, Get, InGet
    <2>2. CASE GetOnly(h) \/ Return(h)
      <3>1. CASE GetOnly(h)
        <4>1. 1 \in DOMAIN upstreams
          BY <3>1 DEF GetOnly, TypeOK
        <4> QED
          BY <2>1, <3>1, <4>1 DEF GetOnly
      <3>2. CASE Return(h)
        <4>1. lastChoose >= 0 /\ lastChoose \in -1 .. Len(upstreams) - 1 /\ Len(upstreams) \in Nat
          BY <3>2, AtStep, InsideGet DEF Return
        <4>2. lastChoose + 1 \in 1 .. Len(upstreams)
          BY <4>1
        <4>3. lastChoose + 1 \in DOMAIN upstreams
          BY <4>2 DEF TypeOK
        <4> QED
          BY <2>1, <3>2, <4>3 DEF Return
      <3> QED
        BY <2>2, <3>1, <3>2
    <2>3. CASE GcdPanics(h) \/ ZeroPanics(h)
      BY <2>3 DEF GcdPanics, ZeroPanics, Crash, InGet
    <2>4. CASE \/ LoadLast(h) \/ StoreLast(h) \/ TestLast(h)
               \/ GcdFirst(h) \/ GcdOperand(h) \/ GcdIterate(h)
               \/ Decrease(h) \/ TestCurrent(h) \/ MaxIterate(h) \/ Increase(h)
               \/ TestZero(h) \/ LoadIndex(h) \/ LoadEffective(h) \/ Compare(h)
      <3>1. UNCHANGED vars
        BY <2>4 DEF LoadLast, StoreLast, TestLast, GcdFirst, GcdOperand, GcdIterate,
                    Decrease, TestCurrent, MaxIterate, Increase, TestZero,
                    LoadIndex, LoadEffective, Compare
      <3> QED
        BY <3>1
    <2> QED
      BY <1>2, <2>2, <2>3, <2>4 DEF GetStep
  <1>3. CASE UNCHANGED lvsVars
    BY <1>3 DEF lvsVars
  <1> QED
    BY <1>1, <1>2, <1>3 DEF LVSNext

\* A panic changes no weight and no pending store.
LEMMA CrashTypeOK == TypeOK /\ Crash => TypeOK'
  BY DEF TypeOK, Crash

LEMMA CrashClamped == WeightClamped /\ Crash => WeightClamped'
  BY DEF WeightClamped, Owed, Crash

LEMMA LVSInductive == LVSSafetySpec => [](TypeOK /\ LVSIndInv)
  <1>1. LVSInit => TypeOK /\ LVSIndInv
    BY InitTypeOK, LVSInitIndInv DEF LVSInit
  <1>2. TypeOK /\ LVSIndInv /\ [LVSNext]_lvsVars => LVSIndInv'
    <2> SUFFICES ASSUME TypeOK, LVSIndInv, [LVSNext]_lvsVars PROVE LVSIndInv'
      OBVIOUS
    <2>1. CASE UNCHANGED lvsVars
      BY <2>1, OtherStepIndInv DEF lvsVars
    <2> QED
      BY <2>1, GetStepIndInv, OtherStepIndInv DEF LVSNext
  <1>3. TypeOK /\ LVSIndInv /\ [LVSNext]_lvsVars => TypeOK'
    BY LVSStep, NextTypeOK, CrashTypeOK
  <1> QED
    BY <1>1, <1>2, <1>3, PTL DEF LVSSafetySpec

(***************************************************************************)
(* Type correctness of LVSWRRSelector, for any number of concurrent calls  *)
(* of Get and every set of weights: lastChoose, which handlers load, wrap  *)
(* round and store without a lock, and the loop variables of gcdWeight and *)
(* maxWeight never index past the upstreams.                               *)
(***************************************************************************)
THEOREM LVSTypeCorrect == LVSSafetySpec => []LVSTypeOK
  <1>1. LVSIndInv => LVSTypeOK
    BY DEF LVSIndInv, LVSTypeOK, WalkInv, WalkType
  <1> QED
    BY <1>1, LVSInductive, PTL

(***************************************************************************)
(* LVSWRRSelector is a Selector until Get panics: whatever lastChoose is   *)
(* when Get loads it for the last time, it selects a configured upstream,  *)
(* and no step of Get disturbs an effectiveWeight.                         *)
(***************************************************************************)
THEOREM LVSSelectsUntilPanic == LVSSafetySpec => SelectsUntilPanic
  <1>1. LVSInit => Init
    BY DEF LVSInit
  <1>2. TypeOK /\ LVSIndInv /\ [LVSNext]_lvsVars => [Next \/ Crash]_vars
    BY LVSStep
  <1> QED
    BY <1>1, <1>2, LVSInductive, PTL DEF LVSSafetySpec, SelectsUntilPanic

(***************************************************************************)
(* The effective weights that Get of LVSWRRSelector works with are         *)
(* clamped; out of 1..weight, as gcd must not see them, they are for one   *)
(* step of a goroutine only.                                               *)
(***************************************************************************)
THEOREM LVSWeightClamped == LVSSafetySpec => []WeightClamped
  <1>1. LVSInit => WeightClamped
    BY DEF LVSInit, Init, WeightClamped
  <1>2. TypeOK /\ LVSIndInv /\ WeightClamped /\ [LVSNext]_lvsVars => WeightClamped'
    BY LVSStep, NextWeightClamped, CrashClamped
  <1> QED
    BY <1>1, <1>2, LVSInductive, PTL DEF LVSSafetySpec

-------------------------------------------------------------------------------
(***************************************************************************)
(* Division.                                                               *)
(***************************************************************************)
Positive == Nat \ {0}

LEMMA Quotient ==
  \A n \in Nat : \A d \in Positive :
     \E q \in Nat : n = d * q + (n % d) /\ n % d \in Nat /\ n % d < d
  <1> SUFFICES ASSUME NEW n \in Nat, NEW d \in Positive
               PROVE  \E q \in Nat : n = d * q + (n % d) /\ n % d \in Nat /\ n % d < d
    OBVIOUS
  <1>1. n = d * (n \div d) + (n % d) /\ n % d \in Nat /\ n % d < d /\ n \div d \in Nat
    BY DEF Positive
  <1> QED
    BY <1>1

LEMMA Multiple ==
  \A n \in Nat : \A d \in Positive : n % d = 0 <=> \E k \in Nat : n = d * k
  <1> SUFFICES ASSUME NEW n \in Nat, NEW d \in Positive
               PROVE  n % d = 0 <=> \E k \in Nat : n = d * k
    OBVIOUS
  <1>1. ASSUME n % d = 0 PROVE \E k \in Nat : n = d * k
    <2>1. PICK q \in Nat : n = d * q + (n % d)
      BY Quotient
    <2>2. d * q \in Nat
      BY DEF Positive
    <2> QED
      BY <1>1, <2>1, <2>2
  <1>2. ASSUME NEW k \in Nat, n = d * k PROVE n % d = 0
    BY <1>2 DEF Positive
  <1> QED
    BY <1>1, <1>2

\* An iteration of gcd keeps the common divisors of its operands.
LEMMA EuclidStep ==
  ASSUME NEW x \in Positive, NEW y \in Positive, NEW d \in Positive
  PROVE  x % d = 0 /\ y % d = 0 <=> (x % y) % d = 0 /\ y % d = 0
  <1>1. PICK q \in Nat : x = y * q + (x % y) /\ x % y \in Nat
    BY Quotient DEF Positive
  <1>2. PICK r \in Nat : r = x % y
    BY <1>1
  <1>3. ASSUME NEW b \in Nat, y = d * b PROVE x % d = 0 <=> r % d = 0
    <2>1. x = d * (b * q) + r
      BY <1>1, <1>2, <1>3 DEF Positive
    <2>2. PICK c \in Nat : c = b * q
      OBVIOUS
    <2>3. x = d * c + r
      BY <2>1, <2>2
    <2>4. ASSUME NEW k \in Nat, r = d * k PROVE x % d = 0
      <3>1. x = d * (c + k) /\ c + k \in Nat
        BY <2>3, <2>4 DEF Positive
      <3> QED
        BY <3>1, Multiple DEF Positive
    <2>5. ASSUME NEW k \in Nat, x = d * k PROVE r % d = 0
      <3>1. r = d * (k - c)
        BY <2>3, <2>5 DEF Positive
      <3>2. k - c \in Nat
        <4>1. CASE k < c
          <5>1. PICK e \in Nat : e = c - k /\ e >= 1
            BY <4>1
          <5>2. d * e >= 1
            BY <5>1 DEF Positive
          <5>3. r = -(d * e)
            BY <3>1, <5>1 DEF Positive
          <5> QED
            BY <5>1, <5>2, <5>3 DEF Positive
        <4> QED
          BY <4>1
      <3> QED
        BY <3>1, <3>2, Multiple DEF Positive
    <2> QED
      BY <2>4, <2>5, Multiple DEF Positive
  <1>4. y % d = 0 => \E b \in Nat : y = d * b
    BY Multiple DEF Positive
  <1> QED
    BY <1>2, <1>3, <1>4

LEMMA DivisorBound ==
  ASSUME NEW n \in Positive, NEW d \in Positive, n % d = 0
  PROVE  d <= n
  BY DEF Positive

\* Of positive operands Go's % is that of mathematics.
LEMMA RemPositive ==
  ASSUME NEW x \in Positive, NEW y \in Positive
  PROVE  Rem(x, y) = x % y /\ (x % y # 0 => x % y \in Positive)
  <1>1. Rem(x, y) = x % y
    BY DEF Rem, Positive
  <1>2. x % y \in Nat
    BY Quotient DEF Positive
  <1> QED
    BY <1>1, <1>2 DEF Positive

-------------------------------------------------------------------------------
(***************************************************************************)
(* One query at a time.  Nothing changes a weight during a call of Get     *)
(* when there is one handler, which reports outside of Get, and as long as *)
(* no probe ends.                                                          *)
(***************************************************************************)
Undisturbed == (\A g, h \in Handlers : g = h) /\ \A c \in Configs : c.outcomes = {}

\* Every weight that was added is positive and no probe owes a store.
BaseInv ==
    \A u \in DOMAIN upstreams :
        upstreams[u].weight >= 1 /\ probe[u] \notin {"storeMin", "storeMax"}

\* d divides the first n weights.
Common(d, n) == \A u \in 1..n : effectiveWeight[u] % d = 0

\* What gcdWeight has found: the operands of gcd have the common divisors of the
\* weights seen so far.
GcdInv(w) ==
    /\ w.at = "gcdOperand" =>
          /\ w.x \in Positive
          /\ \A d \in Positive :
                (w.x % d = 0 /\ effectiveWeight[w.i + 1] % d = 0) <=> Common(d, w.i + 1)
    /\ w.at = "gcd" =>
          /\ w.x \in Positive /\ w.y \in Positive
          /\ \A d \in Positive : (w.x % d = 0 /\ w.y % d = 0) <=> Common(d, w.i + 1)
    /\ w.at = "decrease" =>
          /\ w.res \in Positive
          /\ \A d \in Positive : w.res % d = 0 <=> Common(d, Len(upstreams))

GcdSeqInv == BaseInv /\ \A h \in Handlers : GcdInv(walk[h])

\* No weight is about to be clamped while Get runs.
LEMMA WeightsPositive ==
  ASSUME Undisturbed, TypeOK, WeightClamped, BaseInv, NEW h \in Handlers, pc[h] = "idle"
  PROVE  \A u \in DOMAIN upstreams : effectiveWeight[u] \in Positive
  <1> SUFFICES ASSUME NEW u \in DOMAIN upstreams PROVE effectiveWeight[u] \in Positive
    OBVIOUS
  <1>1. {g \in Handlers : pc[g] = "storeMin" /\ chosen[g] = u} = {}
    BY DEF Undisturbed
  <1>2. Cardinality({g \in Handlers : pc[g] = "storeMin" /\ chosen[g] = u}) = 0
    BY <1>1, FS_EmptySet
  <1>3. probe[u] # "storeMin" /\ upstreams[u].weight >= 1
    BY DEF BaseInv
  <1>4. Owed(u, "storeMin") = 0
    BY <1>2, <1>3 DEF Owed
  <1>5. effectiveWeight[u] >= 1 - MaxPenalty * Owed(u, "storeMin")
    BY <1>3 DEF WeightClamped
  <1>6. effectiveWeight[u] \in Int
    BY DEF TypeOK
  <1>7. effectiveWeight[u] >= 1
    BY <1>4, <1>5, <1>6 DEF MaxPenalty
  <1> QED
    BY <1>6, <1>7 DEF Positive

LEMMA FreshGcd == GcdInv(Fresh) /\ GcdInv(Fresh)'
  BY DEF GcdInv, Fresh

\* Steps outside of Get.
LEMMA OtherStepGcd ==
  ASSUME Undisturbed, TypeOK, LVSIndInv, GcdSeqInv,
         Add \/ Bookkeeping \/ UNCHANGED vars, UNCHANGED getVars
  PROVE  GcdSeqInv'
  <1>1. walk' = walk
    BY DEF getVars
  <1>2. CASE Add
    <2>1. phase = "configuring" /\ upstreams' = Append(upstreams, NewUpstream) /\ probe' = Append(probe, "none")
      BY <1>2 DEF Add
    <2>2. \A h \in Handlers : walk[h] = Fresh
      BY <2>1 DEF LVSIndInv
    <2>3. NewUpstream.weight >= 1
      <3>1. config.selector = "lvs"
        BY LVSAssumption DEF TypeOK
      <3> QED
        BY <1>2, <3>1 DEF Add, NewUpstream
    <2>4. PICK n \in Nat : n = Len(upstreams) /\ n = Len(probe)
      BY DEF TypeOK
    <2>5. /\ upstreams \in Seq(Entry) /\ probe \in Seq(ProbeStates)
          /\ DOMAIN upstreams = 1..n /\ DOMAIN upstreams' = 1..(n + 1)
      BY <2>1, <2>4 DEF TypeOK
    <2>6. \A u \in 1..n : upstreams'[u] = upstreams[u] /\ probe'[u] = probe[u]
      BY <2>1, <2>4, <2>5
    <2>7. upstreams'[n + 1] = NewUpstream /\ probe'[n + 1] = "none"
      BY <2>1, <2>4, <2>5
    <2>8. \A u \in 1..(n + 1) : u \in 1..n \/ u = n + 1
      OBVIOUS
    <2>9. BaseInv'
      BY <2>3, <2>5, <2>6, <2>7, <2>8 DEF BaseInv, GcdSeqInv
    <2> QED
      BY <1>1, <2>2, <2>9, FreshGcd DEF GcdSeqInv
  <1>3. ASSUME UNCHANGED <<upstreams, probe>>, \A h \in Handlers : walk[h] = Fresh
        PROVE  GcdSeqInv'
    BY <1>1, <1>3, FreshGcd DEF GcdSeqInv, BaseInv
  <1>4. ASSUME UNCHANGED <<upstreams, effectiveWeight>>,
               probe' = probe \/ probe' = [u \in DOMAIN upstreams |-> "running"]
        PROVE  GcdSeqInv'
    BY <1>1, <1>4 DEF GcdSeqInv, BaseInv, GcdInv, Common
  <1>5. CASE Begin
    BY <1>4, <1>5 DEF Begin, AddRefused, Listen, StartEvaluate
  <1>6. ASSUME NEW h \in Handlers, Report(h) \/ ReportStore(h) PROVE GcdSeqInv'
    <2>1. UNCHANGED <<upstreams, probe>> /\ pc[h] # "idle"
      BY <1>6 DEF Report, ReportStore, ReportUpstreamStatus, NoReport
    <2>2. \A g \in Handlers : walk[g] = Fresh
      BY <2>1 DEF LVSIndInv, Undisturbed
    <2> QED
      BY <1>3, <2>1, <2>2
  <1>7. ASSUME NEW u, Probe(u) PROVE GcdSeqInv'
    <2>1. ~ProbeStore(u)
      BY DEF ProbeStore, GcdSeqInv, BaseInv
    <2>2. ProbePanics(u)
      BY <1>7, <2>1 DEF Probe, Undisturbed, TypeOK
    <2> QED
      BY <1>4, <2>2 DEF ProbePanics
  <1>8. CASE NextRound \/ Ended \/ UNCHANGED vars
    BY <1>4, <1>8 DEF NextRound, Ended, vars
  <1> QED
    BY <1>2, <1>5, <1>6, <1>7, <1>8 DEF Bookkeeping

\* A step of Get that walks on.
LEMMA WalkOnGcd ==
  ASSUME Undisturbed, LVSIndInv, GcdSeqInv, NEW h \in Handlers, NEW w, Walk(h, w), GcdInv(w),
         UNCHANGED <<upstreams, effectiveWeight, probe>>
  PROVE  GcdSeqInv'
  <1>1. \A g \in Handlers : walk'[g] = w
    BY DEF Walk, LVSIndInv, Undisturbed
  <1>2. GcdInv(w)'
    BY DEF GcdInv, Common
  <1>3. BaseInv'
    BY DEF GcdSeqInv, BaseInv
  <1> QED
    BY <1>1, <1>2, <1>3 DEF GcdSeqInv

\* The local variables that a step of Get leaves behind.
LEMMA FreshFields ==
  \A a, i, r :
     /\ [Fresh EXCEPT !.at = a].at = a
     /\ [Fresh EXCEPT !.at = a, !.i = i].at = a
     /\ [Fresh EXCEPT !.at = a, !.res = r].at = a
     /\ [Fresh EXCEPT !.at = a, !.res = r].res = r
     /\ [Fresh EXCEPT !.at = a].i = 0
  BY DEF Fresh

\* Where a step of Get that loads and tests continues.
LEMMA LoadsAndTests ==
  ASSUME NEW h \in Handlers,
         \/ LoadLast(h) \/ StoreLast(h) \/ TestLast(h) \/ Decrease(h) \/ TestCurrent(h)
         \/ Increase(h) \/ TestZero(h) \/ LoadIndex(h) \/ LoadEffective(h) \/ Compare(h)
  PROVE  /\ UNCHANGED vars
         /\ \E w : /\ Walk(h, w)
                  /\ w.at \in {"storeLast", "testLast", "gcdFirst", "index", "testCurrent", "max",
                              "testZero", "loadEffective", "compare", "return", "again"}
  <1> DEFINE S == {"storeLast", "testLast", "gcdFirst", "index", "testCurrent", "max",
                   "testZero", "loadEffective", "compare", "return", "again"}
             Goal == \E w : Walk(h, w) /\ w.at \in S
  <1>0. UNCHANGED vars
    BY DEF LoadLast, StoreLast, TestLast, Decrease, TestCurrent,
           Increase, TestZero, LoadIndex, LoadEffective, Compare
  <1> SUFFICES Goal
    BY <1>0
  <1>1. ASSUME NEW a \in S, NEW i, NEW r,
               \/ Walk(h, [Fresh EXCEPT !.at = a]) \/ Walk(h, [Fresh EXCEPT !.at = a, !.i = i])
               \/ Walk(h, [Fresh EXCEPT !.at = a, !.res = r])
        PROVE  Goal
    <2>1. CASE Walk(h, [Fresh EXCEPT !.at = a])
      <3>1. PICK w : w = [Fresh EXCEPT !.at = a]
        OBVIOUS
      <3>2. Walk(h, w) /\ w.at = a
        BY <2>1, <3>1, FreshFields
      <3> QED
        BY <3>2
    <2>2. CASE Walk(h, [Fresh EXCEPT !.at = a, !.i = i])
      <3>1. PICK w : w = [Fresh EXCEPT !.at = a, !.i = i]
        OBVIOUS
      <3>2. Walk(h, w) /\ w.at = a
        BY <2>2, <3>1, FreshFields
      <3> QED
        BY <3>2
    <2>3. CASE Walk(h, [Fresh EXCEPT !.at = a, !.res = r])
      <3>1. PICK w : w = [Fresh EXCEPT !.at = a, !.res = r]
        OBVIOUS
      <3>2. Walk(h, w) /\ w.at = a
        BY <2>3, <3>1, FreshFields
      <3> QED
        BY <3>2
    <2> QED
      BY <1>1, <2>1, <2>2, <2>3
  <1> HIDE DEF Goal
  <1>2. CASE LoadLast(h)
    BY <1>1, <1>2 DEF LoadLast
  <1>3. CASE StoreLast(h) \/ Decrease(h) \/ Increase(h) \/ TestZero(h)
    BY <1>1, <1>3 DEF StoreLast, Decrease, Increase, TestZero, vars
  <1>4. CASE TestLast(h)
    <2>1. PICK a \in S : a = IF lastChoose = 0 THEN "gcdFirst" ELSE "index"
      OBVIOUS
    <2> QED
      BY <1>1, <1>4, <2>1 DEF TestLast
  <1>5. CASE TestCurrent(h)
    <2>1. PICK a \in S : a = IF currentWeight <= 0 THEN "max" ELSE "index"
      OBVIOUS
    <2> QED
      BY <1>1, <1>5, <2>1 DEF TestCurrent
  <1>6. CASE LoadIndex(h) \/ LoadEffective(h)
    BY <1>1, <1>6 DEF LoadIndex, LoadEffective
  <1>7. CASE Compare(h)
    <2>1. PICK a \in S : a = IF walk[h].res >= currentWeight THEN "return" ELSE "again"
      OBVIOUS
    <2> QED
      BY <1>1, <1>7, <2>1 DEF Compare
  <1> QED
    BY <1>2, <1>3, <1>4, <1>5, <1>6, <1>7

\* The steps after which no gcd is being computed.
LEMMA OutsideGcd ==
  ASSUME NEW h \in Handlers,
         \/ LoadLast(h) \/ StoreLast(h) \/ TestLast(h) \/ Decrease(h) \/ TestCurrent(h)
         \/ Increase(h) \/ TestZero(h) \/ LoadIndex(h) \/ LoadEffective(h) \/ Compare(h) \/ Return(h)
  PROVE  /\ \E w : Walk(h, w) /\ w.at \notin {"gcdOperand", "gcd", "decrease"}
         /\ UNCHANGED <<upstreams, effectiveWeight, probe>>
  <1>1. CASE Return(h)
    BY <1>1 DEF Return, Got, Fresh
  <1>2. CASE ~Return(h)
    BY <1>2, LoadsAndTests DEF vars
  <1> QED
    BY <1>1, <1>2

LEMMA GetStepGcd ==
  ASSUME Undisturbed, TypeOK, LVSIndInv, WeightClamped, GcdSeqInv, NEW h \in Handlers, GetStep(h)
  PROVE  GcdSeqInv'
  <1> DEFINE v == walk[h]
  <1>1. v \in WalkType /\ WalkInv(v) /\ GcdInv(v) /\ BaseInv
    BY DEF LVSIndInv, GcdSeqInv
  <1>2. v.i \in Nat /\ v.x \in Int /\ v.y \in Int /\ v.res \in Int
    BY <1>1 DEF WalkType
  <1>3. PICK n \in Nat : n = Len(upstreams) /\ DOMAIN upstreams = 1..n
    BY DEF TypeOK
  <1>4. ASSUME NEW at, InGet(h, at) PROVE v.at = at /\ \A u \in 1..n : effectiveWeight[u] \in Positive
    BY <1>1, <1>3, <1>4, WeightsPositive DEF InGet
  <1>5. CASE GcdFirst(h)
    <2>1. /\ InGet(h, "gcdFirst") /\ Walk(h, [v EXCEPT !.at = "gcdOperand", !.x = effectiveWeight[1]])
          /\ UNCHANGED vars
      BY <1>5 DEF GcdFirst, EffectiveWeight
    <2>2. v.i = 0 /\ n > 1
      BY <1>3, <2>1, <1>4, <1>1, InsideGet DEF WalkInv
    <2>3. effectiveWeight[1] \in Positive
      BY <1>4, <2>1, <2>2
    <2>4. PICK w : w = [v EXCEPT !.at = "gcdOperand", !.x = effectiveWeight[1]]
      OBVIOUS
    <2>5. w.at = "gcdOperand" /\ w.x = effectiveWeight[1] /\ w.i = 0
      BY <1>1, <2>2, <2>4 DEF WalkType
    <2>6. \A d \in Positive : (w.x % d = 0 /\ effectiveWeight[w.i + 1] % d = 0) <=> Common(d, w.i + 1)
      <3>1. w.i + 1 = 1 /\ 1..1 = {1}
        BY <2>5
      <3> QED
        BY <2>5, <3>1 DEF Common
    <2>7. GcdInv(w)
      BY <2>3, <2>5, <2>6 DEF GcdInv
    <2> QED
      BY <2>1, <2>4, <2>7, WalkOnGcd DEF vars
  <1>6. CASE GcdOperand(h)
    <2>1. /\ InGet(h, "gcdOperand") /\ Walk(h, [v EXCEPT !.at = "gcd", !.y = effectiveWeight[v.i + 1]])
          /\ UNCHANGED vars
      BY <1>6 DEF GcdOperand, EffectiveWeight
    <2>2. v.at = "gcdOperand" /\ v.i < n
      BY <1>1, <1>3, <1>4, <2>1 DEF WalkInv
    <2>3. effectiveWeight[v.i + 1] \in Positive
      BY <1>2, <1>4, <2>1, <2>2
    <2>4. PICK w : w = [v EXCEPT !.at = "gcd", !.y = effectiveWeight[v.i + 1]]
      OBVIOUS
    <2>5. w.at = "gcd" /\ w.x = v.x /\ w.y = effectiveWeight[v.i + 1] /\ w.i = v.i
      BY <1>1, <2>4 DEF WalkType
    <2>6. GcdInv(w)
      BY <1>1, <2>2, <2>3, <2>5 DEF GcdInv
    <2> QED
      BY <2>1, <2>4, <2>6, WalkOnGcd DEF vars
  <1>7. CASE GcdIterate(h)
    <2>1. PICK x : x = Larger(v)
      OBVIOUS
    <2>2. PICK y : y = Smaller(v)
      OBVIOUS
    <2>3. InGet(h, "gcd") /\ Walk(h, GcdLoop(v, x, y)) /\ UNCHANGED vars
      BY <1>7, <2>1, <2>2 DEF GcdIterate
    <2>4. v.at = "gcd" /\ v.i < n
      BY <1>1, <1>3, <1>4, <2>3 DEF WalkInv
    <2>5. x \in Positive /\ y \in Positive /\ \A d \in Positive : (x % d = 0 /\ y % d = 0) <=> Common(d, v.i + 1)
      BY <1>1, <2>1, <2>2, <2>4 DEF GcdInv, Larger, Smaller
    <2>6. PICK r : r = x % y
      OBVIOUS
    <2>7. /\ Rem(x, y) = r /\ (r # 0 => r \in Positive)
          /\ \A d \in Positive : (r % d = 0 /\ y % d = 0) <=> Common(d, v.i + 1)
      BY <2>5, <2>6, RemPositive, EuclidStep
    <2>8. PICK w : w = GcdLoop(v, x, y)
      OBVIOUS
    <2>9. CASE r # 0
      <3>1. w = [v EXCEPT !.x = r, !.y = y]
        BY <2>7, <2>8, <2>9 DEF GcdLoop
      <3>2. w.at = "gcd" /\ w.x = r /\ w.y = y /\ w.i = v.i
        BY <1>1, <2>4, <3>1 DEF WalkType
      <3>3. GcdInv(w)
        BY <2>5, <2>7, <2>9, <3>2 DEF GcdInv
      <3> QED
        BY <2>3, <2>8, <3>3, WalkOnGcd DEF vars
    <2>10. CASE r = 0
      <3>1. \A d \in Positive : y % d = 0 <=> Common(d, v.i + 1)
        <4>1. \A d \in Positive : 0 % d = 0
          BY DEF Positive
        <4> QED
          BY <2>7, <2>10, <4>1
      <3>2. CASE v.i + 1 < n
        <4>1. PICK z : z = 0
          OBVIOUS
        <4>2. w = [v EXCEPT !.at = "gcdOperand", !.i = @ + 1, !.x = y, !.y = z]
          BY <1>3, <2>7, <2>8, <2>10, <3>2, <4>1 DEF GcdLoop
        <4>3. w.at = "gcdOperand" /\ w.i = v.i + 1 /\ w.x = y
          BY <1>1, <4>2 DEF WalkType
        <4>4. PICK k \in Nat : k = v.i + 1
          BY <1>2
        <4>5. \A d : Common(d, k + 1) <=> Common(d, k) /\ effectiveWeight[k + 1] % d = 0
          <5>1. \A u : u \in 1..(k + 1) <=> u \in 1..k \/ u = k + 1
            BY <4>4
          <5> QED
            BY <5>1 DEF Common
        <4>6. GcdInv(w)
          BY <2>5, <3>1, <4>3, <4>4, <4>5 DEF GcdInv
        <4> QED
          BY <2>3, <2>8, <4>6, WalkOnGcd DEF vars
      <3>3. CASE ~(v.i + 1 < n)
        <4>1. w = [Fresh EXCEPT !.at = "decrease", !.res = y]
          BY <1>3, <2>7, <2>8, <2>10, <3>3 DEF GcdLoop
        <4>2. w.at = "decrease" /\ w.res = y
          BY <4>1 DEF Fresh
        <4>3. v.i + 1 = Len(upstreams)
          BY <1>2, <1>3, <2>4, <3>3
        <4>4. GcdInv(w)
          BY <2>5, <3>1, <4>2, <4>3 DEF GcdInv
        <4> QED
          BY <2>3, <2>8, <4>4, WalkOnGcd DEF vars
      <3> QED
        BY <3>2, <3>3
    <2> QED
      BY <2>9, <2>10
  <1>8. CASE MaxIterate(h)
    <2>1. PICK w : Walk(h, w) /\ w.at \in {"max", "increase"} /\ UNCHANGED vars
      <3>1. v.at = "max"
        BY <1>4, <1>8 DEF MaxIterate
      <3> QED
        BY <1>1, <1>8, <3>1 DEF MaxIterate, WalkType
    <2>2. GcdInv(w)
      BY <2>1 DEF GcdInv
    <2> QED
      BY <2>1, <2>2, WalkOnGcd DEF vars
  <1>9. CASE GetOnly(h) \/ GcdPanics(h) \/ ZeroPanics(h)
    <2>1. UNCHANGED <<walk, upstreams, effectiveWeight, probe>>
      BY <1>9 DEF GetOnly, Got, GcdPanics, ZeroPanics, getVars
    <2> QED
      BY <2>1 DEF GcdSeqInv, BaseInv, GcdInv, Common
  <1>10. ASSUME \E w : Walk(h, w) /\ w.at \notin {"gcdOperand", "gcd", "decrease"},
                UNCHANGED <<upstreams, effectiveWeight, probe>>
         PROVE  GcdSeqInv'
    <2>1. PICK w : Walk(h, w) /\ w.at \notin {"gcdOperand", "gcd", "decrease"}
      BY <1>10
    <2>2. GcdInv(w)
      BY <2>1 DEF GcdInv
    <2> QED
      BY <1>10, <2>1, <2>2, WalkOnGcd
  <1> QED
    BY <1>5, <1>6, <1>7, <1>8, <1>9, <1>10, OutsideGcd DEF GetStep

LEMMA GcdInvariant == ASSUME Undisturbed PROVE LVSSafetySpec => []GcdSeqInv
  <1>1. LVSInit => GcdSeqInv
    <2> SUFFICES ASSUME LVSInit PROVE GcdSeqInv
      OBVIOUS
    <2>1. upstreams = << >> /\ \A h \in Handlers : walk[h] = Fresh
      BY DEF LVSInit, Init
    <2> QED
      BY <2>1, FreshGcd DEF GcdSeqInv, BaseInv
  <1>2. TypeOK /\ WeightClamped /\ LVSIndInv /\ GcdSeqInv /\ [LVSNext]_lvsVars => GcdSeqInv'
    <2> SUFFICES ASSUME TypeOK, WeightClamped, LVSIndInv, GcdSeqInv, [LVSNext]_lvsVars PROVE GcdSeqInv'
      OBVIOUS
    <2>1. CASE UNCHANGED lvsVars
      BY <2>1, OtherStepGcd DEF lvsVars
    <2> QED
      BY <2>1, GetStepGcd, OtherStepGcd DEF LVSNext
  <1> QED
    BY <1>1, <1>2, LVSWeightClamped, LVSInductive, PTL DEF LVSSafetySpec

(***************************************************************************)
(* GcdIsGreatest: what gcdWeight returns, gcd of the first weight and gcd  *)
(* of that and the next one and so on, is the greatest common divisor of   *)
(* all the effective weights, for any number of them and however large,    *)
(* whatever was reported before, as long as nothing changes them meanwhile.*)
(***************************************************************************)
THEOREM GcdGreatest == ASSUME Undisturbed PROVE LVSSafetySpec => []GcdIsGreatest
  <1>1. ASSUME TypeOK, WeightClamped, LVSIndInv, GcdSeqInv PROVE GcdIsGreatest
    <2> USE <1>1
    <2> SUFFICES ASSUME NEW h \in Handlers, walk[h].at = "decrease"
                 PROVE  /\ walk[h].res >= 1 /\ DividesAll(walk[h].res)
                        /\ \A d \in walk[h].res + 1 .. effectiveWeight[1] : ~DividesAll(d)
      BY DEF GcdIsGreatest
    <2>1. PICK g : g = walk[h].res
      OBVIOUS
    <2>2. g \in Positive /\ \A d \in Positive : g % d = 0 <=> Common(d, Len(upstreams))
      BY <2>1 DEF GcdSeqInv, GcdInv
    <2>4. \A d : DividesAll(d) <=> Common(d, Len(upstreams))
      BY DEF DividesAll, Common, TypeOK
    <2>5. g % g = 0
      BY <2>2 DEF Positive
    <2>6. ASSUME NEW d \in g + 1 .. effectiveWeight[1] PROVE ~DividesAll(d)
      <3>1. d \in Positive /\ d > g
        BY <2>2 DEF Positive
      <3>2. g % d # 0
        BY <2>2, <3>1, DivisorBound DEF Positive
      <3> QED
        BY <2>2, <2>4, <3>1, <3>2
    <2> QED
      BY <2>1, <2>2, <2>4, <2>5, <2>6 DEF Positive
  <1> QED
    BY <1>1, GcdInvariant, LVSWeightClamped, LVSInductive, PTL
-------------------------------------------------------------------------------
(***************************************************************************)
(* currentWeight.  It is 0 until the first call of Get, and from then on   *)
(* positive whenever Get compares it with a weight.                        *)
(***************************************************************************)
\* Two upstreams of different weight, unless there is only one; and no URL that
\* ends the process in a probe.
UnequalWeights ==
    \A c \in Configs :
        /\ \A u \in DOMAIN c.entries : c.entries[u].validURL
        /\ Len(c.entries) > 1 =>
              \E u, v \in DOMAIN c.entries : c.entries[u].weight # c.entries[v].weight

AddedInv ==
    /\ phase # "panicked"
    /\ phase = "serving" => Len(upstreams) = Len(config.entries)
    /\ \A u \in DOMAIN upstreams : /\ upstreams[u].weight = config.entries[u].weight
                                   /\ upstreams[u].validURL = config.entries[u].validURL

\* From the decrease to the test for zero.
Raising == {"testCurrent", "max", "increase", "testZero"}

\* After it, until the upstream is returned or passed over.
Deciding == {"index", "loadEffective", "compare", "return", "again"}

\* Some weight is large enough to make currentWeight, which is c, positive again,
\* and maxWeight has found none larger than res among the first i.
CurrentInv(w, c) ==
    /\ w.at \in {"testCurrent", "max"} => \E u \in DOMAIN upstreams : c + effectiveWeight[u] > 0
    /\ w.at = "max" => \A u \in 1..w.i : effectiveWeight[u] <= w.res
    /\ w.at = "increase" => c + w.res > 0
    /\ w.at \in Deciding \cup {"testZero"} => c > 0
    /\ w.at \notin Raising => c >= 0

\* The first call of Get: it is on its way to the first upstream, so that it comes
\* by the decrease, and finds the weights that were added.
FirstInv(h, w, c, last) ==
    c = 0 /\ Len(config.entries) > 1 /\ w.at \notin Raising =>
        /\ pc[h] = "idle"
        /\ \A u \in DOMAIN upstreams : effectiveWeight[u] = upstreams[u].weight
        /\ w.at = "call" => last = -1
        /\ w.at = "storeLast" => w.res = -1
        /\ w.at = "testLast" => last = 0

PanicInv ==
    /\ AddedInv
    /\ \A h \in Handlers : /\ CurrentInv(walk[h], currentWeight)
                           /\ FirstInv(h, walk[h], currentWeight, lastChoose)

LEMMA PanicInit ==
  ASSUME LVSInit
  PROVE  PanicInv
  <1>1. /\ upstreams = << >> /\ effectiveWeight = << >> /\ currentWeight = 0 /\ lastChoose = -1
        /\ phase = "configuring"
        /\ \A h \in Handlers : walk[h] = Fresh /\ pc[h] = "idle"
    BY DEF LVSInit, Init
  <1>2. Fresh.at = "call"
    BY DEF Fresh
  <1>3. DOMAIN upstreams = {}
    BY <1>1
  <1> QED
    BY <1>1, <1>2, <1>3 DEF PanicInv, AddedInv, CurrentInv, FirstInv, Deciding, Raising

\* Steps outside of Get.
LEMMA OtherStepPanic ==
  ASSUME Undisturbed, UnequalWeights, TypeOK, LVSIndInv, GcdSeqInv, PanicInv,
         Add \/ Bookkeeping \/ UNCHANGED vars, UNCHANGED getVars
  PROVE  PanicInv'
  <1>1. walk' = walk /\ currentWeight' = currentWeight /\ lastChoose' = lastChoose
    BY DEF getVars
  <1>2. Fresh.at = "call" /\ "call" \notin Raising /\ "call" \notin Deciding \cup {"testZero"}
    BY DEF Fresh, Raising, Deciding
  <1>3. CASE Add
    <2>1. /\ phase = "configuring" /\ upstreams' = Append(upstreams, NewUpstream)
          /\ effectiveWeight' = Append(effectiveWeight, NewUpstream.weight)
          /\ UNCHANGED <<config, phase, pc>>
      BY <1>3 DEF Add
    <2>2. \A h \in Handlers : walk[h] = Fresh
      BY <2>1 DEF LVSIndInv
    <2>3. PICK n \in Nat : n = Len(upstreams) /\ n = Len(effectiveWeight)
      BY DEF TypeOK
    <2>4. NewUpstream.weight = config.entries[n + 1].weight /\ NewUpstream.validURL = config.entries[n + 1].validURL
      <3>1. config.selector = "lvs"
        BY LVSAssumption DEF TypeOK
      <3> QED
        BY <2>3, <3>1 DEF NewUpstream, NextEntry
    <2>5. /\ upstreams \in Seq(Entry) /\ effectiveWeight \in Seq(Int)
          /\ DOMAIN upstreams = 1..n /\ DOMAIN upstreams' = 1..(n + 1)
      BY <2>1, <2>3 DEF TypeOK
    <2>6. \A u \in 1..n : upstreams'[u] = upstreams[u] /\ effectiveWeight'[u] = effectiveWeight[u]
      BY <2>1, <2>3, <2>5
    <2>7. upstreams'[n + 1] = NewUpstream /\ effectiveWeight'[n + 1] = NewUpstream.weight
      BY <2>1, <2>3, <2>5
    <2>8. \A u \in 1..(n + 1) : u \in 1..n \/ u = n + 1
      OBVIOUS
    <2>9. AddedInv'
      BY <2>1, <2>4, <2>5, <2>6, <2>7, <2>8 DEF AddedInv, PanicInv
    <2>10. ASSUME NEW h \in Handlers PROVE CurrentInv(Fresh, currentWeight)'
      BY <1>1, <1>2, <2>2 DEF PanicInv, CurrentInv
    <2>11. ASSUME NEW h \in Handlers PROVE FirstInv(h, Fresh, currentWeight, lastChoose)'
      <3>1. FirstInv(h, Fresh, currentWeight, lastChoose)
        BY <2>2 DEF PanicInv
      <3> QED
        BY <1>1, <1>2, <2>1, <2>5, <2>6, <2>7, <2>8, <3>1 DEF FirstInv
    <2> QED
      BY <1>1, <2>2, <2>9, <2>10, <2>11 DEF PanicInv
  <1>4. ASSUME UNCHANGED <<config, upstreams, effectiveWeight, pc>>, phase' # "panicked",
               phase' = "serving" => Len(upstreams) = Len(config.entries)
        PROVE  PanicInv'
    BY <1>1, <1>4 DEF PanicInv, AddedInv, CurrentInv, FirstInv
  <1>5. CASE Begin
    BY <1>4, <1>5 DEF Begin, AddRefused, Listen, StartEvaluate, PanicInv, AddedInv
  <1>6. ASSUME NEW h \in Handlers, Report(h) \/ ReportStore(h) PROVE PanicInv'
    <2>1. UNCHANGED <<config, upstreams, phase>> /\ pc[h] # "idle"
      BY <1>6 DEF Report, ReportStore, ReportUpstreamStatus, NoReport
    <2>2. \A g \in Handlers : g = h /\ walk[g] = Fresh
      BY <2>1 DEF LVSIndInv, Undisturbed
    <2>3. CurrentInv(Fresh, currentWeight) /\ FirstInv(h, Fresh, currentWeight, lastChoose)
      BY <2>2 DEF PanicInv
    <2>4. ~(currentWeight = 0 /\ Len(config.entries) > 1)
      BY <1>2, <2>1, <2>3 DEF FirstInv
    <2>5. CurrentInv(Fresh, currentWeight)' /\ FirstInv(h, Fresh, currentWeight, lastChoose)'
      BY <1>1, <1>2, <2>1, <2>3, <2>4 DEF CurrentInv, FirstInv
    <2>6. AddedInv'
      BY <2>1 DEF PanicInv, AddedInv
    <2> QED
      BY <1>1, <2>2, <2>5, <2>6 DEF PanicInv
  <1>7. ASSUME NEW u, Probe(u) PROVE FALSE
    <2>1. ~ProbeStore(u)
      BY DEF ProbeStore, GcdSeqInv, BaseInv
    <2>2. u \in DOMAIN upstreams /\ ~upstreams[u].validURL
      BY <1>7, <2>1 DEF Probe, Undisturbed, ProbePanics, TypeOK
    <2>3. u \in DOMAIN config.entries /\ config \in Configs
      BY <2>2, ConfigsAssumption DEF TypeOK, Config
    <2> QED
      BY <2>2, <2>3 DEF UnequalWeights, PanicInv, AddedInv
  <1>8. CASE NextRound \/ Ended \/ UNCHANGED vars
    BY <1>4, <1>8 DEF NextRound, Ended, vars, PanicInv, AddedInv
  <1> QED
    BY <1>3, <1>5, <1>6, <1>7, <1>8 DEF Bookkeeping

\* A step of Get that walks on with w, after which currentWeight is c.
LEMMA WalkOnPanic ==
  ASSUME Undisturbed, LVSIndInv, PanicInv, NEW h \in Handlers, NEW w, Walk(h, w), UNCHANGED vars,
         NEW c, currentWeight' = c, NEW last, lastChoose' = last,
         CurrentInv(w, c), FirstInv(h, w, c, last)
  PROVE  PanicInv'
  <1>1. \A g \in Handlers : g = h /\ walk'[g] = w
    BY DEF Walk, LVSIndInv, Undisturbed
  <1>2. UNCHANGED <<config, phase, upstreams, effectiveWeight, pc>>
    BY DEF vars
  <1>3. CurrentInv(w, currentWeight)' /\ FirstInv(h, w, currentWeight, lastChoose)'
    BY <1>2 DEF CurrentInv, FirstInv
  <1>4. AddedInv'
    BY <1>2 DEF PanicInv, AddedInv
  <1> QED
    BY <1>1, <1>3, <1>4 DEF PanicInv

\* Where nothing but a positive currentWeight is needed.
LEMMA PositiveSuffices ==
  ASSUME NEW h, NEW w, NEW c \in Int, NEW last, c > 0,
         w.at \in {"testZero", "call"} \cup Deciding
  PROVE  CurrentInv(w, c) /\ FirstInv(h, w, c, last)
  BY DEF CurrentInv, FirstInv, Deciding, Raising

\* What Get takes from currentWeight is at most each of the weights.
LEMMA GcdBound ==
  ASSUME TypeOK, LVSIndInv, GcdSeqInv, NEW h \in Handlers, walk[h].at = "decrease",
         \A u \in DOMAIN upstreams : effectiveWeight[u] \in Positive
  PROVE  \A u \in DOMAIN upstreams : walk[h].res <= effectiveWeight[u]
  <1>1. PICK g : g = walk[h].res
    OBVIOUS
  <1>2. g \in Positive /\ (g % g = 0 <=> Common(g, Len(upstreams)))
    BY <1>1 DEF GcdSeqInv, GcdInv
  <1>3. g % g = 0
    BY <1>2 DEF Positive
  <1>4. \A u \in DOMAIN upstreams : effectiveWeight[u] % g = 0
    BY <1>2, <1>3 DEF Common, TypeOK
  <1> QED
    BY <1>1, <1>2, <1>4, DivisorBound

\* The decrease leaves some weight that makes currentWeight positive again.
LEMMA DecreaseRaisable ==
  ASSUME Undisturbed, UnequalWeights, TypeOK, LVSIndInv, WeightClamped, GcdSeqInv, PanicInv,
         NEW h \in Handlers, Decrease(h)
  PROVE  \E u \in DOMAIN upstreams : (currentWeight - walk[h].res) + effectiveWeight[u] > 0
  <1>1. InGet(h, "decrease") /\ walk[h].at = "decrease" /\ pc[h] = "idle" /\ phase = "serving"
    BY DEF Decrease, InGet
  <1>2. PICK g : g = walk[h].res
    OBVIOUS
  <1>3. \A u \in DOMAIN upstreams : effectiveWeight[u] \in Positive
    BY <1>1, WeightsPositive DEF GcdSeqInv
  <1>4. g \in Int /\ currentWeight \in Int /\ \A u \in DOMAIN upstreams : effectiveWeight[u] \in Int /\ g <= effectiveWeight[u]
    <2>1. g \in Int /\ currentWeight \in Int
      BY <1>2 DEF LVSIndInv, WalkType
    <2>2. \A u \in DOMAIN upstreams : effectiveWeight[u] \in Int
      BY <1>3 DEF Positive
    <2> QED
      BY <1>1, <1>2, <1>3, <2>1, <2>2, GcdBound
  <1>5. Len(upstreams) > 1 /\ Len(config.entries) = Len(upstreams) /\ config \in Configs
    BY <1>1, InsideGet DEF TypeOK, PanicInv, AddedInv
  <1>6. DOMAIN config.entries = DOMAIN upstreams /\ 1 \in DOMAIN upstreams
    BY <1>5, ConfigsAssumption DEF TypeOK, Config
  <1>7. currentWeight >= 0 /\ FirstInv(h, walk[h], currentWeight, lastChoose)
    BY <1>1 DEF PanicInv, CurrentInv, Raising
  <1>8. CASE currentWeight > 0
    <2>1. (currentWeight - g) + effectiveWeight[1] > 0
      BY <1>4, <1>6, <1>8
    <2> QED
      BY <1>2, <1>6, <2>1
  <1>9. CASE currentWeight = 0
    <2>1. \A u \in DOMAIN upstreams : effectiveWeight[u] = config.entries[u].weight
      BY <1>1, <1>5, <1>7, <1>9 DEF FirstInv, Raising, PanicInv, AddedInv
    <2>2. PICK u \in DOMAIN upstreams, v \in DOMAIN upstreams : effectiveWeight[u] # effectiveWeight[v]
      BY <1>5, <1>6, <2>1 DEF UnequalWeights
    <2>3. effectiveWeight[u] > g \/ effectiveWeight[v] > g
      BY <1>4, <2>2
    <2>4. (currentWeight - g) + effectiveWeight[u] > 0 \/ (currentWeight - g) + effectiveWeight[v] > 0
      BY <1>4, <1>9, <2>3
    <2> QED
      BY <1>2, <2>4
  <1> QED
    BY <1>4, <1>7, <1>8, <1>9

\* An iteration of maxWeight.
LEMMA MaxIteratePanic ==
  ASSUME Undisturbed, TypeOK, LVSIndInv, PanicInv, NEW h \in Handlers, MaxIterate(h)
  PROVE  PanicInv'
  <1> DEFINE v == walk[h]
  <1>1. v \in WalkType /\ WalkInv(v) /\ CurrentInv(v, currentWeight) /\ v.at = "max"
    BY DEF LVSIndInv, PanicInv, MaxIterate, InGet
  <1>2. PICK n \in Nat : n = Len(upstreams) /\ DOMAIN upstreams = 1..n /\ \A u \in 1..n : effectiveWeight[u] \in Int
    BY DEF TypeOK
  <1>3. PICK i \in Nat : i = v.i /\ i < n
    BY <1>1, <1>2 DEF WalkInv, WalkType
  <1>4. PICK e \in Int : e = effectiveWeight[i + 1]
    BY <1>2, <1>3
  <1>5. v.res \in Int /\ currentWeight \in Int
    BY <1>1 DEF WalkType, LVSIndInv
  <1>6. PICK r \in Int : r = IF e > v.res THEN e ELSE v.res
    BY <1>5
  <1>7. PICK a : a = IF i + 1 < n THEN "max" ELSE "increase"
    OBVIOUS
  <1>8. PICK w : w = [v EXCEPT !.res = r, !.i = i + 1, !.at = a]
    OBVIOUS
  <1>9. Walk(h, w) /\ UNCHANGED <<vars, lastChoose, currentWeight>>
    BY <1>1, <1>2, <1>3, <1>4, <1>6, <1>7, <1>8 DEF MaxIterate, EffectiveWeight
  <1>10. w.at = a /\ w.i = i + 1 /\ w.res = r
    BY <1>1, <1>8 DEF WalkType
  <1>11. \A u \in 1..(i + 1) : effectiveWeight[u] <= r
    <2>1. \A u \in 1..i : effectiveWeight[u] <= v.res /\ effectiveWeight[u] \in Int
      BY <1>1, <1>2, <1>3 DEF CurrentInv
    <2>2. v.res <= r /\ e <= r
      BY <1>5, <1>6
    <2>3. \A u \in 1..(i + 1) : u \in 1..i \/ u = i + 1
      OBVIOUS
    <2> QED
      BY <1>4, <1>5, <2>1, <2>2, <2>3
  <1>12. PICK u \in 1..n : currentWeight + effectiveWeight[u] > 0
    BY <1>1, <1>2 DEF CurrentInv
  <1>13. CurrentInv(w, currentWeight)
    <2>1. CASE i + 1 < n
      BY <1>2, <1>7, <1>10, <1>11, <1>12, <2>1 DEF CurrentInv, Deciding, Raising
    <2>2. CASE ~(i + 1 < n)
      <3>1. effectiveWeight[u] <= r
        BY <1>3, <1>11, <2>2
      <3>2. currentWeight + r > 0
        BY <1>2, <1>5, <1>12, <3>1
      <3> QED
        BY <1>7, <1>10, <2>2, <3>2 DEF CurrentInv, Deciding, Raising
    <2> QED
      BY <2>1, <2>2
  <1>14. FirstInv(h, w, currentWeight, lastChoose)
    BY <1>7, <1>10 DEF FirstInv, Raising
  <1> QED
    BY <1>9, <1>13, <1>14, WalkOnPanic

\* The steps of gcdWeight leave currentWeight and lastChoose alone.
LEMMA GcdStepsPanic ==
  ASSUME Undisturbed, TypeOK, LVSIndInv, PanicInv, NEW h \in Handlers,
         GcdFirst(h) \/ GcdOperand(h) \/ GcdIterate(h)
  PROVE  PanicInv'
  <1> DEFINE v == walk[h]
  <1>1. /\ v \in WalkType /\ CurrentInv(v, currentWeight) /\ v.at \in {"gcdFirst", "gcdOperand", "gcd"}
        /\ FirstInv(h, v, currentWeight, lastChoose) /\ UNCHANGED <<vars, lastChoose, currentWeight>>
    BY DEF LVSIndInv, PanicInv, GcdFirst, GcdOperand, GcdIterate, InGet
  <1>2. \E w : Walk(h, w) /\ w.at \in {"gcdOperand", "gcd", "decrease"}
    <2>1. CASE GcdFirst(h)
      <3>1. PICK w : w = [v EXCEPT !.at = "gcdOperand", !.x = EffectiveWeight(0)]
        OBVIOUS
      <3>2. Walk(h, w) /\ w.at = "gcdOperand"
        BY <1>1, <2>1, <3>1 DEF GcdFirst, WalkType
      <3> QED
        BY <3>2
    <2>2. CASE GcdOperand(h)
      <3>1. PICK w : w = [v EXCEPT !.at = "gcd", !.y = EffectiveWeight(v.i)]
        OBVIOUS
      <3>2. Walk(h, w) /\ w.at = "gcd"
        BY <1>1, <2>2, <3>1 DEF GcdOperand, WalkType
      <3> QED
        BY <3>2
    <2>3. CASE GcdIterate(h)
      <3>1. PICK x : x = Larger(v)
        OBVIOUS
      <3>2. PICK y : y = Smaller(v)
        OBVIOUS
      <3>3. PICK w : w = GcdLoop(v, x, y)
        OBVIOUS
      <3>4. Walk(h, w) /\ v.at = "gcd"
        BY <2>3, <3>1, <3>2, <3>3 DEF GcdIterate, InGet
      <3>5. PICK r : r = Rem(x, y)
        OBVIOUS
      <3>6. PICK z : z = 0
        OBVIOUS
      <3>7. \/ w = [v EXCEPT !.x = r, !.y = y]
            \/ w = [v EXCEPT !.at = "gcdOperand", !.i = @ + 1, !.x = y, !.y = z]
            \/ w = [Fresh EXCEPT !.at = "decrease", !.res = y]
        BY <3>3, <3>5, <3>6 DEF GcdLoop
      <3>8. [v EXCEPT !.x = r, !.y = y].at = v.at
        BY <1>1 DEF WalkType
      <3>9. [v EXCEPT !.at = "gcdOperand", !.i = @ + 1, !.x = y, !.y = z].at = "gcdOperand"
        BY <1>1 DEF WalkType
      <3>10. [Fresh EXCEPT !.at = "decrease", !.res = y].at = "decrease"
        BY FreshFields
      <3>11. w.at \in {"gcdOperand", "gcd", "decrease"}
        <4>1. CASE w = [v EXCEPT !.x = r, !.y = y]
          BY <3>4, <3>8, <4>1
        <4>2. CASE w = [v EXCEPT !.at = "gcdOperand", !.i = @ + 1, !.x = y, !.y = z]
          BY <3>9, <4>2
        <4>3. CASE w = [Fresh EXCEPT !.at = "decrease", !.res = y]
          BY <3>10, <4>3
        <4> QED
          BY <3>7, <4>1, <4>2, <4>3
      <3> QED
        BY <3>4, <3>11
    <2> QED
      BY <2>1, <2>2, <2>3
  <1>3. PICK w : Walk(h, w) /\ w.at \in {"gcdOperand", "gcd", "decrease"}
    BY <1>2
  <1>4. CurrentInv(w, currentWeight)
    BY <1>1, <1>3 DEF CurrentInv, Deciding, Raising
  <1>5. FirstInv(h, w, currentWeight, lastChoose)
    BY <1>1, <1>3 DEF FirstInv, Raising
  <1> QED
    BY <1>1, <1>3, <1>4, <1>5, WalkOnPanic

LEMMA GetStepPanic ==
  ASSUME Undisturbed, UnequalWeights, TypeOK, LVSIndInv, WeightClamped, GcdSeqInv, PanicInv,
         NEW h \in Handlers, GetStep(h)
  PROVE  PanicInv'
  <1> DEFINE v == walk[h]
             c == currentWeight
  <1>1. v \in WalkType /\ WalkInv(v) /\ CurrentInv(v, c) /\ FirstInv(h, v, c, lastChoose)
    BY DEF LVSIndInv, PanicInv
  <1>2. v.res \in Int /\ c \in Int /\ lastChoose \in Int
    BY <1>1 DEF WalkType, LVSIndInv
  <1>3. PICK n \in Nat : n = Len(upstreams) /\ (phase = "serving" => n = Len(config.entries))
    BY DEF TypeOK, PanicInv, AddedInv
  <1>4. ASSUME NEW at, InGet(h, at) PROVE v.at = at /\ n = Len(config.entries) /\ (at # "call" => n > 1)
    BY <1>3, <1>4, InsideGet DEF InGet
  <1>5. CASE LoadLast(h)
    <2>1. PICK w : w = [Fresh EXCEPT !.at = "storeLast", !.res = lastChoose]
      OBVIOUS
    <2>2. /\ Walk(h, w) /\ w.at = "storeLast" /\ w.res = lastChoose /\ v.at \in {"call", "again"}
          /\ UNCHANGED <<vars, lastChoose, currentWeight>>
      BY <1>5, <2>1, FreshFields DEF LoadLast, InGet
    <2>3. CurrentInv(w, c)
      BY <1>1, <2>2 DEF CurrentInv, Deciding, Raising
    <2>4. FirstInv(h, w, c, lastChoose)
      <3>1. v.at = "again" => c > 0
        BY <1>1 DEF CurrentInv, Deciding
      <3> QED
        BY <1>1, <1>2, <2>2, <3>1 DEF FirstInv, Raising
    <2> QED
      BY <2>2, <2>3, <2>4, WalkOnPanic
  <1>6. CASE StoreLast(h)
    <2>1. PICK w : w = [Fresh EXCEPT !.at = "testLast"]
      OBVIOUS
    <2>2. Walk(h, w) /\ w.at = "testLast" /\ InGet(h, "storeLast") /\ UNCHANGED <<vars, currentWeight>>
      BY <1>6, <2>1, FreshFields DEF StoreLast
    <2>3. v.at = "storeLast" /\ n > 1
      BY <1>4, <2>2
    <2>4. CurrentInv(w, c)
      BY <1>1, <2>2, <2>3 DEF CurrentInv, Deciding, Raising
    <2>5. v.res = -1 => lastChoose' = 0
      <3>1. ASSUME v.res = -1 PROVE (v.res + 1) % n = 0
        BY <2>3, <3>1
      <3> QED
        BY <1>3, <1>6, <3>1 DEF StoreLast
    <2>6. FirstInv(h, w, c, lastChoose')
      BY <1>1, <2>2, <2>3, <2>5 DEF FirstInv, Raising
    <2> QED
      BY <2>2, <2>4, <2>6, WalkOnPanic
  <1>7. CASE TestLast(h)
    <2>1. PICK a : a = IF lastChoose = 0 THEN "gcdFirst" ELSE "index"
      OBVIOUS
    <2>2. PICK w : w = [Fresh EXCEPT !.at = a]
      OBVIOUS
    <2>3. Walk(h, w) /\ w.at = a /\ InGet(h, "testLast") /\ UNCHANGED <<vars, lastChoose, currentWeight>>
      BY <1>7, <2>1, <2>2, FreshFields DEF TestLast
    <2>4. v.at = "testLast" /\ n > 1 /\ n = Len(config.entries)
      BY <1>4, <2>3
    <2>5. c >= 0
      BY <1>1, <2>4 DEF CurrentInv, Raising
    <2>6. c = 0 => lastChoose = 0
      BY <1>1, <2>4 DEF FirstInv, Raising
    <2>7. CASE lastChoose = 0
      <3>1. w.at = "gcdFirst"
        BY <2>1, <2>3, <2>7
      <3>2. CurrentInv(w, c)
        BY <2>5, <3>1 DEF CurrentInv, Deciding, Raising
      <3>3. FirstInv(h, w, c, lastChoose)
        BY <1>1, <2>4, <3>1 DEF FirstInv, Raising
      <3> QED
        BY <2>3, <3>2, <3>3, WalkOnPanic
    <2>8. CASE lastChoose # 0
      <3>1. w.at = "index" /\ c > 0
        BY <1>2, <2>1, <2>3, <2>5, <2>6, <2>8
      <3>2. CurrentInv(w, c) /\ FirstInv(h, w, c, lastChoose)
        BY <1>2, <3>1, PositiveSuffices DEF Deciding
      <3> QED
        BY <2>3, <3>2, WalkOnPanic
    <2> QED
      BY <2>7, <2>8
  <1>8. CASE Decrease(h)
    <2>1. PICK w : w = [Fresh EXCEPT !.at = "testCurrent"]
      OBVIOUS
    <2>2. Walk(h, w) /\ w.at = "testCurrent" /\ UNCHANGED <<vars, lastChoose>> /\ currentWeight' = c - v.res
      BY <1>8, <2>1, FreshFields DEF Decrease
    <2>3. CurrentInv(w, c - v.res)
      BY <1>8, <2>2, DecreaseRaisable DEF CurrentInv, Deciding, Raising
    <2>4. FirstInv(h, w, c - v.res, lastChoose)
      BY <2>2 DEF FirstInv, Raising
    <2> QED
      BY <2>2, <2>3, <2>4, WalkOnPanic
  <1>9. CASE TestCurrent(h)
    <2>1. PICK a : a = IF c <= 0 THEN "max" ELSE "index"
      OBVIOUS
    <2>2. PICK w : w = [Fresh EXCEPT !.at = a]
      OBVIOUS
    <2>3. Walk(h, w) /\ w.at = a /\ w.i = 0 /\ v.at = "testCurrent" /\ UNCHANGED <<vars, lastChoose, currentWeight>>
      BY <1>9, <2>1, <2>2, FreshFields DEF TestCurrent, InGet
    <2>4. CASE c <= 0
      <3>1. w.at = "max" /\ 1..w.i = {}
        BY <2>1, <2>3, <2>4
      <3>2. CurrentInv(w, c)
        BY <1>1, <2>3, <3>1 DEF CurrentInv, Deciding, Raising
      <3>3. FirstInv(h, w, c, lastChoose)
        BY <3>1 DEF FirstInv, Raising
      <3> QED
        BY <2>3, <3>2, <3>3, WalkOnPanic
    <2>5. CASE ~(c <= 0)
      <3>1. w.at = "index" /\ c > 0
        BY <1>2, <2>1, <2>3, <2>5
      <3>2. CurrentInv(w, c) /\ FirstInv(h, w, c, lastChoose)
        BY <1>2, <3>1, PositiveSuffices DEF Deciding
      <3> QED
        BY <2>3, <3>2, WalkOnPanic
    <2> QED
      BY <2>4, <2>5
  <1>10. CASE Increase(h)
    <2>1. PICK w : w = [Fresh EXCEPT !.at = "testZero"]
      OBVIOUS
    <2>2. /\ Walk(h, w) /\ w.at = "testZero" /\ v.at = "increase"
          /\ UNCHANGED <<vars, lastChoose>> /\ currentWeight' = c + v.res
      BY <1>10, <2>1, FreshFields DEF Increase, InGet
    <2>3. c + v.res \in Int /\ c + v.res > 0
      BY <1>1, <1>2, <2>2 DEF CurrentInv
    <2>4. CurrentInv(w, c + v.res) /\ FirstInv(h, w, c + v.res, lastChoose)
      BY <2>2, <2>3, PositiveSuffices
    <2> QED
      BY <2>2, <2>4, WalkOnPanic
  <1>11. CASE TestZero(h) \/ LoadIndex(h) \/ LoadEffective(h) \/ Compare(h)
    <2>1. v.at \in Deciding \cup {"testZero"} /\ UNCHANGED <<vars, lastChoose, currentWeight>>
      BY <1>11 DEF TestZero, LoadIndex, LoadEffective, Compare, InGet, Deciding
    <2>2. c > 0
      BY <1>1, <2>1 DEF CurrentInv
    <2>3. PICK a \in Deciding : \E i, r : \/ Walk(h, [Fresh EXCEPT !.at = a])
                                         \/ Walk(h, [Fresh EXCEPT !.at = a, !.i = i])
                                         \/ Walk(h, [Fresh EXCEPT !.at = a, !.res = r])
      <3>1. CASE TestZero(h)
        BY <3>1 DEF TestZero, Deciding
      <3>2. CASE LoadIndex(h)
        BY <3>2 DEF LoadIndex, Deciding
      <3>3. CASE LoadEffective(h)
        BY <3>3 DEF LoadEffective, Deciding
      <3>4. CASE Compare(h)
        <4>1. PICK a : a = IF v.res >= c THEN "return" ELSE "again"
          OBVIOUS
        <4>2. a \in Deciding /\ Walk(h, [Fresh EXCEPT !.at = a])
          BY <3>4, <4>1 DEF Compare, Deciding
        <4> QED
          BY <4>2
      <3> QED
        BY <1>11, <3>1, <3>2, <3>3, <3>4
    <2>4. PICK w : Walk(h, w) /\ w.at = a
      <3>1. PICK i, r : \/ Walk(h, [Fresh EXCEPT !.at = a])
                        \/ Walk(h, [Fresh EXCEPT !.at = a, !.i = i])
                        \/ Walk(h, [Fresh EXCEPT !.at = a, !.res = r])
        BY <2>3
      <3> QED
        BY <3>1, FreshFields
    <2>5. CurrentInv(w, c) /\ FirstInv(h, w, c, lastChoose)
      BY <1>2, <2>2, <2>3, <2>4, PositiveSuffices
    <2> QED
      BY <2>1, <2>4, <2>5, WalkOnPanic
  <1>12. CASE Return(h)
    <2>1. v.at = "return" /\ Walk(h, Fresh) /\ Got(h, lastChoose + 1) /\ UNCHANGED <<lastChoose, currentWeight>>
      BY <1>12 DEF Return, InGet
    <2>2. c > 0 /\ Fresh.at = "call"
      BY <1>1, <2>1 DEF CurrentInv, Deciding, Fresh
    <2>3. \A g \in Handlers : walk'[g] = Fresh
      BY <2>1 DEF Walk, LVSIndInv, Undisturbed
    <2>4. UNCHANGED <<config, phase, upstreams, effectiveWeight>>
      BY <2>1 DEF Got
    <2>5. AddedInv'
      BY <2>4 DEF PanicInv, AddedInv
    <2>6. ASSUME NEW g \in Handlers
          PROVE  CurrentInv(Fresh, currentWeight)' /\ FirstInv(g, Fresh, currentWeight, lastChoose)'
      BY <1>2, <2>1, <2>2 DEF CurrentInv, FirstInv, Deciding, Raising
    <2> QED
      BY <2>3, <2>5, <2>6 DEF PanicInv
  <1>13. CASE GetOnly(h)
    <2>1. UNCHANGED <<config, phase, upstreams, effectiveWeight, lastChoose, currentWeight, walk>>
      BY <1>13 DEF GetOnly, Got, getVars
    <2>2. n = 1 /\ n = Len(config.entries)
      BY <1>3, <1>13 DEF GetOnly, InGet
    <2>3. ~(Len(config.entries) > 1)
      <3>1. ~(n > 1)
        BY <2>2
      <3> QED
        BY <2>2, <3>1
    <2> QED
      BY <2>1, <2>3 DEF PanicInv, AddedInv, CurrentInv, FirstInv
  <1>14. CASE GcdPanics(h)
    <2>1. v.at = "gcd" /\ Smaller(v) = 0
      BY <1>14 DEF GcdPanics, InGet
    <2>2. v.x \in Positive /\ v.y \in Positive
      BY <2>1 DEF GcdSeqInv, GcdInv
    <2> QED
      BY <2>1, <2>2 DEF Smaller, Positive
  <1>15. CASE ZeroPanics(h)
    <2>1. v.at = "testZero" /\ c = 0
      BY <1>15 DEF ZeroPanics, InGet
    <2> QED
      BY <1>1, <2>1 DEF CurrentInv
  <1>16. CASE MaxIterate(h)
    BY <1>16, MaxIteratePanic
  <1>17. CASE GcdFirst(h) \/ GcdOperand(h) \/ GcdIterate(h)
    BY <1>17, GcdStepsPanic
  <1> QED
    BY <1>5, <1>6, <1>7, <1>8, <1>9, <1>10, <1>11, <1>12, <1>13, <1>14, <1>15, <1>16, <1>17 DEF GetStep

(***************************************************************************)
(* GetDoesNotPanic, one query at a time: with two upstreams of different   *)
(* weight (or only one upstream) LVSWRRSelector.Get neither divides by     *)
(* zero in gcd nor runs into panic("current weight is 0"), for any number  *)
(* of upstreams, whatever their weights and whatever is reported, even     *)
(* when reports make all the effective weights equal later on.  Equal      *)
(* weights, which the hypothesis excludes, are the case where it panics.   *)
(***************************************************************************)
THEOREM UnequalWeightsDoNotPanic ==
  ASSUME Undisturbed, UnequalWeights
  PROVE  LVSSafetySpec => []GetDoesNotPanic
  <1>1. LVSInit => PanicInv
    BY PanicInit
  <1>2. TypeOK /\ WeightClamped /\ LVSIndInv /\ GcdSeqInv /\ PanicInv /\ [LVSNext]_lvsVars => PanicInv'
    <2> SUFFICES ASSUME TypeOK, WeightClamped, LVSIndInv, GcdSeqInv, PanicInv, [LVSNext]_lvsVars
                 PROVE  PanicInv'
      OBVIOUS
    <2>1. CASE UNCHANGED lvsVars
      BY <2>1, OtherStepPanic DEF lvsVars
    <2> QED
      BY <2>1, GetStepPanic, OtherStepPanic DEF LVSNext
  <1>3. PanicInv => GetDoesNotPanic
    BY DEF PanicInv, AddedInv, GetDoesNotPanic
  <1> QED
    BY <1>1, <1>2, <1>3, LVSWeightClamped, LVSInductive, GcdInvariant, PTL DEF LVSSafetySpec

(***************************************************************************)
(* One query at a time, and with two upstreams of different weight (or     *)
(* only one), LVSWRRSelector is a Selector without reservation: each Get   *)
(* returns one of the configured upstreams, disturbs no effectiveWeight,   *)
(* and the crash that SelectsUntilPanic allows never comes.                *)
(***************************************************************************)
THEOREM LVSImplementsSelector ==
  ASSUME Undisturbed, UnequalWeights
  PROVE  LVSSafetySpec => SafetySpec
  <1>1. LVSInit => Init
    BY DEF LVSInit
  <1>2. TypeOK /\ LVSIndInv /\ GetDoesNotPanic' /\ [LVSNext]_lvsVars => [Next]_vars
    <2> SUFFICES ASSUME TypeOK, LVSIndInv, GetDoesNotPanic', [LVSNext]_lvsVars
                 PROVE  [Next]_vars
      OBVIOUS
    <2>1. [Next \/ Crash]_vars
      BY LVSStep
    <2>2. ~Crash
      BY DEF Crash, GetDoesNotPanic
    <2> QED
      BY <2>1, <2>2
  <1>3. LVSSafetySpec => []GetDoesNotPanic
    BY UnequalWeightsDoNotPanic
  <1> QED
    BY <1>1, <1>2, <1>3, LVSInductive, PTL DEF LVSSafetySpec, SafetySpec
===============================================================================
