---------------------------- MODULE NginxWRRProofs ----------------------------
(***************************************************************************)
(* NginxWRR implements Selector, so that what is proved of the interface   *)
(* holds of the lock-free smooth weighted round robin; its indexes stay in *)
(* range, and concurrent calls of Get lose no weight.                      *)
(***************************************************************************)
EXTENDS NginxWRR, SelectorProofs, WellFoundedInduction

-------------------------------------------------------------------------------
(***************************************************************************)
(* Sums over finite sets, which SumFunction defines by recursion over      *)
(* subsets.  The library's induction theorems take a predicate; here a     *)
(* set stands for it.                                                      *)
(***************************************************************************)

\* A nonempty set of numbers has a least one.
LEMMA LeastNumber ==
  ASSUME NEW S \in SUBSET Nat, S # {}
  PROVE  \E n \in S : \A m \in S : n <= m
  <1> DEFINE less == OpToRel(<, Nat)
  <1>1. PICK n \in S : \A m \in S : ~(<<m, n>> \in less)
    <2> HIDE DEF less
    <2>1. IsWellFoundedOn(less, Nat)
      BY NatLessThanWellFounded DEF less
    <2> QED
      BY <2>1, WFMin
  <1>2. \A m \in S : m < n => <<m, n>> \in less
    <2>1. less = {ss \in Nat \X Nat : ss[1] < ss[2]}
      BY DEF OpToRel
    <2> QED
      BY <2>1
  <1> HIDE DEF less
  <1>3. \A m \in S : ~(m < n)
    BY <1>1, <1>2
  <1>4. n \in S /\ \A m \in S : n <= m
    BY <1>3
  <1> QED
    BY <1>4

\* Induction over the subsets of a finite set: a set T of them that has every
\* subset whose smaller subsets it has, has them all.
LEMMA SubsetInduction ==
  ASSUME NEW D, IsFiniteSet(D), NEW T,
         \A s \in SUBSET D : (\A t \in SUBSET s : t # s => t \in T) => s \in T
  PROVE  D \in T
  <1> SUFFICES ASSUME D \notin T PROVE FALSE
    OBVIOUS
  <1> DEFINE Bad == {s \in SUBSET D : s \notin T}
             S == {Cardinality(s) : s \in Bad}
  <1>1. \A s \in SUBSET D : IsFiniteSet(s) /\ Cardinality(s) \in Nat
    BY FS_Subset, FS_CardinalityType
  <1>2. S \in SUBSET Nat /\ S # {}
    BY <1>1
  <1>3. PICK n \in S : \A m \in S : n <= m
    BY <1>2, LeastNumber
  <1>4. PICK s \in Bad : n = Cardinality(s)
    BY <1>3
  <1>5. ASSUME NEW t \in SUBSET s, t # s PROVE t \in T
    <2>1. IsFiniteSet(s) /\ t \in SUBSET D
      BY <1>1, <1>4
    <2>2. Cardinality(t) < Cardinality(s)
      BY <1>5, <2>1, FS_Subset, FS_CardinalityType
    <2>3. t \in Bad => n <= Cardinality(t)
      BY <1>3
    <2> QED
      BY <1>1, <1>4, <2>1, <2>2, <2>3
  <1> QED
    BY <1>4, <1>5

Pick(s) == CHOOSE x \in s : TRUE

IsSum(g, F, D) ==
    F = [s \in SUBSET D |-> IF s = {} THEN 0 ELSE g[Pick(s)] + F[s \ {Pick(s)}]]

LEMMA PickIn == \A s : s # {} => Pick(s) \in s
  BY DEF Pick

\* F without the function constructor.
LEMMA SumEquations ==
  ASSUME NEW D, NEW g, NEW F, IsSum(g, F, D)
  PROVE  /\ F[{}] = 0
         /\ \A s \in SUBSET D : s # {} =>
               /\ Pick(s) \in s /\ s \ {Pick(s)} \in SUBSET D
               /\ F[s] = g[Pick(s)] + F[s \ {Pick(s)}]
  <1>1. \A s \in SUBSET D : F[s] = IF s = {} THEN 0 ELSE g[Pick(s)] + F[s \ {Pick(s)}]
    BY DEF IsSum
  <1>2. {} \in SUBSET D
    OBVIOUS
  <1> QED
    BY <1>1, <1>2, PickIn

\* The sum of a set is determined by the values in it.
LEMMA SumsAgree ==
  ASSUME NEW D, IsFiniteSet(D), NEW A, NEW B, D \subseteq A, D \subseteq B,
         NEW g, NEW h, \A x \in D : g[x] = h[x],
         NEW F, IsSum(g, F, A), NEW G, IsSum(h, G, B)
  PROVE  F[D] = G[D]
  <1> DEFINE T == {s \in SUBSET D : F[s] = G[s]}
  <1>1. ASSUME NEW s \in SUBSET D, \A t \in SUBSET s : t # s => t \in T
        PROVE  s \in T
    <2>0. s \in SUBSET A /\ s \in SUBSET B
      OBVIOUS
    <2>1. CASE s = {}
      <3>1. F[{}] = 0 /\ G[{}] = 0
        BY SumEquations
      <3> QED
        BY <2>1, <3>1
    <2>2. CASE s # {}
      <3> DEFINE r == s \ {Pick(s)}
      <3>1. Pick(s) \in s /\ F[s] = g[Pick(s)] + F[r] /\ G[s] = h[Pick(s)] + G[r]
        BY <2>0, <2>2, SumEquations
      <3>2. F[r] = G[r]
        BY <1>1, <3>1
      <3> QED
        BY <3>1, <3>2
    <2> QED
      BY <2>1, <2>2
  <1> HIDE DEF T
  <1>2. D \in T
    BY <1>1, SubsetInduction
  <1> QED
    BY <1>2 DEF T

\* Every finite set of integers has a sum.
LEMMA SumExists ==
  ASSUME NEW D, IsFiniteSet(D), NEW g \in [D -> Int]
  PROVE  \E F \in [SUBSET D -> Int] : IsSum(g, F, D)
  <1> DEFINE T == {s \in SUBSET D : \E F \in [SUBSET s -> Int] : IsSum(g, F, s)}
  <1>1. ASSUME NEW s \in SUBSET D, \A t \in SUBSET s : t # s => t \in T
        PROVE  s \in T
    <2> DEFINE H(t) == CHOOSE F \in [SUBSET t -> Int] : IsSum(g, F, t)
               r(t) == t \ {Pick(t)}
               F == [t \in SUBSET s |-> IF t = {} THEN 0 ELSE g[Pick(t)] + H(r(t))[r(t)]]
    <2>1. ASSUME NEW t \in SUBSET s, t # s
          PROVE  H(t) \in [SUBSET t -> Int] /\ IsSum(g, H(t), t)
      BY <1>1, <2>1
    <2> HIDE DEF H
    <2>2. ASSUME NEW t \in SUBSET s, t # {}
          PROVE  /\ Pick(t) \in t /\ g[Pick(t)] \in Int
                 /\ r(t) \in SUBSET s /\ r(t) # s /\ r(t) # t /\ H(r(t))[r(t)] \in Int
      <3>1. Pick(t) \in t
        BY <2>2, PickIn
      <3>2. r(t) \in SUBSET s /\ r(t) # s /\ r(t) # t /\ g[Pick(t)] \in Int
        BY <3>1
      <3>3. H(r(t)) \in [SUBSET r(t) -> Int]
        BY <2>1, <3>2
      <3> QED
        BY <3>1, <3>2, <3>3
    <2>3. F \in [SUBSET s -> Int]
      BY <2>2
    <2>4. ASSUME NEW t \in SUBSET s, t # s PROVE F[t] = H(t)[t]
      <3>1. IsSum(g, H(t), t)
        BY <2>1, <2>4
      <3>2. CASE t = {}
        BY <3>1, <3>2, SumEquations
      <3>3. CASE t # {}
        <4>1. r(t) \in SUBSET s /\ r(t) # s /\ IsSum(g, H(r(t)), r(t)) /\ IsFiniteSet(r(t))
          BY <2>1, <2>2, <3>3, FS_Subset
        <4>2. H(t)[t] = g[Pick(t)] + H(t)[r(t)]
          BY <3>1, <3>3, SumEquations
        <4>3. H(t)[r(t)] = H(r(t))[r(t)]
          BY <3>1, <4>1, SumsAgree
        <4> QED
          BY <3>3, <4>2, <4>3
      <3> QED
        BY <3>2, <3>3
    <2>5. IsSum(g, F, s)
      <3>1. ASSUME NEW t \in SUBSET s
            PROVE  F[t] = IF t = {} THEN 0 ELSE g[Pick(t)] + F[t \ {Pick(t)}]
        BY <2>2, <2>4
      <3>2. F = [t \in SUBSET s |-> F[t]]
        BY <2>3
      <3> HIDE DEF F
      <3> QED
        BY <3>1, <3>2 DEF IsSum
    <2> HIDE DEF F
    <2> QED
      BY <2>3, <2>5
  <1> HIDE DEF T
  <1>2. D \in T
    BY <1>1, SubsetInduction
  <1> QED
    BY <1>2 DEF T

LEMMA FoldIsSum ==
  ASSUME NEW D, IsFiniteSet(D), NEW g \in [D -> Int]
  PROVE  \E F \in [SUBSET D -> Int] : IsSum(g, F, D) /\ SumFunction(g) = F[D]
  <1> DEFINE G == CHOOSE S : IsSum(g, S, D)
  <1>1. PICK F \in [SUBSET D -> Int] : IsSum(g, F, D)
    BY SumExists
  <1>2. IsSum(g, G, D)
    BY <1>1
  <1>3. SumFunction(g) = G[D]
    <2>1. DOMAIN g = D
      OBVIOUS
    <2>2. SumFunction(g) = (CHOOSE S : IsSum(g, S, DOMAIN g))[DOMAIN g]
      BY DEF SumFunction, SumFunctionOnSet, FoldFunction, FoldFunctionOnSet, MapThenFoldSet, IsSum, Pick
    <2> QED
      BY <2>1, <2>2
  <1> HIDE DEF G
  <1>4. G[D] = F[D]
    BY <1>1, <1>2, SumsAgree
  <1>5. SumFunction(g) = F[D]
    BY <1>3, <1>4
  <1> QED
    BY <1>1, <1>5

\* F gives the sums of the integers of g over the subsets of a finite set.
SumsOf(g, F, D) ==
    IsFiniteSet(D) /\ g \in [D -> Int] /\ F \in [SUBSET D -> Int] /\ IsSum(g, F, D)

\* The order in which the values are added does not matter.
LEMMA SumWithout ==
  ASSUME NEW D, NEW g, NEW F, SumsOf(g, F, D)
  PROVE  \A u \in D : F[D] = g[u] + F[D \ {u}]
  <1> USE DEF SumsOf
  <1> DEFINE T == {s \in SUBSET D : \A x \in s : F[s] = g[x] + F[s \ {x}]}
  <1>1. ASSUME NEW s \in SUBSET D, \A t \in SUBSET s : t # s => t \in T
        PROVE  s \in T
    <2> SUFFICES ASSUME NEW x \in s PROVE F[s] = g[x] + F[s \ {x}]
      OBVIOUS
    <2> DEFINE y == Pick(s)
               sx == s \ {x}
               sy == s \ {y}
               sxy == s \ {x, y}
    <2>1. y \in s /\ F[s] = g[y] + F[sy]
      BY SumEquations
    <2>2. CASE x = y
      BY <2>1, <2>2
    <2>3. CASE x # y
      <3>1. sx \in T /\ sy \in T
        BY <1>1, <2>1
      <3>2. x \in sy /\ sy \ {x} = sxy /\ y \in sx /\ sx \ {y} = sxy
        BY <2>1, <2>3
      <3>3. F[sy] = g[x] + F[sxy] /\ F[sx] = g[y] + F[sxy]
        BY <3>1, <3>2
      <3>4. F[sxy] \in Int /\ g[x] \in Int /\ g[y] \in Int
        BY <2>1
      <3> QED
        BY <2>1, <3>3, <3>4
    <2> QED
      BY <2>2, <2>3
  <1> HIDE DEF T
  <1>2. D \in T
    BY <1>1, SubsetInduction
  <1> QED
    BY <1>2 DEF T

\* Adding to one value adds to the sum.
LEMMA SumUpdate ==
  ASSUME NEW D, IsFiniteSet(D), NEW g \in [D -> Int], NEW u \in D, NEW v \in Int
  PROVE  /\ SumFunction(g) \in Int
         /\ SumFunction([g EXCEPT ![u] = v]) = SumFunction(g) - g[u] + v
  <1> DEFINE rest == D \ {u}
  <1>0. PICK h : h = [g EXCEPT ![u] = v]
    OBVIOUS
  <1>1. h \in [D -> Int] /\ h[u] = v /\ g[u] \in Int /\ \A x \in rest : h[x] = g[x]
    BY <1>0
  <1>2. PICK F \in [SUBSET D -> Int] : IsSum(g, F, D) /\ SumFunction(g) = F[D]
    BY FoldIsSum
  <1>3. PICK G \in [SUBSET D -> Int] : IsSum(h, G, D) /\ SumFunction(h) = G[D]
    BY <1>1, FoldIsSum
  <1>4. F[D] = g[u] + F[rest] /\ G[D] = v + G[rest]
    <2>1. \A x \in D : F[D] = g[x] + F[D \ {x}]
      <3>1. SumsOf(g, F, D)
        BY <1>2 DEF SumsOf
      <3> QED
        BY <3>1, SumWithout
    <2>2. \A x \in D : G[D] = h[x] + G[D \ {x}]
      <3>1. SumsOf(h, G, D)
        BY <1>1, <1>3 DEF SumsOf
      <3> QED
        BY <1>1, <3>1, SumWithout
    <2> QED
      BY <1>1, <2>1, <2>2
  <1>5. F[rest] = G[rest] /\ F[rest] \in Int /\ F[D] \in Int
    <2>1. IsFiniteSet(rest)
      BY FS_Subset
    <2> QED
      BY <1>1, <1>2, <1>3, <2>1, SumsAgree
  <1>6. SumFunction(g) \in Int
    BY <1>2, <1>5
  <1>7. G[D] = F[D] - g[u] + v
    BY <1>1, <1>4, <1>5
  <1>8. SumFunction(h) = SumFunction(g) - g[u] + v
    BY <1>2, <1>3, <1>7
  <1> QED
    BY <1>0, <1>6, <1>8

\* A new value that is 0 adds nothing.
LEMMA SumExtend ==
  ASSUME NEW D, IsFiniteSet(D), NEW g \in [D -> Int], NEW u, u \notin D,
         NEW h \in [D \cup {u} -> Int], \A x \in D : h[x] = g[x], h[u] = 0
  PROVE  SumFunction(h) = SumFunction(g)
  <1>0. PICK E : E = D \cup {u}
    OBVIOUS
  <1>1. IsFiniteSet(E) /\ E \ {u} = D
    BY <1>0, FS_AddElement
  <1>2. PICK F \in [SUBSET D -> Int] : IsSum(g, F, D) /\ SumFunction(g) = F[D]
    BY FoldIsSum
  <1>3. PICK G \in [SUBSET E -> Int] : IsSum(h, G, E) /\ SumFunction(h) = G[E]
    BY <1>0, <1>1, FoldIsSum
  <1>4. G[E] = h[u] + G[D]
    <2>1. h \in [E -> Int] /\ u \in E
      BY <1>0
    <2>2. \A x \in E : G[E] = h[x] + G[E \ {x}]
      <3>1. SumsOf(h, G, E)
        BY <1>1, <1>3, <2>1 DEF SumsOf
      <3> QED
        BY <2>1, <3>1, SumWithout
    <2> QED
      BY <1>1, <2>1, <2>2
  <1>5. G[D] = F[D] /\ G[D] \in Int
    BY <1>2, <1>3, <1>0, SumsAgree
  <1>6. G[E] = F[D]
    BY <1>4, <1>5
  <1> QED
    BY <1>2, <1>3, <1>6

\* Zeros add up to zero.
LEMMA SumZero ==
  ASSUME NEW D, IsFiniteSet(D), NEW g \in [D -> Int], \A x \in D : g[x] = 0
  PROVE  SumFunction(g) = 0
  <1>1. PICK F \in [SUBSET D -> Int] : IsSum(g, F, D) /\ SumFunction(g) = F[D]
    BY FoldIsSum
  <1> DEFINE T == {s \in SUBSET D : F[s] = 0}
  <1>2. ASSUME NEW s \in SUBSET D, \A t \in SUBSET s : t # s => t \in T
        PROVE  s \in T
    <2>1. CASE s = {}
      BY <1>1, <2>1, SumEquations
    <2>2. CASE s # {}
      <3>1. Pick(s) \in s /\ F[s] = g[Pick(s)] + F[s \ {Pick(s)}]
        BY <1>1, <2>2, SumEquations
      <3>2. F[s \ {Pick(s)}] = 0
        BY <1>2, <3>1
      <3> QED
        BY <3>1, <3>2
    <2> QED
      BY <2>1, <2>2
  <1> HIDE DEF T
  <1>3. D \in T
    BY <1>2, SubsetInduction
  <1> QED
    BY <1>1, <1>3 DEF T

-------------------------------------------------------------------------------
WalkType == [at : {"load", "add", "loadCurrent", "compare", "subtract"},
             i : Nat, ew : Int, ci : Int, total : Int, best : Nat]

\* What the local variables of a call of Get are at each point of it.
WalkInv(w) ==
    /\ w \in WalkType
    /\ w.i \in DOMAIN upstreams \/ w = Fresh
    /\ w.best \in {0} \cup DOMAIN upstreams
    /\ w.at \in {"loadCurrent", "compare", "subtract"} => w.best # 0

\* Get is called only when there are upstreams.
NginxIndInv ==
    /\ phase \in {"serving", "panicked"} => 1 \in DOMAIN upstreams
    /\ currentWeight \in [DOMAIN upstreams -> Int]
    /\ walk \in [Handlers -> WalkType]
    /\ \A h \in Handlers :
          /\ WalkInv(walk[h])
          /\ walk[h] # Fresh => pc[h] = "idle" /\ phase \in {"serving", "panicked"}

LEMMA FreshInv == WalkInv(Fresh) /\ Fresh.total = 0
  BY DEF WalkInv, WalkType, Fresh

LEMMA NginxInitIndInv == NginxInit => NginxIndInv
  <1> SUFFICES ASSUME NginxInit PROVE NginxIndInv
    OBVIOUS
  <1>1. Fresh \in WalkType
    BY FreshInv DEF WalkInv
  <1>2. currentWeight \in [DOMAIN upstreams -> Int]
    BY DEF NginxInit, Init
  <1>3. walk = [h \in Handlers |-> Fresh] /\ phase = "configuring"
    BY DEF NginxInit, Init
  <1> QED
    BY <1>1, <1>2, <1>3, FreshInv DEF NginxIndInv

\* One handler's walk goes on, or comes to its end.
LEMMA WalkOn ==
  ASSUME NginxIndInv, NEW h \in Handlers, NEW w, walk' = [walk EXCEPT ![h] = w], WalkInv(w),
         UNCHANGED <<upstreams, phase>>, phase = "serving",
         currentWeight' \in [DOMAIN upstreams -> Int],
         \A g \in Handlers : g # h => pc'[g] = pc[g],
         w # Fresh => pc'[h] = "idle"
  PROVE  NginxIndInv'
  <1>1. w \in WalkType /\ walk \in [Handlers -> WalkType]
    BY DEF WalkInv, NginxIndInv
  <1>2. walk' \in [Handlers -> WalkType]
    BY <1>1
  <1>3. ASSUME NEW g \in Handlers
        PROVE  /\ WalkInv(walk[g])'
               /\ walk'[g] # Fresh => pc'[g] = "idle" /\ phase' \in {"serving", "panicked"}
    <2>1. CASE g = h
      <3>1. walk'[g] = w
        BY <1>1, <2>1
      <3> QED
        BY <2>1, <3>1 DEF WalkInv
    <2>2. CASE g # h
      <3>1. walk'[g] = walk[g]
        BY <1>1, <2>2
      <3> QED
        BY <2>2, <3>1 DEF WalkInv, NginxIndInv
    <2> QED
      BY <2>1, <2>2
  <1> QED
    BY <1>2, <1>3 DEF NginxIndInv

\* The updates of a call's local variables, field by field.
LEMMA WalkNext ==
  ASSUME NEW w \in WalkType, NEW j \in Nat
  PROVE  LET v == [w EXCEPT !.at = "load", !.i = j]
         IN  /\ v \in WalkType /\ v.i = j /\ v.at = "load"
             /\ v.total = w.total /\ v.best = w.best
  BY DEF WalkType

LEMMA WalkAt ==
  ASSUME NEW w \in WalkType, NEW at \in {"load", "add", "loadCurrent", "compare", "subtract"}
  PROVE  LET v == [w EXCEPT !.at = at]
         IN  /\ v \in WalkType /\ v.at = at
             /\ v.i = w.i /\ v.total = w.total /\ v.best = w.best
  BY DEF WalkType

LEMMA WalkEffective ==
  ASSUME NEW w \in WalkType, NEW e \in Int
  PROVE  LET v == [w EXCEPT !.at = "add", !.ew = e]
         IN  /\ v \in WalkType /\ v.at = "add"
             /\ v.i = w.i /\ v.total = w.total /\ v.best = w.best
  BY DEF WalkType

LEMMA WalkCurrent ==
  ASSUME NEW w \in WalkType, NEW c \in Int
  PROVE  LET v == [w EXCEPT !.at = "compare", !.ci = c]
         IN  /\ v \in WalkType /\ v.at = "compare"
             /\ v.i = w.i /\ v.total = w.total /\ v.best = w.best
  BY DEF WalkType

LEMMA WalkCompared ==
  ASSUME NEW w \in WalkType
  PROVE  LET v == [w EXCEPT !.ci = 0]
         IN  /\ v \in WalkType /\ v.at = w.at
             /\ v.i = w.i /\ v.total = w.total /\ v.best = w.best
  BY DEF WalkType

LEMMA WalkBest ==
  ASSUME NEW w \in WalkType, NEW b \in Nat
  PROVE  LET v == [w EXCEPT !.best = b]
         IN  /\ v \in WalkType /\ v.at = w.at
             /\ v.i = w.i /\ v.total = w.total /\ v.best = b
  BY DEF WalkType

LEMMA UpstreamIndices ==
  ASSUME TypeOK
  PROVE  /\ DOMAIN upstreams = 1..Len(upstreams) /\ Len(upstreams) \in Nat
         /\ IsFiniteSet(DOMAIN upstreams) /\ 0 \notin DOMAIN upstreams
         /\ effectiveWeight \in [DOMAIN upstreams -> Int]
  <1>1. DOMAIN upstreams = 1..Len(upstreams) /\ Len(upstreams) \in Nat
    BY DEF TypeOK
  <1>2. IsFiniteSet(1..Len(upstreams))
    BY <1>1, FS_Interval
  <1>3. effectiveWeight \in [DOMAIN upstreams -> Int]
    BY <1>1 DEF TypeOK
  <1> QED
    BY <1>1, <1>2, <1>3

\* Get moves on to the next upstream, or to its end.
LEMMA AdvanceInv ==
  ASSUME TypeOK, NEW w \in WalkType, w.i \in DOMAIN upstreams, w.best \in DOMAIN upstreams
  PROVE  WalkInv(Advance(w)) /\ Advance(w).total = w.total
  <1>1. DOMAIN upstreams = 1..Len(upstreams) /\ Len(upstreams) \in Nat
    BY UpstreamIndices
  <1>2. CASE w.i < Len(upstreams)
    <2>1. w.i + 1 \in DOMAIN upstreams /\ w.i + 1 \in Nat
      BY <1>1, <1>2
    <2>2. PICK v : v = [w EXCEPT !.at = "load", !.i = w.i + 1]
      OBVIOUS
    <2>3. v \in WalkType /\ v.i = w.i + 1 /\ v.at = "load" /\ v.total = w.total /\ v.best = w.best
      BY <2>1, <2>2, WalkNext
    <2>4. Advance(w) = v
      BY <1>2, <2>2 DEF Advance
    <2> QED
      BY <2>1, <2>3, <2>4 DEF WalkInv
  <1>3. CASE ~(w.i < Len(upstreams))
    <2>1. PICK v : v = [w EXCEPT !.at = "subtract"]
      OBVIOUS
    <2>2. v \in WalkType /\ v.i = w.i /\ v.total = w.total /\ v.best = w.best
      BY <2>1, WalkAt
    <2>3. Advance(w) = v
      BY <1>3, <2>1 DEF Advance
    <2> QED
      BY <1>1, <2>2, <2>3 DEF WalkInv
  <1> QED
    BY <1>2, <1>3

(***************************************************************************)
(* One step of Get: the new local variables of the call, with its total    *)
(* grown by what the step adds to the currentWeight of one upstream.       *)
(***************************************************************************)
GetEffect(h, w, u, d) ==
    /\ walk' = [walk EXCEPT ![h] = w] /\ WalkInv(w)
    /\ u \in DOMAIN upstreams /\ d \in Int
    /\ w.total = walk[h].total + d
    /\ currentWeight' = [currentWeight EXCEPT ![u] = currentWeight[u] + d]
    /\ UNCHANGED <<upstreams, phase>> /\ phase = "serving"
    /\ \A g \in Handlers : g # h => pc'[g] = pc[g]
    /\ w # Fresh => pc'[h] = "idle"

LEMMA GetStepEffect ==
  ASSUME TypeOK, NginxIndInv, NEW h \in Handlers, GetStep(h)
  PROVE  \E w, u, d : GetEffect(h, w, u, d)
  <1> DEFINE l == walk[h]
  <1>1. /\ phase = "serving" /\ pc[h] = "idle" /\ 1 \in DOMAIN upstreams
        /\ l \in WalkType /\ WalkInv(l) /\ walk \in [Handlers -> WalkType]
        /\ currentWeight \in [DOMAIN upstreams -> Int]
        /\ effectiveWeight \in [DOMAIN upstreams -> Int] /\ 0 \notin DOMAIN upstreams
    BY UpstreamIndices
       DEF NginxIndInv, GetStep, LoadEffective, AddCurrent, LoadCurrent, Compare, Subtract, InGet
  <1>2. l.i \in DOMAIN upstreams /\ l.ew \in Int /\ l.total \in Int
    <2>1. Fresh.i = 1
      BY DEF Fresh
    <2> QED
      BY <1>1, <2>1 DEF WalkInv, WalkType
  <1>3. currentWeight = [currentWeight EXCEPT ![1] = currentWeight[1] + 0]
    BY <1>1
  <1>a. CASE LoadEffective(h)
    <2> DEFINE w == [l EXCEPT !.at = "add", !.ew = effectiveWeight[l.i]]
    <2>1. walk' = [walk EXCEPT ![h] = w] /\ UNCHANGED <<vars, currentWeight>>
      BY <1>a, <1>1 DEF LoadEffective
    <2>2. /\ w \in WalkType /\ w.at = "add"
          /\ w.i = l.i /\ w.total = l.total /\ w.best = l.best
      BY <1>1, <1>2, WalkEffective
    <2> HIDE DEF w
    <2>3. WalkInv(w)
      BY <1>1, <1>2, <2>2 DEF WalkInv
    <2>z. GetEffect(h, w, 1, 0)
      BY <1>1, <1>2, <1>3, <2>1, <2>2, <2>3 DEF vars, GetEffect
    <2> QED
      BY <2>z
  <1>b. CASE AddCurrent(h)
    <2>0. PICK v : v = [l EXCEPT !.total = l.total + l.ew, !.ew = 0]
      OBVIOUS
    <2> DEFINE w == IF v.best = 0 THEN Advance([v EXCEPT !.best = v.i])
                    ELSE [v EXCEPT !.at = "loadCurrent"]
    <2>1. /\ walk' = [walk EXCEPT ![h] = w] /\ UNCHANGED vars
          /\ currentWeight' = [currentWeight EXCEPT ![v.i] = @ + l.ew]
      BY <1>b, <2>0 DEF AddCurrent
    <2>2. /\ v \in WalkType /\ v.i = l.i /\ v.best = l.best
          /\ v.total = l.total + l.ew
      <3>1. PICK t \in Int : t = l.total + l.ew
        BY <1>2
      <3>2. PICK m \in WalkType : m = l
        BY <1>1
      <3>3. PICK e \in Int : e = 0
        OBVIOUS
      <3>4. v = [m EXCEPT !.total = t, !.ew = e]
        BY <2>0, <3>1, <3>2, <3>3
      <3>5. v \in WalkType /\ v.i = m.i /\ v.best = m.best /\ v.total = t
        BY <3>4 DEF WalkType
      <3> QED
        BY <3>1, <3>2, <3>5
    <2>3. WalkInv(w) /\ w.total = v.total
      <3>1. CASE v.best = 0
        <4>1. v.i \in Nat
          BY <2>2 DEF WalkType
        <4>2. PICK b : b = [v EXCEPT !.best = v.i]
          OBVIOUS
        <4>3. b \in WalkType /\ b.i = v.i /\ b.best = v.i /\ b.total = v.total
          BY <2>2, <4>1, <4>2, WalkBest
        <4>4. w = Advance(b)
          BY <3>1, <4>2
        <4> HIDE DEF w
        <4> QED
          BY <1>2, <2>2, <4>3, <4>4, AdvanceInv
      <3>2. CASE v.best # 0
        <4>1. w = [v EXCEPT !.at = "loadCurrent"]
          BY <3>2
        <4> HIDE DEF w
        <4>2. w \in WalkType /\ w.i = v.i /\ w.best = v.best /\ w.total = v.total
          BY <2>2, <4>1, WalkAt
        <4> QED
          BY <1>1, <1>2, <2>2, <3>2, <4>2 DEF WalkInv
      <3> QED
        BY <3>1, <3>2
    <2> HIDE DEF w
    <2>4. currentWeight' = [currentWeight EXCEPT ![l.i] = currentWeight[l.i] + l.ew]
      BY <2>1, <2>2
    <2>5. w.total = l.total + l.ew
      BY <2>2, <2>3
    <2>z. GetEffect(h, w, l.i, l.ew)
      BY <1>1, <1>2, <2>1, <2>3, <2>4, <2>5 DEF vars, GetEffect
    <2> QED
      BY <2>z
  <1>c. CASE LoadCurrent(h)
    <2> DEFINE w == [l EXCEPT !.at = "compare", !.ci = currentWeight[l.i]]
    <2>1. walk' = [walk EXCEPT ![h] = w] /\ UNCHANGED <<vars, currentWeight>>
      BY <1>c, <1>1 DEF LoadCurrent
    <2>2. /\ w \in WalkType /\ w.at = "compare"
          /\ w.i = l.i /\ w.total = l.total /\ w.best = l.best
      BY <1>1, <1>2, WalkCurrent
    <2>3. l.best # 0 /\ l.best \in DOMAIN upstreams
      BY <1>c, <1>1 DEF LoadCurrent, InGet, WalkInv
    <2> HIDE DEF w
    <2>4. WalkInv(w)
      BY <1>1, <1>2, <2>2, <2>3 DEF WalkInv
    <2>z. GetEffect(h, w, 1, 0)
      BY <1>1, <1>2, <1>3, <2>1, <2>2, <2>4 DEF vars, GetEffect
    <2> QED
      BY <2>z
  <1>d. CASE Compare(h)
    <2> DEFINE v == [l EXCEPT !.ci = 0]
               b == IF l.ci > currentWeight[v.best] THEN [v EXCEPT !.best = v.i] ELSE v
    <2>1. walk' = [walk EXCEPT ![h] = Advance(b)] /\ UNCHANGED <<vars, currentWeight>>
      BY <1>d DEF Compare
    <2>2. v \in WalkType /\ v.i = l.i /\ v.best = l.best /\ v.total = l.total
      BY <1>1, WalkCompared
    <2>3. l.best # 0 /\ l.best \in DOMAIN upstreams
      BY <1>d, <1>1 DEF Compare, InGet, WalkInv
    <2> HIDE DEF v
    <2>4. /\ b \in WalkType /\ b.i = l.i /\ b.best \in DOMAIN upstreams
          /\ b.total = l.total
      <3>1. v.i \in Nat
        BY <2>2 DEF WalkType
      <3>2. PICK c : c = [v EXCEPT !.best = v.i]
        OBVIOUS
      <3>3. c \in WalkType /\ c.i = v.i /\ c.best = v.i /\ c.total = v.total
        BY <2>2, <3>1, <3>2, WalkBest
      <3>4. b = c \/ b = v
        BY <3>2
      <3> HIDE DEF b
      <3> QED
        BY <1>2, <2>2, <2>3, <3>3, <3>4
    <2> HIDE DEF b
    <2>5. WalkInv(Advance(b)) /\ Advance(b).total = l.total + 0
      BY <1>2, <2>4, AdvanceInv
    <2>z. GetEffect(h, Advance(b), 1, 0)
      BY <1>1, <1>3, <2>1, <2>5 DEF vars, GetEffect
    <2> QED
      BY <2>z
  <1>e. CASE Subtract(h)
    <2>1. /\ walk' = [walk EXCEPT ![h] = Fresh] /\ Got(h, l.best) /\ l.at = "subtract"
          /\ currentWeight' = [currentWeight EXCEPT ![l.best] = currentWeight[l.best] - l.total]
      BY <1>e DEF Subtract, InGet
    <2>2. /\ l.best \in DOMAIN upstreams /\ UNCHANGED <<upstreams, phase>>
          /\ pc' = [pc EXCEPT ![h] = "query"]
      BY <1>1, <2>1 DEF Got, WalkInv
    <2>3. Fresh.total = l.total + (- l.total) /\ -l.total \in Int
      BY <1>2, FreshInv
    <2>4. currentWeight' = [currentWeight EXCEPT ![l.best] = currentWeight[l.best] + (- l.total)]
      <3>1. currentWeight[l.best] - l.total = currentWeight[l.best] + (- l.total)
        BY <1>1, <1>2, <2>2
      <3> QED
        BY <2>1, <3>1
    <2>5. \A g \in Handlers : g # h => pc'[g] = pc[g]
      BY <2>2 DEF TypeOK
    <2>z. GetEffect(h, Fresh, l.best, - l.total)
      BY <1>1, <2>1, <2>2, <2>3, <2>4, <2>5, FreshInv DEF GetEffect
    <2> QED
      BY <2>z
  <1> QED
    BY <1>a, <1>b, <1>c, <1>d, <1>e DEF GetStep

\* While no Get can be running every call is Fresh.
LEMMA AllFresh ==
  ASSUME NginxIndInv, phase \in {"configuring", "failed"}
  PROVE  \A h \in Handlers : walk[h] = Fresh
  BY DEF NginxIndInv

LEMMA NginxAddInv ==
  ASSUME TypeOK, NginxIndInv, NginxAdd
  PROVE  NginxIndInv'
  <1>1. /\ phase = "configuring" /\ phase' = phase /\ walk' = walk
        /\ currentWeight' = Append(currentWeight, 0)
        /\ upstreams' = Append(upstreams, NewUpstream)
    BY DEF NginxAdd, Add
  <1>2. currentWeight \in Seq(Int) /\ Len(currentWeight) = Len(upstreams)
    BY UpstreamIndices DEF NginxIndInv
  <1>3. currentWeight' \in [DOMAIN upstreams' -> Int]
    <2>1. upstreams \in Seq(Entry)
      BY DEF TypeOK
    <2>2. Len(upstreams') = Len(upstreams) + 1 /\ DOMAIN upstreams' = 1..(Len(upstreams) + 1)
      BY <1>1, <2>1
    <2>3. currentWeight' \in Seq(Int) /\ Len(currentWeight') = Len(upstreams) + 1
      BY <1>1, <1>2
    <2> QED
      BY <2>2, <2>3
  <1>4. \A h \in Handlers : walk'[h] = Fresh
    BY <1>1, AllFresh
  <1>5. WalkInv(Fresh)'
    BY FreshInv DEF WalkInv, Fresh
  <1> QED
    BY <1>1, <1>3, <1>4, <1>5 DEF NginxIndInv

\* Reports, probes and startup leave Get alone; it is called only after Listen.
LEMMA NginxBookkeepingInv ==
  ASSUME TypeOK, NginxIndInv, Bookkeeping, UNCHANGED getVars
  PROVE  NginxIndInv' /\ UNCHANGED upstreams
  <1>1. UNCHANGED <<currentWeight, walk>>
    BY DEF getVars
  <1>2. /\ UNCHANGED upstreams
        /\ \A h \in Handlers : pc[h] = "idle" => pc'[h] = "idle"
        /\ phase \in {"serving", "panicked"} => phase' \in {"serving", "panicked"}
        /\ phase' \in {"serving", "panicked"} => phase \in {"serving", "panicked"} \/ Listen
    <2>1. CASE Begin
      BY <2>1 DEF Begin, AddRefused, Listen, StartEvaluate
    <2>2. ASSUME NEW h \in Handlers, Report(h) \/ ReportStore(h)
          PROVE  UNCHANGED <<upstreams, phase>> /\ \A g \in Handlers : pc[g] = "idle" => pc'[g] = "idle"
      <3>1. PICK x : pc' = [pc EXCEPT ![h] = x] /\ pc[h] # "idle" /\ UNCHANGED <<upstreams, phase>>
        BY <2>2 DEF Report, ReportUpstreamStatus, NoReport, ReportStore
      <3> QED
        BY <3>1 DEF TypeOK
    <2>3. ASSUME NEW u \in Numbers, Probe(u)
          PROVE  /\ UNCHANGED <<upstreams, pc>>
                 /\ phase = "serving" /\ phase' \in {"serving", "panicked"}
      BY <2>3 DEF Probe, ProbeAnswer, ProbeStore, ProbePanics
    <2>4. CASE NextRound \/ Ended
      BY <2>4 DEF NextRound, Ended, vars
    <2> QED
      BY <2>1, <2>2, <2>3, <2>4 DEF Bookkeeping
  <1>3. Listen => 1 \in DOMAIN upstreams
    <2> SUFFICES ASSUME Listen PROVE 1 \in DOMAIN upstreams
      OBVIOUS
    <2>1. config \in Configs /\ Len(upstreams) = Len(config.entries)
      BY DEF Listen, TypeOK
    <2>2. config.entries \in Seq(Entry) /\ config.entries # << >>
      BY <2>1, ConfigsAssumption DEF Config
    <2>3. Len(config.entries) \in Nat /\ Len(config.entries) # 0
      BY <2>2
    <2> QED
      BY <2>1, <2>3, UpstreamIndices
  <1>4. \A h \in Handlers : WalkInv(walk[h])'
    BY <1>1, <1>2 DEF NginxIndInv, WalkInv
  <1>5. (phase \in {"serving", "panicked"} => 1 \in DOMAIN upstreams)'
    BY <1>2, <1>3 DEF NginxIndInv
  <1> QED
    BY <1>1, <1>2, <1>4, <1>5 DEF NginxIndInv

LEMMA NginxGetInv ==
  ASSUME TypeOK, NginxIndInv, NEW h \in Handlers, GetStep(h)
  PROVE  NginxIndInv'
  <1>1. PICK w, u, d : GetEffect(h, w, u, d)
    BY GetStepEffect
  <1>2. currentWeight' \in [DOMAIN upstreams -> Int]
    <2>1. currentWeight \in [DOMAIN upstreams -> Int]
      BY DEF NginxIndInv
    <2>2. currentWeight[u] + d \in Int
      BY <1>1, <2>1 DEF GetEffect
    <2> QED
      BY <1>1, <2>1, <2>2 DEF GetEffect
  <1> QED
    BY <1>1, <1>2, WalkOn DEF GetEffect

LEMMA NginxNextInv ==
  ASSUME TypeOK, NginxIndInv, [NginxNext]_nginxVars
  PROVE  NginxIndInv'
  <1>1. CASE UNCHANGED nginxVars
    <2>1. UNCHANGED <<phase, upstreams, pc, currentWeight, walk>>
      BY <1>1 DEF nginxVars, vars, getVars
    <2> QED
      BY <2>1 DEF NginxIndInv, WalkInv
  <1> QED
    BY <1>1, NginxAddInv, NginxBookkeepingInv, NginxGetInv DEF NginxNext

(***************************************************************************)
(* Only the last step of Get is a step of the interface; the others change *)
(* nothing that it knows of.  That bestUpstreamIndex, which the last step  *)
(* returns whatever it is, is an upstream is what NginxIndInv says of a    *)
(* walk that has come to its end.                                          *)
(***************************************************************************)
LEMMA NginxStep ==
  ASSUME TypeOK, NginxIndInv, [NginxNext]_nginxVars
  PROVE  [Next]_vars
  <1>1. CASE NginxAdd
    BY <1>1 DEF NginxAdd, Next
  <1>2. CASE Bookkeeping
    BY <1>2 DEF Next
  <1>3. ASSUME NEW h \in Handlers, GetStep(h)
        PROVE  [Next]_vars
    <2>1. CASE Subtract(h)
      <3>1. walk[h].best \in DOMAIN upstreams
        BY <2>1 DEF Subtract, InGet, NginxIndInv, WalkInv
      <3>2. Get(h, walk[h].best)
        BY <2>1, <3>1 DEF Subtract, InGet, Get
      <3>3. walk[h].best \in Numbers
        BY <3>1, UpstreamNumbers
      <3> QED
        BY <3>2, <3>3 DEF Next
    <2>2. CASE LoadEffective(h) \/ AddCurrent(h) \/ LoadCurrent(h) \/ Compare(h)
      BY <2>2 DEF LoadEffective, AddCurrent, LoadCurrent, Compare
    <2> QED
      BY <1>3, <2>1, <2>2 DEF GetStep
  <1>4. CASE UNCHANGED nginxVars
    BY <1>4 DEF nginxVars
  <1> QED
    BY <1>1, <1>2, <1>3, <1>4 DEF NginxNext

(***************************************************************************)
(* Get never indexes outside the upstreams: its loop variable and its      *)
(* bestUpstreamIndex are in range wherever they are used, for any          *)
(* interleaving of any number of calls with reports and probes, and a call *)
(* has a best upstream before it compares or subtracts.                    *)
(***************************************************************************)
THEOREM NginxTypeCorrect == NginxSafetySpec => []NginxTypeOK
  <1>1. NginxInit => TypeOK /\ NginxIndInv
    BY NginxInitIndInv, InitTypeOK DEF NginxInit
  <1>2. TypeOK /\ NginxIndInv /\ [NginxNext]_nginxVars => TypeOK' /\ NginxIndInv'
    BY NginxStep, NextTypeOK, NginxNextInv
  <1>3. NginxIndInv => NginxTypeOK
    BY DEF NginxIndInv, NginxTypeOK, WalkInv, WalkType
  <1> QED
    BY <1>1, <1>2, <1>3, PTL DEF NginxSafetySpec

(***************************************************************************)
(* NginxWRRSelector is a Selector: however its calls of Get interleave     *)
(* with each other, with reports and with probes, the index that the       *)
(* comparisons of a walk end with is that of a configured upstream, and no *)
(* step of Get disturbs an effectiveWeight.                                *)
(***************************************************************************)
THEOREM NginxImplementsSelector == NginxSafetySpec => SafetySpec
  <1>1. NginxInit => Init /\ TypeOK /\ NginxIndInv
    BY NginxInitIndInv, InitTypeOK DEF NginxInit
  <1>2. TypeOK /\ NginxIndInv /\ [NginxNext]_nginxVars
          => TypeOK' /\ NginxIndInv' /\ [Next]_vars
    BY NginxStep, NextTypeOK, NginxNextInv
  <1> QED
    BY <1>1, <1>2, PTL DEF NginxSafetySpec, SafetySpec

(***************************************************************************)
(* The effective weights that Get of NginxWRRSelector works with are       *)
(* clamped.                                                                *)
(***************************************************************************)
THEOREM NginxWeightClamped == NginxSafetySpec => []WeightClamped
  BY NginxImplementsSelector, SelectorWeightClamped, PTL

-------------------------------------------------------------------------------
Totals == [h \in Handlers |-> walk[h].total]

LEMMA TotalsType ==
  ASSUME NginxIndInv
  PROVE  Totals \in [Handlers -> Int] /\ \A h \in Handlers : Totals[h] = walk[h].total
  <1>1. \A h \in Handlers : walk[h].total \in Int
    BY DEF NginxIndInv, WalkInv, WalkType
  <1> QED
    BY <1>1 DEF Totals

\* A step of Get adds to a currentWeight what it adds to its total.
LEMMA GetConserves ==
  ASSUME TypeOK, NginxIndInv, Conservation, NEW h \in Handlers, GetStep(h)
  PROVE  Conservation'
  <1>1. PICK w, u, d : GetEffect(h, w, u, d)
    BY GetStepEffect
  <1>2. /\ IsFiniteSet(DOMAIN upstreams) /\ IsFiniteSet(Handlers)
        /\ currentWeight \in [DOMAIN upstreams -> Int]
        /\ Totals \in [Handlers -> Int] /\ walk \in [Handlers -> WalkType]
    BY UpstreamIndices, HandlersAssumption, TotalsType DEF NginxIndInv
  <1>3. /\ u \in DOMAIN upstreams /\ d \in Int
        /\ currentWeight[u] + d \in Int /\ Totals[h] + d \in Int
    BY <1>1, <1>2 DEF GetEffect
  <1>4. SumFunction(currentWeight)' = SumFunction(currentWeight) + d
    <2>1. SumFunction(currentWeight) \in Int
      BY <1>2, <1>3, SumUpdate
    <2>2. SumFunction([currentWeight EXCEPT ![u] = currentWeight[u] + d])
            = SumFunction(currentWeight) - currentWeight[u] + (currentWeight[u] + d)
      BY <1>2, <1>3, SumUpdate
    <2>3. currentWeight[u] \in Int
      BY <1>2, <1>3
    <2>4. currentWeight' = [currentWeight EXCEPT ![u] = currentWeight[u] + d]
      BY <1>1 DEF GetEffect
    <2> QED
      BY <1>3, <2>1, <2>2, <2>3, <2>4
  <1>5. SumFunction(Totals)' = SumFunction(Totals) + d
    <2>1. SumFunction(Totals) \in Int
      BY <1>2, <1>3, SumUpdate
    <2>2. SumFunction([Totals EXCEPT ![h] = Totals[h] + d])
            = SumFunction(Totals) - Totals[h] + (Totals[h] + d)
      BY <1>2, <1>3, SumUpdate
    <2>3. Totals[h] \in Int
      BY <1>2, <1>3
    <2>4. Totals' = [Totals EXCEPT ![h] = Totals[h] + d]
      <3>1. \A g \in Handlers : walk'[g].total = IF g = h THEN Totals[h] + d ELSE Totals[g]
        BY <1>1, <1>2, TotalsType DEF GetEffect
      <3>2. Totals' = [g \in Handlers |-> IF g = h THEN Totals[h] + d ELSE Totals[g]]
        BY <3>1 DEF Totals
      <3> QED
        BY <1>2, <3>2
    <2> QED
      BY <1>3, <2>1, <2>2, <2>3, <2>4
  <1>6. SumFunction(currentWeight) = SumFunction(Totals)
    BY DEF Conservation, Totals
  <1>7. SumFunction(currentWeight)' = SumFunction(Totals)'
    BY <1>4, <1>5, <1>6
  <1> QED
    BY <1>7 DEF Conservation, Totals

LEMMA InitConserves ==
  ASSUME NginxInit
  PROVE  Conservation
  <1>1. NginxIndInv
    BY NginxInitIndInv
  <1>2. SumFunction(currentWeight) = 0
    <2>1. currentWeight \in [{} -> Int] /\ IsFiniteSet({})
      BY FS_EmptySet DEF NginxInit
    <2> QED
      BY <2>1, SumZero
  <1>3. SumFunction(Totals) = 0
    <2>1. Totals \in [Handlers -> Int] /\ \A h \in Handlers : Totals[h] = 0
      BY <1>1, TotalsType, FreshInv DEF NginxInit
    <2> QED
      BY <2>1, SumZero, HandlersAssumption
  <1> QED
    BY <1>2, <1>3 DEF Conservation, Totals

LEMMA AddConserves ==
  ASSUME TypeOK, NginxIndInv, Conservation, NginxAdd
  PROVE  Conservation'
  <1>1. walk' = walk /\ currentWeight' = Append(currentWeight, 0)
    BY DEF NginxAdd
  <1> DEFINE n == Len(upstreams)
  <1>2. /\ DOMAIN upstreams = 1..n /\ n \in Nat /\ IsFiniteSet(1..n)
        /\ currentWeight \in [1..n -> Int]
    BY UpstreamIndices DEF NginxIndInv
  <1> HIDE DEF n
  <1>3. currentWeight \in Seq(Int) /\ Len(currentWeight) = n
    BY <1>2
  <1>4. /\ currentWeight' \in [1..(n + 1) -> Int] /\ currentWeight'[n + 1] = 0
        /\ \A x \in 1..n : currentWeight'[x] = currentWeight[x]
    <2>1. currentWeight' \in Seq(Int) /\ Len(currentWeight') = n + 1
      BY <1>1, <1>3
    <2>2. currentWeight'[n + 1] = 0
      BY <1>1, <1>2, <1>3
    <2>3. \A x \in 1..n : currentWeight'[x] = currentWeight[x]
      BY <1>1, <1>2, <1>3
    <2> QED
      BY <2>1, <2>2, <2>3
  <1>5. 1..(n + 1) = (1..n) \cup {n + 1} /\ n + 1 \notin 1..n
    BY <1>2
  <1>6. SumFunction(currentWeight') = SumFunction(currentWeight)
    BY <1>2, <1>4, <1>5, SumExtend
  <1> QED
    BY <1>1, <1>6 DEF Conservation

LEMMA NextConserves ==
  ASSUME TypeOK, NginxIndInv, Conservation, [NginxNext]_nginxVars
  PROVE  Conservation'
  <1>1. UNCHANGED getVars => Conservation'
    BY DEF Conservation, getVars
  <1>2. UNCHANGED nginxVars => UNCHANGED getVars
    BY DEF nginxVars
  <1>3. UNCHANGED getVars \/ NginxAdd \/ \E h \in Handlers : GetStep(h)
    BY <1>2 DEF NginxNext
  <1> QED
    BY <1>1, <1>3, AddConserves, GetConserves

(***************************************************************************)
(* Concurrent calls of Get lose no weight and make none up: what the       *)
(* upstreams hold together is what the unfinished calls have handed out,   *)
(* for any number of handlers and upstreams and any interleaving of the    *)
(* atomic operations.                                                      *)
(***************************************************************************)
THEOREM NginxConservation == NginxSafetySpec => []Conservation
  <1>1. NginxInit => TypeOK /\ NginxIndInv /\ Conservation
    BY NginxInitIndInv, InitTypeOK, InitConserves DEF NginxInit
  <1>2. TypeOK /\ NginxIndInv /\ Conservation /\ [NginxNext]_nginxVars
          => TypeOK' /\ NginxIndInv' /\ Conservation'
    BY NginxStep, NextTypeOK, NginxNextInv, NextConserves
  <1> QED
    BY <1>1, <1>2, PTL DEF NginxSafetySpec

-------------------------------------------------------------------------------
(***************************************************************************)
(* The share of an upstream while the weights do not change.               *)
(*                                                                         *)
(* Handlers are ranked by how many of the others have picked an upstream   *)
(* since they began their walk: one that has just begun has rank 0, and    *)
(* there is some upstream at 0 or above for it to find.  Each pick by a    *)
(* handler of higher rank puts the others one rank up.  A handler of rank  *)
(* s finds an upstream at Floor(s, W) or above, W being the round of all   *)
(* the weights, which its pick then takes away.                            *)
(***************************************************************************)
Depth(s) == (s * (s + 3)) \div 2

Floor(s, W) == -(Depth(s) * W)

LEMMA DepthTwice == \A s \in Nat : Depth(s) \in Nat /\ 2 * Depth(s) = s * (s + 3)
  <1> SUFFICES ASSUME NEW s \in Nat
               PROVE  Depth(s) \in Nat /\ 2 * Depth(s) = s * (s + 3)
    OBVIOUS
  <1>1. PICK q \in Nat : s = 2 * q \/ s = 2 * q + 1
    <2>1. s \div 2 \in Nat /\ (s = 2 * (s \div 2) \/ s = 2 * (s \div 2) + 1)
      OBVIOUS
    <2> QED
      BY <2>1
  <1>2. PICK p \in Nat : s * (s + 3) = 2 * p
    <2>1. CASE s = 2 * q
      <3>1. s * (s + 3) = 2 * (q * (2 * q + 3)) /\ q * (2 * q + 3) \in Nat
        BY <2>1
      <3> QED
        BY <3>1
    <2>2. CASE s = 2 * q + 1
      <3>1. s * (s + 3) = 2 * ((2 * q + 1) * (q + 2)) /\ (2 * q + 1) * (q + 2) \in Nat
        BY <2>2
      <3> QED
        BY <3>1
    <2> QED
      BY <1>1, <2>1, <2>2
  <1>3. (2 * p) \div 2 = p
    OBVIOUS
  <1>4. Depth(s) = p
    BY <1>2, <1>3 DEF Depth
  <1> QED
    BY <1>2, <1>4

LEMMA Scale == \A a, b \in Int : \A W \in Nat : a <= b => a * W <= b * W
  <1> SUFFICES ASSUME NEW a \in Int, NEW b \in Int, NEW W \in Nat, a <= b
               PROVE  a * W <= b * W
    OBVIOUS
  <1>1. (b - a) * W >= 0
    OBVIOUS
  <1>2. (b - a) * W = b * W - a * W
    OBVIOUS
  <1> QED
    BY <1>1, <1>2

\* What a pick may take away from the upstream it picks.
LEMMA FloorRange ==
  \A s, W \in Nat : Floor(s, W) \in Int /\ Floor(s, W) <= 0 /\ s * W \in Nat
  <1> SUFFICES ASSUME NEW s \in Nat, NEW W \in Nat
               PROVE  Floor(s, W) \in Int /\ Floor(s, W) <= 0 /\ s * W \in Nat
    OBVIOUS
  <1>1. PICK d \in Nat : d = Depth(s)
    BY DepthTwice
  <1>2. d * W \in Nat /\ s * W \in Nat
    OBVIOUS
  <1>3. Floor(s, W) = -(d * W)
    BY <1>1 DEF Floor
  <1> QED
    BY <1>2, <1>3

LEMMA FloorZero == \A W \in Nat : Floor(0, W) = 0
  <1> SUFFICES ASSUME NEW W \in Nat PROVE Floor(0, W) = 0
    OBVIOUS
  <1>1. PICK d \in Nat : d = Depth(0)
    BY DepthTwice
  <1>2. 2 * Depth(0) = 0 * (0 + 3)
    BY DepthTwice
  <1>3. d = 0
    BY <1>1, <1>2
  <1>4. Floor(0, W) = -(d * W)
    BY <1>1 DEF Floor
  <1> QED
    BY <1>3, <1>4

\* One rank up.
LEMMA FloorNext ==
  ASSUME NEW s \in Nat, NEW W \in Nat
  PROVE  /\ Floor(s + 1, W) + (s + 1) * W = Floor(s, W) - W
         /\ Floor(s + 1, W) <= Floor(s, W) - W
  <1>1. PICK d \in Nat : d = Depth(s)
    BY DepthTwice
  <1>2. PICK e \in Nat : e = Depth(s + 1)
    BY DepthTwice
  <1>3. 2 * d = s * (s + 3) /\ 2 * e = (s + 1) * ((s + 1) + 3)
    BY <1>1, <1>2, DepthTwice
  <1>4. e = d + s + 2
    BY <1>3
  <1>5. e * W = d * W + s * W + 2 * W /\ (s + 1) * W = s * W + W
    BY <1>4
  <1>6. Floor(s, W) = -(d * W) /\ Floor(s + 1, W) = -(e * W)
    BY <1>1, <1>2 DEF Floor
  <1>7. s * W \in Nat /\ d * W \in Nat /\ e * W \in Nat
    OBVIOUS
  <1> QED
    BY <1>5, <1>6, <1>7

\* A pick at a lower rank leaves more than a handler of a higher rank needs.
LEMMA FloorAbove ==
  ASSUME NEW r \in Nat, NEW s \in Nat, r < s, NEW W \in Nat
  PROVE  Floor(s, W) + s * W <= Floor(r, W) - W
  <1>1. PICK d \in Nat : d = Depth(r)
    BY DepthTwice
  <1>2. PICK e \in Nat : e = Depth(s)
    BY DepthTwice
  <1>3. 2 * d = r * (r + 3) /\ 2 * e = s * (s + 3)
    BY <1>1, <1>2, DepthTwice
  <1>4. d + 1 <= e - s
    <2>1. PICK t \in Nat : s = r + 1 + t
      <3>1. s - r - 1 \in Nat /\ s = r + 1 + (s - r - 1)
        OBVIOUS
      <3> QED
        BY <3>1
    <2>2. s * (s + 3) - 2 * s = (r + 1) * (r + 2) + t * (2 * r + 3) + t * t
      BY <2>1
    <2>3. t * (2 * r + 3) \in Nat /\ t * t \in Nat
      OBVIOUS
    <2>4. (r + 1) * (r + 2) = r * (r + 3) + 2
      OBVIOUS
    <2>5. r * (r + 3) \in Nat /\ s * (s + 3) \in Nat
      OBVIOUS
    <2> QED
      BY <1>3, <2>2, <2>3, <2>4, <2>5
  <1>5. (d + 1) * W <= (e - s) * W
    BY <1>4, Scale
  <1>6. (d + 1) * W = d * W + W /\ (e - s) * W = e * W - s * W
    OBVIOUS
  <1>7. Floor(r, W) = -(d * W) /\ Floor(s, W) = -(e * W)
    BY <1>1, <1>2 DEF Floor
  <1>8. s * W \in Nat /\ d * W \in Nat /\ e * W \in Nat
    OBVIOUS
  <1> QED
    BY <1>5, <1>6, <1>7, <1>8

\* m of the ranks below s are worth two rounds each at least.
LEMMA FloorStale ==
  ASSUME NEW s \in Nat, NEW m \in 0..s, NEW W \in Nat
  PROVE  /\ m * W \in Nat
         /\ m * W <= s * W
         /\ Floor(s, W) <= Floor(s - m, W) - 2 * (m * W)
  <1>0. m \in Nat /\ m <= s /\ s - m \in Nat
    OBVIOUS
  <1>1. PICK d \in Nat : d = Depth(s - m)
    BY <1>0, DepthTwice
  <1>2. PICK e \in Nat : e = Depth(s)
    BY DepthTwice
  <1>3. 2 * d = (s - m) * ((s - m) + 3) /\ 2 * e = s * (s + 3)
    BY <1>0, <1>1, <1>2, DepthTwice
  <1>4. d + 2 * m <= e
    <2>1. PICK t \in Nat : s = m + t
      <3>1. s = m + (s - m)
        BY <1>0
      <3> QED
        BY <1>0, <3>1
    <2>2. s * (s + 3) = t * (t + 3) + m * m + 2 * (m * t) + 3 * m /\ s - m = t
      BY <1>0, <2>1
    <2>3. m * m >= m /\ m * t \in Nat
      BY <1>0
    <2> QED
      BY <1>0, <1>3, <2>2, <2>3
  <1>5. (d + 2 * m) * W <= e * W /\ m * W <= s * W
    BY <1>0, <1>4, Scale
  <1>6. (d + 2 * m) * W = d * W + 2 * (m * W)
    BY <1>0
  <1>7. Floor(s - m, W) = -(d * W) /\ Floor(s, W) = -(e * W)
    BY <1>1, <1>2 DEF Floor
  <1>8. m * W \in Nat /\ d * W \in Nat /\ e * W \in Nat
    BY <1>0
  <1> QED
    BY <1>5, <1>6, <1>7, <1>8

(***************************************************************************)
(* What a handler of rank s in the comparison of Get knows, when m others  *)
(* have picked since it loaded ci: the upstream i has kept what was loaded *)
(* but for those picks, and one of the two compared is high enough.  An    *)
(* upstream picked by a handler of lower rank is high enough anyway.       *)
(***************************************************************************)
Seen(c, w, s, m, W) ==
    /\ \/ c[w.i] >= Floor(s, W) + s * W
       \/ c[w.i] >= w.ci - m * W
    /\ \/ c[w.best] >= Floor(s, W) + s * W
       \/ c[w.best] >= Floor(s - m, W) - m * W
       \/ w.ci >= Floor(s - m, W)

\* A call of Get whose handler has rank s has found an upstream at Floor(s, W)
\* or above, or has one before it.
Finds(c, w, s, n, W) ==
    /\ w.at \in {"load", "add", "loadCurrent"} =>
          \/ w.best # 0 /\ c[w.best] >= Floor(s, W)
          \/ \E v \in w.i .. n : c[v] >= Floor(s, W)
    /\ w.at = "compare" =>
          \/ \E v \in (w.i + 1) .. n : c[v] >= Floor(s, W)
          \/ \E m \in 0 .. s : Seen(c, w, s, m, W)
    /\ w.at = "subtract" => c[w.best] >= Floor(s, W)

\* The local variables of Get, when there are n upstreams.
InRange(w, n) ==
    /\ w.i \in 1 .. n /\ w.best \in 0 .. n /\ w.ci \in Int
    /\ w.at \in {"loadCurrent", "compare", "subtract"} => w.best # 0

\* Adding to the upstreams takes nothing away.
LEMMA FindsRaised ==
  ASSUME NEW n \in Nat, NEW W \in Nat, NEW c \in [1..n -> Int], NEW d \in [1..n -> Int],
         \A v \in 1..n : d[v] >= c[v],
         NEW w, InRange(w, n), NEW s \in Nat, Finds(c, w, s, n, W)
  PROVE  Finds(d, w, s, n, W)
  <1>1. PICK f \in Int : f = Floor(s, W)
    BY FloorRange
  <1>2. ASSUME NEW v \in 1..n, NEW x \in Int, c[v] >= x PROVE d[v] >= x
    BY <1>2
  <1>3. w.at \in {"load", "add", "loadCurrent"} =>
          \/ w.best # 0 /\ d[w.best] >= Floor(s, W)
          \/ \E v \in w.i .. n : d[v] >= Floor(s, W)
    <2> SUFFICES ASSUME w.at \in {"load", "add", "loadCurrent"}
                 PROVE  \/ w.best # 0 /\ d[w.best] >= f
                        \/ \E v \in w.i .. n : d[v] >= f
      BY <1>1
    <2>1. CASE w.best # 0 /\ c[w.best] >= f
      BY <1>2, <2>1 DEF InRange
    <2>2. ASSUME NEW v \in w.i .. n, c[v] >= f PROVE d[v] >= f
      <3>1. v \in 1..n
        BY DEF InRange
      <3> QED
        BY <1>2, <2>2, <3>1
    <2> QED
      BY <1>1, <2>1, <2>2 DEF Finds
  <1>4. w.at = "subtract" => d[w.best] >= Floor(s, W)
    <2> SUFFICES ASSUME w.at = "subtract" PROVE d[w.best] >= f
      BY <1>1
    <2>1. w.best \in 1..n /\ c[w.best] >= f
      BY <1>1 DEF Finds, InRange
    <2> QED
      BY <1>2, <2>1
  <1>5. w.at = "compare" =>
          \/ \E v \in (w.i + 1) .. n : d[v] >= Floor(s, W)
          \/ \E m \in 0 .. s : Seen(d, w, s, m, W)
    <2> SUFFICES ASSUME w.at = "compare"
                 PROVE  \/ \E v \in (w.i + 1) .. n : d[v] >= f
                        \/ \E m \in 0 .. s : Seen(d, w, s, m, W)
      BY <1>1
    <2>1. w.best \in 1..n /\ w.i \in 1..n /\ w.ci \in Int
      BY DEF InRange
    <2>2. ASSUME NEW v \in (w.i + 1) .. n, c[v] >= f PROVE d[v] >= f
      <3>1. v \in 1..n
        BY <2>1
      <3> QED
        BY <1>2, <2>2, <3>1
    <2>3. ASSUME NEW m \in 0 .. s, Seen(c, w, s, m, W)
          PROVE  Seen(d, w, s, m, W)
      <3>1. PICK x \in Int : x = m * W
        OBVIOUS
      <3>2. PICK y \in Int : y = s * W
        OBVIOUS
      <3>3. PICK z \in Int : z = Floor(s - m, W)
        <4>1. s - m \in Nat
          OBVIOUS
        <4> QED
          BY <4>1, FloorRange
      <3>4. PICK q \in Int : q = w.ci
        BY <2>1
      <3>5. f + y \in Int /\ q - x \in Int /\ z - x \in Int
        OBVIOUS
      <3>6. /\ c[w.i] >= f + y \/ c[w.i] >= q - x
            /\ c[w.best] >= f + y \/ c[w.best] >= z - x \/ q >= z
        BY <1>1, <2>3, <3>1, <3>2, <3>3, <3>4 DEF Seen
      <3>7. /\ d[w.i] >= f + y \/ d[w.i] >= q - x
            /\ d[w.best] >= f + y \/ d[w.best] >= z - x \/ q >= z
        BY <1>2, <2>1, <3>5, <3>6
      <3> QED
        BY <1>1, <3>1, <3>2, <3>3, <3>4, <3>7 DEF Seen
    <2> QED
      BY <1>1, <2>2, <2>3 DEF Finds
  <1> QED
    BY <1>3, <1>4, <1>5 DEF Finds

\* A handler of lower rank picks: what it leaves is enough at rank s.
LEMMA FindsKept ==
  ASSUME NEW n \in Nat, NEW W \in Nat, NEW c \in [1..n -> Int], NEW d \in [1..n -> Int],
         NEW s \in Nat, \A v \in 1..n : d[v] = c[v] \/ d[v] >= Floor(s, W) + s * W,
         NEW w, InRange(w, n), Finds(c, w, s, n, W)
  PROVE  Finds(d, w, s, n, W)
  <1>1. PICK f \in Int : f = Floor(s, W)
    BY FloorRange
  <1>2. PICK e \in Int : e = f + s * W
    BY FloorRange
  <1>3. e >= f
    BY <1>2, FloorRange
  <1>4. \A v \in 1..n : d[v] = c[v] \/ d[v] >= e
    BY <1>1, <1>2
  <1>5. ASSUME NEW v \in 1..n, c[v] >= f PROVE d[v] >= f
    BY <1>3, <1>4, <1>5
  <1>6. w.at \in {"load", "add", "loadCurrent"} =>
          \/ w.best # 0 /\ d[w.best] >= Floor(s, W)
          \/ \E v \in w.i .. n : d[v] >= Floor(s, W)
    <2> SUFFICES ASSUME w.at \in {"load", "add", "loadCurrent"}
                 PROVE  \/ w.best # 0 /\ d[w.best] >= f
                        \/ \E v \in w.i .. n : d[v] >= f
      BY <1>1
    <2>1. CASE w.best # 0 /\ c[w.best] >= f
      BY <1>5, <2>1 DEF InRange
    <2>2. ASSUME NEW v \in w.i .. n, c[v] >= f PROVE d[v] >= f
      <3>1. v \in 1..n
        BY DEF InRange
      <3> QED
        BY <1>5, <2>2, <3>1
    <2> QED
      BY <1>1, <2>1, <2>2 DEF Finds
  <1>7. w.at = "subtract" => d[w.best] >= Floor(s, W)
    <2> SUFFICES ASSUME w.at = "subtract" PROVE d[w.best] >= f
      BY <1>1
    <2>1. w.best \in 1..n /\ c[w.best] >= f
      BY <1>1 DEF Finds, InRange
    <2> QED
      BY <1>5, <2>1
  <1>8. w.at = "compare" =>
          \/ \E v \in (w.i + 1) .. n : d[v] >= Floor(s, W)
          \/ \E m \in 0 .. s : Seen(d, w, s, m, W)
    <2> SUFFICES ASSUME w.at = "compare"
                 PROVE  \/ \E v \in (w.i + 1) .. n : d[v] >= f
                        \/ \E m \in 0 .. s : Seen(d, w, s, m, W)
      BY <1>1
    <2>1. w.best \in 1..n /\ w.i \in 1..n
      BY DEF InRange
    <2>2. ASSUME NEW v \in (w.i + 1) .. n, c[v] >= f PROVE d[v] >= f
      <3>1. v \in 1..n
        BY <2>1
      <3> QED
        BY <1>5, <2>2, <3>1
    <2>3. ASSUME NEW m \in 0 .. s, Seen(c, w, s, m, W)
          PROVE  Seen(d, w, s, m, W)
      <3>1. d[w.i] = c[w.i] \/ d[w.i] >= Floor(s, W) + s * W
        BY <2>1
      <3>2. d[w.best] = c[w.best] \/ d[w.best] >= Floor(s, W) + s * W
        BY <2>1
      <3> QED
        BY <2>3, <3>1, <3>2 DEF Seen
    <2> QED
      BY <1>1, <2>2, <2>3 DEF Finds
  <1> QED
    BY <1>6, <1>7, <1>8 DEF Finds

\* A handler of higher rank picks: the one of rank s is one rank up.
LEMMA FindsNext ==
  ASSUME NEW n \in Nat, NEW W \in Nat, NEW c \in [1..n -> Int], NEW d \in [1..n -> Int],
         \A v \in 1..n : d[v] >= c[v] - W,
         NEW w, InRange(w, n), NEW s \in Nat, Finds(c, w, s, n, W)
  PROVE  Finds(d, w, s + 1, n, W)
  <1>1. PICK f \in Int : f = Floor(s, W)
    BY FloorRange
  <1>2. PICK g \in Int : g = Floor(s + 1, W)
    <2>1. s + 1 \in Nat
      OBVIOUS
    <2> QED
      BY <2>1, FloorRange
  <1>3. g + (s + 1) * W = f - W /\ g <= f - W
    BY <1>1, <1>2, FloorNext
  <1>5. ASSUME NEW v \in 1..n, c[v] >= f PROVE d[v] >= g
    BY <1>3, <1>5
  <1>6. w.at \in {"load", "add", "loadCurrent"} =>
          \/ w.best # 0 /\ d[w.best] >= Floor(s + 1, W)
          \/ \E v \in w.i .. n : d[v] >= Floor(s + 1, W)
    <2> SUFFICES ASSUME w.at \in {"load", "add", "loadCurrent"}
                 PROVE  \/ w.best # 0 /\ d[w.best] >= g
                        \/ \E v \in w.i .. n : d[v] >= g
      BY <1>2
    <2>1. CASE w.best # 0 /\ c[w.best] >= f
      BY <1>5, <2>1 DEF InRange
    <2>2. ASSUME NEW v \in w.i .. n, c[v] >= f PROVE d[v] >= g
      <3>1. v \in 1..n
        BY DEF InRange
      <3> QED
        BY <1>5, <2>2, <3>1
    <2> QED
      BY <1>1, <2>1, <2>2 DEF Finds
  <1>7. w.at = "subtract" => d[w.best] >= Floor(s + 1, W)
    <2> SUFFICES ASSUME w.at = "subtract" PROVE d[w.best] >= g
      BY <1>2
    <2>1. w.best \in 1..n /\ c[w.best] >= f
      BY <1>1 DEF Finds, InRange
    <2> QED
      BY <1>5, <2>1
  <1>8. w.at = "compare" =>
          \/ \E v \in (w.i + 1) .. n : d[v] >= Floor(s + 1, W)
          \/ \E m \in 0 .. s + 1 : Seen(d, w, s + 1, m, W)
    <2> SUFFICES ASSUME w.at = "compare"
                 PROVE  \/ \E v \in (w.i + 1) .. n : d[v] >= g
                        \/ \E m \in 0 .. s + 1 : Seen(d, w, s + 1, m, W)
      BY <1>2
    <2>1. w.best \in 1..n /\ w.i \in 1..n /\ w.ci \in Int
      BY DEF InRange
    <2>2. ASSUME NEW v \in (w.i + 1) .. n, c[v] >= f PROVE d[v] >= g
      <3>1. v \in 1..n
        BY <2>1
      <3> QED
        BY <1>5, <2>2, <3>1
    <2>3. ASSUME NEW m \in 0 .. s, Seen(c, w, s, m, W)
          PROVE  m + 1 \in 0 .. s + 1 /\ Seen(d, w, s + 1, m + 1, W)
      <3>1. PICK x \in Int : x = m * W
        OBVIOUS
      <3>2. (m + 1) * W = x + W
        BY <3>1
      <3>3. PICK y \in Nat : y = s * W
        BY FloorRange
      <3>4. (s + 1) - (m + 1) = s - m
        OBVIOUS
      <3>5. PICK z \in Int : z = Floor(s - m, W)
        <4>1. s - m \in Nat
          OBVIOUS
        <4> QED
          BY <4>1, FloorRange
      <3>6. PICK a \in Int, i \in Int : a = c[w.i] /\ i = d[w.i] /\ i >= a - W
        BY <2>1
      <3>7. PICK b \in Int, j \in Int : b = c[w.best] /\ j = d[w.best] /\ j >= b - W
        BY <2>1
      <3>8. PICK q \in Int : q = w.ci
        BY <2>1
      <3>9. /\ a >= f + y \/ a >= q - x
            /\ b >= f + y \/ b >= z - x \/ q >= z
        BY <1>1, <2>3, <3>1, <3>3, <3>5, <3>6, <3>7, <3>8 DEF Seen
      <3>10. i >= f - W \/ i >= q - (x + W)
        BY <3>6, <3>9
      <3>11. j >= f - W \/ j >= z - (x + W) \/ q >= z
        BY <3>7, <3>9
      <3>12. Seen(d, w, s + 1, m + 1, W)
        BY <1>2, <1>3, <3>2, <3>4, <3>5, <3>6, <3>7, <3>8, <3>10, <3>11 DEF Seen
      <3> QED
        BY <3>12
    <2> QED
      BY <1>1, <2>2, <2>3 DEF Finds
  <1> QED
    BY <1>6, <1>7, <1>8 DEF Finds

\* The loop of Get goes on to the next upstream, or ends after the last.
Moved(l, w, n) ==
    \/ l.i < n /\ w.at = "load" /\ w.i = l.i + 1
    \/ l.i = n /\ w.at = "subtract"

\* The first upstream is the best so far.
LEMMA FindsFirst ==
  ASSUME NEW n \in Nat, NEW W \in Nat, NEW c \in [1..n -> Int], NEW s \in Nat,
         NEW l, InRange(l, n), Finds(c, l, s, n, W), l.at = "add", l.best = 0,
         NEW w, Moved(l, w, n), w.best = l.i
  PROVE  Finds(c, w, s, n, W)
  <1>1. PICK v \in l.i .. n : c[v] >= Floor(s, W)
    BY DEF Finds
  <1>2. l.i \in 1..n
    BY DEF InRange
  <1>3. CASE v = l.i
    BY <1>1, <1>2, <1>3 DEF Finds, Moved
  <1>4. CASE v # l.i
    <2>1. v \in (l.i + 1) .. n /\ l.i < n
      BY <1>2, <1>4
    <2>2. w.at = "load" /\ w.i = l.i + 1
      BY <1>2, <2>1 DEF Moved
    <2> QED
      BY <1>1, <2>1, <2>2 DEF Finds
  <1> QED
    BY <1>3, <1>4

\* The left operand of the comparison is loaded.
LEMMA FindsLoaded ==
  ASSUME NEW n \in Nat, NEW W \in Nat, NEW c \in [1..n -> Int], NEW s \in Nat,
         NEW l, InRange(l, n), Finds(c, l, s, n, W), l.at = "loadCurrent",
         NEW w, w.at = "compare", w.i = l.i, w.best = l.best, w.ci = c[l.i]
  PROVE  Finds(c, w, s, n, W)
  <1>1. l.i \in 1..n /\ l.best \in 1..n
    BY DEF InRange
  <1>2. PICK f \in Int : f = Floor(s, W)
    BY FloorRange
  <1>3. PICK a \in Int : a = c[l.i]
    BY <1>1
  <1>4. PICK b \in Int : b = c[l.best]
    BY <1>1
  <1>5. PICK m \in 0..s : m = 0
    OBVIOUS
  <1>6. Floor(s - m, W) = f /\ m * W = 0
    <2>1. s - m = s /\ m * W = 0
      BY <1>5
    <2> QED
      BY <1>2, <2>1
  <1>7. CASE a >= f \/ b >= f
    <2>1. a >= a - 0 /\ (b >= f - 0 \/ a >= f)
      BY <1>7
    <2>2. Seen(c, w, s, m, W)
      BY <1>3, <1>4, <1>6, <2>1 DEF Seen
    <2> QED
      BY <2>2 DEF Finds
  <1>8. CASE ~(a >= f \/ b >= f)
    <2>1. PICK v \in l.i .. n : c[v] >= f
      BY <1>2, <1>4, <1>8 DEF Finds
    <2>2. v \in (l.i + 1) .. n
      <3>1. v # l.i
        BY <1>3, <1>8, <2>1
      <3> QED
        BY <1>1, <3>1
    <2> QED
      BY <1>2, <2>1, <2>2 DEF Finds
  <1> QED
    BY <1>7, <1>8

\* However stale the operands, the better of the two is at Floor(s, W) or above.
LEMMA FindsCompared ==
  ASSUME NEW n \in Nat, NEW W \in Nat, NEW c \in [1..n -> Int], NEW s \in Nat,
         NEW l, InRange(l, n), Finds(c, l, s, n, W), l.at = "compare",
         NEW w, Moved(l, w, n), w.best = IF l.ci > c[l.best] THEN l.i ELSE l.best
  PROVE  Finds(c, w, s, n, W)
  <1>1. l.i \in 1..n /\ l.best \in 1..n
    BY DEF InRange
  <1>2. PICK f \in Int : f = Floor(s, W) /\ s * W \in Nat
    BY FloorRange
  <1>3. PICK a \in Int : a = c[l.i]
    BY <1>1
  <1>4. PICK b \in Int : b = c[l.best]
    BY <1>1
  <1>5. PICK q \in Int : q = l.ci
    BY DEF InRange
  <1>6. ASSUME NEW v \in (l.i + 1) .. n, c[v] >= f
        PROVE  Finds(c, w, s, n, W)
    <2>1. l.i < n
      BY <1>1
    <2>2. w.at = "load" /\ w.i = l.i + 1
      BY <1>1, <2>1 DEF Moved
    <2> QED
      BY <1>2, <1>6, <2>2 DEF Finds
  <1>7. ASSUME NEW m \in 0 .. s, Seen(c, l, s, m, W)
        PROVE  Finds(c, w, s, n, W)
    <2>1. PICK x \in Nat, z \in Int, y \in Nat :
             /\ x = m * W /\ z = Floor(s - m, W) /\ y = s * W
             /\ x <= y /\ f <= z - 2 * x
      <3>1. s - m \in Nat
        OBVIOUS
      <3>2. Floor(s - m, W) \in Int /\ m * W \in Nat
        BY <3>1, FloorRange
      <3>3. m * W <= s * W /\ f <= Floor(s - m, W) - 2 * (m * W)
        BY <1>2, FloorStale
      <3> QED
        BY <1>2, <3>2, <3>3
    <2>2. /\ a >= f + y \/ a >= q - x
          /\ b >= f + y \/ b >= z - x \/ q >= z
      BY <1>2, <1>3, <1>4, <1>5, <1>7, <2>1 DEF Seen
    <2>3. x <= y /\ f <= z - 2 * x
      BY <2>1
    <2>4. q > b => a >= f
      BY <2>3, <2>2
    <2>5. ~(q > b) => b >= f
      BY <2>3, <2>2
    <2>6. c[w.best] >= f /\ w.best # 0
      <3>1. CASE q > b
        <4>1. w.best = l.i
          BY <1>4, <1>5, <3>1
        <4> QED
          BY <1>1, <1>3, <2>4, <3>1, <4>1
      <3>2. CASE ~(q > b)
        <4>1. w.best = l.best
          BY <1>4, <1>5, <3>2
        <4> QED
          BY <1>1, <1>4, <2>5, <3>2, <4>1
      <3> QED
        BY <3>1, <3>2
    <2> QED
      BY <1>2, <2>6 DEF Finds, Moved
  <1> QED
    BY <1>2, <1>6, <1>7 DEF Finds

-------------------------------------------------------------------------------
(***************************************************************************)
(* The steps of Get, field by field.                                       *)
(***************************************************************************)
GetLoad(l, w) ==
    /\ l.at = "load" /\ w.at = "add" /\ w.ew = effectiveWeight[l.i]
    /\ w.i = l.i /\ w.best = l.best /\ w.total = l.total
    /\ UNCHANGED currentWeight

GetAdd(l, w) ==
    /\ l.at = "add" /\ w.total = l.total + l.ew
    /\ currentWeight' = [currentWeight EXCEPT ![l.i] = currentWeight[l.i] + l.ew]
    /\ \/ l.best = 0 /\ w.best = l.i /\ Moved(l, w, Len(upstreams))
       \/ l.best # 0 /\ w.best = l.best /\ w.at = "loadCurrent" /\ w.i = l.i

GetLoadCurrent(l, w) ==
    /\ l.at = "loadCurrent" /\ w.at = "compare" /\ w.ci = currentWeight[l.i]
    /\ w.i = l.i /\ w.best = l.best /\ w.total = l.total
    /\ UNCHANGED currentWeight

GetCompare(l, w) ==
    /\ l.at = "compare" /\ w.total = l.total
    /\ w.best = IF l.ci > currentWeight[l.best] THEN l.i ELSE l.best
    /\ Moved(l, w, Len(upstreams))
    /\ UNCHANGED currentWeight

GetSubtract(l, w) ==
    /\ l.at = "subtract" /\ w = Fresh
    /\ currentWeight' = [currentWeight EXCEPT ![l.best] = currentWeight[l.best] - l.total]

GetFields(h, w) ==
    /\ walk' = [walk EXCEPT ![h] = w]
    /\ phase = "serving" /\ UNCHANGED <<upstreams, effectiveWeight, phase>>
    /\ \/ GetLoad(walk[h], w) \/ GetAdd(walk[h], w) \/ GetLoadCurrent(walk[h], w)
       \/ GetCompare(walk[h], w) \/ GetSubtract(walk[h], w)

LEMMA AdvanceMoves ==
  ASSUME TypeOK, NEW l, NEW w \in WalkType, w.i \in DOMAIN upstreams, w.i = l.i
  PROVE  /\ Moved(l, Advance(w), Len(upstreams))
         /\ Advance(w).best = w.best /\ Advance(w).total = w.total
  <1>1. DOMAIN upstreams = 1..Len(upstreams) /\ Len(upstreams) \in Nat
    BY UpstreamIndices
  <1>2. CASE w.i < Len(upstreams)
    <2>1. w.i + 1 \in Nat
      BY <1>1
    <2>2. PICK v : v = [w EXCEPT !.at = "load", !.i = w.i + 1]
      OBVIOUS
    <2>3. v.i = w.i + 1 /\ v.at = "load" /\ v.total = w.total /\ v.best = w.best
      BY <2>1, <2>2, WalkNext
    <2>4. Advance(w) = v
      BY <1>2, <2>2 DEF Advance
    <2> QED
      BY <1>2, <2>3, <2>4 DEF Moved
  <1>3. CASE ~(w.i < Len(upstreams))
    <2>1. PICK v : v = [w EXCEPT !.at = "subtract"]
      OBVIOUS
    <2>2. v.at = "subtract" /\ v.total = w.total /\ v.best = w.best
      BY <2>1, WalkAt
    <2>3. Advance(w) = v
      BY <1>3, <2>1 DEF Advance
    <2>4. w.i = Len(upstreams)
      BY <1>1, <1>3
    <2> QED
      BY <2>2, <2>3, <2>4 DEF Moved
  <1> QED
    BY <1>2, <1>3

LEMMA GetStepFields ==
  ASSUME TypeOK, NginxIndInv, NEW h \in Handlers, GetStep(h)
  PROVE  \E w : GetFields(h, w)
  <1> DEFINE l == walk[h]
  <1>1. /\ phase = "serving" /\ 1 \in DOMAIN upstreams
        /\ l \in WalkType /\ WalkInv(l) /\ walk \in [Handlers -> WalkType]
        /\ currentWeight \in [DOMAIN upstreams -> Int]
        /\ effectiveWeight \in [DOMAIN upstreams -> Int] /\ 0 \notin DOMAIN upstreams
    BY UpstreamIndices
       DEF NginxIndInv, GetStep, LoadEffective, AddCurrent, LoadCurrent, Compare, Subtract, InGet
  <1>2. l.i \in DOMAIN upstreams /\ l.ew \in Int /\ l.total \in Int
    <2>1. Fresh.i = 1
      BY DEF Fresh
    <2> QED
      BY <1>1, <2>1 DEF WalkInv, WalkType
  <1>a. CASE LoadEffective(h)
    <2>1. PICK e \in Int : e = effectiveWeight[l.i]
      BY <1>1, <1>2
    <2>2. PICK w : w = [l EXCEPT !.at = "add", !.ew = e]
      OBVIOUS
    <2>3. walk' = [walk EXCEPT ![h] = w] /\ l.at = "load" /\ UNCHANGED <<vars, currentWeight>>
      BY <1>a, <1>1, <2>1, <2>2 DEF LoadEffective, InGet
    <2>4. w.at = "add" /\ w.ew = e /\ w.i = l.i /\ w.total = l.total /\ w.best = l.best
      BY <1>1, <2>2 DEF WalkType
    <2>5. GetLoad(l, w)
      BY <2>1, <2>3, <2>4 DEF GetLoad
    <2>z. GetFields(h, w)
      BY <1>1, <2>3, <2>5 DEF GetFields, vars
    <2> QED
      BY <2>z
  <1>b. CASE AddCurrent(h)
    <2>0. PICK v : v = [l EXCEPT !.total = l.total + l.ew, !.ew = 0]
      OBVIOUS
    <2>1. PICK w : w = IF v.best = 0 THEN Advance([v EXCEPT !.best = v.i])
                       ELSE [v EXCEPT !.at = "loadCurrent"]
      OBVIOUS
    <2>2. /\ walk' = [walk EXCEPT ![h] = w] /\ UNCHANGED vars /\ l.at = "add"
          /\ currentWeight' = [currentWeight EXCEPT ![v.i] = @ + l.ew]
      BY <1>b, <2>0, <2>1 DEF AddCurrent, InGet
    <2>3. /\ v \in WalkType /\ v.i = l.i /\ v.best = l.best
          /\ v.total = l.total + l.ew
      <3>1. PICK t \in Int : t = l.total + l.ew
        BY <1>2
      <3>2. PICK m \in WalkType : m = l
        BY <1>1
      <3>3. PICK e \in Int : e = 0
        OBVIOUS
      <3>4. v = [m EXCEPT !.total = t, !.ew = e]
        BY <2>0, <3>1, <3>2, <3>3
      <3>5. v \in WalkType /\ v.i = m.i /\ v.best = m.best /\ v.total = t
        BY <3>4 DEF WalkType
      <3> QED
        BY <3>1, <3>2, <3>5
    <2>4. /\ w.total = v.total
          /\ \/ l.best = 0 /\ w.best = l.i /\ Moved(l, w, Len(upstreams))
             \/ l.best # 0 /\ w.best = l.best /\ w.at = "loadCurrent" /\ w.i = l.i
      <3>1. CASE v.best = 0
        <4>1. v.i \in Nat
          BY <2>3 DEF WalkType
        <4>2. PICK b : b = [v EXCEPT !.best = v.i]
          OBVIOUS
        <4>3. b \in WalkType /\ b.i = v.i /\ b.best = v.i /\ b.total = v.total
          BY <2>3, <4>1, <4>2, WalkBest
        <4>4. w = Advance(b)
          BY <2>1, <3>1, <4>2
        <4> QED
          BY <1>2, <2>3, <3>1, <4>3, <4>4, AdvanceMoves
      <3>2. CASE v.best # 0
        <4>1. w = [v EXCEPT !.at = "loadCurrent"]
          BY <2>1, <3>2
        <4>2. w.at = "loadCurrent" /\ w.i = v.i /\ w.best = v.best /\ w.total = v.total
          BY <2>3, <4>1, WalkAt
        <4> QED
          BY <2>3, <3>2, <4>2
      <3> QED
        BY <3>1, <3>2
    <2>5. GetAdd(l, w)
      BY <2>2, <2>3, <2>4 DEF GetAdd
    <2>z. GetFields(h, w)
      BY <1>1, <2>2, <2>5 DEF GetFields, vars
    <2> QED
      BY <2>z
  <1>c. CASE LoadCurrent(h)
    <2>1. PICK e \in Int : e = currentWeight[l.i]
      BY <1>1, <1>2
    <2>2. PICK w : w = [l EXCEPT !.at = "compare", !.ci = e]
      OBVIOUS
    <2>3. /\ walk' = [walk EXCEPT ![h] = w] /\ l.at = "loadCurrent"
          /\ UNCHANGED <<vars, currentWeight>>
      BY <1>c, <1>1, <2>1, <2>2 DEF LoadCurrent, InGet
    <2>4. w.at = "compare" /\ w.ci = e /\ w.i = l.i /\ w.total = l.total /\ w.best = l.best
      BY <1>1, <2>2 DEF WalkType
    <2>5. GetLoadCurrent(l, w)
      BY <2>1, <2>3, <2>4 DEF GetLoadCurrent
    <2>z. GetFields(h, w)
      BY <1>1, <2>3, <2>5 DEF GetFields, vars
    <2> QED
      BY <2>z
  <1>d. CASE Compare(h)
    <2>1. PICK v : v = [l EXCEPT !.ci = 0]
      OBVIOUS
    <2>2. v \in WalkType /\ v.i = l.i /\ v.best = l.best /\ v.total = l.total
      BY <1>1, <2>1, WalkCompared
    <2>3. PICK b : b = IF l.ci > currentWeight[v.best] THEN [v EXCEPT !.best = v.i] ELSE v
      OBVIOUS
    <2>4. /\ walk' = [walk EXCEPT ![h] = Advance(b)] /\ l.at = "compare"
          /\ UNCHANGED <<vars, currentWeight>>
      BY <1>d, <2>1, <2>3 DEF Compare, InGet
    <2>5. /\ b \in WalkType /\ b.i = l.i /\ b.total = l.total
          /\ b.best = IF l.ci > currentWeight[l.best] THEN l.i ELSE l.best
      <3>1. v.i \in Nat
        BY <2>2 DEF WalkType
      <3>2. PICK c : c = [v EXCEPT !.best = v.i]
        OBVIOUS
      <3>3. c \in WalkType /\ c.i = v.i /\ c.best = v.i /\ c.total = v.total
        BY <2>2, <3>1, <3>2, WalkBest
      <3>4. b = IF l.ci > currentWeight[l.best] THEN c ELSE v
        BY <2>2, <2>3, <3>2
      <3> QED
        BY <2>2, <3>3, <3>4
    <2>6. PICK w : w = Advance(b)
      OBVIOUS
    <2>7. w.best = b.best /\ w.total = b.total /\ Moved(l, w, Len(upstreams))
      BY <1>2, <2>5, <2>6, AdvanceMoves
    <2>8. GetCompare(l, w)
      BY <2>4, <2>5, <2>7 DEF GetCompare
    <2>z. GetFields(h, w)
      BY <1>1, <2>4, <2>6, <2>8 DEF GetFields, vars
    <2> QED
      BY <2>z
  <1>e. CASE Subtract(h)
    <2>1. /\ walk' = [walk EXCEPT ![h] = Fresh] /\ Got(h, l.best) /\ l.at = "subtract"
          /\ currentWeight' = [currentWeight EXCEPT ![l.best] = currentWeight[l.best] - l.total]
      BY <1>e DEF Subtract, InGet
    <2>2. PICK w : w = Fresh
      OBVIOUS
    <2>3. GetSubtract(l, w)
      BY <2>1, <2>2 DEF GetSubtract
    <2>z. GetFields(h, w)
      BY <1>1, <2>1, <2>2, <2>3 DEF GetFields, Got
    <2> QED
      BY <2>z
  <1> QED
    BY <1>a, <1>b, <1>c, <1>d, <1>e DEF GetStep

-------------------------------------------------------------------------------
(***************************************************************************)
(* Bounds of sums.                                                         *)
(***************************************************************************)
LEMMA SumInt ==
  ASSUME NEW D, IsFiniteSet(D), NEW g \in [D -> Int]
  PROVE  SumFunction(g) \in Int
  <1>1. PICK F \in [SUBSET D -> Int] : IsSum(g, F, D) /\ SumFunction(g) = F[D]
    BY FoldIsSum
  <1>2. F[D] \in Int
    OBVIOUS
  <1> QED
    BY <1>1, <1>2

LEMMA SumMonotone ==
  ASSUME NEW D, IsFiniteSet(D), NEW g \in [D -> Int], NEW h \in [D -> Int],
         \A x \in D : g[x] <= h[x]
  PROVE  SumFunction(g) <= SumFunction(h)
  <1>1. PICK F \in [SUBSET D -> Int] : IsSum(g, F, D) /\ SumFunction(g) = F[D]
    BY FoldIsSum
  <1>2. PICK G \in [SUBSET D -> Int] : IsSum(h, G, D) /\ SumFunction(h) = G[D]
    BY FoldIsSum
  <1> DEFINE T == {s \in SUBSET D : F[s] <= G[s]}
  <1>3. ASSUME NEW s \in SUBSET D, \A t \in SUBSET s : t # s => t \in T
        PROVE  s \in T
    <2>1. CASE s = {}
      <3>1. F[{}] = 0 /\ G[{}] = 0
        BY <1>1, <1>2, SumEquations
      <3> QED
        BY <2>1, <3>1
    <2>2. CASE s # {}
      <3> DEFINE r == s \ {Pick(s)}
      <3>a. Pick(s) \in s /\ F[s] = g[Pick(s)] + F[r]
        BY <1>1, <2>2, SumEquations
      <3>b. G[s] = h[Pick(s)] + G[r]
        BY <1>2, <2>2, SumEquations
      <3>1. Pick(s) \in s /\ F[s] = g[Pick(s)] + F[r] /\ G[s] = h[Pick(s)] + G[r]
        BY <3>a, <3>b
      <3>2. F[r] <= G[r] /\ F[r] \in Int /\ G[r] \in Int
        BY <1>3, <3>1
      <3>3. PICK x \in D : x = Pick(s)
        BY <3>1
      <3>4. g[x] <= h[x] /\ g[x] \in Int /\ h[x] \in Int
        OBVIOUS
      <3>5. F[s] <= G[s]
        BY <3>1, <3>2, <3>3, <3>4
      <3> QED
        BY <3>5
    <2> QED
      BY <2>1, <2>2
  <1> HIDE DEF T
  <1>4. D \in T
    BY <1>3, SubsetInduction
  <1> QED
    BY <1>1, <1>2, <1>4 DEF T

LEMMA SumConstant ==
  ASSUME NEW D, IsFiniteSet(D), NEW c \in Int
  PROVE  SumFunction([x \in D |-> c]) = Cardinality(D) * c /\ Cardinality(D) \in Nat
  <1>0. PICK g : g = [x \in D |-> c]
    OBVIOUS
  <1>1. g \in [D -> Int] /\ \A x \in D : g[x] = c
    BY <1>0
  <1>2. PICK F \in [SUBSET D -> Int] : IsSum(g, F, D) /\ SumFunction(g) = F[D]
    BY <1>1, FoldIsSum
  <1> DEFINE T == {s \in SUBSET D : F[s] = Cardinality(s) * c}
  <1>3. ASSUME NEW s \in SUBSET D, \A t \in SUBSET s : t # s => t \in T
        PROVE  s \in T
    <2>1. CASE s = {}
      <3>1. F[{}] = 0
        BY <1>2, SumEquations
      <3>2. Cardinality({}) * c = 0
        BY FS_EmptySet
      <3> QED
        BY <2>1, <3>1, <3>2
    <2>2. CASE s # {}
      <3>1. PICK x : x = Pick(s)
        OBVIOUS
      <3>2. PICK r : r = s \ {x}
        OBVIOUS
      <3>3. x \in s /\ F[s] = g[x] + F[r]
        BY <1>2, <2>2, <3>1, <3>2, SumEquations
      <3>4. r \in T /\ g[x] = c
        BY <1>1, <1>3, <3>2, <3>3
      <3>5. IsFiniteSet(s)
        BY FS_Subset
      <3>6. Cardinality(r) = Cardinality(s) - 1 /\ Cardinality(s) \in Nat
        BY <3>2, <3>3, <3>5, FS_RemoveElement, FS_CardinalityType
      <3>7. PICK k \in Int : k = Cardinality(s)
        BY <3>6
      <3>8. F[r] = (k - 1) * c
        BY <3>4, <3>6, <3>7
      <3>9. (k - 1) * c = k * c - c
        OBVIOUS
      <3>10. F[s] = k * c
        BY <3>3, <3>4, <3>8, <3>9
      <3> QED
        BY <3>7, <3>10
    <2> QED
      BY <2>1, <2>2
  <1> HIDE DEF T
  <1>4. D \in T
    BY <1>3, SubsetInduction
  <1>5. Cardinality(D) \in Nat
    BY FS_CardinalityType
  <1> QED
    BY <1>0, <1>2, <1>4, <1>5 DEF T

LEMMA SumAtLeast ==
  ASSUME NEW D, IsFiniteSet(D), NEW g \in [D -> Int], NEW c \in Int, \A x \in D : g[x] >= c
  PROVE  SumFunction(g) >= Cardinality(D) * c
  <1>1. PICK e : e = [x \in D |-> c]
    OBVIOUS
  <1>2. e \in [D -> Int] /\ \A x \in D : e[x] <= g[x]
    BY <1>1
  <1>3. SumFunction(e) <= SumFunction(g)
    BY <1>2, SumMonotone
  <1>4. SumFunction(e) = Cardinality(D) * c
    BY <1>1, SumConstant
  <1>5. SumFunction(g) \in Int /\ SumFunction(e) \in Int
    BY <1>2, SumInt
  <1> QED
    BY <1>3, <1>4, <1>5

LEMMA SumAtMost ==
  ASSUME NEW D, IsFiniteSet(D), NEW g \in [D -> Int], NEW c \in Int, \A x \in D : g[x] <= c
  PROVE  SumFunction(g) <= Cardinality(D) * c
  <1>1. PICK e : e = [x \in D |-> c]
    OBVIOUS
  <1>2. e \in [D -> Int] /\ \A x \in D : g[x] <= e[x]
    BY <1>1
  <1>3. SumFunction(g) <= SumFunction(e)
    BY <1>2, SumMonotone
  <1>4. SumFunction(e) = Cardinality(D) * c
    BY <1>1, SumConstant
  <1> QED
    BY <1>3, <1>4

\* One of the values of a sum that is not negative is not negative.
LEMMA SumNatHasNat ==
  ASSUME NEW D, IsFiniteSet(D), D # {}, NEW g \in [D -> Int], SumFunction(g) >= 0
  PROVE  \E x \in D : g[x] >= 0
  <1> SUFFICES ASSUME \A x \in D : ~(g[x] >= 0) PROVE FALSE
    OBVIOUS
  <1>1. PICK c \in Int : c = -1
    OBVIOUS
  <1>2. \A x \in D : g[x] <= c
    BY <1>1
  <1>3. SumFunction(g) <= Cardinality(D) * c
    BY <1>2, SumAtMost
  <1>4. Cardinality(D) \in Nat /\ Cardinality(D) # 0
    BY FS_EmptySet, FS_CardinalityType
  <1>5. PICK k \in Nat : k = Cardinality(D) /\ k # 0
    BY <1>4
  <1>6. k * c < 0
    BY <1>1, <1>5
  <1>7. SumFunction(g) \in Int
    BY SumInt
  <1> QED
    BY <1>3, <1>5, <1>6, <1>7

-------------------------------------------------------------------------------
\* Whether the weights change is settled when the process starts.
LEMMA SteadyStays == [NginxNext]_nginxVars => (Steady' <=> Steady)
  <1> SUFFICES ASSUME [NginxNext]_nginxVars PROVE config' = config
    BY DEF Steady
  <1>1. CASE NginxAdd
    BY <1>1 DEF NginxAdd, Add
  <1>2. CASE Bookkeeping
    BY <1>2 DEF Bookkeeping, Begin, AddRefused, Listen, StartEvaluate, Report, NoReport,
          ReportUpstreamStatus, ReportStore, Probe, ProbeAnswer, ProbeStore, ProbePanics,
          NextRound, Ended, vars
  <1>3. ASSUME NEW h \in Handlers, GetStep(h) PROVE config' = config
    BY <1>3 DEF GetStep, LoadEffective, AddCurrent, LoadCurrent, Compare, Subtract, Got, vars
  <1>4. CASE UNCHANGED nginxVars
    BY <1>4 DEF nginxVars, vars
  <1> QED
    BY <1>1, <1>2, <1>3, <1>4 DEF NginxNext

\* The weights are those of the configuration, and nobody owes a store.
SteadyInv ==
    /\ \A u \in DOMAIN upstreams :
          effectiveWeight[u] >= 0 /\ probe[u] \in {"none", "running", "done"}
    /\ \A h \in Handlers : pc[h] \in {"idle", "query"}
    /\ phase \in {"configuring", "failed"} =>
          \A u \in DOMAIN upstreams : currentWeight[u] = 0

LEMMA SteadyInit == NginxInit => SteadyInv
  BY DEF NginxInit, Init, SteadyInv

LEMMA SteadyAdd ==
  ASSUME Steady, TypeOK, NginxIndInv, SteadyInv, NginxAdd
  PROVE  SteadyInv'
  <1> DEFINE n == Len(upstreams)
  <1>1. /\ n \in Nat /\ DOMAIN upstreams = 1..n
        /\ upstreams \in Seq(Entry) /\ effectiveWeight \in Seq(Int) /\ Len(effectiveWeight) = n
        /\ probe \in Seq(ProbeStates) /\ Len(probe) = n
        /\ config \in Configs
    BY UpstreamIndices DEF TypeOK
  <1>2. currentWeight \in Seq(Int) /\ Len(currentWeight) = n
    BY UpstreamIndices DEF NginxIndInv
  <1>3. /\ upstreams' = Append(upstreams, NewUpstream) /\ Len(upstreams) < Len(config.entries)
        /\ effectiveWeight' = Append(effectiveWeight, NewUpstream.weight)
        /\ probe' = Append(probe, "none") /\ currentWeight' = Append(currentWeight, 0)
        /\ UNCHANGED <<phase, pc>> /\ phase = "configuring"
    BY DEF NginxAdd, Add
  <1>4. NewUpstream.weight \in Int /\ NewUpstream.weight >= 0
    <2>1. config.selector = "nginx"
      BY <1>1, NginxAssumption
    <2>2. NewUpstream.weight = NextEntry.weight
      BY <2>1 DEF NewUpstream
    <2>3. config.entries \in Seq(Entry)
      BY <1>1, ConfigsAssumption DEF Config
    <2>4. n + 1 \in DOMAIN config.entries
      BY <1>1, <1>3, <2>3
    <2>5. NextEntry.weight >= 0
      BY <1>1, <2>4 DEF Steady, NextEntry
    <2>6. NewUpstream \in Entry
      BY <1>3, NewUpstreamType
    <2> QED
      BY <2>2, <2>5, <2>6 DEF Entry
  <1> HIDE DEF n
  <1>5. DOMAIN upstreams' = 1..(n + 1)
    <2>1. Len(upstreams') = n + 1 /\ upstreams' \in Seq({NewUpstream} \cup Entry)
      BY <1>1, <1>3 DEF n
    <2> QED
      BY <2>1
  <1>6. PICK e \in Int : e = NewUpstream.weight /\ e >= 0
    BY <1>4
  <1>7. ASSUME NEW u \in 1..(n + 1)
        PROVE  effectiveWeight'[u] >= 0
    <2>1. CASE u = n + 1
      <3>1. effectiveWeight'[n + 1] = e
        BY <1>1, <1>3, <1>6
      <3> QED
        BY <1>6, <2>1, <3>1
    <2>2. CASE u \in 1..n
      <3>1. effectiveWeight'[u] = effectiveWeight[u]
        BY <1>1, <1>3, <1>6, <2>2
      <3> QED
        BY <1>1, <2>2, <3>1 DEF SteadyInv
    <2> QED
      BY <1>1, <2>1, <2>2
  <1>8. ASSUME NEW u \in 1..(n + 1)
        PROVE  probe'[u] \in {"none", "running", "done"}
    <2>1. CASE u = n + 1
      <3>1. probe'[n + 1] = "none"
        BY <1>1, <1>3
      <3> QED
        BY <2>1, <3>1
    <2>2. CASE u \in 1..n
      <3>1. probe'[u] = probe[u]
        BY <1>1, <1>3, <2>2
      <3> QED
        BY <1>1, <2>2, <3>1 DEF SteadyInv
    <2> QED
      BY <1>1, <2>1, <2>2
  <1>9. ASSUME NEW u \in 1..(n + 1)
        PROVE  currentWeight'[u] = 0
    <2>1. CASE u = n + 1
      BY <1>1, <1>2, <1>3, <2>1
    <2>2. CASE u \in 1..n
      <3>1. currentWeight'[u] = currentWeight[u]
        BY <1>1, <1>2, <1>3, <2>2
      <3> QED
        BY <1>1, <1>3, <2>2, <3>1 DEF SteadyInv
    <2> QED
      BY <1>1, <2>1, <2>2
  <1> QED
    BY <1>3, <1>5, <1>7, <1>8, <1>9 DEF SteadyInv

\* The steps outside Get: none changes a weight.
LEMMA SteadyBookkeeping ==
  ASSUME Steady, TypeOK, NginxIndInv, SteadyInv, Bookkeeping, UNCHANGED getVars
  PROVE  SteadyInv' /\ UNCHANGED <<upstreams, effectiveWeight>>
  <1>1. UNCHANGED <<currentWeight, walk, upstreams>>
    BY NginxBookkeepingInv DEF getVars
  <1>2. Len(upstreams) = Len(probe) /\ DOMAIN upstreams = DOMAIN probe
    BY DEF TypeOK
  <1>3. CASE Begin
    BY <1>1, <1>3 DEF Begin, AddRefused, Listen, StartEvaluate, SteadyInv
  <1>4. ASSUME NEW h \in Handlers, Report(h) \/ ReportStore(h)
        PROVE  SteadyInv' /\ UNCHANGED <<upstreams, effectiveWeight>>
    <2>1. NoReport(h)
      BY <1>4 DEF Report, ReportStore, Steady, SteadyInv
    <2>2. \A g \in Handlers : pc'[g] = pc[g] \/ pc'[g] = "idle"
      BY <2>1 DEF NoReport, TypeOK
    <2>3. UNCHANGED <<phase, probe, upstreams, effectiveWeight>>
      BY <2>1 DEF NoReport
    <2> QED
      BY <1>1, <2>2, <2>3 DEF SteadyInv
  <1>5. ASSUME NEW u \in Numbers, Probe(u)
        PROVE  SteadyInv' /\ UNCHANGED <<upstreams, effectiveWeight>>
    <2>1. ProbePanics(u)
      BY <1>5 DEF Probe, ProbeStore, Steady, SteadyInv
    <2> QED
      BY <1>1, <2>1 DEF ProbePanics, SteadyInv
  <1>6. CASE NextRound \/ Ended
    BY <1>1, <1>6 DEF NextRound, Ended, vars, SteadyInv
  <1> QED
    BY <1>3, <1>4, <1>5, <1>6 DEF Bookkeeping

LEMMA SteadyGet ==
  ASSUME TypeOK, NginxIndInv, SteadyInv, NEW h \in Handlers, GetStep(h)
  PROVE  SteadyInv'
  <1>1. CASE Subtract(h)
    <2>1. \A g \in Handlers : pc'[g] = pc[g] \/ pc'[g] = "query"
      BY <1>1 DEF Subtract, InGet, Got, TypeOK
    <2>2. UNCHANGED <<phase, probe, upstreams, effectiveWeight>> /\ phase = "serving"
      BY <1>1 DEF Subtract, InGet, Got
    <2> QED
      BY <2>1, <2>2 DEF SteadyInv
  <1>2. CASE LoadEffective(h) \/ AddCurrent(h) \/ LoadCurrent(h) \/ Compare(h)
    <2>1. UNCHANGED vars /\ phase = "serving"
      BY <1>2 DEF LoadEffective, AddCurrent, LoadCurrent, Compare, InGet
    <2> QED
      BY <2>1 DEF SteadyInv, vars
  <1> QED
    BY <1>1, <1>2 DEF GetStep

-------------------------------------------------------------------------------
\* All the weights together.
Round == SumFunction(effectiveWeight)

\* The weights of the upstreams before j, which a walk that has come to j has
\* handed out.
Before(j) == [u \in DOMAIN upstreams |-> IF u < j THEN effectiveWeight[u] ELSE 0]

HandedOut(j) == SumFunction(Before(j))

LEMMA BeforeType ==
  ASSUME TypeOK, SteadyInv, NEW j \in Nat
  PROVE  /\ Before(j) \in [DOMAIN upstreams -> Int]
         /\ \A u \in DOMAIN upstreams :
               Before(j)[u] >= 0 /\ Before(j)[u] <= effectiveWeight[u]
  <1>1. effectiveWeight \in [DOMAIN upstreams -> Int]
    BY UpstreamIndices
  <1>2. \A u \in DOMAIN upstreams : effectiveWeight[u] >= 0
    BY DEF SteadyInv
  <1>3. \A u \in DOMAIN upstreams : Before(j)[u] = IF u < j THEN effectiveWeight[u] ELSE 0
    BY DEF Before
  <1>4. Before(j) \in [DOMAIN upstreams -> Int]
    BY <1>1 DEF Before
  <1> QED
    BY <1>1, <1>2, <1>3, <1>4

LEMMA HandedOutRange ==
  ASSUME TypeOK, SteadyInv
  PROVE  /\ Round \in Nat
         /\ \A j \in Nat : HandedOut(j) \in Int /\ 0 <= HandedOut(j) /\ HandedOut(j) <= Round
  <1>1. effectiveWeight \in [DOMAIN upstreams -> Int] /\ IsFiniteSet(DOMAIN upstreams)
    BY UpstreamIndices
  <1>2. PICK z \in Int : z = 0
    OBVIOUS
  <1>3. Cardinality(DOMAIN upstreams) * z = 0
    <2>1. PICK k \in Nat : k = Cardinality(DOMAIN upstreams)
      BY <1>1, FS_CardinalityType
    <2> QED
      BY <1>2, <2>1
  <1>4. Round \in Nat
    <2>1. Round \in Int
      BY <1>1, SumInt DEF Round
    <2>2. Round >= Cardinality(DOMAIN upstreams) * z
      BY <1>1, <1>2, SumAtLeast DEF Round, SteadyInv
    <2> QED
      BY <1>3, <2>1, <2>2
  <1>5. ASSUME NEW j \in Nat
        PROVE  HandedOut(j) \in Int /\ 0 <= HandedOut(j) /\ HandedOut(j) <= Round
    <2>1. PICK g \in [DOMAIN upstreams -> Int] :
            g = Before(j) /\ \A u \in DOMAIN upstreams : g[u] >= z /\ g[u] <= effectiveWeight[u]
      BY <1>2, BeforeType
    <2>2. SumFunction(g) \in Int
      BY <1>1, SumInt
    <2>3. SumFunction(g) >= Cardinality(DOMAIN upstreams) * z
      BY <1>1, <2>1, SumAtLeast
    <2>4. SumFunction(g) <= Round
      BY <1>1, <2>1, SumMonotone DEF Round
    <2> QED
      BY <1>3, <2>1, <2>2, <2>3, <2>4 DEF HandedOut
  <1> QED
    BY <1>4, <1>5

LEMMA HandedOutNone ==
  ASSUME TypeOK, SteadyInv
  PROVE  HandedOut(1) = 0
  <1>1. PICK g \in [DOMAIN upstreams -> Int] : g = Before(1)
    BY BeforeType
  <1>2. \A u \in DOMAIN upstreams : g[u] = 0
    <2>1. \A u \in DOMAIN upstreams : ~(u < 1)
      BY UpstreamIndices
    <2> QED
      BY <1>1, <2>1 DEF Before
  <1>3. SumFunction(g) = 0
    BY <1>2, UpstreamIndices, SumZero
  <1> QED
    BY <1>1, <1>3 DEF HandedOut

LEMMA HandedOutNext ==
  ASSUME TypeOK, SteadyInv, NEW j \in DOMAIN upstreams
  PROVE  HandedOut(j + 1) = HandedOut(j) + effectiveWeight[j]
  <1>1. /\ effectiveWeight \in [DOMAIN upstreams -> Int] /\ IsFiniteSet(DOMAIN upstreams)
        /\ j \in Nat /\ DOMAIN upstreams \in SUBSET Nat
    BY UpstreamIndices
  <1>2. PICK g \in [DOMAIN upstreams -> Int] : g = Before(j)
    BY <1>1, BeforeType
  <1>3. PICK e \in Int : e = effectiveWeight[j]
    BY <1>1
  <1>4. g[j] = 0
    BY <1>1, <1>2 DEF Before
  <1>5. Before(j + 1) = [g EXCEPT ![j] = e]
    <2>1. \A u \in DOMAIN upstreams : u < j + 1 <=> u < j \/ u = j
      BY <1>1
    <2>2. \A u \in DOMAIN upstreams :
             Before(j + 1)[u] = IF u = j THEN e ELSE g[u]
      BY <1>1, <1>2, <1>3, <2>1 DEF Before
    <2>3. Before(j + 1) \in [DOMAIN upstreams -> Int]
      <3>1. j + 1 \in Nat
        BY <1>1
      <3> QED
        BY <3>1, BeforeType
    <2>4. PICK b \in [DOMAIN upstreams -> Int] :
            b = Before(j + 1) /\ \A u \in DOMAIN upstreams : b[u] = IF u = j THEN e ELSE g[u]
      BY <2>2, <2>3
    <2>5. b = [g EXCEPT ![j] = e]
      BY <2>4
    <2> QED
      BY <2>4, <2>5
  <1>6. SumFunction([g EXCEPT ![j] = e]) = SumFunction(g) - g[j] + e /\ SumFunction(g) \in Int
    BY <1>1, SumUpdate
  <1>7. SumFunction([g EXCEPT ![j] = e]) = SumFunction(g) + e
    BY <1>4, <1>6
  <1> QED
    BY <1>2, <1>3, <1>5, <1>7 DEF HandedOut

LEMMA HandedOutAll ==
  ASSUME TypeOK, SteadyInv
  PROVE  HandedOut(Len(upstreams) + 1) = Round
  <1>1. /\ effectiveWeight \in [DOMAIN upstreams -> Int]
        /\ DOMAIN upstreams = 1..Len(upstreams) /\ Len(upstreams) \in Nat
    BY UpstreamIndices
  <1>2. PICK j \in Nat : j = Len(upstreams) + 1
    BY <1>1
  <1>3. \A u \in DOMAIN upstreams : u < j
    BY <1>1, <1>2
  <1>4. PICK g \in [DOMAIN upstreams -> Int] : g = Before(j)
    BY BeforeType
  <1>5. \A u \in DOMAIN upstreams : g[u] = effectiveWeight[u]
    BY <1>3, <1>4 DEF Before
  <1>6. g = effectiveWeight
    BY <1>1, <1>5
  <1> QED
    BY <1>2, <1>4, <1>6 DEF HandedOut, Round

-------------------------------------------------------------------------------
\* The local totalWeight of Get is what its walk has handed out.
TotalInv(w) ==
    /\ w.at = "load" => w.total = HandedOut(w.i)
    /\ w.at = "add" => w.total = HandedOut(w.i) /\ w.ew = effectiveWeight[w.i]
    /\ w.at \in {"loadCurrent", "compare"} => w.total = HandedOut(w.i + 1)
    /\ w.at = "subtract" => w.total = Round

LEMMA FreshTotal ==
  ASSUME TypeOK, SteadyInv
  PROVE  TotalInv(Fresh)
  <1>1. Fresh.at = "load" /\ Fresh.i = 1 /\ Fresh.total = 0
    BY DEF Fresh
  <1> QED
    BY <1>1, HandedOutNone DEF TotalInv

LEMMA TotalNat ==
  ASSUME TypeOK, NginxIndInv, SteadyInv, NEW h \in Handlers, TotalInv(walk[h])
  PROVE  walk[h].total \in Int /\ 0 <= walk[h].total /\ walk[h].total <= Round
  <1>1. PICK w \in WalkType : w = walk[h]
    BY DEF NginxIndInv, WalkInv
  <1>2. w.i \in Nat /\ w.i + 1 \in Nat
    <2>1. PICK i \in Nat : i = w.i
      BY DEF WalkType
    <2> QED
      BY <2>1
  <1>3. w.at \in {"load", "add", "loadCurrent", "compare", "subtract"}
    BY DEF WalkType
  <1>4. w.total = HandedOut(w.i) \/ w.total = HandedOut(w.i + 1) \/ w.total = Round
    BY <1>1, <1>3 DEF TotalInv
  <1>5. PICK r \in Nat : r = Round
    BY HandedOutRange
  <1>6. w.total \in Int /\ 0 <= w.total /\ w.total <= r
    BY <1>2, <1>4, <1>5, HandedOutRange
  <1> QED
    BY <1>1, <1>5, <1>6

LEMMA TotalGet ==
  ASSUME TypeOK, NginxIndInv, SteadyInv, NEW h \in Handlers, NEW w, GetFields(h, w),
         TotalInv(walk[h])
  PROVE  TotalInv(w)
  <1>1. PICK l \in WalkType : l = walk[h]
    BY DEF NginxIndInv, WalkInv
  <1>2. l.i \in DOMAIN upstreams
    <2>1. Fresh.i = 1
      BY DEF Fresh
    <2> QED
      BY <1>1, <2>1 DEF NginxIndInv, WalkInv, GetFields
  <1>3. TotalInv(l)
    BY <1>1
  <1>4. ASSUME Moved(l, w, Len(upstreams)), w.total = HandedOut(l.i + 1)
        PROVE  TotalInv(w)
    <2>1. CASE w.at = "load" /\ w.i = l.i + 1
      BY <1>4, <2>1 DEF TotalInv
    <2>2. CASE w.at = "subtract" /\ l.i = Len(upstreams)
      BY <1>4, <2>2, HandedOutAll DEF TotalInv
    <2> QED
      BY <1>4, <2>1, <2>2 DEF Moved
  <1>5. CASE GetLoad(l, w)
    BY <1>3, <1>5 DEF GetLoad, TotalInv
  <1>6. CASE GetAdd(l, w)
    <2>1. w.total = HandedOut(l.i + 1)
      <3>1. l.total = HandedOut(l.i) /\ l.ew = effectiveWeight[l.i] /\ w.total = l.total + l.ew
        BY <1>3, <1>6 DEF TotalInv, GetAdd
      <3> QED
        BY <1>2, <3>1, HandedOutNext
    <2>2. CASE Moved(l, w, Len(upstreams))
      BY <1>4, <2>1, <2>2
    <2>3. CASE w.at = "loadCurrent" /\ w.i = l.i
      BY <2>1, <2>3 DEF TotalInv
    <2> QED
      BY <1>6, <2>2, <2>3 DEF GetAdd
  <1>7. CASE GetLoadCurrent(l, w)
    BY <1>3, <1>7 DEF GetLoadCurrent, TotalInv
  <1>8. CASE GetCompare(l, w)
    BY <1>3, <1>4, <1>8 DEF GetCompare, TotalInv
  <1>9. CASE GetSubtract(l, w)
    BY <1>9, FreshTotal DEF GetSubtract
  <1> QED
    BY <1>1, <1>5, <1>6, <1>7, <1>8, <1>9 DEF GetFields

-------------------------------------------------------------------------------
\* The handlers in the order of their ranks.
Ranks == {a \in [Handlers -> 0 .. (Cardinality(Handlers) - 1)] :
             \A g, h \in Handlers : a[g] = a[h] => g = h}

\* How far an upstream can be overdrawn by k handlers.
Overdraft(k, W) == ((k * (k + 1)) \div 2) * W

\* The rank that each handler has after handler h has picked.
Reranked(a, h) ==
    [g \in Handlers |-> IF g = h THEN 0 ELSE IF a[g] < a[h] THEN a[g] + 1 ELSE a[g]]

LEMMA SomeRanks == \E a : a \in Ranks
  <1>1. PICK k \in Nat : k = Cardinality(Handlers)
    BY HandlersAssumption, FS_CardinalityType
  <1>2. PICK f \in [1..k -> Handlers] : \A h \in Handlers : \E i \in 1..k : f[i] = h
    BY <1>1, HandlersAssumption, FS_CardinalityType DEF ExistsBijection, Bijection, Surjection
  <1> DEFINE a == [h \in Handlers |-> (CHOOSE i \in 1..k : f[i] = h) - 1]
  <1>3. ASSUME NEW h \in Handlers
        PROVE  a[h] \in 0 .. (k - 1) /\ f[a[h] + 1] = h
    <2>1. PICK i \in 1..k : i = (CHOOSE x \in 1..k : f[x] = h) /\ f[i] = h
      BY <1>2
    <2>2. a[h] = i - 1
      BY <2>1
    <2>3. a[h] + 1 = i
      BY <2>2
    <2> QED
      BY <2>1, <2>2, <2>3
  <1>4. a \in [Handlers -> 0 .. (k - 1)]
    BY <1>3
  <1> HIDE DEF a
  <1>5. \A g, h \in Handlers : a[g] = a[h] => g = h
    BY <1>3
  <1> QED
    BY <1>1, <1>4, <1>5 DEF Ranks

LEMMA RerankedRanks ==
  ASSUME NEW a \in Ranks, NEW h \in Handlers
  PROVE  Reranked(a, h) \in Ranks
  <1>1. PICK k \in Nat : k = Cardinality(Handlers)
    BY HandlersAssumption, FS_CardinalityType
  <1>2. a \in [Handlers -> 0 .. (k - 1)] /\ \A g, f \in Handlers : a[g] = a[f] => g = f
    BY <1>1 DEF Ranks
  <1>3. PICK b : b = Reranked(a, h)
    OBVIOUS
  <1>4. \A g \in Handlers : b[g] = IF g = h THEN 0 ELSE IF a[g] < a[h] THEN a[g] + 1 ELSE a[g]
    BY <1>3 DEF Reranked
  <1>5. PICK r \in 0 .. (k - 1) : r = a[h]
    BY <1>2
  <1>6. ASSUME NEW g \in Handlers
        PROVE  /\ b[g] \in 0 .. (k - 1)
               /\ \/ g = h /\ b[g] = 0
                  \/ g # h /\ a[g] < r /\ b[g] = a[g] + 1
                  \/ g # h /\ a[g] > r /\ b[g] = a[g]
    <2>1. PICK s \in 0 .. (k - 1) : s = a[g]
      BY <1>2
    <2>2. g # h => s # r
      BY <1>2, <1>5, <2>1
    <2>3. b[g] = IF g = h THEN 0 ELSE IF s < r THEN s + 1 ELSE s
      BY <1>4, <1>5, <2>1
    <2> QED
      BY <2>1, <2>2, <2>3
  <1>7. ASSUME NEW f \in Handlers, NEW g \in Handlers, b[f] = b[g]
        PROVE  f = g
    <2>1. PICK s \in 0 .. (k - 1) : s = a[g]
      BY <1>2
    <2>2. PICK t \in 0 .. (k - 1) : t = a[f]
      BY <1>2
    <2>3. (f = h /\ g = h) \/ s = t
      BY <1>6, <1>7, <2>1, <2>2
    <2> QED
      BY <1>2, <2>1, <2>2, <2>3
  <1>8. b \in [Handlers -> 0 .. (k - 1)]
    <2>1. b = [g \in Handlers |-> b[g]]
      BY <1>3 DEF Reranked
    <2> QED
      BY <1>6, <2>1
  <1> QED
    BY <1>1, <1>3, <1>7, <1>8 DEF Ranks

\* A pick at any rank takes an upstream no further down than the overdraft.
LEMMA OverdraftFloor ==
  ASSUME NEW k \in Nat, NEW r \in 0 .. (k - 1), NEW W \in Nat
  PROVE  - Overdraft(k, W) <= Floor(r, W) - W
  <1>1. PICK t \in Nat : t = k - 1 /\ k = t + 1
    OBVIOUS
  <1>2. PICK d \in Nat : d = Depth(t) /\ 2 * d = t * (t + 3)
    BY DepthTwice
  <1>3. (k * (k + 1)) \div 2 = d + 1
    <2>1. k * (k + 1) = 2 * (d + 1)
      <3>1. k * (k + 1) = (t + 1) * (t + 2)
        BY <1>1
      <3>2. (t + 1) * (t + 2) = t * (t + 3) + 2
        OBVIOUS
      <3>3. 2 * (d + 1) = 2 * d + 2
        OBVIOUS
      <3> QED
        BY <1>2, <3>1, <3>2, <3>3
    <2>2. (2 * (d + 1)) \div 2 = d + 1
      OBVIOUS
    <2> QED
      BY <2>1, <2>2
  <1>4. PICK x \in Nat : x = d * W
    OBVIOUS
  <1>5. Overdraft(k, W) = x + W
    <2>1. (d + 1) * W = x + W
      BY <1>4
    <2> QED
      BY <1>3, <2>1 DEF Overdraft
  <1>6. Floor(t, W) = -x
    BY <1>2, <1>4 DEF Floor
  <1>7. PICK m \in 0..t : m = t - r /\ t - m = r
    BY <1>1
  <1>8. PICK y \in Nat : y = m * W
    <2>1. m \in Nat
      OBVIOUS
    <2> QED
      BY <2>1
  <1>9. Floor(t, W) <= Floor(r, W) - 2 * y
    BY <1>7, <1>8, FloorStale
  <1>10. Floor(r, W) \in Int
    <2>1. r \in Nat
      OBVIOUS
    <2> QED
      BY <2>1, FloorRange
  <1> QED
    BY <1>5, <1>6, <1>9, <1>10

LEMMA OverdraftNat == \A k, W \in Nat : Overdraft(k, W) \in Nat
  <1> SUFFICES ASSUME NEW k \in Nat, NEW W \in Nat PROVE Overdraft(k, W) \in Nat
    OBVIOUS
  <1>1. k * (k + 1) \in Nat
    OBVIOUS
  <1>2. PICK p \in Nat : p = k * (k + 1)
    BY <1>1
  <1>3. p \div 2 \in Nat
    OBVIOUS
  <1>4. PICK q \in Nat : q = p \div 2
    BY <1>3
  <1>5. q * W \in Nat
    OBVIOUS
  <1> QED
    BY <1>2, <1>4, <1>5 DEF Overdraft

-------------------------------------------------------------------------------
AllTotals == \A h \in Handlers : TotalInv(walk[h])

NotOverdrawn ==
    \A u \in DOMAIN upstreams :
        currentWeight[u] >= - Overdraft(Cardinality(Handlers), Round)

FindsAll(a) ==
    \A h \in Handlers : Finds(currentWeight, walk[h], a[h], Len(upstreams), Round)

SharesInv ==
    /\ SteadyInv
    /\ AllTotals
    /\ NotOverdrawn
    /\ phase = "serving" => \E a \in Ranks : FindsAll(a)

LEMMA HandlersNumber == Cardinality(Handlers) \in Nat
  BY HandlersAssumption, FS_CardinalityType

\* What the upstreams hold together is what at most all the handlers have
\* handed out.
LEMMA HeldTogether ==
  TypeOK /\ NginxIndInv /\ SteadyInv /\ AllTotals /\ Conservation =>
      /\ SumFunction(currentWeight) \in Int
      /\ SumFunction(currentWeight) >= 0
      /\ SumFunction(currentWeight) <= Cardinality(Handlers) * Round
  <1> SUFFICES ASSUME TypeOK, NginxIndInv, SteadyInv, AllTotals, Conservation
               PROVE  /\ SumFunction(currentWeight) \in Int
                      /\ SumFunction(currentWeight) >= 0
                      /\ SumFunction(currentWeight) <= Cardinality(Handlers) * Round
    OBVIOUS
  <1>1. PICK T \in [Handlers -> Int] : T = Totals
    BY TotalsType
  <1>2. SumFunction(currentWeight) = SumFunction(T)
    BY <1>1 DEF Conservation, Totals
  <1>3. PICK r \in Nat : r = Round
    BY HandedOutRange
  <1>4. PICK z \in Int : z = 0
    OBVIOUS
  <1>5. \A h \in Handlers : T[h] >= z /\ T[h] <= r
    BY <1>1, <1>3, <1>4, TotalsType, TotalNat DEF AllTotals
  <1>6. SumFunction(T) >= Cardinality(Handlers) * z
    BY <1>5, HandlersAssumption, SumAtLeast
  <1>7. SumFunction(T) <= Cardinality(Handlers) * r
    BY <1>5, HandlersAssumption, SumAtMost
  <1>8. Cardinality(Handlers) * z = 0
    BY <1>4, HandlersNumber
  <1>9. SumFunction(T) \in Int
    BY HandlersAssumption, SumInt
  <1> QED
    BY <1>2, <1>3, <1>6, <1>7, <1>8, <1>9

\* There is always an upstream that is not overdrawn.
LEMMA SomeNotOverdrawn ==
  TypeOK /\ NginxIndInv /\ SteadyInv /\ AllTotals /\ Conservation /\ 1 \in DOMAIN upstreams =>
      \E v \in 1..Len(upstreams) : currentWeight[v] >= 0
  <1> SUFFICES ASSUME TypeOK, NginxIndInv, SteadyInv, AllTotals, Conservation,
                      1 \in DOMAIN upstreams
               PROVE  \E v \in 1..Len(upstreams) : currentWeight[v] >= 0
    OBVIOUS
  <1>1. /\ DOMAIN upstreams = 1..Len(upstreams) /\ IsFiniteSet(DOMAIN upstreams)
        /\ currentWeight \in [DOMAIN upstreams -> Int] /\ DOMAIN upstreams # {}
    BY UpstreamIndices DEF NginxIndInv
  <1>2. SumFunction(currentWeight) >= 0
    BY HeldTogether
  <1>3. \E v \in DOMAIN upstreams : currentWeight[v] >= 0
    BY <1>1, <1>2, SumNatHasNat
  <1> QED
    BY <1>1, <1>3

LEMMA FindsFresh ==
  ASSUME NEW n \in Nat, NEW W \in Nat, NEW c \in [1..n -> Int], NEW s \in Nat,
         \E v \in 1..n : c[v] >= 0
  PROVE  Finds(c, Fresh, s, n, W)
  <1>1. PICK v \in 1..n : c[v] >= 0
    OBVIOUS
  <1>2. PICK f \in Int : f = Floor(s, W) /\ f <= 0
    BY FloorRange
  <1>3. c[v] >= f
    BY <1>1, <1>2
  <1>4. Fresh.at = "load" /\ Fresh.i = 1
    BY DEF Fresh
  <1>5. \E u \in Fresh.i .. n : c[u] >= Floor(s, W)
    BY <1>2, <1>3, <1>4
  <1> QED
    BY <1>4, <1>5 DEF Finds

\* Before the first Get.
LEMMA NothingHeld ==
  TypeOK /\ NginxIndInv /\ SteadyInv /\ phase \in {"configuring", "failed"} =>
      AllTotals /\ NotOverdrawn
  <1> SUFFICES ASSUME TypeOK, NginxIndInv, SteadyInv, phase \in {"configuring", "failed"}
               PROVE  AllTotals /\ NotOverdrawn
    OBVIOUS
  <1>1. AllTotals
    BY AllFresh, FreshTotal DEF AllTotals
  <1>2. PICK o \in Nat : o = Overdraft(Cardinality(Handlers), Round)
    BY OverdraftNat, HandlersNumber, HandedOutRange
  <1>3. \A u \in DOMAIN upstreams : currentWeight[u] = 0
    BY DEF SteadyInv
  <1>4. 0 >= -o
    OBVIOUS
  <1>5. NotOverdrawn
    BY <1>2, <1>3, <1>4 DEF NotOverdrawn
  <1> QED
    BY <1>1, <1>5

LEMMA SharesInit ==
  ASSUME NginxInit
  PROVE  SharesInv
  <1>1. TypeOK /\ NginxIndInv /\ SteadyInv /\ phase = "configuring"
    BY InitTypeOK, NginxInitIndInv, SteadyInit DEF NginxInit, Init
  <1>2. AllTotals /\ NotOverdrawn
    BY <1>1, NothingHeld
  <1> QED
    BY <1>1, <1>2 DEF SharesInv

LEMMA SharesAdd ==
  ASSUME Steady, TypeOK, NginxIndInv, SharesInv, NginxAdd, TypeOK', NginxIndInv'
  PROVE  SharesInv'
  <1>1. SteadyInv'
    BY SteadyAdd DEF SharesInv
  <1>2. phase' = "configuring"
    BY DEF NginxAdd, Add
  <1>3. (TypeOK /\ NginxIndInv /\ SteadyInv /\ phase \in {"configuring", "failed"} =>
            AllTotals /\ NotOverdrawn)'
    BY NothingHeld, PTL
  <1>4. AllTotals' /\ NotOverdrawn'
    BY <1>1, <1>2, <1>3
  <1> QED
    BY <1>1, <1>2, <1>4 DEF SharesInv

\* The walks and the weights stay as they are.
LEMMA SharesBookkeeping ==
  ASSUME Steady, TypeOK, NginxIndInv, SharesInv, Bookkeeping, UNCHANGED getVars,
         TypeOK', NginxIndInv'
  PROVE  SharesInv'
  <1>1. SteadyInv' /\ UNCHANGED <<upstreams, effectiveWeight, currentWeight, walk>>
    BY SteadyBookkeeping DEF SharesInv, getVars
  <1>2. AllTotals'
    BY <1>1 DEF SharesInv, AllTotals, TotalInv, HandedOut, Before, Round
  <1>3. NotOverdrawn'
    BY <1>1 DEF SharesInv, NotOverdrawn, Round
  <1>4. ASSUME phase' = "serving"
        PROVE  \E a \in Ranks : FindsAll(a)'
    <2>1. CASE phase = "serving"
      <3>1. PICK a \in Ranks : FindsAll(a)
        BY <2>1 DEF SharesInv
      <3>2. FindsAll(a)'
        BY <1>1, <3>1 DEF FindsAll, Round
      <3> QED
        BY <3>2
    <2>2. CASE phase # "serving"
      <3>1. Listen
        BY <1>4, <2>2 DEF Bookkeeping, Begin, AddRefused, StartEvaluate, Report, NoReport,
              ReportUpstreamStatus, ReportStore, Probe, ProbeAnswer, ProbeStore, ProbePanics,
              NextRound, Ended, vars
      <3>2. phase = "configuring" /\ \A h \in Handlers : walk[h] = Fresh
        BY <3>1, AllFresh DEF Listen
      <3>3. PICK n \in Nat, W \in Nat :
               n = Len(upstreams) /\ W = Round /\ DOMAIN upstreams = 1..n
        BY UpstreamIndices, HandedOutRange DEF SharesInv
      <3>4. PICK c \in [1..n -> Int] : c = currentWeight
        BY <3>3 DEF NginxIndInv
      <3>5. 1 \in 1..n
        BY <1>1, <1>4, <3>3 DEF NginxIndInv
      <3>6. c[1] = 0
        BY <3>2, <3>3, <3>4, <3>5 DEF SharesInv, SteadyInv
      <3>7. \E v \in 1..n : c[v] >= 0
        BY <3>5, <3>6
      <3>8. PICK a \in Ranks : TRUE
        BY SomeRanks
      <3>9. ASSUME NEW h \in Handlers
            PROVE  Finds(c, Fresh, a[h], n, W)
        <4>1. a[h] \in Nat
          BY HandlersNumber DEF Ranks
        <4> QED
          BY <3>7, <4>1, FindsFresh
      <3>10. FindsAll(a)
        BY <3>2, <3>3, <3>4, <3>9 DEF FindsAll
      <3>11. FindsAll(a)'
        BY <1>1, <3>10 DEF FindsAll, Round
      <3> QED
        BY <3>11
    <2> QED
      BY <2>1, <2>2
  <1> QED
    BY <1>1, <1>2, <1>3, <1>4 DEF SharesInv

\* The local variables of Get while it may be running.
LEMMA WalkInRange ==
  ASSUME TypeOK, NginxIndInv, phase = "serving", NEW g \in Handlers
  PROVE  InRange(walk[g], Len(upstreams))
  <1>1. 1 \in DOMAIN upstreams /\ DOMAIN upstreams = 1..Len(upstreams) /\ Len(upstreams) \in Nat
    BY UpstreamIndices DEF NginxIndInv
  <1>2. PICK w \in WalkType : w = walk[g] /\ WalkInv(w)
    BY DEF NginxIndInv, WalkInv
  <1>3. w.i \in DOMAIN upstreams
    <2>1. Fresh.i = 1
      BY DEF Fresh
    <2> QED
      BY <1>1, <1>2, <2>1 DEF WalkInv
  <1>4. w.ci \in Int
    BY DEF WalkType
  <1>5. w.best \in 0..Len(upstreams)
    BY <1>1, <1>2 DEF WalkInv
  <1> QED
    BY <1>1, <1>2, <1>3, <1>4, <1>5 DEF InRange, WalkInv

\* A walk goes on and takes nothing from an upstream.
LEMMA FindsOn ==
  ASSUME TypeOK, NginxIndInv, SteadyInv, NEW h \in Handlers, NEW w, GetFields(h, w),
         TotalInv(walk[h]), ~GetSubtract(walk[h], w), NEW a \in Ranks, FindsAll(a)
  PROVE  /\ FindsAll(a)'
         /\ \A u \in DOMAIN upstreams : currentWeight'[u] >= currentWeight[u]
  <1>1. PICK n \in Nat, W \in Nat :
           n = Len(upstreams) /\ W = Round /\ DOMAIN upstreams = 1..n
    BY UpstreamIndices, HandedOutRange
  <1>2. PICK c \in [1..n -> Int] : c = currentWeight
    BY <1>1 DEF NginxIndInv
  <1>3. /\ walk \in [Handlers -> WalkType] /\ walk' = [walk EXCEPT ![h] = w]
        /\ phase = "serving" /\ UNCHANGED <<upstreams, effectiveWeight>>
    BY DEF NginxIndInv, GetFields
  <1>4. PICK l : l = walk[h] /\ InRange(l, n) /\ TotalInv(l)
    BY <1>1, <1>3, WalkInRange
  <1>5. l.i \in 1..n
    BY <1>4 DEF InRange
  <1>6. PICK d \in [1..n -> Int] :
           /\ d = currentWeight' /\ \A u \in 1..n : d[u] >= c[u]
           /\ l.at # "add" => d = c
    <2>1. CASE GetAdd(l, w)
      <3>1. PICK e \in Int : e = effectiveWeight[l.i] /\ e >= 0
        BY <1>1, <1>5, UpstreamIndices DEF SteadyInv
      <3>2. l.ew = e /\ l.at = "add"
        BY <1>4, <2>1, <3>1 DEF TotalInv, GetAdd
      <3>3. PICK d : d = [c EXCEPT ![l.i] = c[l.i] + e]
        OBVIOUS
      <3>4. d = currentWeight'
        BY <1>2, <2>1, <3>2, <3>3 DEF GetAdd
      <3>5. c[l.i] + e \in Int /\ c[l.i] + e >= c[l.i]
        BY <1>5, <3>1
      <3>6. d \in [1..n -> Int] /\ \A u \in 1..n : d[u] >= c[u]
        BY <1>5, <3>3, <3>5
      <3> QED
        BY <3>2, <3>4, <3>6
    <2>2. CASE ~GetAdd(l, w)
      <3>1. currentWeight' = c
        BY <1>2, <1>4, <2>2 DEF GetFields, GetLoad, GetLoadCurrent, GetCompare
      <3>2. \A u \in 1..n : c[u] >= c[u]
        OBVIOUS
      <3> QED
        BY <3>1, <3>2
    <2> QED
      BY <2>1, <2>2
  <1>7. ASSUME NEW g \in Handlers
        PROVE  a[g] \in Nat /\ Finds(d, walk[g], a[g], n, W)
    <2>1. a[g] \in Nat
      BY HandlersNumber DEF Ranks
    <2>2. PICK x : x = walk[g] /\ InRange(x, n)
      BY <1>1, <1>3, WalkInRange
    <2>3. Finds(c, x, a[g], n, W)
      BY <1>1, <1>2, <2>2 DEF FindsAll
    <2>4. Finds(d, x, a[g], n, W)
      BY <1>6, <2>1, <2>2, <2>3, FindsRaised
    <2> QED
      BY <2>1, <2>2, <2>4
  <1>8. PICK s \in Nat : s = a[h] /\ Finds(d, l, s, n, W)
    BY <1>4, <1>7
  <1>9. Finds(d, w, s, n, W)
    <2>1. CASE GetLoad(l, w)
      BY <1>8, <2>1 DEF GetLoad, Finds
    <2>2. CASE GetAdd(l, w)
      <3>1. CASE l.best = 0
        <4>1. l.at = "add" /\ w.best = l.i /\ Moved(l, w, n)
          BY <1>1, <2>2, <3>1 DEF GetAdd
        <4> QED
          BY <1>4, <1>8, <3>1, <4>1, FindsFirst
      <3>2. CASE l.best # 0
        BY <1>8, <2>2, <3>2 DEF GetAdd, Finds
      <3> QED
        BY <3>1, <3>2
    <2>3. CASE GetLoadCurrent(l, w)
      <3>1. /\ l.at = "loadCurrent" /\ w.at = "compare" /\ w.i = l.i /\ w.best = l.best
            /\ w.ci = d[l.i]
        BY <1>2, <1>6, <2>3 DEF GetLoadCurrent
      <3> QED
        BY <1>4, <1>8, <3>1, FindsLoaded
    <2>4. CASE GetCompare(l, w)
      <3>1. /\ l.at = "compare" /\ Moved(l, w, n)
            /\ w.best = IF l.ci > d[l.best] THEN l.i ELSE l.best
        BY <1>1, <1>2, <1>6, <2>4 DEF GetCompare
      <3> QED
        BY <1>4, <1>8, <3>1, FindsCompared
    <2> QED
      BY <1>4, <2>1, <2>2, <2>3, <2>4 DEF GetFields
  <1>10. ASSUME NEW g \in Handlers
         PROVE  Finds(d, walk'[g], a[g], n, W)
    <2>1. CASE g = h
      <3>1. walk'[g] = w
        BY <1>3, <2>1
      <3> QED
        BY <1>8, <1>9, <2>1, <3>1
    <2>2. CASE g # h
      <3>1. walk'[g] = walk[g]
        BY <1>3, <2>2
      <3> QED
        BY <1>7, <3>1
    <2> QED
      BY <2>1, <2>2
  <1>11. n = Len(upstreams') /\ W = Round'
    BY <1>1, <1>3 DEF Round
  <1>12. FindsAll(a)'
    BY <1>6, <1>10, <1>11 DEF FindsAll
  <1> QED
    BY <1>1, <1>2, <1>6, <1>12

\* A walk ends: its handler takes a round from the upstream it has found.
LEMMA FindsPicked ==
  ASSUME TypeOK, NginxIndInv, SteadyInv, NEW h \in Handlers, NEW w, GetFields(h, w),
         TotalInv(walk[h]), GetSubtract(walk[h], w), NEW a \in Ranks, FindsAll(a),
         NotOverdrawn, \E v \in 1..Len(upstreams) : currentWeight'[v] >= 0
  PROVE  FindsAll(Reranked(a, h))' /\ NotOverdrawn'
  <1>1. PICK n \in Nat, W \in Nat :
           n = Len(upstreams) /\ W = Round /\ DOMAIN upstreams = 1..n
    BY UpstreamIndices, HandedOutRange
  <1>2. PICK c \in [1..n -> Int] : c = currentWeight
    BY <1>1 DEF NginxIndInv
  <1>3. /\ walk \in [Handlers -> WalkType] /\ walk' = [walk EXCEPT ![h] = w]
        /\ phase = "serving" /\ UNCHANGED <<upstreams, effectiveWeight>>
    BY DEF NginxIndInv, GetFields
  <1>4. PICK l : l = walk[h] /\ InRange(l, n) /\ TotalInv(l) /\ l.at = "subtract"
    BY <1>1, <1>3, WalkInRange DEF GetSubtract
  <1>5. PICK p \in 1..n : p = l.best
    BY <1>4 DEF InRange
  <1>6. \A g \in Handlers : a[g] \in Nat /\ a[g] \in 0 .. (Cardinality(Handlers) - 1)
    BY HandlersNumber DEF Ranks
  <1>7. PICK r \in Nat : r = a[h] /\ r \in 0 .. (Cardinality(Handlers) - 1)
    BY <1>6
  <1>8. c[p] >= Floor(r, W)
    <2>1. Finds(c, l, r, n, W)
      BY <1>1, <1>2, <1>4, <1>7 DEF FindsAll
    <2> QED
      BY <1>4, <1>5, <2>1 DEF Finds
  <1>9. PICK d \in [1..n -> Int] :
           d = currentWeight' /\ d[p] = c[p] - W /\ \A u \in 1..n : u # p => d[u] = c[u]
    <2>1. l.total = W
      BY <1>1, <1>4 DEF TotalInv
    <2>2. PICK d : d = [c EXCEPT ![p] = c[p] - W]
      OBVIOUS
    <2>3. d = currentWeight'
      BY <1>2, <1>4, <1>5, <2>1, <2>2 DEF GetSubtract
    <2>4. c[p] - W \in Int
      OBVIOUS
    <2>5. d \in [1..n -> Int] /\ d[p] = c[p] - W /\ \A u \in 1..n : u # p => d[u] = c[u]
      BY <2>2, <2>4
    <2> QED
      BY <2>3, <2>5
  <1>10. PICK f \in Int : f = Floor(r, W) /\ d[p] >= f - W
    <2>1. PICK f \in Int : f = Floor(r, W)
      BY FloorRange
    <2>2. c[p] >= f /\ c[p] \in Int
      BY <1>8, <2>1
    <2>3. d[p] >= f - W
      BY <1>9, <2>2
    <2> QED
      BY <2>1, <2>3
  <1>11. PICK b : b = Reranked(a, h)
    OBVIOUS
  <1>12. \A g \in Handlers : b[g] = IF g = h THEN 0 ELSE IF a[g] < a[h] THEN a[g] + 1 ELSE a[g]
    BY <1>11 DEF Reranked
  <1>13. ASSUME NEW g \in Handlers
         PROVE  Finds(d, walk'[g], b[g], n, W)
    <2>1. CASE g = h
      <3>1. walk'[g] = Fresh
        BY <1>3, <2>1 DEF GetSubtract
      <3>2. b[g] \in Nat
        BY <1>12, <2>1
      <3>3. \E v \in 1..n : d[v] >= 0
        BY <1>1, <1>9
      <3> QED
        BY <3>1, <3>2, <3>3, FindsFresh
    <2>2. CASE g # h
      <3>1. PICK x : x = walk[g] /\ InRange(x, n) /\ x = walk'[g]
        BY <1>1, <1>3, <2>2, WalkInRange
      <3>2. PICK s \in Nat : s = a[g] /\ s # r
        BY <1>6, <1>7, <2>2 DEF Ranks
      <3>3. Finds(c, x, s, n, W)
        BY <1>1, <1>2, <3>1, <3>2 DEF FindsAll
      <3>4. CASE s < r
        <4>1. b[g] = s + 1
          BY <1>7, <1>12, <2>2, <3>2, <3>4
        <4>2. \A v \in 1..n : d[v] >= c[v] - W
          <5>1. ASSUME NEW v \in 1..n PROVE d[v] >= c[v] - W
            <6>1. c[v] >= c[v] - W
              OBVIOUS
            <6> QED
              BY <1>9, <6>1
          <5> QED
            BY <5>1
        <4>3. Finds(d, x, s + 1, n, W)
          BY <3>1, <3>3, <4>2, FindsNext
        <4> QED
          BY <3>1, <4>1, <4>3
      <3>5. CASE ~(s < r)
        <4>1. b[g] = s
          BY <1>7, <1>12, <2>2, <3>2, <3>5
        <4>2. r < s
          BY <3>2, <3>5
        <4>3. Floor(s, W) + s * W <= f - W
          BY <1>10, <4>2, FloorAbove
        <4>4. PICK e \in Int : e = Floor(s, W) + s * W
          <5>1. Floor(s, W) \in Int /\ s * W \in Int
            BY FloorRange
          <5> QED
            BY <5>1
        <4>5. d[p] >= e
          BY <1>10, <4>3, <4>4
        <4>6. \A v \in 1..n : d[v] = c[v] \/ d[v] >= Floor(s, W) + s * W
          BY <1>9, <4>4, <4>5
        <4>7. Finds(d, x, s, n, W)
          BY <3>1, <3>3, <4>6, FindsKept
        <4> QED
          BY <3>1, <4>1, <4>7
      <3> QED
        BY <3>4, <3>5
    <2> QED
      BY <2>1, <2>2
  <1>14. n = Len(upstreams') /\ W = Round' /\ DOMAIN upstreams' = 1..n
    BY <1>1, <1>3 DEF Round
  <1>15. FindsAll(b)'
    BY <1>9, <1>13, <1>14 DEF FindsAll
  <1>16. PICK o \in Nat : o = Overdraft(Cardinality(Handlers), W)
    BY OverdraftNat, HandlersNumber
  <1>17. -o <= f - W
    BY <1>7, <1>10, <1>16, HandlersNumber, OverdraftFloor
  <1>18. \A u \in 1..n : d[u] >= -o
    <2>1. \A u \in 1..n : c[u] >= -o
      BY <1>1, <1>2, <1>16 DEF NotOverdrawn
    <2>2. d[p] >= -o
      BY <1>10, <1>17
    <2> QED
      BY <1>9, <2>1, <2>2
  <1>19. NotOverdrawn'
    BY <1>9, <1>14, <1>16, <1>18 DEF NotOverdrawn
  <1> QED
    BY <1>11, <1>15, <1>19

LEMMA SharesGet ==
  ASSUME TypeOK, NginxIndInv, SharesInv, Conservation, NEW h \in Handlers, GetStep(h),
         TypeOK', NginxIndInv', Conservation'
  PROVE  SharesInv'
  <1>1. SteadyInv /\ SteadyInv' /\ AllTotals /\ NotOverdrawn
    BY SteadyGet DEF SharesInv
  <1>2. PICK w : GetFields(h, w)
    BY GetStepFields
  <1>3. /\ walk \in [Handlers -> WalkType] /\ walk' = [walk EXCEPT ![h] = w]
        /\ phase = "serving" /\ phase' = "serving"
        /\ UNCHANGED <<upstreams, effectiveWeight>> /\ 1 \in DOMAIN upstreams
    BY <1>2 DEF NginxIndInv, GetFields
  <1>4. TotalInv(walk[h]) /\ TotalInv(w)
    BY <1>1, <1>2, TotalGet DEF AllTotals
  <1>5. AllTotals'
    <2>1. ASSUME NEW g \in Handlers PROVE TotalInv(walk[g])'
      <3>1. PICK x : x = walk'[g] /\ TotalInv(x)
        <4>1. CASE g = h
          BY <1>3, <1>4, <4>1
        <4>2. CASE g # h
          BY <1>1, <1>3, <4>2 DEF AllTotals
        <4> QED
          BY <4>1, <4>2
      <3>2. Round' = Round /\ effectiveWeight' = effectiveWeight
        BY <1>3 DEF Round
      <3>3. HandedOut(x.i)' = HandedOut(x.i) /\ HandedOut(x.i + 1)' = HandedOut(x.i + 1)
        BY <1>3 DEF HandedOut, Before
      <3>4. TotalInv(x)'
        BY <3>1, <3>2, <3>3 DEF TotalInv
      <3> QED
        BY <3>1, <3>4 DEF TotalInv, HandedOut, Before
    <2> QED
      BY <2>1 DEF AllTotals
  <1>6. PICK a \in Ranks : FindsAll(a)
    BY <1>3 DEF SharesInv
  <1>7. CASE GetSubtract(walk[h], w)
    <2>1. (TypeOK /\ NginxIndInv /\ SteadyInv /\ AllTotals /\ Conservation /\ 1 \in DOMAIN upstreams =>
             \E v \in 1..Len(upstreams) : currentWeight[v] >= 0)'
      BY SomeNotOverdrawn, PTL
    <2>2. \E v \in 1..Len(upstreams) : currentWeight'[v] >= 0
      BY <1>1, <1>3, <1>5, <2>1
    <2>3. FindsAll(Reranked(a, h))' /\ NotOverdrawn'
      BY <1>1, <1>2, <1>4, <1>6, <1>7, <2>2, FindsPicked
    <2>4. PICK b \in Ranks : FindsAll(b)'
      BY <2>3, RerankedRanks
    <2> QED
      BY <1>1, <1>5, <2>3, <2>4 DEF SharesInv
  <1>8. CASE ~GetSubtract(walk[h], w)
    <2>1. /\ FindsAll(a)'
          /\ \A u \in DOMAIN upstreams : currentWeight'[u] >= currentWeight[u]
      BY <1>1, <1>2, <1>4, <1>6, <1>8, FindsOn
    <2>2. NotOverdrawn'
      <3>1. PICK o \in Nat : o = Overdraft(Cardinality(Handlers), Round)
        BY <1>1, OverdraftNat, HandlersNumber, HandedOutRange
      <3>2. /\ currentWeight \in [DOMAIN upstreams -> Int]
            /\ currentWeight' \in [DOMAIN upstreams -> Int]
        BY <1>3 DEF NginxIndInv
      <3>3. \A u \in DOMAIN upstreams : currentWeight[u] >= -o
        BY <1>1, <3>1 DEF NotOverdrawn
      <3>4. \A u \in DOMAIN upstreams : currentWeight'[u] >= -o
        BY <2>1, <3>2, <3>3
      <3>5. Round' = Round
        BY <1>3 DEF Round
      <3> QED
        BY <1>3, <3>1, <3>4, <3>5 DEF NotOverdrawn
    <2> QED
      BY <1>1, <1>5, <1>6, <2>1, <2>2 DEF SharesInv
  <1> QED
    BY <1>7, <1>8

\* What none of the others is short of, one of them cannot have in store.
LEMMA SharesBound ==
  ASSUME TypeOK, NginxIndInv, SharesInv, Conservation
  PROVE  ShareBounded
  <1>1. PICK n \in Nat : n = Len(upstreams) /\ DOMAIN upstreams = 1..n /\ IsFiniteSet(1..n)
    BY UpstreamIndices
  <1>2. PICK W \in Nat : W = Round
    BY HandedOutRange DEF SharesInv
  <1>3. PICK k \in Nat : k = Cardinality(Handlers)
    BY HandlersNumber
  <1>4. PICK o \in Nat : o = Overdraft(k, W)
    BY OverdraftNat
  <1>5. PICK c \in [1..n -> Int] : c = currentWeight
    BY <1>1 DEF NginxIndInv
  <1>6. PICK z \in Int : z = -o
    OBVIOUS
  <1>7. \A u \in 1..n : c[u] >= z
    BY <1>1, <1>2, <1>3, <1>4, <1>5, <1>6 DEF SharesInv, NotOverdrawn
  <1>8. PICK S \in Int : S = SumFunction(c) /\ S <= k * W
    BY <1>2, <1>3, <1>5, HeldTogether DEF SharesInv
  <1>9. ASSUME NEW u \in 1..n
        PROVE  c[u] <= k * W + (n - 1) * o
    <2>1. PICK x \in Int : x = c[u]
      OBVIOUS
    <2>2. PICK d : d = [c EXCEPT ![u] = z]
      OBVIOUS
    <2>3. SumFunction(d) = S - x + z
      BY <1>1, <1>8, <2>1, <2>2, SumUpdate
    <2>4. d \in [1..n -> Int] /\ \A v \in 1..n : d[v] >= z
      BY <1>7, <2>2
    <2>5. SumFunction(d) >= n * z
      <3>1. Cardinality(1..n) = n
        BY FS_Interval
      <3> QED
        BY <1>1, <2>4, <3>1, SumAtLeast
    <2>6. n * z = -(n * o) /\ (n - 1) * o = n * o - o
      BY <1>6
    <2>7. PICK y \in Int, m \in Int, q \in Int : y = k * W /\ m = n * o /\ q = (n - 1) * o
      OBVIOUS
    <2>8. S - x + z >= -m /\ q = m - o /\ S <= y
      BY <1>8, <2>3, <2>5, <2>6, <2>7
    <2>9. x <= y + q
      BY <1>6, <2>8
    <2> QED
      BY <2>1, <2>7, <2>9
  <1>10. DOMAIN currentWeight = 1..n
    BY <1>5
  <1>11. \A u \in 1..n : c[u] >= -o
    BY <1>6, <1>7
  <1> QED
    BY <1>1, <1>2, <1>3, <1>4, <1>5, <1>9, <1>10, <1>11 DEF ShareBounded, Round, Overdraft

ShareIndInv == Steady /\ TypeOK /\ NginxIndInv /\ Conservation /\ SharesInv

LEMMA SharesInductive == Steady /\ NginxSafetySpec => []ShareIndInv
  <1> USE DEF ShareIndInv
  <1>1. Steady /\ NginxInit => ShareIndInv
    BY NginxInitIndInv, InitTypeOK, InitConserves, SharesInit DEF NginxInit
  <1>2. ShareIndInv /\ [NginxNext]_nginxVars => ShareIndInv'
    <2> SUFFICES ASSUME Steady, TypeOK, NginxIndInv, Conservation, SharesInv,
                        [NginxNext]_nginxVars
                 PROVE  ShareIndInv'
      OBVIOUS
    <2>1. Steady' /\ TypeOK' /\ NginxIndInv'
      BY SteadyStays, NginxStep, NextTypeOK, NginxNextInv
    <2>2. Conservation'
      BY NextConserves
    <2>3. CASE NginxAdd
      BY <2>1, <2>2, <2>3, SharesAdd
    <2>4. CASE Bookkeeping /\ UNCHANGED getVars
      BY <2>1, <2>2, <2>4, SharesBookkeeping
    <2>5. ASSUME NEW h \in Handlers, GetStep(h) PROVE ShareIndInv'
      BY <2>1, <2>2, <2>5, SharesGet
    <2>6. CASE UNCHANGED nginxVars
      <3>1. UNCHANGED <<phase, upstreams, effectiveWeight, pc, probe, currentWeight, walk>>
        BY <2>6 DEF nginxVars, vars, getVars
      <3>2. SteadyInv'
        BY <3>1 DEF SharesInv, SteadyInv
      <3>3. AllTotals'
        BY <3>1 DEF SharesInv, AllTotals, TotalInv, HandedOut, Before, Round
      <3>4. NotOverdrawn'
        BY <3>1 DEF SharesInv, NotOverdrawn, Round
      <3>5. (phase = "serving" => \E a \in Ranks : FindsAll(a))'
        BY <3>1 DEF SharesInv, FindsAll, Round
      <3> QED
        BY <2>1, <2>2, <3>2, <3>3, <3>4, <3>5 DEF SharesInv
    <2> QED
      BY <2>3, <2>4, <2>5, <2>6 DEF NginxNext
  <1> QED
    BY <1>1, <1>2, PTL DEF NginxSafetySpec

(***************************************************************************)
(* While the weights do not change, concurrent calls of Get keep the       *)
(* currentWeight of every upstream, what its turns fall short of its share *)
(* by, within bounds that depend on the weights, the number of handlers    *)
(* and the number of upstreams only: for any number of each, and however   *)
(* stale the values are that the handlers compare.                         *)
(***************************************************************************)
THEOREM NginxShareBounded == NginxSafetySpec => []ShareBounded
  <1>1. ShareIndInv => ShareBounded
    BY SharesBound DEF ShareIndInv
  <1>2. ~Steady => ShareBounded
    BY DEF ShareBounded
  <1>3. ~Steady /\ [NginxNext]_nginxVars => ~Steady'
    BY SteadyStays
  <1> QED
    BY <1>1, <1>2, <1>3, SharesInductive, PTL DEF NginxSafetySpec

-------------------------------------------------------------------------------
(***************************************************************************)
(* How many atomic operations a call of Get has before it at the most,     *)
(* over n upstreams: four for each upstream from the one at hand on, fewer *)
(* for the one at hand, and the last one of all.                           *)
(***************************************************************************)
StepsLeft(w, n) ==
    IF w.at = "subtract" THEN 1
    ELSE 4 * (n - w.i) + 1 + (CASE w.at = "load" -> 4
                                [] w.at = "add" -> 3
                                [] w.at = "loadCurrent" -> 2
                                [] w.at = "compare" -> 1)

\* A step of Get brings its end nearer; a step of anyone else leaves the call
\* where it is, so that no step ever sets it back.
GetProgress ==
    \A h \in Handlers :
        \/ walk'[h] = walk[h]
        \/ StepsLeft(walk[h], Len(upstreams)) = 1 /\ walk'[h] = Fresh
        \/ /\ StepsLeft(walk'[h], Len(upstreams)) < StepsLeft(walk[h], Len(upstreams))
           /\ StepsLeft(walk'[h], Len(upstreams)) >= 1

LEMMA StepsLeftFalls ==
  ASSUME NEW n \in Nat, NEW l \in WalkType, l.i <= n,
         NEW w \in WalkType,
         \/ l.at = "load" /\ w.at = "add" /\ w.i = l.i
         \/ l.at = "add" /\ w.at = "loadCurrent" /\ w.i = l.i
         \/ l.at = "loadCurrent" /\ w.at = "compare" /\ w.i = l.i
         \/ l.at \in {"add", "compare"} /\ Moved(l, w, n)
  PROVE  StepsLeft(w, n) < StepsLeft(l, n) /\ StepsLeft(w, n) >= 1
  <1>1. l.i \in Nat /\ w.i \in Nat
    BY DEF WalkType
  <1>2. CASE l.at = "load" /\ w.at = "add" /\ w.i = l.i
    BY <1>1, <1>2 DEF StepsLeft
  <1>3. CASE l.at = "add" /\ w.at = "loadCurrent" /\ w.i = l.i
    BY <1>1, <1>3 DEF StepsLeft
  <1>4. CASE l.at = "loadCurrent" /\ w.at = "compare" /\ w.i = l.i
    BY <1>1, <1>4 DEF StepsLeft
  <1>5. CASE l.at \in {"add", "compare"} /\ Moved(l, w, n)
    <2>1. StepsLeft(l, n) \in {4 * (n - l.i) + 2, 4 * (n - l.i) + 4}
      BY <1>1, <1>5 DEF StepsLeft
    <2>2. CASE l.i < n /\ w.at = "load" /\ w.i = l.i + 1
      <3>1. StepsLeft(w, n) = 4 * (n - w.i) + 5
        BY <1>1, <2>2 DEF StepsLeft
      <3> QED
        BY <1>1, <2>1, <2>2, <3>1
    <2>3. CASE w.at = "subtract"
      <3>1. StepsLeft(w, n) = 1
        BY <2>3 DEF StepsLeft
      <3> QED
        BY <1>1, <2>1, <3>1
    <2> QED
      BY <1>5, <2>2, <2>3 DEF Moved
  <1> QED
    BY <1>2, <1>3, <1>4, <1>5

LEMMA NextProgresses ==
  ASSUME TypeOK, NginxIndInv, [NginxNext]_nginxVars
  PROVE  [GetProgress]_nginxVars
  <1>1. NginxIndInv'
    BY NginxNextInv
  <1>2. CASE NginxAdd \/ (Bookkeeping /\ UNCHANGED getVars)
    <2>1. walk' = walk
      BY <1>2 DEF NginxAdd, getVars
    <2> QED
      BY <2>1 DEF GetProgress
  <1>3. ASSUME NEW h \in Handlers, GetStep(h)
        PROVE  GetProgress
    <2>1. PICK w : GetFields(h, w)
      BY <1>3, GetStepFields
    <2>2. walk \in [Handlers -> WalkType] /\ walk[h] \in WalkType /\ WalkInv(walk[h])
      BY DEF NginxIndInv
    <2>3. walk' = [walk EXCEPT ![h] = w] /\ phase = "serving"
      BY <2>1 DEF GetFields
    <2>4. walk'[h] = w /\ \A g \in Handlers \ {h} : walk'[g] = walk[g]
      BY <2>2, <2>3
    <2>5. w \in WalkType
      BY <1>1, <2>4 DEF NginxIndInv
    <2>6. PICK n \in Nat : n = Len(upstreams) /\ DOMAIN upstreams = 1..n
      BY UpstreamIndices
    <2>7. walk[h].i <= n
      <3>1. 1 \in DOMAIN upstreams
        BY <2>3 DEF NginxIndInv
      <3>2. Fresh.i = 1
        BY DEF Fresh
      <3> QED
        BY <2>2, <2>6, <3>1, <3>2 DEF WalkInv
    <2>8. CASE GetSubtract(walk[h], w)
      <3>1. StepsLeft(walk[h], n) = 1 /\ w = Fresh
        BY <2>8 DEF GetSubtract, StepsLeft
      <3> QED
        BY <2>4, <2>6, <3>1 DEF GetProgress
    <2>9. CASE \/ GetLoad(walk[h], w) \/ GetAdd(walk[h], w)
               \/ GetLoadCurrent(walk[h], w) \/ GetCompare(walk[h], w)
      <3>1. \/ walk[h].at = "load" /\ w.at = "add" /\ w.i = walk[h].i
            \/ walk[h].at = "add" /\ w.at = "loadCurrent" /\ w.i = walk[h].i
            \/ walk[h].at = "loadCurrent" /\ w.at = "compare" /\ w.i = walk[h].i
            \/ walk[h].at \in {"add", "compare"} /\ Moved(walk[h], w, n)
        BY <2>6, <2>9 DEF GetLoad, GetAdd, GetLoadCurrent, GetCompare
      <3>2. StepsLeft(w, n) < StepsLeft(walk[h], n) /\ StepsLeft(w, n) >= 1
        BY <2>2, <2>5, <2>7, <3>1, StepsLeftFalls
      <3> QED
        BY <2>4, <2>6, <3>2 DEF GetProgress
    <2> QED
      BY <2>1, <2>8, <2>9 DEF GetFields
  <1> QED
    BY <1>2, <1>3 DEF NginxNext

(***************************************************************************)
(* Get is wait-free: no interference of other handlers, reports or probes  *)
(* makes a call start over or wait, and it ends after at most 4n + 1 of    *)
(* its own atomic operations over n upstreams (its loop has no retry).     *)
(***************************************************************************)
THEOREM NginxGetWaitFree == NginxSafetySpec => [][GetProgress]_nginxVars
  <1>1. NginxInit => TypeOK /\ NginxIndInv
    BY NginxInitIndInv, InitTypeOK DEF NginxInit
  <1>2. TypeOK /\ NginxIndInv /\ [NginxNext]_nginxVars => TypeOK' /\ NginxIndInv'
    BY NginxStep, NextTypeOK, NginxNextInv
  <1>3. TypeOK /\ NginxIndInv /\ [NginxNext]_nginxVars => [GetProgress]_nginxVars
    BY NextProgresses
  <1> QED
    BY <1>1, <1>2, <1>3, PTL DEF NginxSafetySpec

-------------------------------------------------------------------------------
(***************************************************************************)
(* The share in turns.  Two history variables record how often Get has     *)
(* returned and how often it has returned each upstream; they restrain     *)
(* nothing, so that every behaviour of NginxSafetySpec is one of           *)
(* HistorySpec when they are added to it.                                  *)
(***************************************************************************)
VARIABLES gets, turns

history == <<gets, turns>>

HistoryInit == NginxInit /\ gets = 0 /\ turns = [u \in Numbers |-> 0]

\* Get returns to handler h.
Turn(h) ==
    /\ Subtract(h)
    /\ gets' = gets + 1
    /\ turns' = [turns EXCEPT ![walk[h].best] = @ + 1]

\* Any other step of NginxNext.
NoTurn ==
    /\ \/ NginxAdd
       \/ Bookkeeping /\ UNCHANGED getVars
       \/ \E h \in Handlers :
             LoadEffective(h) \/ AddCurrent(h) \/ LoadCurrent(h) \/ Compare(h)
    /\ UNCHANGED history

HistoryNext == NoTurn \/ \E h \in Handlers : Turn(h)

HistorySpec == HistoryInit /\ [][HistoryNext]_<<nginxVars, history>>

(***************************************************************************)
(* While the weights do not change, after so many calls of Get each        *)
(* upstream has been returned as often as its part of all the weights      *)
(* demands, but for a constant number of turns: round * turns[u] differs   *)
(* from effectiveWeight[u] * gets by no more than what the weights, the    *)
(* number of handlers and the number of upstreams determine.               *)
(***************************************************************************)
FairShare ==
    LET round == SumFunction(effectiveWeight)
        k == Cardinality(Handlers)
        overdraft == ((k * (k + 1)) \div 2) * round
    IN  Steady => \A u \in DOMAIN upstreams :
          LET share == effectiveWeight[u] * gets
          IN  /\ round * turns[u] <= share + k * effectiveWeight[u] + overdraft
              /\ round * turns[u] >= share - (k * round + (Len(upstreams) - 1) * overdraft)

\* A walk has added the weight of upstream u.
Past(w, u) == \/ u < w.i
              \/ u = w.i /\ w.at \in {"loadCurrent", "compare"}
              \/ w.at = "subtract"

Passed(u) == {h \in Handlers : Past(walk[h], u)}

\* currentWeight is what was added to it for each Get and taken for each turn.
Account(u) ==
    currentWeight[u] = effectiveWeight[u] * (gets + Cardinality(Passed(u))) - Round * turns[u]

AccountInv ==
    /\ gets \in Nat /\ turns \in [Numbers -> Nat]
    /\ phase \in {"configuring", "failed"} => gets = 0 /\ \A u \in Numbers : turns[u] = 0
    /\ \A u \in DOMAIN upstreams : Account(u)

LEMMA PassedNumber ==
  ASSUME NEW u
  PROVE  /\ IsFiniteSet(Passed(u)) /\ Cardinality(Passed(u)) \in Nat
         /\ Cardinality(Passed(u)) <= Cardinality(Handlers)
  <1>1. Passed(u) \subseteq Handlers
    BY DEF Passed
  <1> QED
    BY <1>1, HandlersAssumption, FS_Subset, FS_CardinalityType

LEMMA PastFresh == \A u \in Nat : u # 0 => ~Past(Fresh, u)
  <1>1. Fresh.i = 1 /\ Fresh.at = "load"
    BY DEF Fresh
  <1> QED
    BY <1>1 DEF Past

\* Before the first Get nothing is in the accounts.
LEMMA AccountsEmpty ==
  /\ TypeOK /\ NginxIndInv /\ SteadyInv /\ phase \in {"configuring", "failed"}
  /\ gets = 0 /\ turns \in [Numbers -> Nat] /\ (\A u \in Numbers : turns[u] = 0)
  => AccountInv
  <1> SUFFICES ASSUME TypeOK, NginxIndInv, SteadyInv, phase \in {"configuring", "failed"},
                      gets = 0, turns \in [Numbers -> Nat], \A u \in Numbers : turns[u] = 0
               PROVE  AccountInv
    OBVIOUS
  <1>1. ASSUME NEW u \in DOMAIN upstreams PROVE Account(u)
    <2>1. u \in Nat /\ u # 0 /\ u \in Numbers /\ effectiveWeight[u] \in Int
      BY UpstreamIndices, UpstreamNumbers
    <2>2. Passed(u) = {}
      BY <2>1, AllFresh, PastFresh DEF Passed
    <2>3. PICK c \in Int : c = Cardinality(Passed(u)) /\ c = 0
      BY <2>2, FS_EmptySet
    <2>4. PICK e \in Int : e = effectiveWeight[u]
      BY <2>1
    <2>5. PICK r \in Int : r = Round
      BY HandedOutRange
    <2>6. e * (0 + c) - r * 0 = 0
      BY <2>3
    <2>7. currentWeight[u] = 0
      BY DEF SteadyInv
    <2> QED
      BY <2>1, <2>3, <2>4, <2>5, <2>6, <2>7 DEF Account
  <1> QED
    BY <1>1 DEF AccountInv

LEMMA PastMoved ==
  ASSUME NEW n \in Nat, NEW l, l.i \in 1..n, NEW w, Moved(l, w, n), NEW u \in 1..n
  PROVE  Past(w, u) <=> u <= l.i
  <1>1. PICK i \in 1..n : i = l.i
    OBVIOUS
  <1>2. CASE w.at = "load" /\ w.i = i + 1
    BY <1>1, <1>2 DEF Past
  <1>3. CASE w.at = "subtract" /\ i = n
    BY <1>1, <1>3 DEF Past
  <1> QED
    BY <1>1, <1>2, <1>3 DEF Moved

\* Every walk but that of h stays where it is.
LEMMA PassedOthers ==
  ASSUME NginxIndInv, NEW h \in Handlers, NEW w, walk' = [walk EXCEPT ![h] = w], NEW u
  PROVE  /\ Past(w, u) => Passed(u)' = Passed(u) \cup {h}
         /\ ~Past(w, u) => Passed(u)' = Passed(u) \ {h}
  <1>1. walk \in [Handlers -> WalkType]
    BY DEF NginxIndInv
  <1>2. \A g \in Handlers : g # h => (g \in Passed(u)' <=> g \in Passed(u))
    BY <1>1 DEF Passed, Past
  <1>3. h \in Passed(u)' <=> Past(w, u)
    BY <1>1 DEF Passed, Past
  <1>4. Passed(u)' \subseteq Handlers /\ Passed(u) \subseteq Handlers
    BY DEF Passed
  <1> QED
    BY <1>2, <1>3, <1>4

\* A walk that goes on adds the weight of the upstream that it passes.
LEMMA AccountOn ==
  ASSUME TypeOK, NginxIndInv, SteadyInv, NEW h \in Handlers, NEW w, GetFields(h, w),
         TotalInv(walk[h]), ~GetSubtract(walk[h], w),
         gets \in Nat, turns \in [Numbers -> Nat], UNCHANGED history,
         NEW u \in DOMAIN upstreams, Account(u)
  PROVE  Account(u)'
  <1>1. PICK n \in Nat : n = Len(upstreams) /\ DOMAIN upstreams = 1..n
    BY UpstreamIndices
  <1>2. PICK c \in [1..n -> Int] : c = currentWeight
    BY <1>1 DEF NginxIndInv
  <1>3. /\ walk' = [walk EXCEPT ![h] = w]
        /\ phase = "serving" /\ UNCHANGED <<upstreams, effectiveWeight, gets, turns>>
    BY DEF GetFields, history
  <1>4. PICK l : l = walk[h] /\ InRange(l, n) /\ TotalInv(l)
    BY <1>1, <1>3, WalkInRange
  <1>5. PICK i \in 1..n : i = l.i
    BY <1>4 DEF InRange
  <1>6. PICK e \in Int : e = effectiveWeight[u]
    BY UpstreamIndices
  <1>7. PICK r \in Int : r = Round /\ Round' = r
    BY <1>3, HandedOutRange DEF Round
  <1>8. PICK t \in Int : t = turns[u] /\ turns'[u] = t
    BY <1>3, UpstreamNumbers
  <1>9. PICK p \in Int : p = Cardinality(Passed(u)) /\ IsFiniteSet(Passed(u))
    BY PassedNumber
  <1>10. h \in Passed(u) <=> Past(l, u)
    BY <1>4 DEF Passed
  <1>11. c[u] = e * (gets + p) - r * t
    BY <1>2, <1>6, <1>7, <1>8, <1>9 DEF Account
  <1>12. CASE GetAdd(l, w) /\ u = i
    <2>1. l.at = "add" /\ l.ew = e
      BY <1>4, <1>5, <1>6, <1>12 DEF GetAdd, TotalInv
    <2>2. ~Past(l, u)
      BY <1>5, <1>12, <2>1 DEF Past
    <2>3. Past(w, u)
      <3>1. CASE Moved(l, w, n)
        BY <1>5, <1>12, <3>1, PastMoved
      <3>2. CASE w.at = "loadCurrent" /\ w.i = l.i
        BY <1>5, <1>12, <3>2 DEF Past
      <3> QED
        BY <1>1, <1>12, <3>1, <3>2 DEF GetAdd
    <2>4. Cardinality(Passed(u)') = p + 1
      <3>1. Passed(u)' = Passed(u) \cup {h} /\ h \notin Passed(u)
        BY <1>3, <1>10, <2>2, <2>3, PassedOthers
      <3> QED
        BY <1>9, <3>1, FS_AddElement
    <2>5. currentWeight'[u] = c[u] + e
      BY <1>1, <1>2, <1>5, <1>12, <2>1 DEF GetAdd
    <2>6. e * (gets + (p + 1)) = e * (gets + p) + e
      OBVIOUS
    <2>7. PICK x \in Int, y \in Int : x = e * (gets + p) /\ y = r * t
      OBVIOUS
    <2>8. currentWeight'[u] = (x + e) - y
      BY <1>11, <2>5, <2>7
    <2> QED
      BY <1>3, <1>6, <1>7, <1>8, <2>4, <2>6, <2>7, <2>8 DEF Account
  <1>13. CASE ~(GetAdd(l, w) /\ u = i)
    <2>1. Past(w, u) <=> Past(l, u)
      <3>1. CASE GetLoad(l, w)
        BY <3>1 DEF GetLoad, Past
      <3>2. CASE GetAdd(l, w)
        <4>1. Past(l, u) <=> u < i
          BY <1>5, <1>13, <3>2 DEF GetAdd, Past
        <4>2. CASE Moved(l, w, n)
          BY <1>1, <1>5, <1>13, <3>2, <4>1, <4>2, PastMoved
        <4>3. CASE w.at = "loadCurrent" /\ w.i = l.i
          BY <1>5, <1>13, <3>2, <4>1, <4>3 DEF Past
        <4> QED
          BY <1>1, <3>2, <4>2, <4>3 DEF GetAdd
      <3>3. CASE GetLoadCurrent(l, w)
        <4>1. PICK v \in 1..n : v = u
          BY <1>1
        <4>2. Past(l, v) <=> v < i \/ v = i
          BY <1>5, <3>3 DEF GetLoadCurrent, Past
        <4>3. Past(w, v) <=> v < i \/ v = i
          BY <1>5, <3>3 DEF GetLoadCurrent, Past
        <4> QED
          BY <4>1, <4>2, <4>3
      <3>4. CASE GetCompare(l, w)
        <4>1. PICK v \in 1..n : v = u
          BY <1>1
        <4>2. Past(l, v) <=> v <= i
          BY <1>5, <3>4 DEF GetCompare, Past
        <4>3. Moved(l, w, n)
          BY <1>1, <3>4 DEF GetCompare
        <4> QED
          BY <1>5, <4>1, <4>2, <4>3, PastMoved
      <3> QED
        BY <1>4, <3>1, <3>2, <3>3, <3>4 DEF GetFields
    <2>2. Passed(u)' = Passed(u)
      <3>1. CASE Past(w, u)
        <4>1. Passed(u)' = Passed(u) \cup {h} /\ h \in Passed(u)
          BY <1>3, <1>10, <2>1, <3>1, PassedOthers
        <4> QED
          BY <4>1
      <3>2. CASE ~Past(w, u)
        <4>1. Passed(u)' = Passed(u) \ {h} /\ h \notin Passed(u)
          BY <1>3, <1>10, <2>1, <3>2, PassedOthers
        <4> QED
          BY <4>1
      <3> QED
        BY <3>1, <3>2
    <2>3. currentWeight'[u] = c[u]
      <3>1. CASE GetAdd(l, w)
        BY <1>1, <1>2, <1>5, <1>13, <3>1 DEF GetAdd
      <3>2. CASE ~GetAdd(l, w)
        BY <1>2, <1>4, <3>2 DEF GetFields, GetLoad, GetLoadCurrent, GetCompare
      <3> QED
        BY <3>1, <3>2
    <2> QED
      BY <1>2, <1>3, <1>7, <2>2, <2>3 DEF Account
  <1> QED
    BY <1>12, <1>13

\* A walk that ends is a turn of the upstream that pays for it.
LEMMA AccountTurn ==
  ASSUME TypeOK, NginxIndInv, SteadyInv, NEW h \in Handlers, NEW w, GetFields(h, w),
         TotalInv(walk[h]), GetSubtract(walk[h], w),
         gets \in Nat, turns \in [Numbers -> Nat], gets' = gets + 1,
         turns' = [turns EXCEPT ![walk[h].best] = @ + 1],
         NEW u \in DOMAIN upstreams, Account(u)
  PROVE  Account(u)'
  <1>1. PICK n \in Nat : n = Len(upstreams) /\ DOMAIN upstreams = 1..n
    BY UpstreamIndices
  <1>2. PICK c \in [1..n -> Int] : c = currentWeight
    BY <1>1 DEF NginxIndInv
  <1>3. /\ walk' = [walk EXCEPT ![h] = w]
        /\ phase = "serving" /\ UNCHANGED <<upstreams, effectiveWeight>>
    BY DEF GetFields
  <1>4. PICK l : l = walk[h] /\ InRange(l, n) /\ TotalInv(l) /\ l.at = "subtract"
    BY <1>1, <1>3, WalkInRange DEF GetSubtract
  <1>5. PICK b \in 1..n : b = l.best
    BY <1>4 DEF InRange
  <1>6. PICK e \in Int : e = effectiveWeight[u]
    BY UpstreamIndices
  <1>7. PICK r \in Int : r = Round /\ Round' = r
    BY <1>3, HandedOutRange DEF Round
  <1>8. PICK t \in Int : t = turns[u] /\ u \in Numbers
    BY UpstreamNumbers
  <1>9. PICK p \in Int : p = Cardinality(Passed(u)) /\ IsFiniteSet(Passed(u))
    BY PassedNumber
  <1>10. c[u] = e * (gets + p) - r * t
    BY <1>2, <1>6, <1>7, <1>8, <1>9 DEF Account
  <1>11. Cardinality(Passed(u)') = p - 1
    <2>1. h \in Passed(u)
      BY <1>4 DEF Passed, Past
    <2>2. ~Past(w, u)
      BY <1>1, PastFresh DEF GetSubtract
    <2>3. Passed(u)' = Passed(u) \ {h}
      BY <1>3, <2>2, PassedOthers
    <2> QED
      BY <1>9, <2>1, <2>3, FS_RemoveElement
  <1>12. PICK q \in Int : q = Cardinality(Passed(u)') /\ gets' + q = gets + p
    BY <1>11
  <1>13. currentWeight' = [c EXCEPT ![b] = c[b] - r]
    BY <1>2, <1>4, <1>5, <1>7 DEF GetSubtract, TotalInv
  <1>14. CASE u = b
    <2>1. currentWeight'[u] = c[u] - r
      BY <1>13, <1>14
    <2>2. turns'[u] = t + 1
      BY <1>4, <1>5, <1>8, <1>14
    <2>3. r * (t + 1) = r * t + r
      OBVIOUS
    <2>4. PICK x \in Int, y \in Int : x = e * (gets + p) /\ y = r * t
      OBVIOUS
    <2>5. currentWeight'[u] = x - (y + r)
      BY <1>10, <2>1, <2>4
    <2> QED
      BY <1>3, <1>6, <1>7, <1>12, <2>2, <2>3, <2>4, <2>5 DEF Account
  <1>15. CASE u # b
    <2>1. currentWeight'[u] = c[u]
      BY <1>1, <1>13, <1>15
    <2>2. turns'[u] = t
      BY <1>4, <1>5, <1>8, <1>15
    <2> QED
      BY <1>3, <1>6, <1>7, <1>10, <1>12, <2>1, <2>2 DEF Account
  <1> QED
    BY <1>14, <1>15

LEMMA AccountNoTurn ==
  ASSUME ShareIndInv, AccountInv, TypeOK', NginxIndInv', NoTurn
  PROVE  AccountInv'
  <1>1. /\ Steady /\ TypeOK /\ NginxIndInv /\ SteadyInv /\ AllTotals
        /\ gets \in Nat /\ turns \in [Numbers -> Nat] /\ UNCHANGED <<gets, turns>>
    BY DEF ShareIndInv, SharesInv, AccountInv, NoTurn, history
  <1>2. CASE NginxAdd
    <2>1. SteadyInv' /\ phase = "configuring" /\ phase' = "configuring"
      BY <1>1, <1>2, SteadyAdd DEF NginxAdd, Add
    <2>2. gets = 0 /\ \A u \in Numbers : turns[u] = 0
      BY <2>1 DEF AccountInv
    <2>3. (/\ TypeOK /\ NginxIndInv /\ SteadyInv /\ phase \in {"configuring", "failed"}
           /\ gets = 0 /\ turns \in [Numbers -> Nat] /\ (\A u \in Numbers : turns[u] = 0)
           => AccountInv)'
      BY AccountsEmpty, PTL
    <2> QED
      BY <1>1, <2>1, <2>2, <2>3
  <1>3. CASE Bookkeeping /\ UNCHANGED getVars
    <2>1. UNCHANGED <<upstreams, effectiveWeight, currentWeight, walk>>
      BY <1>1, <1>3, SteadyBookkeeping DEF getVars
    <2>2. phase' \in {"configuring", "failed"} => phase \in {"configuring", "failed"}
      BY <1>3 DEF Bookkeeping, Begin, AddRefused, Listen, StartEvaluate, Report, NoReport,
            ReportUpstreamStatus, ReportStore, Probe, ProbeAnswer, ProbeStore, ProbePanics,
            NextRound, Ended, vars
    <2>3. \A u \in DOMAIN upstreams : Account(u)'
      BY <1>1, <2>1 DEF AccountInv, Account, Passed, Past, Round
    <2> QED
      BY <1>1, <2>1, <2>2, <2>3 DEF AccountInv
  <1>4. ASSUME NEW h \in Handlers,
               LoadEffective(h) \/ AddCurrent(h) \/ LoadCurrent(h) \/ Compare(h)
        PROVE  AccountInv'
    <2>1. GetStep(h) /\ walk[h].at # "subtract"
      BY <1>4 DEF GetStep, LoadEffective, AddCurrent, LoadCurrent, Compare, InGet
    <2>2. PICK w : GetFields(h, w)
      BY <1>1, <2>1, GetStepFields
    <2>3. ~GetSubtract(walk[h], w) /\ TotalInv(walk[h])
      BY <1>1, <2>1 DEF GetSubtract, AllTotals
    <2>4. phase = "serving" /\ UNCHANGED <<phase, upstreams>>
      BY <2>2 DEF GetFields
    <2>5. \A u \in DOMAIN upstreams : Account(u)'
      BY <1>1, <2>2, <2>3, AccountOn DEF AccountInv, history
    <2> QED
      BY <1>1, <2>4, <2>5 DEF AccountInv
  <1> QED
    BY <1>2, <1>3, <1>4 DEF NoTurn

LEMMA AccountNextTurn ==
  ASSUME ShareIndInv, AccountInv, NEW h \in Handlers, Turn(h)
  PROVE  AccountInv'
  <1>1. /\ TypeOK /\ NginxIndInv /\ SteadyInv /\ AllTotals
        /\ gets \in Nat /\ turns \in [Numbers -> Nat]
    BY DEF ShareIndInv, SharesInv, AccountInv
  <1>2. /\ GetStep(h) /\ walk[h].at = "subtract"
        /\ gets' = gets + 1 /\ turns' = [turns EXCEPT ![walk[h].best] = @ + 1]
    BY DEF Turn, GetStep, Subtract, InGet
  <1>3. PICK w : GetFields(h, w)
    BY <1>1, <1>2, GetStepFields
  <1>4. GetSubtract(walk[h], w) /\ TotalInv(walk[h])
    BY <1>1, <1>2, <1>3 DEF GetFields, GetLoad, GetAdd, GetLoadCurrent, GetCompare, AllTotals
  <1>5. phase = "serving" /\ UNCHANGED <<phase, upstreams>>
    BY <1>3 DEF GetFields
  <1>6. \A u \in DOMAIN upstreams : Account(u)'
    BY <1>1, <1>2, <1>3, <1>4, AccountTurn DEF AccountInv
  <1>7. gets' \in Nat /\ turns' \in [Numbers -> Nat]
    <2>1. PICK b : b = walk[h].best
      OBVIOUS
    <2>2. b \in Numbers
      <3>1. b \in DOMAIN upstreams
        BY <1>1, <1>2, <2>1 DEF NginxIndInv, WalkInv
      <3> QED
        BY <1>1, <3>1, UpstreamNumbers
    <2>3. PICK x \in Nat : x = turns[b] + 1
      BY <1>1, <2>2
    <2>4. turns' = [turns EXCEPT ![b] = x]
      BY <1>2, <2>1, <2>3
    <2>5. turns' \in [Numbers -> Nat]
      BY <1>1, <2>2, <2>4
    <2>6. gets' \in Nat
      BY <1>1, <1>2
    <2> QED
      BY <2>5, <2>6
  <1> QED
    BY <1>5, <1>6, <1>7 DEF AccountInv

(***************************************************************************)
(* While the weights do not change, every upstream is returned by Get in   *)
(* proportion to its weight, for any number of handlers and upstreams and  *)
(* any interleaving of their walks: over any number of calls it is a       *)
(* constant number of turns away from its share at most, so that it can be *)
(* passed over in a constant number of calls only.                         *)
(***************************************************************************)
THEOREM NginxFairShare == HistorySpec => []FairShare
  <1>1. HistoryInit => NginxInit
    BY DEF HistoryInit
  <1>2. [HistoryNext]_<<nginxVars, history>> => [NginxNext]_nginxVars
    <2>1. NoTurn => NginxNext
      BY DEF NoTurn, NginxNext, GetStep
    <2>2. \A h \in Handlers : Turn(h) => NginxNext
      BY DEF Turn, NginxNext, GetStep
    <2> QED
      BY <2>1, <2>2 DEF HistoryNext
  <1>3. HistorySpec => NginxSafetySpec
    BY <1>1, <1>2, PTL DEF HistorySpec, NginxSafetySpec
  <1>4. HistoryInit => AccountInv
    <2> SUFFICES ASSUME HistoryInit PROVE AccountInv
      OBVIOUS
    <2>1. TypeOK /\ NginxIndInv /\ SteadyInv /\ phase = "configuring"
      BY InitTypeOK, NginxInitIndInv, SteadyInit DEF HistoryInit, NginxInit, Init
    <2>2. gets = 0 /\ turns \in [Numbers -> Nat] /\ \A u \in Numbers : turns[u] = 0
      BY DEF HistoryInit
    <2> QED
      BY <2>1, <2>2, AccountsEmpty
  <1>5. ShareIndInv /\ ShareIndInv' /\ AccountInv /\ [HistoryNext]_<<nginxVars, history>> => AccountInv'
    <2> SUFFICES ASSUME ShareIndInv, ShareIndInv', AccountInv, [HistoryNext]_<<nginxVars, history>>
                 PROVE  AccountInv'
      OBVIOUS
    <2>1. TypeOK' /\ NginxIndInv'
      BY DEF ShareIndInv
    <2>2. CASE UNCHANGED <<nginxVars, history>>
      <3>1. UNCHANGED <<phase, upstreams, effectiveWeight, currentWeight, walk, gets, turns>>
        BY <2>2 DEF nginxVars, vars, getVars, history
      <3>2. \A u \in DOMAIN upstreams : Account(u)'
        BY <3>1 DEF AccountInv, Account, Passed, Past, Round
      <3> QED
        BY <3>1, <3>2 DEF AccountInv
    <2> QED
      BY <2>1, <2>2, AccountNoTurn, AccountNextTurn DEF HistoryNext
  <1>6. ShareIndInv /\ AccountInv => FairShare
    <2> SUFFICES ASSUME ShareIndInv, AccountInv PROVE FairShare
      OBVIOUS
    <2>1. PICK n \in Nat : n = Len(upstreams) /\ DOMAIN upstreams = 1..n
      BY UpstreamIndices DEF ShareIndInv
    <2>2. PICK k \in Nat : k = Cardinality(Handlers)
      BY HandlersNumber
    <2>3. PICK r \in Nat : r = Round
      BY HandedOutRange DEF ShareIndInv, SharesInv
    <2>4. PICK o \in Nat : o = Overdraft(k, r)
      BY OverdraftNat
    <2>5. PICK m \in Int : m = k * r + (n - 1) * o
      OBVIOUS
    <2>6. ShareBounded /\ Steady
      BY SharesBound DEF ShareIndInv
    <2>7. ASSUME NEW u \in DOMAIN upstreams
          PROVE  /\ r * turns[u] <= effectiveWeight[u] * gets + k * effectiveWeight[u] + o
                 /\ r * turns[u] >= effectiveWeight[u] * gets - m
      <3>1. PICK c \in Int : c = currentWeight[u] /\ c >= -o /\ c <= m
        <4>1. DOMAIN currentWeight = DOMAIN upstreams /\ currentWeight[u] \in Int
          BY DEF ShareIndInv, NginxIndInv
        <4>2. currentWeight[u] >= -o /\ currentWeight[u] <= m
          BY <2>1, <2>2, <2>3, <2>4, <2>5, <2>6, <4>1 DEF ShareBounded, Round, Overdraft
        <4> QED
          BY <4>1, <4>2
      <3>2. PICK e \in Nat : e = effectiveWeight[u]
        <4>1. effectiveWeight[u] \in Int /\ effectiveWeight[u] >= 0
          BY UpstreamIndices DEF ShareIndInv, SharesInv, SteadyInv
        <4> QED
          BY <4>1
      <3>3. PICK t \in Nat : t = turns[u]
        BY UpstreamNumbers DEF ShareIndInv, AccountInv
      <3>4. PICK g \in Nat : g = gets
        BY DEF AccountInv
      <3>5. PICK p \in Nat : p = Cardinality(Passed(u)) /\ p <= k
        BY <2>2, PassedNumber
      <3>6. c = e * (g + p) - r * t
        BY <2>3, <3>1, <3>2, <3>3, <3>4, <3>5 DEF AccountInv, Account
      <3>7. PICK x \in Int, y \in Int, z \in Int, v \in Int :
               x = e * g /\ y = e * p /\ z = r * t /\ v = k * e
        OBVIOUS
      <3>8. 0 <= y /\ y <= v
        <4>1. 0 <= e * p
          OBVIOUS
        <4>2. p * e <= k * e
          BY <3>5, Scale
        <4>3. e * p = p * e
          OBVIOUS
        <4> QED
          BY <3>7, <4>1, <4>2, <4>3
      <3>9. c = x + y - z
        <4>1. e * (g + p) = e * g + e * p
          OBVIOUS
        <4> QED
          BY <3>6, <3>7, <4>1
      <3>10. z <= x + v + o /\ z >= x - m
        BY <3>1, <3>8, <3>9
      <3> QED
        BY <3>2, <3>3, <3>4, <3>7, <3>10
    <2> QED
      BY <2>1, <2>2, <2>3, <2>4, <2>5, <2>7 DEF FairShare, Round, Overdraft
  <1>7. ~Steady => FairShare
    BY DEF FairShare
  <1>8. ~Steady /\ [NginxNext]_nginxVars => ~Steady'
    BY SteadyStays
  <1> QED
    BY <1>2, <1>3, <1>4, <1>5, <1>6, <1>7, <1>8, SharesInductive, PTL DEF HistorySpec
===============================================================================
