---------------------------- MODULE SelectorProofs ----------------------------
(***************************************************************************)
(* Proofs about module Selector, for every set of handlers, every          *)
(* configuration and every choice of statuses and outcomes.                *)
(***************************************************************************)
EXTENDS Selector, FiniteSetTheorems, TLAPS

\* Nothing has been added, no handler has a query.
LEMMA InitTypeOK == Init => TypeOK
  <1> SUFFICES ASSUME Init PROVE TypeOK
    OBVIOUS
  <1>1. config.entries \in Seq(Entry)
    BY ConfigsAssumption DEF Init, Config
  <1> QED
    BY <1>1 DEF Init, TypeOK

\* What Add appends is an entry of the configuration.
LEMMA NewUpstreamType ==
  ASSUME TypeOK, Len(upstreams) < Len(config.entries)
  PROVE  NewUpstream \in Entry
  <1>1. config \in Config
    BY ConfigsAssumption DEF TypeOK
  <1>2. config.entries \in Seq(Entry) /\ Len(upstreams) + 1 \in DOMAIN config.entries
    BY <1>1 DEF TypeOK, Config
  <1>3. NextEntry \in Entry
    BY <1>2 DEF NextEntry
  <1> QED
    BY <1>3 DEF NewUpstream, Entry

\* Upstreams are numbered as in the configuration.
LEMMA UpstreamNumbers ==
  ASSUME TypeOK PROVE DOMAIN upstreams \subseteq Numbers
  <1>1. config.entries \in Seq(Entry) /\ config \in Configs
    BY ConfigsAssumption DEF TypeOK, Config
  <1>2. DOMAIN upstreams \subseteq DOMAIN config.entries
    BY <1>1 DEF TypeOK
  <1> QED
    BY <1>1, <1>2 DEF Numbers

\* The new upstream comes with an effectiveWeight and a probe state.
LEMMA AddTypeOK == TypeOK /\ Add => TypeOK'
  <1> SUFFICES ASSUME TypeOK, Add PROVE TypeOK'
    OBVIOUS
  <1>2. NewUpstream \in Entry /\ NewUpstream.weight \in Int
    BY NewUpstreamType DEF Add, Entry
  <1>3. upstreams' \in Seq(Entry) /\ Len(upstreams') = Len(upstreams) + 1
    BY <1>2 DEF TypeOK, Add
  <1>4. effectiveWeight' \in Seq(Int) /\ Len(effectiveWeight') = Len(upstreams')
    BY <1>2, <1>3 DEF TypeOK, Add
  <1>5. probe' \in Seq(ProbeStates) /\ Len(probe') = Len(upstreams')
    BY <1>3 DEF TypeOK, Add, ProbeStates
  <1>6. DOMAIN upstreams \subseteq DOMAIN upstreams'
    BY <1>3 DEF TypeOK
  <1>7. Len(upstreams') <= Len(config'.entries)
    <2>1. config.entries \in Seq(Entry)
      BY ConfigsAssumption DEF TypeOK, Config
    <2> QED
      BY <1>3, <2>1 DEF TypeOK, Add
  <1> QED
    BY <1>3, <1>4, <1>5, <1>6, <1>7 DEF TypeOK, Add

\* The tables: a step of effectiveWeight is an integer between -MaxPenalty and
\* MaxReward.
LEMMA ReportDeltaBounds ==
  ASSUME TypeOK, NEW s \in config.statuses
  PROVE  /\ ReportDelta[s] \in Int
         /\ ReportDelta[s] >= -MaxPenalty
         /\ ReportDelta[s] <= MaxReward
  <1>1. config.selector \in {"nginx", "lvs", "random"}
    BY ConfigsAssumption DEF TypeOK, Config
  <1>2. s \in {"Timeout", "Error", "OK"}
    BY ConfigsAssumption DEF TypeOK, Config
  <1> QED
    BY <1>1, <1>2 DEF ReportDelta, NginxReport, LVSReport, RandomReport, MaxPenalty, MaxReward

LEMMA ProbeDeltaBounds ==
  ASSUME NEW t \in Types, NEW o \in DOMAIN ProbeDelta[t]
  PROVE  /\ ProbeDelta[t][o] \in Int
         /\ ProbeDelta[t][o] >= -MaxPenalty
         /\ ProbeDelta[t][o] <= MaxReward
  <1>1. CASE config.selector = "nginx"
    BY <1>1 DEF ProbeDelta, NginxProbe, Types, MaxPenalty, MaxReward
  <1>2. CASE config.selector # "nginx"
    BY <1>2 DEF ProbeDelta, LVSProbe, Types, MaxPenalty, MaxReward
  <1> QED
    BY <1>1, <1>2

\* The values a goroutine's state takes after its AddInt32.
LEMMA OwedStoreType ==
  ASSUME NEW u, NEW d, NEW done
  PROVE  OwedStore(u, d, done) \in {"storeMin", "storeMax", done}
  BY DEF OwedStore

\* A clamping store writes an integer.
LEMMA ClampValueType ==
  ASSUME TypeOK, NEW u \in DOMAIN upstreams, NEW store
  PROVE  ClampValue(u, store) \in Int
  <1>1. upstreams[u] \in Entry
    BY DEF TypeOK
  <1> QED
    BY <1>1 DEF ClampValue, Entry

\* Writing an integer to one effectiveWeight keeps the type of the sequence.
LEMMA SetWeightType ==
  ASSUME TypeOK, NEW u \in DOMAIN upstreams, NEW w \in Int
  PROVE  /\ [effectiveWeight EXCEPT ![u] = w] \in Seq(Int)
         /\ Len([effectiveWeight EXCEPT ![u] = w]) = Len(upstreams)
  BY DEF TypeOK

\* Every step keeps the types.
LEMMA NextTypeOK == TypeOK /\ [Next]_vars => TypeOK'
  <1> SUFFICES ASSUME TypeOK, [Next]_vars PROVE TypeOK'
    OBVIOUS
  <1>1. CASE Add
    BY <1>1, AddTypeOK
  <1>2. CASE Begin
    <2>1. CASE AddRefused
      BY <2>1 DEF TypeOK, AddRefused
    <2>2. CASE Listen
      BY <2>2 DEF TypeOK, Listen
    <2>3. CASE StartEvaluate
      BY <2>3 DEF TypeOK, StartEvaluate, ProbeStates
    <2> QED
      BY <1>2, <2>1, <2>2, <2>3 DEF Begin
  <1>3. ASSUME NEW h \in Handlers, Report(h)
        PROVE  TypeOK'
    <2>1. ASSUME NEW s \in config.statuses, ReportUpstreamStatus(h, s)
          PROVE  TypeOK'
      <3> DEFINE u == chosen[h]
                 d == ReportDelta[s]
      <3>1. u \in DOMAIN upstreams /\ d \in Int
        BY <2>1, ReportDeltaBounds DEF TypeOK, ReportUpstreamStatus
      <3>2. effectiveWeight[u] + d \in Int
        BY <3>1 DEF TypeOK
      <3>3. effectiveWeight' \in Seq(Int) /\ Len(effectiveWeight') = Len(upstreams)
        BY <2>1, <3>1, <3>2, SetWeightType DEF ReportUpstreamStatus
      <3>4. OwedStore(u, d, "idle") \in {"storeMin", "storeMax", "idle"}
        BY OwedStoreType
      <3> QED
        BY <2>1, <3>1, <3>3, <3>4 DEF TypeOK, ReportUpstreamStatus
    <2>2. CASE NoReport(h)
      BY <2>2 DEF TypeOK, NoReport
    <2> QED
      BY <1>3, <2>1, <2>2 DEF Report
  <1>4. ASSUME NEW h \in Handlers, ReportStore(h)
        PROVE  TypeOK'
    <2>1. chosen[h] \in DOMAIN upstreams
      BY <1>4 DEF TypeOK, ReportStore
    <2>2. effectiveWeight' \in Seq(Int) /\ Len(effectiveWeight') = Len(upstreams)
      BY <1>4, <2>1, ClampValueType, SetWeightType DEF ReportStore
    <2> QED
      BY <1>4, <2>2 DEF TypeOK, ReportStore
  <1>5. ASSUME NEW u \in Numbers, Probe(u)
        PROVE  TypeOK'
    <2>1. ASSUME NEW o \in config.outcomes, ProbeAnswer(u, o)
          PROVE  TypeOK'
      <3> DEFINE d == ProbeDelta[upstreams[u].Type][o]
      <3>0. u \in DOMAIN upstreams /\ upstreams[u] \in Entry
        BY <2>1 DEF TypeOK, ProbeAnswer
      <3>1. u \in DOMAIN upstreams /\ upstreams[u].Type \in Types
        BY <3>0 DEF Entry
      <3>2. effectiveWeight[u] + d \in Int
        BY <2>1, <3>1, ProbeDeltaBounds DEF TypeOK, ProbeAnswer
      <3>3. effectiveWeight' \in Seq(Int) /\ Len(effectiveWeight') = Len(upstreams)
        BY <2>1, <3>1, <3>2, SetWeightType DEF ProbeAnswer
      <3>4. OwedStore(u, d, "done") \in ProbeStates
        BY OwedStoreType DEF ProbeStates
      <3> QED
        BY <2>1, <3>1, <3>3, <3>4 DEF TypeOK, ProbeAnswer
    <2>2. CASE ProbeStore(u)
      <3>1. effectiveWeight' \in Seq(Int) /\ Len(effectiveWeight') = Len(upstreams)
        BY <2>2, ClampValueType, SetWeightType DEF ProbeStore
      <3> QED
        BY <2>2, <3>1 DEF TypeOK, ProbeStore, ProbeStates
    <2>3. CASE ProbePanics(u)
      BY <2>3 DEF TypeOK, ProbePanics
    <2> QED
      BY <1>5, <2>1, <2>2, <2>3 DEF Probe
  <1>6. CASE NextRound
    BY <1>6 DEF TypeOK, NextRound, ProbeStates
  <1>7. CASE UNCHANGED vars
    BY <1>7 DEF TypeOK, vars
  <1>8. ASSUME NEW h \in Handlers, NEW u \in Numbers, Get(h, u)
        PROVE  TypeOK'
    BY <1>8 DEF TypeOK, Get, Got
  <1> QED
    BY <1>1, <1>2, <1>3, <1>4, <1>5, <1>6, <1>7, <1>8 DEF Next, Bookkeeping, Ended

\* Type correctness of the selector.
THEOREM SelectorTypeOK == SafetySpec => []TypeOK
  BY InitTypeOK, NextTypeOK, PTL DEF SafetySpec

-------------------------------------------------------------------------------
\* The handlers that owe the given store to u.
Owing(u, store) == {h \in Handlers : pc[h] = store /\ chosen[h] = u}

LEMMA OwedNat ==
  ASSUME NEW u, NEW store
  PROVE  /\ IsFiniteSet(Owing(u, store))
         /\ Cardinality(Owing(u, store)) \in Nat
         /\ Owed(u, store) \in Nat
         /\ Owed(u, store) = Cardinality(Owing(u, store))
                               + (IF probe[u] = store THEN 1 ELSE 0)
  <1>1. IsFiniteSet(Owing(u, store))
    BY HandlersAssumption, FS_Subset DEF Owing
  <1>2. Cardinality(Owing(u, store)) \in Nat
    BY <1>1, FS_CardinalityType
  <1>3. Owed(u, store) = Cardinality(Owing(u, store)) + (IF probe[u] = store THEN 1 ELSE 0)
    BY DEF Owed, Owing
  <1> QED
    BY <1>1, <1>2, <1>3

\* The same in the next state.
LEMMA OwedNatPrime ==
  ASSUME NEW u, NEW store
  PROVE  /\ Cardinality(Owing(u, store)') \in Nat
         /\ Owed(u, store)' \in Nat
         /\ Owed(u, store)' = Cardinality(Owing(u, store)')
                               + (IF probe'[u] = store THEN 1 ELSE 0)
  <1>1. IsFiniteSet(Owing(u, store)')
    BY HandlersAssumption, FS_Subset DEF Owing
  <1>2. Cardinality(Owing(u, store)') \in Nat
    BY <1>1, FS_CardinalityType
  <1>3. Owed(u, store)' = Cardinality(Owing(u, store)') + (IF probe'[u] = store THEN 1 ELSE 0)
    BY DEF Owed, Owing
  <1> QED
    BY <1>2, <1>3

\* The two bounds of WeightClamped for one upstream.
Clamped(u) ==
    /\ effectiveWeight[u] >= 1 - MaxPenalty * Owed(u, "storeMin")
    /\ effectiveWeight[u] <= upstreams[u].weight + MaxReward * Owed(u, "storeMax")

\* A weight in range is clamped whatever is owed.
LEMMA InRangeClamped ==
  ASSUME NEW u, upstreams'[u].weight \in Int, effectiveWeight'[u] \in Int,
         effectiveWeight'[u] >= 1, effectiveWeight'[u] <= upstreams'[u].weight
  PROVE  Clamped(u)'
  <1>1. Owed(u, "storeMin")' \in Nat /\ Owed(u, "storeMax")' \in Nat
    BY OwedNatPrime
  <1> QED
    BY <1>1 DEF Clamped, MaxPenalty, MaxReward

\* A step that leaves the weight of u and what is owed to it alone.
LEMMA UntouchedClamped ==
  ASSUME NEW u, Clamped(u),
         effectiveWeight'[u] = effectiveWeight[u], upstreams'[u] = upstreams[u],
         Owing(u, "storeMin")' = Owing(u, "storeMin"),
         Owing(u, "storeMax")' = Owing(u, "storeMax"),
         probe'[u] = "storeMin" <=> probe[u] = "storeMin",
         probe'[u] = "storeMax" <=> probe[u] = "storeMax"
  PROVE  Clamped(u)'
  <1>1. Owed(u, "storeMin")' = Owed(u, "storeMin")
    BY OwedNat, OwedNatPrime
  <1>2. Owed(u, "storeMax")' = Owed(u, "storeMax")
    BY OwedNat, OwedNatPrime
  <1> QED
    BY <1>1, <1>2 DEF Clamped

\* The AddInt32 of a step d, after which its goroutine may owe a store: what
\* is owed to u does not shrink, and grows by one if the sum is out of range
\* in the direction of d.
LEMMA AddedClamped ==
  ASSUME NEW u, NEW d \in Int, d >= -MaxPenalty, d <= MaxReward,
         effectiveWeight[u] \in Int, upstreams[u].weight \in Int,
         upstreams[u].weight >= 1, upstreams'[u] = upstreams[u], Clamped(u),
         effectiveWeight'[u] = effectiveWeight[u] + d,
         Owed(u, "storeMin")' >= Owed(u, "storeMin")
           + (IF OwedStore(u, d, "idle") = "storeMin" THEN 1 ELSE 0),
         Owed(u, "storeMax")' >= Owed(u, "storeMax")
           + (IF OwedStore(u, d, "idle") = "storeMax" THEN 1 ELSE 0)
  PROVE  Clamped(u)'
  <1>1. /\ Owed(u, "storeMin") \in Nat /\ Owed(u, "storeMax") \in Nat
        /\ Owed(u, "storeMin")' \in Nat /\ Owed(u, "storeMax")' \in Nat
    BY OwedNat, OwedNatPrime
  <1>2. effectiveWeight'[u] >= 1 - MaxPenalty * Owed(u, "storeMin")'
    BY <1>1 DEF Clamped, OwedStore, MaxPenalty, MaxReward
  <1>3. effectiveWeight'[u] <= upstreams'[u].weight + MaxReward * Owed(u, "storeMax")'
    BY <1>1 DEF Clamped, OwedStore, MaxPenalty, MaxReward
  <1> QED
    BY <1>2, <1>3 DEF Clamped

\* The handler that reports joins those that owe a store, or does not.
LEMMA ReportOwing ==
  ASSUME TypeOK, NEW h \in Handlers, NEW s \in config.statuses, ReportUpstreamStatus(h, s),
         NEW u, NEW store \in {"storeMin", "storeMax"}
  PROVE  Owed(u, store)' =
           Owed(u, store)
             + (IF u = chosen[h] /\ OwedStore(u, ReportDelta[s], "idle") = store
                THEN 1 ELSE 0)
  <1> DEFINE o == OwedStore(chosen[h], ReportDelta[s], "idle")
  <1>1. h \notin Owing(u, store) /\ probe' = probe
    BY DEF ReportUpstreamStatus, Owing
  <1>2. pc' = [pc EXCEPT ![h] = o]
        /\ chosen' = [chosen EXCEPT ![h] = IF o = "idle" THEN 0 ELSE @]
    BY DEF ReportUpstreamStatus
  <1>3. CASE u = chosen[h] /\ o = store
    <2>1. Owing(u, store)' = Owing(u, store) \cup {h}
      BY <1>1, <1>2, <1>3 DEF Owing, TypeOK
    <2>2. Cardinality(Owing(u, store)') = Cardinality(Owing(u, store)) + 1
      BY <1>1, <2>1, OwedNat, FS_AddElement
    <2> QED
      BY <1>1, <1>3, <2>2, OwedNat, OwedNatPrime
  <1>4. CASE ~(u = chosen[h] /\ o = store)
    <2>1. Owing(u, store)' = Owing(u, store)
      BY <1>1, <1>2, <1>4 DEF Owing, TypeOK
    <2> QED
      BY <1>1, <1>4, <2>1, OwedNat, OwedNatPrime
  <1> QED
    BY <1>3, <1>4

\* Every step keeps every weight within what its pending stores account for.
LEMMA NextWeightClamped == TypeOK /\ WeightClamped /\ [Next]_vars => WeightClamped'
  <1> SUFFICES ASSUME TypeOK, WeightClamped, [Next]_vars,
                      NEW u \in DOMAIN upstreams', upstreams'[u].weight >= 1
               PROVE  Clamped(u)'
    BY DEF WeightClamped, Clamped
  <1>0. u \in DOMAIN upstreams /\ upstreams[u].weight >= 1 =>
          /\ Clamped(u)
          /\ effectiveWeight[u] \in Int
          /\ upstreams[u].weight \in Int
    <2> SUFFICES ASSUME u \in DOMAIN upstreams, upstreams[u].weight >= 1
                 PROVE  /\ Clamped(u)
                        /\ effectiveWeight[u] \in Int
                        /\ upstreams[u].weight \in Int
      OBVIOUS
    <2>1. upstreams[u] \in Entry /\ effectiveWeight[u] \in Int
      BY DEF TypeOK
    <2> QED
      BY <2>1 DEF WeightClamped, Clamped, Entry
  <1>1. CASE Add
    <2>1. NewUpstream \in Entry /\ NewUpstream.weight \in Int
      BY <1>1, NewUpstreamType DEF Add, Entry
    <2>2. CASE u = Len(upstreams) + 1
      <3>1. upstreams'[u] = NewUpstream /\ effectiveWeight'[u] = NewUpstream.weight
        BY <1>1, <2>1, <2>2 DEF TypeOK, Add
      <3> QED
        BY <2>1, <3>1, InRangeClamped
    <2>3. CASE u # Len(upstreams) + 1
      <3>1. /\ u \in DOMAIN upstreams
            /\ upstreams'[u] = upstreams[u]
            /\ effectiveWeight'[u] = effectiveWeight[u]
            /\ probe'[u] = probe[u]
        BY <1>1, <2>1, <2>3 DEF TypeOK, Add, ProbeStates
      <3>2. ASSUME NEW store PROVE Owing(u, store)' = Owing(u, store)
        BY <1>1 DEF Add, Owing
      <3> QED
        BY <1>0, <3>1, <3>2, UntouchedClamped
    <2> QED
      BY <2>2, <2>3
  <1>2. ASSUME UNCHANGED <<upstreams, effectiveWeight, pc, chosen>>,
               probe'[u] = "storeMin" <=> probe[u] = "storeMin",
               probe'[u] = "storeMax" <=> probe[u] = "storeMax"
        PROVE  Clamped(u)'
    <2>1. ASSUME NEW store PROVE Owing(u, store)' = Owing(u, store)
      BY <1>2 DEF Owing
    <2> QED
      BY <1>0, <1>2, <2>1, UntouchedClamped
  <1>3. CASE Begin
    BY <1>2, <1>3 DEF Begin, AddRefused, Listen, StartEvaluate
  <1>4. ASSUME NEW h \in Handlers, Report(h)
        PROVE  Clamped(u)'
    <2>1. ASSUME NEW s \in config.statuses, ReportUpstreamStatus(h, s)
          PROVE  Clamped(u)'
      <3>0. /\ chosen[h] \in DOMAIN upstreams
            /\ u \in DOMAIN upstreams
            /\ upstreams' = upstreams
            /\ probe' = probe
        BY <2>1 DEF ReportUpstreamStatus, TypeOK
      <3>1. CASE u = chosen[h]
        <4>1. effectiveWeight'[u] = effectiveWeight[u] + ReportDelta[s]
          BY <2>1, <3>0, <3>1 DEF ReportUpstreamStatus, TypeOK
        <4>2. /\ Owed(u, "storeMin")' = Owed(u, "storeMin")
                   + (IF OwedStore(u, ReportDelta[s], "idle") = "storeMin" THEN 1 ELSE 0)
              /\ Owed(u, "storeMax")' = Owed(u, "storeMax")
                   + (IF OwedStore(u, ReportDelta[s], "idle") = "storeMax" THEN 1 ELSE 0)
          BY <2>1, <3>1, ReportOwing
        <4>3. Owed(u, "storeMin") \in Nat /\ Owed(u, "storeMax") \in Nat
          BY OwedNat
        <4> QED
          BY <1>0, <3>0, <4>1, <4>2, <4>3, ReportDeltaBounds, AddedClamped
      <3>2. CASE u # chosen[h]
        <4>1. effectiveWeight'[u] = effectiveWeight[u]
          BY <2>1, <3>0, <3>2 DEF ReportUpstreamStatus, TypeOK
        <4>2. /\ Owed(u, "storeMin")' = Owed(u, "storeMin")
              /\ Owed(u, "storeMax")' = Owed(u, "storeMax")
          BY <2>1, <3>2, ReportOwing, OwedNat
        <4> QED
          BY <1>0, <3>0, <4>1, <4>2 DEF Clamped
      <3> QED
        BY <3>1, <3>2
    <2>2. CASE NoReport(h)
      <3>1. ASSUME NEW store \in {"storeMin", "storeMax"}
            PROVE  Owing(u, store)' = Owing(u, store)
        BY <2>2 DEF NoReport, Owing, TypeOK
      <3>2. UNCHANGED <<upstreams, effectiveWeight, probe>>
        BY <2>2 DEF NoReport
      <3> QED
        BY <1>0, <3>1, <3>2, UntouchedClamped
    <2> QED
      BY <1>4, <2>1, <2>2 DEF Report
  <1>5. ASSUME NEW h \in Handlers, ReportStore(h)
        PROVE  Clamped(u)'
    <2>0. u \in DOMAIN upstreams /\ UNCHANGED <<upstreams, probe>>
      BY <1>5 DEF ReportStore
    <2>1. CASE u = chosen[h]
      <3>1. effectiveWeight'[u] = ClampValue(u, pc[h])
        BY <1>5, <2>0, <2>1 DEF ReportStore, TypeOK
      <3> QED
        BY <1>0, <2>0, <3>1, InRangeClamped DEF ClampValue
    <2>2. CASE u # chosen[h]
      <3>1. effectiveWeight'[u] = effectiveWeight[u]
        BY <1>5, <2>0, <2>2 DEF ReportStore, TypeOK
      <3>2. ASSUME NEW store \in {"storeMin", "storeMax"}
            PROVE  Owing(u, store)' = Owing(u, store)
        BY <1>5, <2>2 DEF ReportStore, Owing, TypeOK
      <3> QED
        BY <1>0, <2>0, <3>1, <3>2, UntouchedClamped
    <2> QED
      BY <2>1, <2>2
  <1>6. ASSUME NEW v \in Numbers, Probe(v)
        PROVE  Clamped(u)'
    <2>0. /\ v \in DOMAIN upstreams /\ u \in DOMAIN upstreams
          /\ UNCHANGED <<upstreams, pc, chosen>>
      BY <1>6 DEF Probe, ProbeAnswer, ProbeStore, ProbePanics
    <2>1. ASSUME NEW store PROVE Owing(u, store)' = Owing(u, store)
      BY <2>0 DEF Owing
    <2>2. ASSUME NEW o \in config.outcomes, ProbeAnswer(v, o)
          PROVE  Clamped(u)'
      <3> DEFINE d == ProbeDelta[upstreams[v].Type][o]
      <3>1. CASE u = v
        <4>1. upstreams[u] \in Entry
          BY <2>0 DEF TypeOK
        <4>2. d \in Int /\ d >= -MaxPenalty /\ d <= MaxReward
          BY <2>2, <3>1, <4>1, ProbeDeltaBounds DEF ProbeAnswer, Entry
        <4>3. /\ effectiveWeight'[u] = effectiveWeight[u] + d
              /\ probe[u] = "running"
              /\ probe'[u] = OwedStore(u, d, "done")
          BY <2>0, <2>2, <3>1 DEF ProbeAnswer, TypeOK
        <4>4. ASSUME NEW store \in {"storeMin", "storeMax"}
              PROVE  OwedStore(u, d, "done") = store <=> OwedStore(u, d, "idle") = store
          BY DEF OwedStore
        <4>5. ASSUME NEW store \in {"storeMin", "storeMax"}
              PROVE  Owed(u, store)' = Owed(u, store)
                       + (IF OwedStore(u, d, "idle") = store THEN 1 ELSE 0)
          BY <2>1, <4>3, <4>4, OwedNat, OwedNatPrime
        <4>6. Owed(u, "storeMin") \in Nat /\ Owed(u, "storeMax") \in Nat
          BY OwedNat
        <4> HIDE DEF d
        <4> QED
          BY <1>0, <2>0, <4>2, <4>3, <4>5, <4>6, AddedClamped
      <3>2. CASE u # v
        <4>1. effectiveWeight'[u] = effectiveWeight[u] /\ probe'[u] = probe[u]
          BY <2>0, <2>2, <3>2 DEF ProbeAnswer, TypeOK
        <4> QED
          BY <1>0, <2>0, <2>1, <4>1, UntouchedClamped
      <3> QED
        BY <3>1, <3>2
    <2>3. CASE ProbeStore(v)
      <3>1. CASE u = v
        <4>1. effectiveWeight'[u] = ClampValue(u, probe[u])
          BY <2>0, <2>3, <3>1 DEF ProbeStore, TypeOK
        <4> QED
          BY <1>0, <2>0, <4>1, InRangeClamped DEF ClampValue
      <3>2. CASE u # v
        <4>1. effectiveWeight'[u] = effectiveWeight[u] /\ probe'[u] = probe[u]
          BY <2>0, <2>3, <3>2 DEF ProbeStore, TypeOK
        <4> QED
          BY <1>0, <2>0, <2>1, <4>1, UntouchedClamped
      <3> QED
        BY <3>1, <3>2
    <2>4. CASE ProbePanics(v)
      BY <1>2, <2>4 DEF ProbePanics
    <2> QED
      BY <1>6, <2>2, <2>3, <2>4 DEF Probe
  <1>7. CASE NextRound
    BY <1>2, <1>7 DEF NextRound
  <1>8. CASE UNCHANGED vars
    BY <1>2, <1>8 DEF vars
  <1>9. ASSUME NEW h \in Handlers, NEW v \in Numbers, Get(h, v)
        PROVE  Clamped(u)'
    <2>1. ASSUME NEW store \in {"storeMin", "storeMax"}
          PROVE  Owing(u, store)' = Owing(u, store)
      BY <1>9 DEF Get, Got, Owing, TypeOK
    <2>2. UNCHANGED <<upstreams, effectiveWeight, probe>>
      BY <1>9 DEF Get, Got
    <2> QED
      BY <1>0, <2>1, <2>2, UntouchedClamped
  <1> QED
    BY <1>1, <1>3, <1>4, <1>5, <1>6, <1>7, <1>8, <1>9 DEF Next, Bookkeeping, Ended

(***************************************************************************)
(* For every number of handlers and every configuration: an effectiveWeight*)
(* is in 1..weight but for one step per goroutine that is about to clamp   *)
(* it.  (Every AddInt32 of the weighted selectors.)                        *)
(***************************************************************************)
THEOREM SelectorWeightClamped == SafetySpec => []WeightClamped
  <1>1. Init => WeightClamped
    BY DEF Init, WeightClamped
  <1> QED
    BY <1>1, SelectorTypeOK, NextWeightClamped, PTL DEF SafetySpec
===============================================================================
