-------------------------- MODULE TransferPlanProofs --------------------------
(***************************************************************************)
(* Proofs about TransferPlan with SourceFiles, Allocation and Throughput,  *)
(* for any objects, names and trees, any number of targets and streams,    *)
(* any weights, and any changes other programs make and calls that fail.   *)
(***************************************************************************)
EXTENDS TransferPlan, FiniteSetTheorems, WellFoundedInduction, TLAPS

-----------------------------------------------------------------------------
(* Numbers                                                                 *)

\* A set of numbers has a smallest one, which Min gives.
LEMMA MinOfNumbers ==
  ASSUME NEW S \in SUBSET Nat, S # {}
  PROVE  Min(S) \in S /\ \A x \in S : Min(S) <= x
<1> DEFINE R == {p \in Nat \X Nat : p[1] < p[2]}
<1>1. IsWellFoundedOn(R, Nat)
  BY NatLessThanWellFounded, Zenon DEF OpToRel
<1> HIDE DEF R
<1>2. PICK m \in S : \A y \in S : <<y, m>> \notin R
  BY <1>1, WFMin, Zenon
<1>3. \A y \in S : ~(y < m)
  BY <1>2 DEF R
<1>4. \A x \in S : m <= x
  BY <1>3
<1> QED BY <1>4 DEF Min

\* A bounded one has a largest, which Max gives.
LEMMA MaxOfNumbers ==
  ASSUME NEW bound \in Nat, NEW S \in SUBSET (0..bound), S # {}
  PROVE  Max(S) \in S /\ \A x \in S : x <= Max(S)
<1> DEFINE T == {bound - x : x \in S}
<1>1. T \in SUBSET Nat /\ T # {}
  <2>1. \A x \in S : bound - x \in Nat
    OBVIOUS
  <2> QED BY <2>1
<1>2. PICK x \in S : Min(T) = bound - x
  BY <1>1, MinOfNumbers
<1>3. \A y \in S : bound - x <= bound - y
  BY <1>1, <1>2, MinOfNumbers
<1>4. \A y \in S : x >= y
  BY <1>3
<1>5. Max(S) \in S /\ \A y \in S : Max(S) >= y
  BY <1>4 DEF Max
<1> QED BY <1>5

\* Division gives a quotient and a remainder below the divisor.
LEMMA Division ==
  ASSUME NEW v \in Nat, NEW d \in Nat \ {0}
  PROVE  /\ v \div d \in Nat /\ v % d \in 0..(d - 1)
         /\ v = d * (v \div d) + (v % d)
<1>1. v \div d \in Nat
  OBVIOUS
<1>2. v % d \in 0..(d - 1)
  OBVIOUS
<1>3. v = d * (v \div d) + (v % d)
  OBVIOUS
<1> QED BY <1>1, <1>2, <1>3

\* A multiple leaves none.
LEMMA Multiple ==
  ASSUME NEW d \in Nat \ {0}, NEW k \in Nat
  PROVE  (d * k) % d = 0 /\ (d * k) \div d = k
OBVIOUS

\* Facts about products that linear arithmetic does not know.
LEMMA Distribute ==
  ASSUME NEW g \in Int, NEW x \in Int, NEW y \in Int
  PROVE  g * (x - y) = g * x - g * y
OBVIOUS

\* A product grows with its factor.
LEMMA Monotone ==
  ASSUME NEW g \in Nat, NEW x \in Int, NEW y \in Int, x <= y
  PROVE  g * x <= g * y
OBVIOUS

\* Products can be regrouped.
LEMMA Regroup ==
  ASSUME NEW g \in Int, NEW h \in Int, NEW x \in Int
  PROVE  g * (h * x) = (g * h) * x /\ g * (h * x) = h * (g * x)
OBVIOUS

\* A positive factor can be cancelled.
LEMMA Cancel ==
  ASSUME NEW g \in Nat \ {0}, NEW x \in Int, NEW y \in Int, g * x <= g * y
  PROVE  x <= y
<1>1. SUFFICES ASSUME x >= y + 1 PROVE FALSE
  OBVIOUS
<1>2. g * (x - y) >= g
  BY <1>1
<1> QED BY <1>2

-----------------------------------------------------------------------------
(* Weights                                                                 *)

\* What is scaled to the slowest target is at least the scale, and off by at most
\* half a unit of it.
LEMMA ScaledNear ==
  ASSUME NEW bytes \in Nat, NEW slowest \in Nat \ {0}, slowest <= bytes
  PROVE  LET scaled == Scaled(bytes, slowest) IN
           /\ scaled \in Nat /\ scaled >= Scale
           /\ 2 * (scaled * slowest - Scale * bytes) <= slowest
           /\ 2 * (Scale * bytes - scaled * slowest) <= slowest
<1> DEFINE p == bytes * Scale
           q == p \div slowest
           r == p % slowest
<1>1. p \in Nat
  BY ThroughputAssumption
<1> HIDE DEF p
<1>2. q \in Nat /\ r \in 0..(slowest - 1) /\ p = slowest * q + r
  BY <1>1, Division
<1>3. Scaled(bytes, slowest) = q + (IF 2 * r >= slowest THEN 1 ELSE 0)
  BY DEF Scaled, p
<1> HIDE DEF q, r
<1>4. p = Scale * bytes
  BY ThroughputAssumption DEF p
<1>5. q >= Scale
  <2>1. slowest * Scale <= bytes * Scale
    BY ThroughputAssumption
  <2>2. slowest * Scale < slowest * (q + 1)
    BY <1>2, <2>1, ThroughputAssumption DEF p
  <2>3. SUFFICES ASSUME q + 1 <= Scale PROVE FALSE
    BY <1>2, ThroughputAssumption
  <2>4. slowest * (q + 1) <= slowest * Scale
    BY <1>2, <2>3, ThroughputAssumption
  <2> QED BY <1>2, <2>2, <2>4, ThroughputAssumption
<1>6. CASE 2 * r >= slowest
  <2>1. Scaled(bytes, slowest) = q + 1
    BY <1>3, <1>6
  <2>2. (q + 1) * slowest - p = slowest - r
    BY <1>1, <1>2
  <2> QED BY <1>1, <1>2, <1>4, <1>5, <1>6, <2>1, <2>2, ThroughputAssumption
<1>7. CASE ~(2 * r >= slowest)
  <2>1. Scaled(bytes, slowest) = q
    BY <1>2, <1>3, <1>7
  <2>2. q * slowest - p = -r
    BY <1>1, <1>2
  <2> QED BY <1>1, <1>2, <1>4, <1>5, <1>7, <2>1, <2>2, ThroughputAssumption
<1> QED BY <1>6, <1>7

\* The slowest target itself gets the scale.
LEMMA ScaledSlowest ==
  ASSUME NEW slowest \in Nat \ {0}
  PROVE  Scaled(slowest, slowest) = Scale
<1>1. (slowest * Scale) % slowest = 0 /\ (slowest * Scale) \div slowest = Scale
  BY Multiple, ThroughputAssumption
<1> QED BY <1>1, ThroughputAssumption DEF Scaled

\* The common divisor divides every value, and no larger number does.
LEMMA CommonDivisorDivides ==
  ASSUME NEW V \in SUBSET (Nat \ {0}), V # {}
  PROVE  /\ CommonDivisor(V) \in Nat \ {0}
         /\ \A v \in V : v % CommonDivisor(V) = 0
         /\ \A d \in Nat \ {0} : (\A v \in V : v % d = 0) => d <= CommonDivisor(V)
<1> DEFINE low == Min(V)
           D == {d \in 1..low : \A v \in V : v % d = 0}
<1>1. low \in V
  BY MinOfNumbers
<1>2. 1 \in D
  <2>1. \A v \in Nat : v % 1 = 0
    OBVIOUS
  <2>2. low \in Nat \ {0}
    BY <1>1
  <2>3. 1 \in 1..low
    BY <2>2
  <2> HIDE DEF low
  <2> QED BY <2>1, <2>3
<1>3. \A d \in Nat \ {0} : (\A v \in V : v % d = 0) => d \in D
  <2>1. SUFFICES ASSUME NEW d \in Nat \ {0}, \A v \in V : v % d = 0
                 PROVE  d <= low
    BY <1>1
  <2>2. low \in Nat \ {0} /\ low % d = 0
    BY <1>1, <2>1
  <2> HIDE DEF low
  <2>3. low = d * (low \div d) + (low % d) /\ low \div d \in Nat
    BY <2>2, Division
  <2> DEFINE k == low \div d
  <2>4. k \in Nat /\ low = d * k
    BY <2>2, <2>3
  <2> HIDE DEF k
  <2>5. k # 0
    BY <2>2, <2>4
  <2>6. d * k >= d
    BY <2>4, <2>5
  <2> QED BY <2>2, <2>4, <2>6
<1>4. D \in SUBSET (0..low) /\ low \in Nat
  <2>1. low \in Nat
    BY <1>1
  <2> HIDE DEF low
  <2> QED BY <2>1
<1>5. CommonDivisor(V) = Max(D)
  BY DEF CommonDivisor
<1> HIDE DEF low
<1>6. Max(D) \in D /\ \A d \in D : d <= Max(D)
  BY <1>2, <1>4, MaxOfNumbers
<1>7. Max(D) \in Nat \ {0} /\ \A v \in V : v % Max(D) = 0
  BY <1>4, <1>6
<1>8. \A d \in Nat \ {0} : (\A v \in V : v % d = 0) => d <= Max(D)
  BY <1>3, <1>6
<1> HIDE DEF D
<1> QED BY <1>5, <1>7, <1>8

\* Weights are what was uploaded, rounded to the scale, in lowest terms.
LEMMA WeighFaithful ==
  ASSUME NEW D, D # {}, NEW bytes \in [D -> Nat \ {0}], Weigh(bytes) # <<>>,
         NEW slow \in D, \A t \in D : bytes[slow] <= bytes[t]
  PROVE  LET w == Weigh(bytes)
             Error(t) == w[t] * bytes[slow] - w[slow] * bytes[t]
         IN /\ DOMAIN w = D
            /\ \A t \in D : /\ w[t] \in 1..(Limit - 1)
                            /\ 2 * Scale * Error(t) <= w[slow] * bytes[slow]
                            /\ -2 * Scale * Error(t) <= w[slow] * bytes[slow]
            /\ CommonDivisor({w[t] : t \in D}) = 1
<1> DEFINE least == bytes[slow]
           scaled == [t \in D |-> Scaled(bytes[t], least)]
           V == {scaled[t] : t \in D}
           g == CommonDivisor(V)
           w == [t \in D |-> scaled[t] \div g]
<1>1. least \in Nat \ {0} /\ \A t \in D : bytes[t] \in Nat \ {0} /\ least <= bytes[t]
  OBVIOUS
<1>2. least = Min({bytes[t] : t \in D})
  <2>1. {bytes[t] : t \in D} \in SUBSET Nat /\ {bytes[t] : t \in D} # {}
    BY <1>1
  <2>2. PICK t \in D : Min({bytes[u] : u \in D}) = bytes[t]
    BY <2>1, MinOfNumbers
  <2>3. Min({bytes[u] : u \in D}) <= least
    <3>1. least \in {bytes[u] : u \in D}
      OBVIOUS
    <3> HIDE DEF least
    <3> QED BY <2>1, <3>1, MinOfNumbers
  <2> QED BY <1>1, <2>2, <2>3
<1>3. Weigh(bytes) = w /\ \A t \in D : ~(scaled[t] >= Limit)
  BY <1>2 DEF Weigh
<1> HIDE DEF least
<1>4. \A t \in D : /\ scaled[t] \in Nat \ {0} /\ scaled[t] <= Limit - 1
                   /\ 2 * (scaled[t] * least - Scale * bytes[t]) <= least
                   /\ 2 * (Scale * bytes[t] - scaled[t] * least) <= least
  <2>1. TAKE t \in D
  <2>2. scaled[t] = Scaled(bytes[t], least) /\ ~(scaled[t] >= Limit)
    BY <1>3
  <2> HIDE DEF scaled
  <2>3. bytes[t] \in Nat /\ least \in Nat \ {0} /\ least <= bytes[t]
    BY <1>1
  <2>4. /\ scaled[t] \in Nat /\ scaled[t] >= Scale
        /\ 2 * (scaled[t] * least - Scale * bytes[t]) <= least
        /\ 2 * (Scale * bytes[t] - scaled[t] * least) <= least
    BY <2>2, <2>3, ScaledNear
  <2> QED BY <2>2, <2>4, ThroughputAssumption
<1>5. scaled[slow] = Scale
  BY <1>1, ScaledSlowest DEF least
<1> HIDE DEF scaled
<1>6. g \in Nat \ {0} /\ (\A t \in D : scaled[t] % g = 0)
       /\ \A d \in Nat \ {0} : (\A t \in D : scaled[t] % d = 0) => d <= g
  <2>1. V \in SUBSET (Nat \ {0}) /\ V # {}
    BY <1>4
  <2>2. \A d : (\A t \in D : scaled[t] % d = 0) => \A v \in V : v % d = 0
    OBVIOUS
  <2> QED BY <2>1, <2>2, CommonDivisorDivides
<1> HIDE DEF g
<1>7. \A t \in D : w[t] \in Nat \ {0} /\ scaled[t] = g * w[t] /\ w[t] <= scaled[t]
  <2>1. TAKE t \in D
  <2>2. scaled[t] \in Nat \ {0} /\ scaled[t] % g = 0 /\ w[t] = scaled[t] \div g
    BY <1>4, <1>6
  <2>3. w[t] \in Nat /\ scaled[t] = g * w[t] + (scaled[t] % g)
    BY <1>6, <2>2, Division
  <2> HIDE DEF w
  <2>4. scaled[t] = g * w[t]
    BY <1>6, <2>2, <2>3
  <2>5. w[t] # 0
    BY <1>6, <2>2, <2>4
  <2>6. g * w[t] >= w[t]
    BY <1>6, <2>3, <2>5
  <2> QED BY <2>2, <2>3, <2>4, <2>5, <2>6
<1>8. DOMAIN w = D
  OBVIOUS
<1> HIDE DEF w
<1>9. ASSUME NEW t \in D
      PROVE  /\ 2 * Scale * (w[t] * least - w[slow] * bytes[t]) <= w[slow] * least
             /\ -2 * Scale * (w[t] * least - w[slow] * bytes[t]) <= w[slow] * least
  <2> DEFINE e == w[t] * least - w[slow] * bytes[t]
  <2>1. e \in Int /\ w[slow] * least \in Int /\ Scale \in Nat \ {0}
    BY <1>1, <1>7, ThroughputAssumption
  <2>2. g * e = scaled[t] * least - Scale * bytes[t]
    <3>1. g * (w[t] * least) = scaled[t] * least
      BY <1>1, <1>6, <1>7
    <3>2. g * (w[slow] * bytes[t]) = Scale * bytes[t]
      BY <1>1, <1>5, <1>6, <1>7
    <3>3. w[t] * least \in Int /\ w[slow] * bytes[t] \in Int
      BY <1>1, <1>7
    <3> QED BY <1>6, <3>1, <3>2, <3>3, Distribute
  <2>3. g * (w[slow] * least) = Scale * least
    BY <1>1, <1>5, <1>6, <1>7
  <2>4. 2 * (g * e) <= least /\ -2 * (g * e) <= least
    <3>1. 2 * (scaled[t] * least - Scale * bytes[t]) <= least
          /\ 2 * (Scale * bytes[t] - scaled[t] * least) <= least
      BY <1>4
    <3> DEFINE p == scaled[t] * least
               q == Scale * bytes[t]
    <3>2. p \in Int /\ q \in Int /\ least \in Int
      <4>1. scaled[t] \in Int /\ bytes[t] \in Int /\ least \in Int /\ Scale \in Int
        BY <1>1, <1>4, <2>1
      <4> QED BY <4>1
    <3>3. 2 * (p - q) <= least /\ 2 * (q - p) <= least
      BY <3>1
    <3>4. g * e = p - q
      BY <2>2
    <3> HIDE DEF e, p, q
    <3> QED BY <3>2, <3>3, <3>4
  <2> HIDE DEF e
  <2> DEFINE x == g * e
             y == Scale * e
             z == w[slow] * least
  <2>5. x \in Int /\ y \in Int /\ z \in Int /\ Scale * x = g * y
    BY <1>6, <2>1, Regroup
  <2>6. Scale * (2 * x) <= g * z /\ Scale * (-2 * x) <= g * z
    BY <1>1, <2>1, <2>3, <2>4, <2>5, Monotone
  <2>7. 2 * Scale * e = 2 * y /\ -2 * Scale * e = -2 * y
    BY <2>1
  <2> HIDE DEF x, y, z
  <2>8. g * (2 * y) <= g * z /\ g * (-2 * y) <= g * z
    <3>1. Scale * (2 * x) = 2 * (g * y) /\ Scale * (-2 * x) = -2 * (g * y)
      BY <2>1, <2>5
    <3>2. g * (2 * y) = 2 * (g * y) /\ g * (-2 * y) = -2 * (g * y)
      BY <1>6, <2>5
    <3> QED BY <2>6, <3>1, <3>2
  <2>9. 2 * y <= z /\ -2 * y <= z
    BY <1>6, <2>5, <2>8, Cancel
  <2> QED BY <2>7, <2>9 DEF e, z
<1>10. CommonDivisor({w[t] : t \in D}) = 1
  <2> DEFINE W == {w[t] : t \in D}
             h == CommonDivisor(W)
  <2>1. W \in SUBSET (Nat \ {0}) /\ W # {}
    BY <1>7
  <2>2. h \in Nat \ {0} /\ \A t \in D : w[t] % h = 0
    BY <2>1, CommonDivisorDivides
  <2> HIDE DEF h
  <2>3. g * h \in Nat \ {0}
    BY <1>6, <2>2
  <2>4. \A t \in D : scaled[t] % (g * h) = 0
    <3>1. TAKE t \in D
    <3> DEFINE k == w[t] \div h
    <3>2. k \in Nat /\ w[t] = h * k + (w[t] % h)
      BY <1>7, <2>2, Division
    <3>3. w[t] = h * k
      BY <1>7, <2>2, <3>2
    <3> HIDE DEF k
    <3>4. scaled[t] = (g * h) * k
      <4>1. scaled[t] = g * (h * k)
        BY <1>7, <3>3
      <4>2. g \in Int /\ h \in Int /\ k \in Int
        BY <1>6, <2>2, <3>2
      <4> QED BY <4>1, <4>2, Regroup
    <3> QED BY <2>3, <3>2, <3>4, Multiple
  <2>5. g * h <= g
    BY <1>6, <2>3, <2>4
  <2>6. h <= 1
    BY <1>6, <2>2, <2>5, Cancel
  <2> QED BY <2>2, <2>6 DEF h
<1>11. \A t \in D : w[t] \in 1..(Limit - 1)
  <2>1. TAKE t \in D
  <2> HIDE DEF w
  <2>2. w[t] \in Nat \ {0} /\ w[t] <= scaled[t] /\ scaled[t] \in Nat /\ scaled[t] <= Limit - 1
    BY <1>4, <1>7
  <2>3. Limit \in Nat
    BY ThroughputAssumption
  <2> QED BY <2>2, <2>3
<1> HIDE DEF V
<1> QED BY <1>3, <1>8, <1>9, <1>10, <1>11, Zenon DEF least

-----------------------------------------------------------------------------
(* Throughput                                                              *)

USE DEF throughputVars, perStream

\* The time is over.
LEMMA ContextExpiresMeasure ==
  ASSUME MeasureOK, FailureInv, NEW t \in Targets, ContextExpires(t)
  PROVE  MeasureOK' /\ FailureInv'
<1>1. MeasureOK'
  BY ThroughputAssumption DEF MeasureOK, Causes, NoCause, Stages, ContextExpires, EndContext
<1>2. FailuresReported'
  BY DEF MeasureOK, FailureInv, FailuresReported, Causes, NoCause, ContextExpires, EndContext
<1>3. ASSUME NEW u \in Targets PROVE (FailureKnown(u))'
  BY <1>3 DEF MeasureOK, FailureInv, FailureKnown, Causes, NoCause, ContextExpires, EndContext
<1> QED BY <1>1, <1>2, <1>3 DEF FailureInv

\* The caller cancels.
LEMMA CancelParentMeasure ==
  ASSUME MeasureOK, FailureInv, CancelParent
  PROVE  MeasureOK' /\ FailureInv'
<1>1. MeasureOK'
  BY ThroughputAssumption DEF MeasureOK, Causes, NoCause, Stages, CancelParent
<1>2. FailuresReported'
  BY DEF MeasureOK, FailureInv, FailuresReported, Causes, NoCause, CancelParent
<1>3. ASSUME NEW u \in Targets PROVE (FailureKnown(u))'
  BY <1>3 DEF MeasureOK, FailureInv, FailureKnown, Causes, NoCause, CancelParent
<1> QED BY <1>1, <1>2, <1>3 DEF FailureInv

\* A helper dies.
LEMMA HelperDiesMeasure ==
  ASSUME MeasureOK, FailureInv, NEW t \in Targets, HelperDies(t)
  PROVE  MeasureOK' /\ FailureInv'
<1>1. MeasureOK'
  BY ThroughputAssumption DEF MeasureOK, Causes, NoCause, Stages, HelperDies
<1>2. FailuresReported'
  BY DEF MeasureOK, FailureInv, FailuresReported, Causes, NoCause, HelperDies
<1>3. ASSUME NEW u \in Targets PROVE (FailureKnown(u))'
  BY <1>3 DEF MeasureOK, FailureInv, FailureKnown, Causes, NoCause, HelperDies
<1> QED BY <1>1, <1>2, <1>3 DEF FailureInv

\* The endpoint is resolved or is not.
LEMMA ResolveEndpointMeasure ==
  ASSUME MeasureOK, FailureInv, NEW t \in Targets, NEW ok \in BOOLEAN, ResolveEndpoint(t, ok)
  PROVE  MeasureOK' /\ FailureInv'
<1>1. MeasureOK'
  <2>1. CASE ok
    <3>1. /\ tpc' = [tpc EXCEPT ![t] = "prepare"]
          /\ stream' = [stream EXCEPT ![t] = [s \in Streams |-> "preparing"]]
          /\ stage' = [stage EXCEPT ![t] = [s \in Streams |-> "connect"]]
          /\ UNCHANGED <<cause, observation, alone>>
      BY <2>1 DEF ResolveEndpoint
    <3> QED BY <3>1 DEF MeasureOK, Stages
  <2>2. CASE ~ok
    <3>1. /\ tpc' = [tpc EXCEPT ![t] = "done"]
          /\ stream' = [stream EXCEPT ![t] = [s \in Streams |-> "closed"]]
          /\ observation' = [observation EXCEPT ![t] = Failed("resolve")]
          /\ UNCHANGED <<stage, cause, alone>>
      BY <2>2 DEF ResolveEndpoint, Observe
    <3>2. Failed("resolve") \in [result : {"none", "ok", "failed"}, stage : Stages,
                                 bytes : 0..(Limit - 1)]
      BY ThroughputAssumption DEF Failed, Stages
    <3> QED BY <3>1, <3>2 DEF MeasureOK
  <2> QED BY <2>1, <2>2
<1>2. FailuresReported'
  <2>1. CASE ok
    BY <2>1 DEF FailureInv, FailuresReported, ResolveEndpoint
  <2>2. CASE ~ok
    <3>1. observation' = [observation EXCEPT ![t] = Failed("resolve")] /\ UNCHANGED alone
      BY <2>2 DEF ResolveEndpoint, Observe
    <3>2. alone[t] = NoCause
      BY DEF FailureInv, FailureKnown, ResolveEndpoint
    <3> QED BY <3>1, <3>2 DEF MeasureOK, FailureInv, FailuresReported, Failed, NoCause
  <2> QED BY <2>1, <2>2
<1>3. ASSUME NEW u \in Targets PROVE (FailureKnown(u))'
  BY <1>3 DEF MeasureOK, FailureInv, FailureKnown, Causes, NoCause, ResolveEndpoint, Observe, Failed
<1> QED BY <1>1, <1>2, <1>3 DEF FailureInv

\* A stream gets on with its preparation.
LEMMA AdvanceStreamMeasure ==
  ASSUME MeasureOK, FailureInv, NEW t \in Targets, NEW s \in Streams, AdvanceStream(t, s)
  PROVE  MeasureOK' /\ FailureInv'
<1>1. MeasureOK'
  BY ThroughputAssumption DEF MeasureOK, Causes, NoCause, Stages, AdvanceStream, NextStage
<1>2. FailuresReported'
  BY DEF MeasureOK, FailureInv, FailuresReported, Causes, NoCause, AdvanceStream, NextStage
<1>3. ASSUME NEW u \in Targets PROVE (FailureKnown(u))'
  BY <1>3 DEF MeasureOK, FailureInv, FailureKnown, Causes, NoCause, AdvanceStream, NextStage
<1> QED BY <1>1, <1>2, <1>3 DEF FailureInv

\* A stream is prepared.
LEMMA StreamPreparedMeasure ==
  ASSUME MeasureOK, FailureInv, NEW t \in Targets, NEW s \in Streams, StreamPrepared(t, s)
  PROVE  MeasureOK' /\ FailureInv'
<1>1. MeasureOK'
  BY ThroughputAssumption DEF MeasureOK, Causes, NoCause, Stages, StreamPrepared
<1>2. FailuresReported'
  BY DEF MeasureOK, FailureInv, FailuresReported, Causes, NoCause, StreamPrepared
<1>3. ASSUME NEW u \in Targets PROVE (FailureKnown(u))'
  BY <1>3 DEF MeasureOK, FailureInv, FailureKnown, Causes, NoCause, StreamPrepared, Preparing
<1> QED BY <1>1, <1>2, <1>3 DEF FailureInv

\* A stream fails by itself.
LEMMA StreamFailsMeasure ==
  ASSUME MeasureOK, FailureInv, NEW t \in Targets, NEW s \in Streams, StreamFails(t, s)
  PROVE  MeasureOK' /\ FailureInv'
<1>1. MeasureOK'
  BY ThroughputAssumption DEF MeasureOK, Causes, NoCause, Stages, StreamFails, Preparing, EndContext
<1>2. FailuresReported'
  <2>1. observation[t].result = "none"
    BY DEF MeasureOK, FailureInv, FailureKnown, StreamFails, Preparing
  <2>2. \A u \in Targets : u # t => alone'[u] = alone[u]
    BY DEF MeasureOK, StreamFails
  <2>3. UNCHANGED observation
    BY DEF StreamFails
  <2> QED BY <2>1, <2>2, <2>3, Zenon DEF FailureInv, FailuresReported
<1>3. ASSUME NEW u \in Targets PROVE (FailureKnown(u))'
  BY <1>3 DEF MeasureOK, FailureInv, FailureKnown, Causes, NoCause, StreamFails, Preparing,
              EndContext
<1> QED BY <1>1, <1>2, <1>3 DEF FailureInv

\* A stream is stopped.
LEMMA StreamStoppedMeasure ==
  ASSUME MeasureOK, FailureInv, NEW t \in Targets, NEW s \in Streams, StreamStopped(t, s)
  PROVE  MeasureOK' /\ FailureInv'
<1>1. MeasureOK'
  BY ThroughputAssumption DEF MeasureOK, Causes, NoCause, Stages, StreamStopped, Preparing
<1>2. FailuresReported'
  BY DEF MeasureOK, FailureInv, FailuresReported, Causes, NoCause, StreamStopped, Preparing
<1>3. ASSUME NEW u \in Targets PROVE (FailureKnown(u))'
  BY <1>3 DEF MeasureOK, FailureInv, FailureKnown, Causes, NoCause, StreamStopped, Preparing
<1> QED BY <1>1, <1>2, <1>3 DEF FailureInv

\* The stage a failed preparation reports is one.
LEMMA PreparationStageType ==
  ASSUME MeasureOK, NEW t \in Targets, \E s \in Streams : stream[t][s] = "failed"
  PROVE  PreparationStage(t) \in Stages
<1> DEFINE F == {s \in Streams : stream[t][s] = "failed"}
<1>1. F \in SUBSET Nat /\ F # {}
  BY ThroughputAssumption DEF Streams
<1>2. Min(F) \in Streams
  BY <1>1, MinOfNumbers
<1>3. stage[t][Min(F)] \in Stages
  BY <1>2 DEF MeasureOK
<1>4. cause[t].stage \in Stages
  BY DEF MeasureOK, Causes, NoCause, Stages
<1> QED BY <1>3, <1>4 DEF PreparationStage

\* The preparation ends.
LEMMA PreparationEndsMeasure ==
  ASSUME MeasureOK, FailureInv, NEW t \in Targets, PreparationEnds(t)
  PROVE  MeasureOK' /\ FailureInv'
<1>1. MeasureOK'
  <2>1. CASE \E s \in Streams : stream[t][s] = "failed"
    <3>1. /\ tpc' = [tpc EXCEPT ![t] = "done"]
          /\ stream' = [stream EXCEPT ![t] = [s \in Streams |-> "closed"]]
          /\ observation' = [observation EXCEPT ![t] = Failed(PreparationStage(t))]
          /\ UNCHANGED <<stage, cause, alone>>
      BY <2>1 DEF PreparationEnds, Observe
    <3>2. PreparationStage(t) \in Stages
      BY <2>1, PreparationStageType
    <3>3. Failed(PreparationStage(t)) \in [result : {"none", "ok", "failed"},
                                           stage : Stages, bytes : 0..(Limit - 1)]
      BY <3>2, ThroughputAssumption DEF Failed
    <3> QED BY <3>1, <3>3 DEF MeasureOK
  <2>2. CASE ~\E s \in Streams : stream[t][s] = "failed"
    <3>1. /\ tpc' = [tpc EXCEPT ![t] = "sample"]
          /\ stream' = [stream EXCEPT ![t] = [s \in Streams |-> "uploading"]]
          /\ cause' = [cause EXCEPT ![t] = IF parent = "live" THEN NoCause
                                           ELSE [kind |-> "cancel", stage |-> "none"]]
          /\ UNCHANGED <<stage, observation, alone>>
      BY <2>2 DEF PreparationEnds
    <3>2. NoCause \in Causes /\ [kind |-> "cancel", stage |-> "none"] \in Causes
      BY DEF Causes, Stages
    <3> QED BY <3>1, <3>2 DEF MeasureOK
  <2> QED BY <2>1, <2>2
<1>2. FailuresReported'
  <2>1. CASE \E s \in Streams : stream[t][s] = "failed"
    <3>1. observation' = [observation EXCEPT ![t] = Failed(PreparationStage(t))]
          /\ UNCHANGED alone
      BY <2>1 DEF PreparationEnds, Observe
    <3>2. alone[t].kind = "stream" => PreparationStage(t) = alone[t].stage
      BY DEF MeasureOK, FailureInv, FailureKnown, PreparationEnds, PreparationStage, NoCause
    <3> QED BY <3>1, <3>2 DEF MeasureOK, FailureInv, FailuresReported, Failed
  <2>2. CASE ~\E s \in Streams : stream[t][s] = "failed"
    BY <2>2 DEF FailureInv, FailuresReported, PreparationEnds
  <2> QED BY <2>1, <2>2
<1>3. ASSUME NEW u \in Targets PROVE (FailureKnown(u))'
  BY <1>3 DEF MeasureOK, FailureInv, FailureKnown, Causes, NoCause, PreparationEnds, Observe, Failed
<1> QED BY <1>1, <1>2, <1>3 DEF FailureInv

\* An upload ends.
LEMMA UploadDoneMeasure ==
  ASSUME MeasureOK, FailureInv, NEW t \in Targets, NEW s \in Streams, UploadDone(t, s)
  PROVE  MeasureOK' /\ FailureInv'
<1>1. MeasureOK'
  <2>1. CASE cause[t] = NoCause
    BY <2>1 DEF MeasureOK, UploadDone
  <2>2. CASE cause[t] # NoCause
    <3>1. cause[t].kind \in {"deadline", "cancel", "stream", "broken"}
      BY <2>2 DEF MeasureOK, Causes
    <3>2. stream' = [stream EXCEPT ![t][s] = cause[t].kind]
          /\ UNCHANGED <<tpc, stage, cause, observation, alone>>
      BY <2>2 DEF UploadDone
    <3> QED BY <3>1, <3>2 DEF MeasureOK
  <2> QED BY <2>1, <2>2
<1>2. FailuresReported'
  BY DEF MeasureOK, FailureInv, FailuresReported, Causes, NoCause, UploadDone, Uploading
<1>3. ASSUME NEW u \in Targets PROVE (FailureKnown(u))'
  <2>1. FailureKnown(u) /\ UNCHANGED <<tpc, cause, observation, alone>>
    BY DEF FailureInv, UploadDone
  <2>2. \A r \in Streams : /\ stream[u][r] = "failed" => stream'[u][r] = "failed"
                           /\ stream[u][r] = "broken" => stream'[u][r] = "broken"
    <3>1. stream[t][s] = "uploading"
      BY DEF UploadDone, Uploading
    <3>2. stream' = stream \/ stream' = [stream EXCEPT ![t][s] = cause[t].kind]
      BY DEF UploadDone
    <3>3. \A r \in Streams : (u = t /\ r = s) \/ stream'[u][r] = stream[u][r]
      BY <3>2 DEF MeasureOK
    <3> QED BY <3>1, <3>3
  <2> QED BY <2>1, <2>2 DEF FailureKnown
<1> QED BY <1>1, <1>2, <1>3 DEF FailureInv

\* An upload fails.
LEMMA UploadFailsMeasure ==
  ASSUME MeasureOK, FailureInv, NEW t \in Targets, NEW s \in Streams, UploadFails(t, s)
  PROVE  MeasureOK' /\ FailureInv'
<1>1. MeasureOK'
  BY ThroughputAssumption DEF MeasureOK, Causes, NoCause, Stages, UploadFails, Uploading, EndContext
<1>2. FailuresReported'
  <2>1. observation[t].result = "none"
    BY DEF MeasureOK, FailureInv, FailureKnown, UploadFails, Uploading
  <2>2. \A u \in Targets : u # t => alone'[u] = alone[u]
    BY DEF MeasureOK, UploadFails
  <2>3. UNCHANGED observation
    BY DEF UploadFails
  <2> QED BY <2>1, <2>2, <2>3, Zenon DEF FailureInv, FailuresReported
<1>3. ASSUME NEW u \in Targets PROVE (FailureKnown(u))'
  BY <1>3 DEF MeasureOK, FailureInv, FailureKnown, Causes, NoCause, UploadFails, Uploading,
              EndContext
<1> QED BY <1>1, <1>2, <1>3 DEF FailureInv

\* The window ends.
LEMMA WindowEndsMeasure ==
  ASSUME MeasureOK, FailureInv, NEW t \in Targets, WindowEnds(t)
  PROVE  MeasureOK' /\ FailureInv'
<1>1. MeasureOK'
  <2>1. Sampled(t) \in [result : {"none", "ok", "failed"}, stage : Stages,
                        bytes : 0..(Limit - 1)]
    BY ThroughputAssumption DEF Sampled, Failed, Stages
  <2> QED BY <2>1 DEF MeasureOK, WindowEnds, Observe
<1>2. FailuresReported'
  <2>1. Sampled(t).result = "ok" => alone[t] = NoCause /\ Sampled(t).bytes > 0
    <3>1. alone[t] # NoCause => \E s \in Streams : stream[t][s] # "deadline"
      BY DEF FailureInv, FailureKnown, WindowEnds
    <3> QED BY <3>1, ThroughputAssumption DEF Sampled, Failed
  <2>2. alone[t].kind # "stream"
    BY DEF FailureInv, FailureKnown, WindowEnds, NoCause
  <2>3. observation' = [observation EXCEPT ![t] = Sampled(t)] /\ UNCHANGED alone
    BY DEF WindowEnds, Observe
  <2> QED BY <2>1, <2>2, <2>3 DEF MeasureOK, FailureInv, FailuresReported
<1>3. ASSUME NEW u \in Targets PROVE (FailureKnown(u))'
  BY <1>3 DEF MeasureOK, FailureInv, FailureKnown, Causes, NoCause, WindowEnds, Observe, Failed
<1> QED BY <1>1, <1>2, <1>3 DEF FailureInv

\* A step of the measurement keeps its types, and every failure is known.
LEMMA MeasureStep ==
  ASSUME MeasureOK, FailureInv, ThroughputStep
  PROVE  MeasureOK' /\ FailureInv'
BY ContextExpiresMeasure, CancelParentMeasure, HelperDiesMeasure, ResolveEndpointMeasure,
   AdvanceStreamMeasure, StreamPreparedMeasure, StreamFailsMeasure, StreamStoppedMeasure,
   PreparationEndsMeasure, UploadDoneMeasure, UploadFailsMeasure, WindowEndsMeasure
   DEF ThroughputStep

\* Nothing else changes them.
LEMMA MeasureKept ==
  ASSUME MeasureOK, FailureInv, UNCHANGED throughputVars
  PROVE  MeasureOK' /\ FailureInv'
BY DEF MeasureOK, FailureInv, FailuresReported, FailureKnown

-----------------------------------------------------------------------------
(* Activations of scanDirectory                                            *)

USE DEF References

\* What an activation of scanDirectory is made of.
LEMMA FrameFields ==
  ASSUME NEW f \in Frames
  PROVE  /\ f.dir \in Dirs /\ f.path \in Seq(Names)
         /\ f.backing \in [anchor : Nat, names : Seq(Names)] /\ f.owned \in BOOLEAN
         /\ f.todo \subseteq Names
         /\ f.seen \subseteq Names \X Objects /\ f.then \subseteq Names \X Objects
BY DEF Frames

\* The activations that close their directory are finitely many.
LEMMA EnteredFinite ==
  ASSUME NEW s \in Seq(Frames)
  PROVE  IsFiniteSet(Entered(s)) /\ Cardinality(Entered(s)) \in Nat
         /\ Entered(s) \subseteq 1..Len(s)
<1>1. IsFiniteSet(1..Len(s))
  BY FS_Interval
<1>2. Entered(s) \subseteq 1..Len(s)
  BY DEF Entered
<1> QED BY <1>1, <1>2, FS_Subset, FS_CardinalityType

\* SetTop replaces the innermost activation.
LEMMA SetTopStack ==
  ASSUME stack \in Seq(Frames), stack # <<>>, NEW g \in Frames, SetTop(g)
  PROVE  /\ stack' \in Seq(Frames) /\ Len(stack') = Len(stack) /\ stack' # <<>>
         /\ DOMAIN stack' = DOMAIN stack /\ Len(stack) \in DOMAIN stack
         /\ stack'[Len(stack)] = g
         /\ \A k \in DOMAIN stack : k # Len(stack) => stack'[k] = stack[k]
BY DEF SetTop

\* It keeps the directories that the activations close.
LEMMA SetTopEntered ==
  ASSUME stack \in Seq(Frames), stack # <<>>, NEW g \in Frames, SetTop(g),
         g.owned = Top.owned
  PROVE  Entered(stack') = Entered(stack)
BY SetTopStack, Zenon DEF Entered, Top

\* Push begins an activation inside the others.
LEMMA PushStack ==
  ASSUME stack \in Seq(Frames), NEW g \in Frames, Push(g)
  PROVE  /\ stack' \in Seq(Frames) /\ Len(stack') = Len(stack) + 1 /\ stack' # <<>>
         /\ DOMAIN stack' = DOMAIN stack \cup {Len(stack) + 1}
         /\ Len(stack) + 1 \notin DOMAIN stack
         /\ stack'[Len(stack) + 1] = g
         /\ \A k \in DOMAIN stack : stack'[k] = stack[k]
BY DEF Push

\* It adds the descriptor the activation owns.
LEMMA PushEntered ==
  ASSUME stack \in Seq(Frames), NEW g \in Frames, Push(g)
  PROVE  Cardinality(Entered(stack'))
           = Cardinality(Entered(stack)) + (IF g.owned THEN 1 ELSE 0)
<1>1. Len(stack) + 1 \notin Entered(stack) /\ IsFiniteSet(Entered(stack))
      /\ Cardinality(Entered(stack)) \in Nat
  BY EnteredFinite, PushStack DEF Entered
<1>2. CASE g.owned
  <2>1. Entered(stack') = Entered(stack) \cup {Len(stack) + 1}
    BY <1>2, PushStack, Zenon DEF Entered
  <2> QED BY <1>1, <1>2, <2>1, FS_AddElement
<1>3. CASE ~g.owned
  <2>1. Entered(stack') = Entered(stack)
    BY <1>3, PushStack, Zenon DEF Entered
  <2> QED BY <1>1, <1>3, <2>1
<1> QED BY <1>2, <1>3

\* An activation returns to the one it was called from.
LEMMA PopStack ==
  ASSUME stack \in Seq(Frames), Len(stack) > 1, stack' = Front(stack)
  PROVE  /\ stack' \in Seq(Frames) /\ Len(stack') = Len(stack) - 1 /\ stack' # <<>>
         /\ DOMAIN stack = DOMAIN stack' \cup {Len(stack)}
         /\ Len(stack) \notin DOMAIN stack' /\ Len(stack) \in DOMAIN stack
         /\ \A k \in DOMAIN stack' : stack'[k] = stack[k]
<1>1. Len(stack) \in Nat /\ stack' = SubSeq(stack, 1, Len(stack) - 1)
  BY DEF Front
<1>2. stack' \in Seq(Frames)
  BY <1>1
<1>3. Len(stack') = Len(stack) - 1
  BY <1>1
<1>4. \A k \in 1..(Len(stack) - 1) : stack'[k] = stack[k]
  BY <1>1
<1>5. DOMAIN stack' = 1..(Len(stack) - 1) /\ DOMAIN stack = 1..Len(stack)
  BY <1>2, <1>3
<1>6. stack' # <<>>
  <2>1. Len(stack') # 0
    BY <1>1, <1>3
  <2> QED BY <2>1
<1>7. 1..Len(stack) = 1..(Len(stack) - 1) \cup {Len(stack)}
      /\ Len(stack) \notin 1..(Len(stack) - 1)
  BY <1>1
<1> QED BY <1>2, <1>3, <1>4, <1>5, <1>6, <1>7, Zenon

\* It closes the descriptor it owns.
LEMMA PopEntered ==
  ASSUME stack \in Seq(Frames), Len(stack) > 1, stack' = Front(stack)
  PROVE  Cardinality(Entered(stack))
           = Cardinality(Entered(stack')) + (IF Top.owned THEN 1 ELSE 0)
<1>1. Len(stack) \notin Entered(stack') /\ IsFiniteSet(Entered(stack'))
      /\ Cardinality(Entered(stack')) \in Nat
  BY EnteredFinite, PopStack DEF Entered
<1>2. CASE Top.owned
  <2>1. Entered(stack) = Entered(stack') \cup {Len(stack)}
    BY <1>2, PopStack, Zenon DEF Entered, Top
  <2> QED BY <1>1, <1>2, <2>1, FS_AddElement
<1>3. CASE ~Top.owned
  <2>1. Entered(stack) = Entered(stack')
    BY <1>3, PopStack, Zenon DEF Entered, Top
  <2> QED BY <1>1, <1>3, <2>1
<1> QED BY <1>2, <1>3

\* The innermost activation is one.
LEMMA TopFrame ==
  ASSUME stack \in Seq(Frames), stack # <<>>
  PROVE  Top \in Frames /\ Len(stack) \in DOMAIN stack /\ Len(stack) \in Nat
BY DEF Top

\* Nothing is being captured.
LEMMA NoItemType == NoItem \in [name : Names, id : Objects \cup {Nil}]
BY SourceAssumption DEF NoItem

\* A logical entry is added to those captured.
LEMMA EntryAdded ==
  ASSUME captured \subseteq Entries, IsFiniteSet(captured), NEW e \in Entries,
         captured' = captured \cup {e}
  PROVE  captured' \subseteq Entries /\ IsFiniteSet(captured')
BY FS_AddElement

\* What an activation has seen depends on the tree and its changes only.
LEMMA ThereKept ==
  ASSUME NEW f, UNCHANGED <<entries, touched, retouched>>
  PROVE  /\ SeenThere(f) => (SeenThere(f))'
         /\ ThenThere(f) => (ThenThere(f))'
BY DEF SeenThere, ThenThere

\* Whatever other programs change is recorded.
LEMMA ThereChanged ==
  ASSUME TreeOK, NEW f \in Frames,
         touched \subseteq touched', retouched \subseteq retouched',
         \A n \in Names : \/ entries'[f.dir][n] = entries[f.dir][n]
                          \/ /\ <<f.dir, n>> \in touched'
                             /\ <<f.dir, n>> \in touched => <<f.dir, n>> \in retouched'
  PROVE  /\ SeenThere(f) => (SeenThere(f))'
         /\ ThenThere(f) => (ThenThere(f))'
<1>1. \A s \in f.seen : s[1] \in Names
  BY FrameFields
<1>2. ASSUME SeenThere(f) PROVE (SeenThere(f))'
  BY <1>1, <1>2 DEF SeenThere
<1>3. ASSUME ThenThere(f) PROVE (ThenThere(f))'
  BY <1>1, <1>3 DEF ThenThere
<1> QED BY <1>2, <1>3

-----------------------------------------------------------------------------
(* The scan                                                                *)

USE DEF treeVars, scanVars, useVars, flowVars

\* What a step of the scan leaves alone.
Elsewhere == UNCHANGED <<request, flowVars, throughputVars>>
Tree == UNCHANGED <<treeVars, target, follow, cancelled, useVars>> /\ faults' \in Nat

\* What does not touch the measurement keeps the weights.
LEMMA WeightsKept ==
  ASSUME WeightsInv, UNCHANGED <<request, phase, weights, throughputVars>>
  PROVE  WeightsInv'
BY DEF WeightsInv, WeightsFaithful

\* A step that leaves the tree alone keeps its type.
LEMMA TreeKept ==
  ASSUME TreeOK, Tree
  PROVE  TreeOK'
<1>1. cancelled' \in BOOLEAN
  BY Zenon DEF TreeOK, Tree
<1> QED BY <1>1 DEF TreeOK, Tree

\* The scan leaves the tree alone.
LEMMA KeepScanTree ==
  ASSUME TreeOK, KeepScan
  PROVE  Tree
BY DEF TreeOK, KeepScan, Tree

\* While the facts are read the root is open and is borrowed by the scan alone.
LEMMA FactsState ==
  ASSUME PlanInv, phase = "facts"
  PROVE  /\ request # "list" /\ root.state = "open" /\ root.dir \in Dirs
         /\ lease = <<>> /\ handles = {} /\ Cardinality(handles) = 0
         /\ root.borrows = IF spc \in {"idle", "done"} THEN 0 ELSE 1
         /\ ScanDescriptors \in Nat /\ fds \in Nat
         /\ fds = 1 + Len(root.anchors) + (IF spc \in {"idle", "done"} THEN 0 ELSE ScanDescriptors)
<1>1. request # "list" /\ root.state = "open"
  BY DEF PlanInv, HolderInv
<1>2. lease = <<>> /\ handles = {} /\ root.dir \in Dirs
  BY <1>1 DEF PlanInv, HolderInv
<1>3. Cardinality(handles) = 0 /\ Len(lease) = 0
  BY <1>2, FS_EmptySet
<1>4. root.borrows = IF spc \in {"idle", "done"} THEN 0 ELSE 1
  BY <1>2 DEF PlanInv, HolderInv
<1>5. Cardinality(Entered(stack)) \in Nat
  BY EnteredFinite DEF PlanInv, PlanTypeOK, ScanOK
<1>6. ScanDescriptors \in Nat
  BY <1>5 DEF ScanDescriptors
<1>7. Len(root.anchors) \in Nat /\ fds \in Nat
  BY DEF PlanInv, PlanTypeOK, RootOK
<1>8. fds = 1 + Len(root.anchors) + (IF spc \in {"idle", "done"} THEN 0 ELSE ScanDescriptors)
  BY <1>1, <1>3, <1>6, <1>7 DEF PlanInv, DescriptorsOwned
<1> QED BY <1>1, <1>2, <1>3, <1>4, <1>6, <1>7, <1>8

\* A step of the scan keeps the invariant if it keeps what concerns the scan: the
\* types, the walk, what was seen, and the descriptors and borrows it holds.
LEMMA ScanKeeps ==
  ASSUME PlanInv, phase = "facts", Elsewhere, Tree,
         ScanOK', WalkInv', SeenInv',
         root'.state = "open", root'.dir = root.dir,
         root' \in [state : {"closed", "open", "transferred"}, scanned : BOOLEAN,
                    borrows : 0..2, anchors : Seq(Dirs), dir : Dirs \cup {Nil}],
         root'.borrows = (IF spc' \in {"idle", "done"} THEN 0 ELSE 1),
         fds' = 1 + Len(root'.anchors)
                  + (IF spc' \in {"idle", "done"} THEN 0 ELSE ScanDescriptors')
  PROVE  PlanInv'
<1>1. PlanTypeOK /\ HolderInv /\ MeasureOK /\ FailureInv /\ WeightsInv
  BY DEF PlanInv, PlanTypeOK
<1>2. TreeOK' /\ MeasureOK' /\ FailureInv' /\ WeightsInv'
  <2>1. UNCHANGED throughputVars /\ UNCHANGED <<request, phase, weights>>
    BY DEF Elsewhere
  <2> QED BY <1>1, <2>1, TreeKept, MeasureKept, WeightsKept DEF PlanTypeOK
<1>3. UNCHANGED <<request, phase, lease, handles>>
  BY DEF Elsewhere, Tree
<1>4. Cardinality(Entered(stack')) \in Nat /\ ScanDescriptors' \in Nat
  <2>1. Cardinality(Entered(stack')) \in Nat
    BY EnteredFinite DEF ScanOK
  <2> QED BY <2>1 DEF ScanDescriptors, Entered
<1>5. Len(root'.anchors) \in Nat
  OBVIOUS
<1>6. RootOK'
  BY <1>1, <1>3, <1>4, <1>5 DEF PlanTypeOK, RootOK
<1>7. HolderInv'
  BY <1>3, FactsState DEF HolderInv
<1>8. DescriptorsOwned'
  BY <1>3, <1>4, <1>5, FactsState DEF DescriptorsOwned
<1> QED BY <1>1, <1>2, <1>3, <1>6, <1>7, <1>8 DEF PlanInv, PlanTypeOK

\* Scan returns, whatever the result.
LEMMA ScanReturns ==
  ASSUME PlanInv, phase = "facts", spc \notin {"idle", "done"}, Elsewhere, Tree,
         NEW result \in {"snapshot", "empty", "error", "fault"}, ReturnFromScan(result),
         captured' = captured \/ captured' = {}
  PROVE  PlanInv'
<1>1. ScanOK'
  <2>1. captured' \subseteq Entries /\ IsFiniteSet(captured')
    BY FS_EmptySet DEF PlanInv, PlanTypeOK, ScanOK
  <2> QED BY <2>1, NoItemType DEF PlanInv, PlanTypeOK, ScanOK, ReturnFromScan, NoWalk
<1>2. WalkInv'
  BY DEF WalkInv, ReturnFromScan, NoWalk
<1>3. SeenInv'
  BY DEF SeenInv, ReturnFromScan
<1>4. /\ root' = [root EXCEPT !.borrows = 0] /\ spc' = "done"
      /\ root.state = "open"
      /\ fds' = 1 + Len(root.anchors)
  BY FactsState DEF PlanInv, PlanTypeOK, RootOK, ReturnFromScan
<1>5. root \in [state : {"closed", "open", "transferred"}, scanned : BOOLEAN,
                borrows : 0..2, anchors : Seq(Dirs), dir : Dirs \cup {Nil}]
  BY DEF PlanInv, PlanTypeOK, RootOK
<1>6. /\ root' \in [state : {"closed", "open", "transferred"}, scanned : BOOLEAN,
                    borrows : 0..2, anchors : Seq(Dirs), dir : Dirs \cup {Nil}]
      /\ root'.state = "open" /\ root'.dir = root.dir /\ root'.borrows = 0
      /\ root'.anchors = root.anchors
  BY <1>4, <1>5
<1> QED BY <1>1, <1>2, <1>3, <1>4, <1>6, ScanKeeps

\* FailScan (finishScan with an error) closes what the scan had open.
LEMMA ScanFails ==
  ASSUME PlanInv, phase = "facts", spc \notin {"idle", "done"}, Elsewhere, KeepScan, FailScan
  PROVE  PlanInv'
BY ScanReturns, KeepScanTree DEF FailScan, PlanInv, PlanTypeOK

\* So does a call that fails at any step.
LEMMA ScanFaultKeeps ==
  ASSUME PlanInv, phase = "facts", Elsewhere, ScanFault
  PROVE  PlanInv'
<1>1. faults' \in Nat
  BY DEF PlanInv, PlanTypeOK, TreeOK, ScanFault
<1>2. Tree
  BY <1>1 DEF ScanFault, Tree
<1> QED BY <1>2, ScanReturns DEF ScanFault, StopScan

\* A step that changes neither the root nor the descriptors keeps the invariant with
\* what concerns the activations and the walk.
LEMMA ScanStays ==
  ASSUME PlanInv, phase = "facts", Elsewhere, KeepScan, ScanOK', WalkInv', SeenInv',
         spc \notin {"idle", "done"}, spc' \notin {"idle", "done"}, UNCHANGED root,
         fds' - fds = ScanDescriptors' - ScanDescriptors, fds' \in Int,
         ScanDescriptors' \in Int
  PROVE  PlanInv'
<1>1. Tree
  BY KeepScanTree DEF PlanInv, PlanTypeOK
<1>2. root \in [state : {"closed", "open", "transferred"}, scanned : BOOLEAN,
                borrows : 0..2, anchors : Seq(Dirs), dir : Dirs \cup {Nil}]
  BY DEF PlanInv, PlanTypeOK, RootOK
<1>3. root.state = "open" /\ root.borrows = 1 /\ ScanDescriptors \in Nat
      /\ fds = 1 + Len(root.anchors) + ScanDescriptors /\ fds \in Nat
  BY FactsState
<1>4. fds' = 1 + Len(root'.anchors) + ScanDescriptors'
  <2>1. root' = root /\ Len(root.anchors) \in Nat
    BY <1>2
  <2>2. fds' = fds + ScanDescriptors' - ScanDescriptors
    BY <1>3
  <2>3. fds' = 1 + Len(root.anchors) + ScanDescriptors'
    BY <1>3, <2>1, <2>2
  <2> QED BY <2>1, <2>3
<1> QED BY <1>1, <1>2, <1>3, <1>4, ScanKeeps

\* While the scan runs there is an innermost activation, and it has the invariant.
LEMMA ScanTop ==
  ASSUME PlanInv, spc \notin {"idle", "done"}
  PROVE  /\ stack \in Seq(Frames) /\ stack # <<>> /\ Top \in Frames
         /\ Len(stack) \in DOMAIN stack /\ Len(stack) \in Nat /\ Top = stack[Len(stack)]
         /\ SeenThere(Top)
         /\ IF spc = "verify" THEN ThenThere(Top) ELSE \A s \in Top.seen : s[1] \notin Top.todo
<1>1. stack \in Seq(Frames) /\ stack # <<>>
  BY DEF PlanInv, PlanTypeOK, ScanOK, WalkInv
<1>2. Top \in Frames /\ Len(stack) \in DOMAIN stack /\ Len(stack) \in Nat
      /\ Top = stack[Len(stack)]
  BY <1>1, TopFrame DEF Top
<1> QED BY <1>1, <1>2 DEF PlanInv, SeenInv

\* The descriptors the scan holds after a step.
LEMMA NextDescriptors ==
  ScanDescriptors' = 1 + Cardinality(Entered(stack')) + (IF walk'.dir = Nil THEN 0 ELSE 1)
BY DEF ScanDescriptors, Entered

\* What was seen stays there when the innermost activation is replaced by one that has it...
LEMMA SetTopSeen ==
  ASSUME SeenInv, stack \in Seq(Frames), stack # <<>>, NEW g \in Frames, SetTop(g),
         UNCHANGED <<entries, touched, retouched>>, SeenThere(g),
         IF spc' = "verify" THEN ThenThere(g) ELSE \A s \in g.seen : s[1] \notin g.todo
  PROVE  SeenInv'
<1>1. (SeenThere(g))' /\ (ThenThere(g) => (ThenThere(g))')
  BY ThereKept
<1>2. SUFFICES ASSUME NEW k \in DOMAIN stack
               PROVE  /\ (SeenThere(stack[k]))'
                      /\ (IF spc = "verify" /\ k = Len(stack) THEN ThenThere(stack[k])
                          ELSE \A s \in stack[k].seen : s[1] \notin stack[k].todo)'
  BY SetTopStack DEF SeenInv
<1>3. CASE k = Len(stack)
  <2>1. stack'[k] = g /\ k = Len(stack')
    BY <1>3, SetTopStack
  <2>2. (SeenThere(stack[k]))'
    BY <1>1, <2>1 DEF SeenThere
  <2>3. CASE spc' = "verify"
    <3>1. (ThenThere(g))'
      BY <1>1, <2>3
    <3>2. (ThenThere(stack[k]))'
      BY <2>1, <3>1 DEF ThenThere
    <3> QED BY <2>1, <2>2, <2>3, <3>2
  <2>4. CASE spc' # "verify"
    BY <2>1, <2>2, <2>4
  <2> QED BY <2>3, <2>4
<1>4. CASE k # Len(stack)
  <2>1. stack'[k] = stack[k] /\ k # Len(stack')
    BY <1>4, SetTopStack
  <2>2. SeenThere(stack[k]) /\ \A s \in stack[k].seen : s[1] \notin stack[k].todo
    BY <1>4 DEF SeenInv
  <2>3. (SeenThere(stack[k]))'
    BY <2>1, <2>2 DEF SeenThere
  <2> QED BY <2>1, <2>2, <2>3
<1> QED BY <1>3, <1>4

\* ...when an activation begins, with nothing seen...
LEMMA PushSeen ==
  ASSUME SeenInv, stack \in Seq(Frames), NEW g \in Frames, Push(g), g.seen = {},
         UNCHANGED <<entries, touched, retouched>>, spc # "verify", spc' # "verify"
  PROVE  SeenInv'
<1>1. SUFFICES ASSUME NEW k \in DOMAIN stack'
               PROVE  /\ (SeenThere(stack[k]))'
                      /\ \A s \in stack'[k].seen : s[1] \notin stack'[k].todo
  BY DEF SeenInv
<1>2. CASE k \in DOMAIN stack
  <2>1. stack'[k] = stack[k]
    BY <1>2, PushStack
  <2>2. SeenThere(stack[k]) /\ \A s \in stack[k].seen : s[1] \notin stack[k].todo
    BY <1>2 DEF SeenInv
  <2> QED BY <2>1, <2>2 DEF SeenThere
<1>3. CASE k = Len(stack) + 1
  <2>1. stack'[k] = g
    BY <1>3, PushStack
  <2> QED BY <2>1 DEF SeenThere
<1> QED BY <1>2, <1>3, PushStack

\* ...when one returns...
LEMMA PopSeen ==
  ASSUME SeenInv, stack \in Seq(Frames), Len(stack) > 1, stack' = Front(stack),
         UNCHANGED <<entries, touched, retouched>>, spc' # "verify"
  PROVE  SeenInv'
<1>1. SUFFICES ASSUME NEW k \in DOMAIN stack'
               PROVE  /\ (SeenThere(stack[k]))'
                      /\ \A s \in stack'[k].seen : s[1] \notin stack'[k].todo
  BY DEF SeenInv
<1>2. stack'[k] = stack[k] /\ k # Len(stack) /\ k \in DOMAIN stack
  BY PopStack
<1>3. SeenThere(stack[k]) /\ \A s \in stack[k].seen : s[1] \notin stack[k].todo
  BY <1>2 DEF SeenInv
<1> QED BY <1>2, <1>3 DEF SeenThere

\* ...and when the activations stay as they are.
LEMMA StackSeen ==
  ASSUME SeenInv, UNCHANGED <<stack, entries, touched, retouched>>,
         spc # "verify", spc' # "verify"
  PROVE  SeenInv'
BY DEF SeenInv, SeenThere

\* A step that changes the top activation only.
LEMMA ScanSetsTop ==
  ASSUME PlanInv, phase = "facts", Elsewhere, KeepScan, spc \notin {"idle", "done"},
         spc' \in {"entry", "directory", "file", "link", "verify"}, walk.dir = Nil,
         UNCHANGED <<walk, captured, scanned, root, fds>>,
         item' \in [name : Names, id : Objects \cup {Nil}],
         spc' = "directory" => item'.id \in Dirs, spc' = "file" => item'.id \in Files,
         NEW g \in Frames, SetTop(g), g.owned = Top.owned, SeenThere(g),
         IF spc' = "verify" THEN ThenThere(g) ELSE \A s \in g.seen : s[1] \notin g.todo
  PROVE  PlanInv'
<1>1. stack \in Seq(Frames) /\ stack # <<>> /\ SeenInv /\ ScanOK
  BY ScanTop DEF PlanInv, PlanTypeOK
<1>2. stack' \in Seq(Frames) /\ stack' # <<>> /\ Entered(stack') = Entered(stack)
  BY <1>1, SetTopStack, SetTopEntered
<1>3. ScanOK'
  BY <1>1, <1>2 DEF ScanOK
<1>4. WalkInv'
  BY <1>2 DEF WalkInv
<1>5. SeenInv'
  BY <1>1, SetTopSeen DEF KeepScan
<1>6. ScanDescriptors' = ScanDescriptors
  BY <1>2, NextDescriptors DEF ScanDescriptors
<1>7. ScanDescriptors \in Nat /\ fds \in Nat
  BY FactsState
<1> QED BY <1>3, <1>4, <1>5, <1>6, <1>7, ScanStays

\* The names of a directory and what they denote.
LEMMA ContentsType ==
  ASSUME TreeOK, NEW d \in Dirs
  PROVE  /\ NamesIn(d) \subseteq Names /\ Contents(d) \subseteq Names \X Objects
         /\ \A n \in Names : entries[d][n] \in Objects \cup {Nil}
         /\ {s[1] : s \in Contents(d)} = NamesIn(d)
         /\ \A s \in Contents(d) : entries[d][s[1]] = s[2]
<1>1. \A n \in Names : entries[d][n] \in Objects \cup {Nil}
  BY DEF TreeOK
<1>2. NamesIn(d) \subseteq Names /\ \A n \in NamesIn(d) : entries[d][n] \in Objects
  BY <1>1 DEF NamesIn
<1> HIDE DEF NamesIn
<1>3. Contents(d) \subseteq Names \X Objects
  BY <1>2 DEF Contents
<1>4. {s[1] : s \in Contents(d)} = NamesIn(d)
  <2>1. \A s \in Contents(d) : s[1] \in NamesIn(d)
    BY DEF Contents
  <2>2. \A n \in NamesIn(d) : <<n, entries[d][n]>> \in Contents(d)
    BY DEF Contents
  <2>3. \A n \in NamesIn(d) : \E s \in Contents(d) : s[1] = n
    BY <2>2
  <2> QED BY <2>1, <2>3
<1>5. \A s \in Contents(d) : entries[d][s[1]] = s[2]
  BY DEF Contents
<1> QED BY <1>1, <1>2, <1>3, <1>4, <1>5

\* readSourceNames.
LEMMA ReadSourceNamesKeeps ==
  ASSUME PlanInv, phase = "facts", Elsewhere, ReadSourceNames
  PROVE  PlanInv'
<1> DEFINE g == [Top EXCEPT !.todo = NamesIn(Top.dir)]
<1>1. spc = "names" /\ spc' = "entry" /\ SetTop(g) /\ KeepScan
      /\ UNCHANGED <<item, walk, captured, scanned, root, fds>>
  BY DEF ReadSourceNames
<1>2. Top \in Frames /\ SeenThere(Top)
  BY <1>1, ScanTop
<1>3. Top.seen = {} /\ walk.dir = Nil /\ item \in [name : Names, id : Objects \cup {Nil}]
  BY <1>1 DEF PlanInv, PlanTypeOK, ScanOK, WalkInv
<1>4. NamesIn(Top.dir) \in SUBSET Names
  BY <1>2, FrameFields, ContentsType DEF PlanInv, PlanTypeOK
<1>5. g \in Frames /\ g.owned = Top.owned /\ g.seen = {}
  BY <1>2, <1>3, <1>4 DEF Frames
<1> HIDE DEF g
<1>6. SeenThere(g) /\ \A s \in g.seen : s[1] \notin g.todo
  BY <1>5 DEF SeenThere
<1> QED BY <1>1, <1>3, <1>5, <1>6, ScanSetsTop

\* What the scan captures is a directory, a file or a link it follows.
LEMMA KindOf ==
  ASSUME NEW object \in Objects, Captures(object)
  PROVE  /\ Kind(object) \in {"directory", "file", "link"}
         /\ Kind(object) = "directory" => object \in Dirs
         /\ Kind(object) = "file" => object \in Files
BY DEF Captures, Kind

\* scanDirectory inspects an entry (captureEntry): what is seen under the name is there.
LEMMA InspectEntryKeeps ==
  ASSUME PlanInv, phase = "facts", Elsewhere, InspectEntry
  PROVE  PlanInv'
<1> DEFINE n == Min(Top.todo)
           object == entries[Top.dir][n]
           g == [Top EXCEPT !.todo = @ \ {n}, !.seen = @ \cup {<<n, object>>}]
<1>1. spc = "entry" /\ Top.todo # {} /\ KeepScan
  BY DEF InspectEntry
<1>2. Top \in Frames /\ SeenThere(Top) /\ \A s \in Top.seen : s[1] \notin Top.todo
  BY <1>1, ScanTop
<1>3. Top.todo \subseteq Names /\ Top.seen \subseteq Names \X Objects /\ Top.dir \in Dirs
  BY <1>2, FrameFields
<1>4. n \in Top.todo /\ n \in Names /\ n \in Nat
  BY <1>1, <1>3, MinOfNumbers, SourceAssumption
<1> HIDE DEF n
<1>5. object \in Objects \cup {Nil}
  BY <1>3, <1>4, ContentsType DEF PlanInv, PlanTypeOK
<1>6. CASE object = Nil
  BY <1>1, <1>6, ScanFails DEF InspectEntry, n
<1>7. CASE object # Nil
  <2>1. /\ SetTop(g)
        /\ spc' = IF Captures(object) THEN Kind(object) ELSE "entry"
        /\ item' = IF Captures(object) THEN [name |-> n, id |-> object] ELSE item
        /\ UNCHANGED <<walk, captured, scanned, root, fds>>
    BY <1>7 DEF InspectEntry, n
  <2>2. object \in Objects
    BY <1>5, <1>7
  <2>3. Top.todo \ {n} \in SUBSET Names
        /\ Top.seen \cup {<<n, object>>} \in SUBSET (Names \X Objects)
    BY <1>3, <1>4, <2>2
  <2>4. g \in Frames /\ g.owned = Top.owned /\ g.dir = Top.dir
        /\ g.todo = Top.todo \ {n} /\ g.seen = Top.seen \cup {<<n, object>>}
    <3> DEFINE todo == Top.todo \ {n}
               seen == Top.seen \cup {<<n, object>>}
    <3>1. g = [Top EXCEPT !.todo = todo, !.seen = seen]
      OBVIOUS
    <3> HIDE DEF g, todo, seen
    <3>2. todo \in SUBSET Names /\ seen \in SUBSET (Names \X Objects)
      BY <2>3 DEF todo, seen
    <3>3. /\ g \in Frames /\ g.owned = Top.owned /\ g.dir = Top.dir
          /\ g.todo = todo /\ g.seen = seen
      BY <1>2, <3>1, <3>2 DEF Frames
    <3> QED BY <3>3 DEF todo, seen
  <2> HIDE DEF g
  <2>5. SeenThere(g)
    BY <1>2, <1>4, <2>4 DEF SeenThere
  <2>6. \A s \in g.seen : s[1] \notin g.todo
    BY <1>2, <2>4
  <2> HIDE DEF object
  <2>7. spc' \in {"entry", "directory", "file", "link"}
        /\ item' \in [name : Names, id : Objects \cup {Nil}]
        /\ (spc' = "directory" => item'.id \in Dirs) /\ (spc' = "file" => item'.id \in Files)
    <3>1. item \in [name : Names, id : Objects \cup {Nil}]
      BY DEF PlanInv, PlanTypeOK, ScanOK
    <3>2. CASE Captures(object)
      BY <1>4, <2>1, <2>2, <3>2, KindOf
    <3>3. CASE ~Captures(object)
      BY <2>1, <3>1, <3>3
    <3> QED BY <3>2, <3>3
  <2>8. walk.dir = Nil
    BY <1>1 DEF PlanInv, WalkInv
  <2> QED BY <1>1, <2>1, <2>4, <2>5, <2>6, <2>7, <2>8, ScanSetsTop
<1> QED BY <1>6, <1>7

\* verifySourceNames begins: the names are the same, so the two sets name the same.
LEMMA VerifyNamesKeeps ==
  ASSUME PlanInv, phase = "facts", Elsewhere, VerifyNames
  PROVE  PlanInv'
<1> DEFINE g == [Top EXCEPT !.todo = NamesIn(Top.dir), !.then = Contents(Top.dir)]
<1>1. spc = "entry" /\ KeepScan
  BY DEF VerifyNames
<1>2. Top \in Frames /\ SeenThere(Top)
  BY <1>1, ScanTop
<1>3. Top.dir \in Dirs /\ Top.seen \subseteq Names \X Objects
  BY <1>2, FrameFields
<1>4. /\ NamesIn(Top.dir) \in SUBSET Names /\ Contents(Top.dir) \in SUBSET (Names \X Objects)
      /\ {s[1] : s \in Contents(Top.dir)} = NamesIn(Top.dir)
      /\ \A s \in Contents(Top.dir) : entries[Top.dir][s[1]] = s[2]
  BY <1>3, ContentsType DEF PlanInv, PlanTypeOK
<1>5. CASE NamesIn(Top.dir) # {s[1] : s \in Top.seen}
  BY <1>1, <1>5, ScanFails DEF VerifyNames
<1>6. CASE NamesIn(Top.dir) = {s[1] : s \in Top.seen}
  <2>1. SetTop(g) /\ spc' = "verify" /\ UNCHANGED <<item, walk, captured, scanned, root, fds>>
    BY <1>6 DEF VerifyNames
  <2>2. /\ g \in Frames /\ g.dir = Top.dir /\ g.owned = Top.owned
        /\ g.todo = NamesIn(Top.dir) /\ g.seen = Top.seen /\ g.then = Contents(Top.dir)
    BY <1>2, <1>4 DEF Frames
  <2> HIDE DEF g
  <2>3. SeenThere(g)
    BY <1>2, <2>2 DEF SeenThere
  <2>4. ThenThere(g)
    <3>1. {s[1] : s \in g.seen} = {s[1] : s \in g.then}
      BY <1>4, <1>6, <2>2
    <3>2. ASSUME NEW s \in g.seen, NEW r \in g.then, s[1] = r[1], s # r
          PROVE  /\ <<g.dir, s[1]>> \in touched /\ entries[g.dir][s[1]] = r[2]
                 /\ s[1] \in g.todo
      <4>1. s = <<s[1], s[2]>> /\ r = <<r[1], r[2]>>
        BY <1>3, <1>4, <2>2
      <4>2. entries[g.dir][s[1]] = r[2] /\ s[1] \in g.todo
        BY <1>4, <1>6, <2>2, <3>2
      <4>3. entries[g.dir][s[1]] # s[2]
        BY <3>2, <4>1, <4>2
      <4> QED BY <2>3, <4>2, <4>3 DEF SeenThere
    <3> QED BY <3>1, <3>2 DEF ThenThere
  <2>5. walk.dir = Nil /\ item \in [name : Names, id : Objects \cup {Nil}]
    BY <1>1 DEF PlanInv, PlanTypeOK, ScanOK, WalkInv
  <2> QED BY <1>1, <2>1, <2>2, <2>3, <2>4, <2>5, ScanSetsTop
<1> QED BY <1>5, <1>6

\* It compares a name: one that differs from what was seen has changed back.
LEMMA VerifyEntryKeeps ==
  ASSUME PlanInv, phase = "facts", Elsewhere, VerifyEntry
  PROVE  PlanInv'
<1> DEFINE n == Min(Top.todo)
           g == [Top EXCEPT !.todo = @ \ {n}]
<1>1. spc = "verify" /\ Top.todo # {} /\ KeepScan
  BY DEF VerifyEntry
<1>2. Top \in Frames /\ SeenThere(Top) /\ ThenThere(Top)
  BY <1>1, ScanTop
<1>3. Top.todo \subseteq Names /\ Top.seen \subseteq Names \X Objects
      /\ Top.then \subseteq Names \X Objects
  BY <1>2, FrameFields
<1> HIDE DEF n
<1>4. CASE ~SameObject(n)
  BY <1>1, <1>4, ScanFails DEF VerifyEntry, n
<1>5. CASE SameObject(n)
  <2>1. SetTop(g) /\ UNCHANGED <<spc, item, walk, captured, scanned, root, fds>>
    BY <1>5 DEF VerifyEntry, n
  <2>2. Top.todo \ {n} \in SUBSET Names
    BY <1>3
  <2>3. /\ g \in Frames /\ g.dir = Top.dir /\ g.owned = Top.owned
        /\ g.todo = Top.todo \ {n} /\ g.seen = Top.seen /\ g.then = Top.then
    BY <1>2, <2>2 DEF Frames
  <2> HIDE DEF g
  <2>4. SeenThere(g)
    BY <1>2, <2>3 DEF SeenThere
  <2>5. ThenThere(g)
    <3>1. {s[1] : s \in g.seen} = {s[1] : s \in g.then}
      BY <1>2, <2>3 DEF ThenThere
    <3>2. ASSUME NEW s \in g.seen, NEW r \in g.then, s[1] = r[1], s # r
          PROVE  /\ <<g.dir, s[1]>> \in touched
                 /\ entries[g.dir][s[1]] = r[2] \/ <<g.dir, s[1]>> \in retouched
                 /\ s[1] \in g.todo \/ <<g.dir, s[1]>> \in retouched
      <4>1. /\ <<g.dir, s[1]>> \in touched
            /\ entries[g.dir][s[1]] = r[2] \/ <<g.dir, s[1]>> \in retouched
            /\ s[1] \in Top.todo \/ <<g.dir, s[1]>> \in retouched
        BY <1>2, <2>3, <3>2 DEF ThenThere
      <4>2. s = <<s[1], s[2]>> /\ r = <<r[1], r[2]>>
        BY <1>3, <2>3
      <4>3. s[1] = n => <<g.dir, s[1]>> \in retouched
        <5>1. SUFFICES ASSUME s[1] = n, entries[g.dir][n] = r[2] PROVE FALSE
          BY <4>1
        <5>2. <<n, r[2]>> \in Top.seen
          BY <1>5, <2>3, <5>1 DEF SameObject
        <5>3. r \in g.seen
          BY <2>3, <3>2, <4>2, <5>1, <5>2
        <5> QED BY <2>4, <3>2, <5>3 DEF SeenThere
      <4> QED BY <2>3, <4>1, <4>3
    <3> QED BY <3>1, <3>2 DEF ThenThere
  <2>6. walk.dir = Nil /\ item \in [name : Names, id : Objects \cup {Nil}]
    BY <1>1 DEF PlanInv, PlanTypeOK, ScanOK, WalkInv
  <2> QED BY <1>1, <2>1, <2>3, <2>4, <2>5, <2>6, ScanSetsTop
<1> QED BY <1>4, <1>5

\* The path and the backing reference of the entry that is being captured.
LEMMA ItemTypes ==
  ASSUME PlanInv, spc \notin {"idle", "done"}
  PROVE  /\ item.name \in Names /\ ItemPath \in Seq(Names)
         /\ Below(Top.backing, item.name) \in [anchor : Nat, names : Seq(Names)]
<1>1. item.name \in Names
  BY DEF PlanInv, PlanTypeOK, ScanOK
<1>2. Top.path \in Seq(Names) /\ Top.backing \in [anchor : Nat, names : Seq(Names)]
  BY ScanTop, FrameFields
<1>3. ItemPath \in Seq(Names)
  BY <1>1, <1>2 DEF ItemPath
<1>4. Below(Top.backing, item.name) \in [anchor : Nat, names : Seq(Names)]
  <2>1. Append(Top.backing.names, item.name) \in Seq(Names)
    BY <1>1, <1>2
  <2>2. Below(Top.backing, item.name)
          = [Top.backing EXCEPT !.names = Append(Top.backing.names, item.name)]
    BY DEF Below
  <2> QED BY <1>2, <2>1, <2>2
<1> QED BY <1>1, <1>3, <1>4

\* captureDirectory: opened, and scanned by an activation of its own.
LEMMA CaptureDirectoryKeeps ==
  ASSUME PlanInv, phase = "facts", Elsewhere, CaptureDirectory
  PROVE  PlanInv'
<1>1. spc = "directory" /\ KeepScan
  BY DEF CaptureDirectory
<1>2. CASE ~Unchanged(Top.dir, item.name, item.id) \/ Cyclic(item.id)
  BY <1>1, <1>2, ScanFails DEF CaptureDirectory
<1>3. CASE ~(~Unchanged(Top.dir, item.name, item.id) \/ Cyclic(item.id))
  <2> DEFINE g == Frame(item.id, ItemPath, Below(Top.backing, item.name), TRUE)
  <2>1. /\ Push(g) /\ fds' = fds + 1 /\ item' = NoItem /\ spc' = "names"
        /\ UNCHANGED <<walk, captured, scanned, root>>
    BY <1>3 DEF CaptureDirectory
  <2>2. stack \in Seq(Frames) /\ SeenInv /\ ScanOK /\ walk.dir = Nil /\ item.id \in Dirs
    BY <1>1, ScanTop DEF PlanInv, PlanTypeOK, WalkInv
  <2>3. g \in Frames /\ g.owned = TRUE /\ g.seen = {}
    <3>1. /\ Below(Top.backing, item.name) \in [anchor : Nat, names : Seq(Names)]
          /\ ItemPath \in Seq(Names) /\ TRUE \in BOOLEAN
      BY <1>1, ItemTypes
    <3> QED BY <2>2, <3>1 DEF Frames, Frame
  <2> HIDE DEF g
  <2>4. /\ stack' \in Seq(Frames) /\ stack' # <<>>
        /\ stack'[Len(stack')] = g
        /\ Cardinality(Entered(stack')) = Cardinality(Entered(stack)) + 1
    BY <2>1, <2>2, <2>3, PushStack, PushEntered
  <2>5. ScanOK'
    BY <2>1, <2>2, <2>4, NoItemType DEF ScanOK
  <2>6. WalkInv'
    BY <2>1, <2>2, <2>3, <2>4 DEF WalkInv, Top
  <2>7. SeenInv'
    BY <1>1, <2>1, <2>2, <2>3, PushSeen DEF KeepScan
  <2>8. Cardinality(Entered(stack)) \in Nat /\ fds \in Nat
    BY <2>2, EnteredFinite, FactsState
  <2>9. ScanDescriptors' = ScanDescriptors + 1
    BY <2>1, <2>4, <2>8, NextDescriptors DEF ScanDescriptors
  <2>10. ScanDescriptors \in Nat
    BY FactsState
  <2> QED BY <1>1, <2>1, <2>5, <2>6, <2>7, <2>8, <2>9, <2>10, ScanStays
<1> QED BY <1>2, <1>3

\* A step that leaves the activations alone.
LEMMA ScanKeepsStack ==
  ASSUME PlanInv, phase = "facts", Elsewhere, KeepScan, spc \notin {"idle", "done", "verify"},
         spc' \notin {"idle", "done", "verify"}, UNCHANGED <<stack, root>>, ScanOK', WalkInv',
         fds' = fds + (IF walk'.dir = Nil THEN 0 ELSE 1) - (IF walk.dir = Nil THEN 0 ELSE 1)
  PROVE  PlanInv'
<1>1. SeenInv'
  BY StackSeen DEF PlanInv, KeepScan
<1>2. fds \in Nat /\ Cardinality(Entered(stack)) \in Nat
  BY EnteredFinite, FactsState DEF PlanInv, PlanTypeOK, ScanOK
<1>3. ScanDescriptors' = 1 + Cardinality(Entered(stack)) + (IF walk'.dir = Nil THEN 0 ELSE 1)
  BY NextDescriptors
<1>4. ScanDescriptors = 1 + Cardinality(Entered(stack)) + (IF walk.dir = Nil THEN 0 ELSE 1)
  BY DEF ScanDescriptors
<1>5. fds' \in Int /\ ScanDescriptors' \in Int /\ fds' - fds = ScanDescriptors' - ScanDescriptors
  BY <1>2, <1>3, <1>4
<1> QED BY <1>1, <1>5, ScanStays

\* captureRegularFile.
LEMMA CaptureRegularFileKeeps ==
  ASSUME PlanInv, phase = "facts", Elsewhere, CaptureRegularFile
  PROVE  PlanInv'
<1>1. spc = "file" /\ KeepScan
  BY DEF CaptureRegularFile
<1>2. CASE ~Unchanged(Top.dir, item.name, item.id)
  BY <1>1, <1>2, ScanFails DEF CaptureRegularFile
<1>3. CASE Unchanged(Top.dir, item.name, item.id)
  <2> DEFINE b == Below(Top.backing, item.name)
             e == Entry("file", ItemPath, size[item.id], b, item.id)
  <2>1. /\ captured' = captured \cup {e} /\ item' = NoItem /\ spc' = "entry"
        /\ UNCHANGED <<stack, walk, scanned, root, fds>>
    BY <1>3 DEF CaptureRegularFile
  <2>2. ScanOK /\ WalkInv /\ walk.dir = Nil /\ item.id \in Files
    BY <1>1 DEF PlanInv, PlanTypeOK, WalkInv
  <2>3. b \in References /\ ItemPath \in Seq(Names) /\ size[item.id] \in Nat
    BY <1>1, <2>2, ItemTypes DEF PlanInv, PlanTypeOK, TreeOK
  <2> HIDE DEF b
  <2>4. e \in Entries
    BY <2>2, <2>3 DEF Entry, Entries
  <2> HIDE DEF e
  <2>5. ScanOK'
    <3>1. captured' \subseteq Entries /\ IsFiniteSet(captured')
      BY <2>1, <2>2, <2>4, EntryAdded DEF ScanOK
    <3> QED BY <2>1, <2>2, <3>1, NoItemType DEF ScanOK
  <2>6. WalkInv'
    BY <1>1, <2>1, <2>2 DEF WalkInv
  <2>7. fds \in Nat
    BY FactsState
  <2> QED BY <1>1, <2>1, <2>2, <2>5, <2>6, <2>7, ScanKeepsStack
<1> QED BY <1>2, <1>3

\* scanDirectory returns, the outermost one to the caller of Scan.
LEMMA FinishDirectoryKeeps ==
  ASSUME PlanInv, phase = "facts", Elsewhere, FinishDirectory
  PROVE  PlanInv'
<1>1. spc = "verify" /\ KeepScan
  BY DEF FinishDirectory
<1>2. /\ stack \in Seq(Frames) /\ Top \in Frames /\ SeenInv /\ ScanOK /\ WalkInv
      /\ walk.dir = Nil /\ Len(stack) \in Nat
  BY <1>1, ScanTop DEF PlanInv, PlanTypeOK, WalkInv
<1>3. CASE Len(stack) > 1
  <2> DEFINE e == Entry("directory", Top.path, 0, Top.backing, Top.dir)
  <2>1. /\ captured' = captured \cup {e} /\ fds' = IF Top.owned THEN fds - 1 ELSE fds
        /\ stack' = Front(stack) /\ spc' = "entry" /\ UNCHANGED <<item, walk, scanned, root>>
    BY <1>3 DEF FinishDirectory
  <2>2. /\ stack' \in Seq(Frames) /\ stack' # <<>>
        /\ Cardinality(Entered(stack)) = Cardinality(Entered(stack'))
                                           + (IF Top.owned THEN 1 ELSE 0)
    BY <1>2, <1>3, <2>1, PopStack, PopEntered
  <2>3. Top.dir \in Dirs /\ Top.backing \in References /\ Top.path \in Seq(Names)
    BY <1>2, FrameFields
  <2>4. e \in Entries
    BY <2>3 DEF Entry, Entries
  <2> HIDE DEF e
  <2>5. ScanOK'
    <3>1. captured' \subseteq Entries /\ IsFiniteSet(captured')
      BY <1>2, <2>1, <2>4, EntryAdded DEF ScanOK
    <3> QED BY <1>2, <2>1, <2>2, <3>1 DEF ScanOK
  <2>6. WalkInv'
    BY <1>2, <2>1, <2>2 DEF WalkInv
  <2>7. SeenInv'
    BY <1>1, <1>2, <1>3, <2>1, PopSeen DEF KeepScan
  <2>8. fds \in Nat /\ Cardinality(Entered(stack')) \in Nat
    BY <2>2, EnteredFinite, FactsState
  <2>9. ScanDescriptors' = ScanDescriptors - (IF Top.owned THEN 1 ELSE 0)
    BY <2>1, <2>2, <2>8, NextDescriptors DEF ScanDescriptors
  <2>10. ScanDescriptors' \in Nat /\ ScanDescriptors \in Nat
    BY <2>8, NextDescriptors, FactsState
  <2>11. fds' \in Int /\ fds' - fds = ScanDescriptors' - ScanDescriptors
    BY <2>1, <2>8, <2>9, <2>10
  <2> QED BY <1>1, <2>1, <2>5, <2>6, <2>7, <2>10, <2>11, ScanStays
<1>4. CASE ~(Len(stack) > 1)
  <2>1. PICK result \in {"snapshot", "empty"} : ReturnFromScan(result) /\ UNCHANGED captured
    BY <1>4 DEF FinishDirectory
  <2>2. Tree
    BY <1>1, KeepScanTree DEF PlanInv, PlanTypeOK
  <2> QED BY <1>1, <2>1, <2>2, ScanReturns
<1> QED BY <1>3, <1>4

\* readObservedSourceSymlink inspects the link.
LEMMA InspectLinkKeeps ==
  ASSUME PlanInv, phase = "facts", Elsewhere, InspectLink
  PROVE  PlanInv'
<1>1. spc = "link" /\ KeepScan
  BY DEF InspectLink
<1>2. CASE ~Unchanged(LinkDir, LinkName, LinkId)
  BY <1>1, <1>2, ScanFails DEF InspectLink
<1>3. CASE Unchanged(LinkDir, LinkName, LinkId)
  <2>1. spc' = "readlink" /\ UNCHANGED <<stack, item, walk, captured, scanned, root, fds>>
    BY <1>3 DEF InspectLink
  <2>2. ScanOK'
    BY <2>1 DEF PlanInv, PlanTypeOK, ScanOK
  <2>3. WalkInv'
    BY <1>1, <2>1 DEF PlanInv, WalkInv
  <2>4. fds \in Nat
    BY FactsState
  <2> QED BY <1>1, <2>1, <2>2, <2>3, <2>4, ScanKeepsStack
<1> QED BY <1>2, <1>3

\* It reads the link.
LEMMA ReadLinkKeeps ==
  ASSUME PlanInv, phase = "facts", Elsewhere, ReadLink
  PROVE  PlanInv'
<1> DEFINE link == Lookup(LinkDir, LinkName)
<1>1. spc = "readlink" /\ KeepScan
  BY DEF ReadLink
<1>2. CASE link \notin Links
  BY <1>1, <1>2, ScanFails DEF ReadLink
<1>3. CASE link \in Links
  <2>1. /\ walk' = [walk EXCEPT !.text = link] /\ spc' = "reinspect"
        /\ UNCHANGED <<stack, item, captured, scanned, root, fds>>
    BY <1>3 DEF ReadLink
  <2> HIDE DEF link
  <2>2. ScanOK'
    BY <1>3, <2>1 DEF PlanInv, PlanTypeOK, ScanOK
  <2>3. walk'.dir = walk.dir /\ walk'.comps = walk.comps /\ walk'.text = link
    BY <2>1 DEF PlanInv, PlanTypeOK, ScanOK
  <2>4. WalkInv'
    BY <1>1, <1>3, <2>1, <2>3 DEF PlanInv, WalkInv
  <2>5. fds \in Nat
    BY FactsState
  <2> QED BY <1>1, <2>1, <2>2, <2>3, <2>4, <2>5, ScanKeepsStack
<1> QED BY <1>2, <1>3

\* It inspects the link again: the walk begins (newSourceSymlinkWalk) or goes on.
LEMMA ReinspectLinkKeeps ==
  ASSUME PlanInv, phase = "facts", Elsewhere, ReinspectLink
  PROVE  PlanInv'
<1> DEFINE text == target[walk.text]
           W == [dir : Dirs \cup {Nil}, comps : Seq(Components), needDir : BOOLEAN, followed : Nat,
                 id : Objects \cup {Nil}, text : Links \cup {Nil}]
<1>1. spc = "reinspect" /\ KeepScan
  BY DEF ReinspectLink
<1>2. CASE ~Unchanged(LinkDir, LinkName, LinkId)
  BY <1>1, <1>2, ScanFails DEF ReinspectLink
<1>3. CASE Unchanged(LinkDir, LinkName, LinkId)
  <2>1. /\ IF walk.dir = Nil THEN StartWalk(text) ELSE NestedLink(text)
        /\ spc' = "walk" /\ UNCHANGED <<stack, item, captured, scanned, root>>
    BY <1>3 DEF ReinspectLink
  <2>2. text \in LinkText /\ walk \in W
    BY <1>1 DEF PlanInv, PlanTypeOK, TreeOK, ScanOK, WalkInv
  <2>3. text.abs \in BOOLEAN /\ text.comps \in Seq(Components) /\ text.slash \in BOOLEAN
    BY <2>2 DEF LinkText
  <2>4. Top.dir \in Dirs /\ Slash \in Dirs /\ Nil \notin Dirs /\ fds \in Nat
    BY <1>1, ScanTop, FrameFields, FactsState, SourceAssumption DEF Objects
  <2> HIDE DEF text
  <2>5. CASE walk.dir = Nil
    <3> DEFINE d == IF text.abs THEN Slash ELSE Top.dir
    <3>1. /\ walk' = [NoWalk EXCEPT !.dir = d, !.comps = text.comps, !.needDir = text.slash,
                                    !.followed = 1]
          /\ fds' = fds + 1
      BY <2>1, <2>5 DEF StartWalk
    <3>2. d \in Dirs
      BY <2>4
    <3> HIDE DEF d
    <3>3. walk' \in W /\ walk'.dir \in Dirs
      BY <2>3, <3>1, <3>2 DEF NoWalk
    <3>4. ScanOK'
      BY <2>1, <3>3 DEF PlanInv, PlanTypeOK, ScanOK
    <3>5. WalkInv'
      BY <1>1, <2>1, <2>4, <3>3 DEF PlanInv, WalkInv
    <3> QED BY <1>1, <2>1, <2>4, <2>5, <3>1, <3>3, <3>4, <3>5, ScanKeepsStack
  <2>6. CASE walk.dir # Nil
    <3> DEFINE d == IF text.abs THEN Slash ELSE walk.dir
               comps == text.comps \o Tail(walk.comps)
               needDir == walk.needDir \/ (Len(walk.comps) = 1 /\ text.slash)
    <3>1. /\ walk' = [walk EXCEPT !.dir = d, !.comps = comps, !.needDir = needDir]
          /\ UNCHANGED fds
      BY <2>1, <2>6 DEF NestedLink
    <3>2. d \in Dirs
      BY <2>2, <2>4, <2>6
    <3>3. comps \in Seq(Components)
      <4>1. walk.comps \in Seq(Components) /\ walk.comps # <<>>
        BY <1>1, <2>2, <2>6 DEF PlanInv, WalkInv
      <4> QED BY <2>3, <4>1
    <3>4. needDir \in BOOLEAN
      OBVIOUS
    <3> HIDE DEF d, comps, needDir
    <3>5. walk' \in W /\ walk'.dir \in Dirs
      BY <2>2, <3>1, <3>2, <3>3, <3>4
    <3>6. ScanOK'
      BY <2>1, <3>5 DEF PlanInv, PlanTypeOK, ScanOK
    <3>7. WalkInv'
      BY <1>1, <2>1, <2>4, <3>5 DEF PlanInv, WalkInv
    <3> QED BY <1>1, <2>1, <2>4, <2>6, <3>1, <3>5, <3>6, <3>7, ScanKeepsStack
  <2> QED BY <2>5, <2>6
<1> QED BY <1>2, <1>3

\* replaceDirectory: the walk opens the next directory and closes the last.
LEMMA EnterDirectoryKeeps ==
  ASSUME PlanInv, phase = "facts", Elsewhere, EnterDirectory
  PROVE  PlanInv'
<1>1. spc = "enter" /\ KeepScan
  BY DEF EnterDirectory
<1>2. CASE ~Unchanged(walk.dir, Head(walk.comps), walk.id)
  BY <1>1, <1>2, ScanFails DEF EnterDirectory
<1>3. CASE Unchanged(walk.dir, Head(walk.comps), walk.id)
  <2>1. /\ walk' = [walk EXCEPT !.dir = walk.id, !.comps = Tail(walk.comps)] /\ spc' = "walk"
        /\ UNCHANGED <<stack, item, captured, scanned, root, fds>>
    BY <1>3 DEF EnterDirectory
  <2>2. walk.id \in Dirs /\ walk.comps # <<>> /\ walk.dir # Nil /\ Nil \notin Dirs
    BY <1>1, SourceAssumption DEF PlanInv, WalkInv, Objects
  <2>3. Tail(walk.comps) \in Seq(Components)
    BY <2>2 DEF PlanInv, PlanTypeOK, ScanOK
  <2>4. walk' \in [dir : Dirs \cup {Nil}, comps : Seq(Components), needDir : BOOLEAN,
                   followed : Nat, id : Objects \cup {Nil}, text : Links \cup {Nil}]
         /\ walk'.dir # Nil
    BY <2>1, <2>2, <2>3 DEF PlanInv, PlanTypeOK, ScanOK
  <2>5. ScanOK'
    BY <2>1, <2>4 DEF PlanInv, PlanTypeOK, ScanOK
  <2>6. WalkInv'
    BY <1>1, <2>1, <2>4 DEF PlanInv, WalkInv
  <2>7. fds \in Nat
    BY FactsState
  <2> QED BY <1>1, <2>1, <2>2, <2>4, <2>5, <2>6, <2>7, ScanKeepsStack
<1> QED BY <1>2, <1>3

\* A component of the walk is inspected, and the walk goes on with what was found.
LEMMA WalkGoesOn ==
  ASSUME PlanInv, phase = "facts", Elsewhere, KeepScan, spc = "walk", walk.comps # <<>>,
         UNCHANGED <<stack, item, captured, scanned, root, fds>>,
         walk' \in [dir : Dirs \cup {Nil}, comps : Seq(Components), needDir : BOOLEAN,
                    followed : Nat, id : Objects \cup {Nil}, text : Links \cup {Nil}],
         walk'.dir = walk.dir,
         \/ spc' = "walk"
         \/ spc' = "link" /\ walk'.comps = walk.comps
         \/ spc' = "enter" /\ walk'.comps = walk.comps /\ walk'.id \in Dirs
         \/ /\ spc' = "final" /\ walk'.comps = walk.comps /\ walk'.id \in Dirs \cup Files
            /\ Head(walk.comps) \in Names
  PROVE  PlanInv'
<1>1. ScanOK'
  BY DEF PlanInv, PlanTypeOK, ScanOK
<1>2. WalkInv'
  BY DEF PlanInv, WalkInv
<1>3. fds \in Nat
  BY FactsState
<1> QED BY <1>1, <1>2, <1>3, ScanKeepsStack

\* A component of the target of a link.
LEMMA WalkComponentKeeps ==
  ASSUME PlanInv, phase = "facts", Elsewhere, WalkComponent
  PROVE  PlanInv'
<1> DEFINE component == Head(walk.comps)
           object == IF component = Here THEN Nil ELSE Lookup(walk.dir, component)
           W == [dir : Dirs \cup {Nil}, comps : Seq(Components), needDir : BOOLEAN, followed : Nat,
                 id : Objects \cup {Nil}, text : Links \cup {Nil}]
<1>1. spc = "walk" /\ walk.comps # <<>> /\ KeepScan
  BY DEF WalkComponent
<1>2. walk \in W
  BY DEF PlanInv, PlanTypeOK, ScanOK
<1>3. CASE /\ walk' = [walk EXCEPT !.comps = Tail(@)]
           /\ UNCHANGED <<spc, stack, item, captured, scanned, root, fds>>
  <2>1. Tail(walk.comps) \in Seq(Components)
    BY <1>1, <1>2
  <2>2. walk' \in W /\ walk'.dir = walk.dir
    BY <1>2, <1>3, <2>1
  <2> QED BY <1>1, <1>3, <2>2, WalkGoesOn
<1>4. CASE /\ object \in Links /\ CountLink(object) /\ spc' = "link"
           /\ UNCHANGED <<stack, item, captured, scanned, root, fds>>
  <2> HIDE DEF object
  <2>1. walk' \in W /\ walk'.dir = walk.dir /\ walk'.comps = walk.comps
    <3> DEFINE more == walk.followed + 1
    <3>1. walk' = [walk EXCEPT !.id = object, !.followed = more]
      BY <1>4 DEF CountLink
    <3>2. more \in Nat /\ object \in Objects
      BY <1>2, <1>4 DEF Objects
    <3> HIDE DEF more
    <3> QED BY <1>2, <3>1, <3>2
  <2> QED BY <1>1, <1>4, <2>1, WalkGoesOn
<1>5. CASE /\ \/ object \in Dirs
              \/ object \in Files /\ ~GoesThrough(component)
           /\ walk' = [walk EXCEPT !.id = object]
           /\ spc' = IF GoesThrough(component) THEN "enter" ELSE "final"
           /\ UNCHANGED <<stack, item, captured, scanned, root, fds>>
  <2>1. object # Nil
    BY <1>5, SourceAssumption DEF Objects
  <2>2. component # Here
    BY <2>1
  <2>3. ~GoesThrough(component) => component \in Names
    <3>1. component \in Components
      BY <1>1, <1>2
    <3> QED BY <2>2, <3>1 DEF GoesThrough, Components
  <2> HIDE DEF object
  <2>4. walk' \in W /\ walk'.dir = walk.dir /\ walk'.comps = walk.comps /\ walk'.id = object
    BY <1>2, <1>5 DEF Objects
  <2> QED BY <1>1, <1>5, <2>3, <2>4, WalkGoesOn
<1>6. CASE /\ walk' = NoWalk /\ fds' = fds - 1 /\ item' = NoItem /\ spc' = "entry"
           /\ UNCHANGED <<stack, captured, scanned, root>>
  <2>1. ScanOK'
    BY <1>6, NoItemType DEF PlanInv, PlanTypeOK, ScanOK, NoWalk
  <2>2. WalkInv'
    BY <1>1, <1>6 DEF PlanInv, WalkInv, NoWalk
  <2>3. fds \in Nat /\ walk.dir # Nil /\ walk'.dir = Nil
    BY <1>1, <1>6, FactsState DEF PlanInv, WalkInv, NoWalk
  <2> QED BY <1>1, <1>6, <2>1, <2>2, <2>3, ScanKeepsStack
<1>7. CASE FailScan
  BY <1>1, <1>7, ScanFails
<1> QED BY <1>3, <1>4, <1>5, <1>6, <1>7 DEF WalkComponent

\* The root keeps the descriptor of the walk.
LEMMA BackingAdded ==
  ASSUME PlanInv, phase = "facts", spc \notin {"idle", "done"}, NEW dir \in Dirs,
         AddBackingDirectory(dir)
  PROVE  /\ root' \in [state : {"closed", "open", "transferred"}, scanned : BOOLEAN,
                       borrows : 0..2, anchors : Seq(Dirs), dir : Dirs \cup {Nil}]
         /\ root'.state = "open" /\ root'.dir = root.dir /\ root'.borrows = 1
         /\ Len(root'.anchors) = Len(root.anchors) + 1 /\ Len(root.anchors) \in Nat
         /\ NewAnchor \in Nat /\ walk' = NoWalk /\ item' = NoItem
<1> DEFINE more == Append(root.anchors, dir)
<1>1. root \in [state : {"closed", "open", "transferred"}, scanned : BOOLEAN,
                borrows : 0..2, anchors : Seq(Dirs), dir : Dirs \cup {Nil}]
  BY DEF PlanInv, PlanTypeOK, RootOK
<1>2. root.state = "open" /\ root.borrows = 1
  BY FactsState
<1>3. root' = [root EXCEPT !.anchors = more] /\ walk' = NoWalk /\ item' = NoItem
  BY DEF AddBackingDirectory
<1>4. more \in Seq(Dirs) /\ Len(more) = Len(root.anchors) + 1 /\ Len(root.anchors) \in Nat
  BY <1>1
<1> HIDE DEF more
<1>5. /\ root'.state = root.state /\ root'.dir = root.dir /\ root'.borrows = root.borrows
      /\ root'.anchors = more
  BY <1>1, <1>3
<1>6. root' \in [state : {"closed", "open", "transferred"}, scanned : BOOLEAN,
                 borrows : 0..2, anchors : Seq(Dirs), dir : Dirs \cup {Nil}]
  BY <1>1, <1>3, <1>4
<1>7. NewAnchor \in Nat
  BY <1>4 DEF NewAnchor
<1> QED BY <1>2, <1>3, <1>4, <1>5, <1>6, <1>7

\* captureSymlinkDirectory: the descriptor of the walk passes to the root.
LEMMA CaptureSymlinkDirectoryKeeps ==
  ASSUME PlanInv, phase = "facts", Elsewhere, KeepScan, spc \in {"walk", "final"},
         NEW dir \in Dirs, CaptureSymlinkDirectory(dir)
  PROVE  PlanInv'
<1>1. CASE Cyclic(dir) \/ root.state # "open"
  BY <1>1, ScanFails DEF CaptureSymlinkDirectory
<1>2. CASE ~(Cyclic(dir) \/ root.state # "open")
  <2> DEFINE b == [anchor |-> NewAnchor, names |-> <<>>]
             g == Frame(dir, ItemPath, b, FALSE)
  <2>1. /\ AddBackingDirectory(dir) /\ Push(g) /\ spc' = "names"
        /\ UNCHANGED <<captured, scanned, fds>>
    BY <1>2 DEF CaptureSymlinkDirectory
  <2>2. stack \in Seq(Frames) /\ SeenInv /\ ScanOK /\ walk.dir # Nil /\ Tree
    BY ScanTop, KeepScanTree DEF PlanInv, PlanTypeOK, WalkInv
  <2>3. /\ root' \in [state : {"closed", "open", "transferred"}, scanned : BOOLEAN,
                      borrows : 0..2, anchors : Seq(Dirs), dir : Dirs \cup {Nil}]
        /\ root'.state = "open" /\ root'.dir = root.dir /\ root'.borrows = 1
        /\ Len(root'.anchors) = Len(root.anchors) + 1 /\ Len(root.anchors) \in Nat
        /\ NewAnchor \in Nat /\ walk' = NoWalk /\ item' = NoItem
    BY <2>1, BackingAdded
  <2>4. b \in [anchor : Nat, names : Seq(Names)]
    BY <2>3
  <2> HIDE DEF b
  <2>5. g \in Frames /\ g.owned = FALSE /\ g.seen = {}
    <3>1. ItemPath \in Seq(Names) /\ FALSE \in BOOLEAN
      BY ItemTypes
    <3> QED BY <2>4, <3>1 DEF Frames, Frame
  <2> HIDE DEF g
  <2>6. /\ stack' \in Seq(Frames) /\ stack' # <<>> /\ stack'[Len(stack')] = g
        /\ Cardinality(Entered(stack')) = Cardinality(Entered(stack)) + 0
    BY <2>1, <2>2, <2>5, PushStack, PushEntered
  <2>7. ScanOK'
    BY <2>1, <2>2, <2>3, <2>6, NoItemType DEF ScanOK, NoWalk
  <2>8. WalkInv'
    BY <2>1, <2>3, <2>5, <2>6 DEF WalkInv, Top, NoWalk
  <2>9. SeenInv'
    BY <2>1, <2>2, <2>5, PushSeen DEF KeepScan
  <2>10. Cardinality(Entered(stack)) \in Nat /\ fds \in Nat
         /\ fds = 1 + Len(root.anchors) + ScanDescriptors
    BY <2>2, EnteredFinite, FactsState
  <2>11. ScanDescriptors = 1 + Cardinality(Entered(stack)) + 1
    BY <2>2 DEF ScanDescriptors
  <2>12. ScanDescriptors' = 1 + Cardinality(Entered(stack))
    BY <2>3, <2>6, <2>10, NextDescriptors DEF NoWalk
  <2>13. fds' = 1 + Len(root'.anchors) + ScanDescriptors'
    <3>1. fds = 1 + Len(root.anchors) + (1 + Cardinality(Entered(stack)) + 1)
      BY <2>10, <2>11
    <3>2. Len(root.anchors) \in Nat /\ Cardinality(Entered(stack)) \in Nat
      BY <2>3, <2>10
    <3>3. fds = 1 + (Len(root.anchors) + 1) + (1 + Cardinality(Entered(stack)))
      BY <3>1, <3>2
    <3>4. fds' = fds /\ Len(root'.anchors) = Len(root.anchors) + 1
      BY <2>1, <2>3
    <3> QED BY <2>12, <3>3, <3>4
  <2> QED BY <2>1, <2>2, <2>3, <2>7, <2>8, <2>9, <2>13, ScanKeeps
<1> QED BY <1>1, <1>2

\* captureSymlinkFile: the directory of the file stays open with the root.
LEMMA CaptureSymlinkFileKeeps ==
  ASSUME PlanInv, phase = "facts", Elsewhere, KeepScan, spc = "final",
         NEW file \in Files, NEW name \in Names, CaptureSymlinkFile(file, name)
  PROVE  PlanInv'
<1>1. CASE root.state # "open"
  BY <1>1, ScanFails DEF CaptureSymlinkFile
<1>2. CASE root.state = "open"
  <2> DEFINE b == [anchor |-> NewAnchor, names |-> <<name>>]
             e == Entry("file", ItemPath, size[file], b, file)
  <2>1. /\ AddBackingDirectory(walk.dir) /\ captured' = captured \cup {e} /\ spc' = "entry"
        /\ UNCHANGED <<stack, scanned, fds>>
    BY <1>2 DEF CaptureSymlinkFile
  <2>2. /\ stack \in Seq(Frames) /\ stack # <<>> /\ SeenInv /\ ScanOK /\ Tree
        /\ walk.dir \in Dirs /\ walk.dir # Nil
    BY ScanTop, KeepScanTree DEF PlanInv, PlanTypeOK, ScanOK, WalkInv
  <2>3. /\ root' \in [state : {"closed", "open", "transferred"}, scanned : BOOLEAN,
                      borrows : 0..2, anchors : Seq(Dirs), dir : Dirs \cup {Nil}]
        /\ root'.state = "open" /\ root'.dir = root.dir /\ root'.borrows = 1
        /\ Len(root'.anchors) = Len(root.anchors) + 1 /\ Len(root.anchors) \in Nat
        /\ NewAnchor \in Nat /\ walk' = NoWalk /\ item' = NoItem
    BY <2>1, <2>2, BackingAdded
  <2>4. e \in Entries
    <3>1. <<name>> \in Seq(Names) /\ size[file] \in Nat
      BY DEF PlanInv, PlanTypeOK, TreeOK
    <3>2. b \in References
      BY <2>3, <3>1
    <3> HIDE DEF b
    <3> QED BY <3>1, <3>2, ItemTypes DEF Entry, Entries
  <2> HIDE DEF e
  <2>5. ScanOK'
    <3>1. captured' \subseteq Entries /\ IsFiniteSet(captured')
      BY <2>1, <2>2, <2>4, EntryAdded DEF ScanOK
    <3> QED BY <2>1, <2>2, <2>3, <3>1, NoItemType DEF ScanOK, NoWalk
  <2>6. WalkInv'
    BY <2>1, <2>2, <2>3 DEF WalkInv, NoWalk
  <2>7. SeenInv'
    BY <2>1, <2>2, StackSeen DEF KeepScan
  <2>8. Cardinality(Entered(stack)) \in Nat /\ fds \in Nat
        /\ fds = 1 + Len(root.anchors) + ScanDescriptors
    BY <2>2, EnteredFinite, FactsState
  <2>9. ScanDescriptors = 1 + Cardinality(Entered(stack)) + 1
    BY <2>2 DEF ScanDescriptors
  <2>10. ScanDescriptors' = 1 + Cardinality(Entered(stack))
    BY <2>1, <2>3, <2>8, NextDescriptors DEF NoWalk
  <2>11. fds' = 1 + Len(root'.anchors) + ScanDescriptors'
    <3>1. fds = 1 + Len(root.anchors) + (1 + Cardinality(Entered(stack)) + 1)
      BY <2>8, <2>9
    <3>2. Len(root.anchors) \in Nat /\ Cardinality(Entered(stack)) \in Nat
      BY <2>3, <2>8
    <3>3. fds = 1 + (Len(root.anchors) + 1) + (1 + Cardinality(Entered(stack)))
      BY <3>1, <3>2
    <3>4. fds' = fds /\ Len(root'.anchors) = Len(root.anchors) + 1
      BY <2>1, <2>3
    <3> QED BY <2>10, <3>3, <3>4
  <2> QED BY <2>1, <2>2, <2>3, <2>5, <2>6, <2>7, <2>11, ScanKeeps
<1> QED BY <1>1, <1>2

\* resolveCurrentDirectory: the target is the directory the walk is at.
LEMMA ResolveCurrentDirectoryKeeps ==
  ASSUME PlanInv, phase = "facts", Elsewhere, ResolveCurrentDirectory
  PROVE  PlanInv'
<1>1. spc = "walk" /\ KeepScan /\ CaptureSymlinkDirectory(walk.dir)
  BY DEF ResolveCurrentDirectory
<1>2. walk.dir \in Dirs
  BY <1>1 DEF PlanInv, PlanTypeOK, ScanOK, WalkInv
<1> QED BY <1>1, <1>2, CaptureSymlinkDirectoryKeeps

\* resolveFinalEntry.
LEMMA ResolveFinalEntryKeeps ==
  ASSUME PlanInv, phase = "facts", Elsewhere, ResolveFinalEntry
  PROVE  PlanInv'
<1>1. spc = "final" /\ KeepScan
  BY DEF ResolveFinalEntry
<1>2. walk.id \in Dirs \cup Files /\ Head(walk.comps) \in Names
  BY <1>1 DEF PlanInv, WalkInv
<1>3. CASE FailScan
  BY <1>1, <1>3, ScanFails
<1>4. CASE walk.id \in Dirs /\ CaptureSymlinkDirectory(walk.id)
  BY <1>1, <1>4, CaptureSymlinkDirectoryKeeps
<1>5. CASE walk.id \in Files /\ CaptureSymlinkFile(walk.id, Head(walk.comps))
  BY <1>1, <1>2, <1>5, CaptureSymlinkFileKeeps
<1> QED BY <1>2, <1>3, <1>4, <1>5 DEF ResolveFinalEntry

\* Scan opens the source once more and borrows it.
LEMMA BeginScanKeeps ==
  ASSUME PlanInv, phase = "facts", Elsewhere, BeginScan
  PROVE  PlanInv'
<1> DEFINE b == [anchor |-> 0, names |-> <<>>]
           g == Frame(root.dir, <<>>, b, FALSE)
<1>1. /\ spc = "idle" /\ KeepScan /\ stack' = <<g>> /\ spc' = "names" /\ fds' = fds + 1
      /\ root' = [root EXCEPT !.borrows = root.borrows + 1, !.scanned = TRUE]
      /\ UNCHANGED <<item, walk, captured, scanned>>
  BY DEF BeginScan
<1>2. /\ root.dir \in Dirs /\ root.state = "open" /\ root.borrows = 0 /\ fds \in Nat
      /\ fds = 1 + Len(root.anchors)
  BY <1>1, FactsState DEF PlanInv, PlanTypeOK, RootOK
<1>3. ScanOK /\ walk.dir = Nil /\ Tree
  BY <1>1, KeepScanTree DEF PlanInv, PlanTypeOK, WalkInv
<1>4. root \in [state : {"closed", "open", "transferred"}, scanned : BOOLEAN,
                borrows : 0..2, anchors : Seq(Dirs), dir : Dirs \cup {Nil}]
  BY DEF PlanInv, PlanTypeOK, RootOK
<1>5. /\ root' \in [state : {"closed", "open", "transferred"}, scanned : BOOLEAN,
                    borrows : 0..2, anchors : Seq(Dirs), dir : Dirs \cup {Nil}]
      /\ root'.state = "open" /\ root'.dir = root.dir /\ root'.borrows = 1
      /\ root'.anchors = root.anchors
  <2>1. root' = [root EXCEPT !.borrows = 1, !.scanned = TRUE]
    BY <1>1, <1>2
  <2>2. TRUE \in BOOLEAN /\ 1 \in 0..2
    OBVIOUS
  <2> QED BY <1>2, <1>4, <2>1, <2>2
<1>6. b \in [anchor : Nat, names : Seq(Names)] /\ <<>> \in Seq(Names)
  OBVIOUS
<1> HIDE DEF b
<1>7. g \in Frames /\ g.owned = FALSE /\ g.seen = {}
  <2>1. FALSE \in BOOLEAN
    OBVIOUS
  <2>2. root.dir \in Dirs
    BY <1>2
  <2>3. <<>> \in Seq(Names) /\ b \in [anchor : Nat, names : Seq(Names)]
    BY <1>6
  <2> QED BY <2>1, <2>2, <2>3 DEF Frames, Frame
<1> HIDE DEF g
<1>8. stack' \in Seq(Frames) /\ stack' # <<>> /\ Len(stack') = 1 /\ stack'[1] = g
      /\ DOMAIN stack' = {1}
  BY <1>1, <1>7
<1>9. ScanOK'
  BY <1>1, <1>3, <1>8 DEF ScanOK
<1>10. WalkInv'
  BY <1>1, <1>3, <1>7, <1>8 DEF WalkInv, Top
<1>11. SeenInv'
  BY <1>1, <1>7, <1>8 DEF SeenInv, SeenThere
<1>12. ScanDescriptors' = 1
  <2>1. Entered(stack') = {}
    BY <1>7, <1>8, Zenon DEF Entered
  <2>2. Cardinality(Entered(stack')) = 0
    BY <2>1, FS_EmptySet
  <2> QED BY <1>1, <1>3, <2>2, NextDescriptors
<1>13. fds' = 1 + Len(root'.anchors) + ScanDescriptors'
  BY <1>1, <1>2, <1>4, <1>5, <1>12
<1> QED BY <1>1, <1>3, <1>5, <1>9, <1>10, <1>11, <1>13, ScanKeeps

\* Scan refuses a source that was scanned or is not open.
LEMMA RefuseScanKeeps ==
  ASSUME PlanInv, phase = "facts", Elsewhere, RefuseScan
  PROVE  PlanInv'
<1>1. /\ spc = "idle" /\ KeepScan /\ scanned' = "fault" /\ spc' = "done"
      /\ UNCHANGED <<stack, item, walk, captured, root, fds>>
  BY DEF RefuseScan
<1>2. Tree
  BY <1>1, KeepScanTree DEF PlanInv, PlanTypeOK
<1>3. ScanOK'
  BY <1>1 DEF PlanInv, PlanTypeOK, ScanOK
<1>4. WalkInv'
  BY <1>1 DEF PlanInv, WalkInv
<1>5. SeenInv'
  BY <1>1, StackSeen DEF PlanInv, KeepScan
<1>6. root \in [state : {"closed", "open", "transferred"}, scanned : BOOLEAN,
                borrows : 0..2, anchors : Seq(Dirs), dir : Dirs \cup {Nil}]
  BY DEF PlanInv, PlanTypeOK, RootOK
<1>7. root.state = "open" /\ root.borrows = 0 /\ fds = 1 + Len(root.anchors)
  BY <1>1, <1>6, FactsState
<1>8. fds' = 1 + Len(root'.anchors) + 0
  BY <1>1, <1>6, <1>7
<1> QED BY <1>1, <1>2, <1>3, <1>4, <1>5, <1>6, <1>7, <1>8, ScanKeeps

\* Every step of the scan keeps the invariant.
LEMMA ScanSourceKeeps ==
  ASSUME PlanInv, ScanSource
  PROVE  PlanInv'
<1>1. phase = "facts" /\ Elsewhere
  BY DEF ScanSource, KeepMeasure, Elsewhere
<1> QED BY <1>1, BeginScanKeeps, RefuseScanKeeps, ScanFaultKeeps, ReadSourceNamesKeeps,
           InspectEntryKeeps, CaptureDirectoryKeeps, CaptureRegularFileKeeps,
           VerifyNamesKeeps, VerifyEntryKeeps, FinishDirectoryKeeps, InspectLinkKeeps,
           ReadLinkKeeps, ReinspectLinkKeeps, WalkComponentKeeps, EnterDirectoryKeeps,
           ResolveCurrentDirectoryKeeps, ResolveFinalEntryKeeps
        DEF ScanSource, ScanStep

-----------------------------------------------------------------------------
(* Other programs                                                          *)

\* A change of the tree concerns the tree and what was seen of it.
LEMMA ChangeKeeps ==
  ASSUME PlanInv, Elsewhere, TreeOK', SeenInv', UNCHANGED <<root, scanVars, useVars, fds>>
  PROVE  PlanInv'
<1>1. RootOK' /\ ScanOK' /\ HolderInv' /\ WalkInv' /\ DescriptorsOwned'
  <2>1. RootOK'
    BY DEF PlanInv, PlanTypeOK, RootOK
  <2>2. ScanOK'
    BY DEF PlanInv, PlanTypeOK, ScanOK
  <2>3. HolderInv'
    BY DEF PlanInv, HolderInv, Elsewhere
  <2>4. WalkInv'
    BY DEF PlanInv, WalkInv, Top
  <2>5. DescriptorsOwned'
    BY DEF PlanInv, DescriptorsOwned, ScanDescriptors, Entered, Elsewhere
  <2> QED BY <2>1, <2>2, <2>3, <2>4, <2>5
<1>2. MeasureOK' /\ FailureInv' /\ WeightsInv'
  BY MeasureKept, WeightsKept DEF PlanInv, PlanTypeOK, Elsewhere
<1> QED BY <1>1, <1>2 DEF PlanInv, PlanTypeOK, Elsewhere

\* It is recorded, so that what was seen is there or was changed.
LEMMA ChangeSeen ==
  ASSUME PlanInv, touched \subseteq touched', retouched \subseteq retouched',
         \A d \in Dirs, n \in Names :
           \/ entries'[d][n] = entries[d][n]
           \/ <<d, n>> \in touched' /\ (<<d, n>> \in touched => <<d, n>> \in retouched'),
         UNCHANGED <<stack, spc>>
  PROVE  SeenInv'
<1>1. SUFFICES ASSUME NEW k \in DOMAIN stack
               PROVE  /\ (SeenThere(stack[k]))'
                      /\ (IF spc = "verify" /\ k = Len(stack) THEN ThenThere(stack[k])
                          ELSE \A s \in stack[k].seen : s[1] \notin stack[k].todo)'
  BY DEF SeenInv
<1>2. stack[k] \in Frames /\ SeenInv /\ TreeOK
  BY DEF PlanInv, PlanTypeOK, ScanOK
<1> DEFINE f == stack[k]
<1>3. f.dir \in Dirs
  BY <1>2, FrameFields
<1>4. \A g \in Frames : g = f => /\ SeenThere(g) => (SeenThere(g))'
                                 /\ ThenThere(g) => (ThenThere(g))'
  <2>1. SUFFICES ASSUME NEW g \in Frames, g = f
                 PROVE  /\ SeenThere(g) => (SeenThere(g))'
                        /\ ThenThere(g) => (ThenThere(g))'
    OBVIOUS
  <2> HIDE DEF f
  <2> QED BY <1>2, <1>3, <2>1, ThereChanged
<1>5. PICK g \in Frames : g = f /\ g = stack'[k]
  BY <1>2
<1>6. SeenThere(g) /\ (IF spc = "verify" /\ k = Len(stack) THEN ThenThere(g)
                       ELSE \A s \in g.seen : s[1] \notin g.todo)
  BY <1>2, <1>5 DEF SeenInv
<1>7. (SeenThere(g))' /\ (ThenThere(g) => (ThenThere(g))')
  BY <1>4, <1>5, <1>6
<1>8. (SeenThere(stack[k]))'
  BY <1>5, <1>7 DEF SeenThere
<1>9. CASE spc = "verify" /\ k = Len(stack)
  <2>1. (ThenThere(g))'
    BY <1>6, <1>7, <1>9
  <2>2. (ThenThere(stack[k]))'
    BY <1>5, <2>1 DEF ThenThere
  <2> QED BY <1>8, <1>9, <2>2
<1>10. CASE ~(spc = "verify" /\ k = Len(stack))
  BY <1>5, <1>6, <1>8, <1>10
<1> QED BY <1>9, <1>10

\* What an exchange of names changes, it records.
LEMMA ExchangeRecorded ==
  ASSUME TreeOK, NEW d \in Dirs, NEW n \in Names, NEW e \in Dirs, NEW m \in Names,
         Exchange(d, n, e, m), NEW x \in Dirs, NEW y \in Names
  PROVE  \/ entries'[x][y] = entries[x][y]
         \/ <<x, y>> \in touched' /\ (<<x, y>> \in touched => <<x, y>> \in retouched')
<1>1. /\ entries' = [entries EXCEPT ![d][n] = entries[e][m], ![e][m] = entries[d][n]]
      /\ touched' = touched \cup {<<d, n>>, <<e, m>>}
      /\ retouched' = retouched \cup (touched \cap {<<d, n>>, <<e, m>>})
  BY DEF Exchange
<1> DEFINE half == [entries EXCEPT ![d][n] = entries[e][m]]
<1>2. half \in [Dirs -> [Names -> Objects \cup {Nil}]]
      /\ (<<x, y>> # <<d, n>> => half[x][y] = entries[x][y])
  BY DEF TreeOK
<1>3. entries' = [half EXCEPT ![e][m] = entries[d][n]]
  BY <1>1
<1> HIDE DEF half
<1>4. <<x, y>> # <<e, m>> => entries'[x][y] = half[x][y]
  BY <1>2, <1>3
<1>5. CASE <<x, y>> \in {<<d, n>>, <<e, m>>}
  <2>1. <<x, y>> \in touched'
    BY <1>1, <1>5, Zenon
  <2>2. <<x, y>> \in touched => <<x, y>> \in retouched'
    BY <1>1, <1>5, Zenon
  <2> QED BY <2>1, <2>2
<1>6. CASE <<x, y>> \notin {<<d, n>>, <<e, m>>}
  BY <1>2, <1>4, <1>6, Zenon
<1> QED BY <1>5, <1>6

\* Another program moves or exchanges names, which is recorded.
LEMMA ExchangeKeeps ==
  ASSUME PlanInv, Elsewhere, NEW d \in Dirs, NEW n \in Names, NEW e \in Dirs, NEW m \in Names,
         Exchange(d, n, e, m)
  PROVE  PlanInv'
<1>1. /\ entries' = [entries EXCEPT ![d][n] = entries[e][m], ![e][m] = entries[d][n]]
      /\ touched' = touched \cup {<<d, n>>, <<e, m>>}
      /\ retouched' = retouched \cup (touched \cap {<<d, n>>, <<e, m>>})
      /\ changes' = changes - 1 /\ changes > 0
      /\ UNCHANGED <<size, target, follow, faults, cancelled, root, scanVars, useVars, fds>>
  BY DEF Exchange
<1>2. TreeOK
  BY DEF PlanInv, PlanTypeOK
<1> DEFINE half == [entries EXCEPT ![d][n] = entries[e][m]]
<1>3. half \in [Dirs -> [Names -> Objects \cup {Nil}]]
      /\ \A x \in Dirs, y \in Names : <<x, y>> # <<d, n>> => half[x][y] = entries[x][y]
  BY <1>2 DEF TreeOK
<1>4. entries' = [half EXCEPT ![e][m] = entries[d][n]]
  BY <1>1
<1> HIDE DEF half
<1>5. entries' \in [Dirs -> [Names -> Objects \cup {Nil}]]
      /\ \A x \in Dirs, y \in Names : <<x, y>> # <<e, m>> => entries'[x][y] = half[x][y]
  BY <1>2, <1>3, <1>4 DEF TreeOK
<1>6. TreeOK'
  <2>1. cancelled' \in BOOLEAN
    BY <1>1, <1>2, Zenon DEF TreeOK
  <2>2. changes' \in Nat
    BY <1>1, <1>2 DEF TreeOK
  <2> QED BY <1>1, <1>2, <1>5, <2>1, <2>2 DEF TreeOK
<1>7. \A x \in Dirs, y \in Names :
        \/ entries'[x][y] = entries[x][y]
        \/ <<x, y>> \in touched' /\ (<<x, y>> \in touched => <<x, y>> \in retouched')
  BY <1>2, ExchangeRecorded
<1>8. SeenInv'
  BY <1>1, <1>7, ChangeSeen
<1> QED BY <1>1, <1>6, <1>8, ChangeKeeps

\* It writes a file.
LEMMA WriteFileKeeps ==
  ASSUME PlanInv, Elsewhere, NEW f \in Files, NEW bytes \in Sizes, WriteFile(f, bytes)
  PROVE  PlanInv'
<1>1. /\ size' = [size EXCEPT ![f] = bytes] /\ touched' = touched \cup {<<f, 0>>}
      /\ changes' = changes - 1 /\ changes > 0
      /\ UNCHANGED <<entries, retouched, target, follow, faults, cancelled, root, scanVars,
                     useVars, fds>>
  BY DEF WriteFile
<1>2. TreeOK'
  <2>1. cancelled' \in BOOLEAN
    BY <1>1, Zenon DEF PlanInv, PlanTypeOK, TreeOK
  <2>2. size' \in [Files -> Nat] /\ changes' \in Nat
    BY <1>1, SourceAssumption DEF PlanInv, PlanTypeOK, TreeOK
  <2> QED BY <1>1, <2>1, <2>2 DEF PlanInv, PlanTypeOK, TreeOK
<1>3. SeenInv'
  BY <1>1, ChangeSeen
<1> QED BY <1>1, <1>2, <1>3, ChangeKeeps

\* The context of the scan is cancelled.
LEMMA CancelContextKeeps ==
  ASSUME PlanInv, Elsewhere, CancelContext
  PROVE  PlanInv'
<1>1. /\ cancelled' = TRUE /\ faults' = faults - 1 /\ faults > 0
      /\ UNCHANGED <<treeVars, target, follow, root, scanVars, useVars, fds>>
  BY DEF CancelContext
<1>2. TreeOK'
  <2>1. faults' \in Nat
    BY <1>1 DEF PlanInv, PlanTypeOK, TreeOK
  <2>2. cancelled' \in BOOLEAN
    BY <1>1
  <2> QED BY <1>1, <2>1, <2>2 DEF PlanInv, PlanTypeOK, TreeOK
<1>3. SeenInv'
  BY <1>1, ChangeSeen
<1> QED BY <1>1, <1>2, <1>3, ChangeKeeps

\* Whatever happens around the run.
LEMMA SurroundingsKeeps ==
  ASSUME PlanInv, Surroundings
  PROVE  PlanInv'
<1>1. Elsewhere
  BY DEF Surroundings, KeepMeasure, Elsewhere
<1> QED BY <1>1, ExchangeKeeps, WriteFileKeeps, CancelContextKeeps DEF Surroundings, OtherPrograms

-----------------------------------------------------------------------------
(* The command and the supervisor                                          *)

\* A step from phase to phase keeps the invariant if it keeps what concerns the root,
\* its holder, the descriptors and the weights.
LEMMA FlowKeeps ==
  ASSUME PlanInv,
         UNCHANGED <<request, treeVars, target, follow, faults, cancelled, spc, stack, walk,
                     captured, scanned, throughputVars>>,
         item' \in [name : Names, id : Objects \cup {Nil}],
         spc \in {"idle", "done"} \/ UNCHANGED item,
         phase' \in {"open", "bind", "command", "borrowed", "launch", "inherit", "facts",
                     "measure", "weights", "allocate", "place", "views", "serving", "ended",
                     "close", "closed"},
         RootOK', HolderInv', DescriptorsOwned', WeightsInv'
  PROVE  PlanInv'
<1>1. TreeOK'
  <2>1. cancelled' \in BOOLEAN
    BY Zenon DEF PlanInv, PlanTypeOK, TreeOK
  <2> QED BY <2>1 DEF PlanInv, PlanTypeOK, TreeOK
<1>2. ScanOK'
  BY DEF PlanInv, PlanTypeOK, ScanOK
<1>3. WalkInv'
  BY DEF PlanInv, WalkInv, Top
<1>4. SeenInv'
  BY ChangeSeen
<1>5. MeasureOK' /\ FailureInv'
  BY MeasureKept DEF PlanInv, PlanTypeOK
<1> QED BY <1>1, <1>2, <1>3, <1>4, <1>5 DEF PlanInv, PlanTypeOK

\* A step of the run that leaves the weights alone keeps what is known of them.
LEMMA WeightsFlow ==
  ASSUME PlanInv, UNCHANGED <<request, weights, throughputVars>>,
         weights # <<>> => phase' \in {"allocate", "place", "views", "serving", "ended", "close",
                                       "closed"},
         phase' = "weights" => request = "manual",
         (request = "automatic" /\ phase' \in {"allocate", "place", "views", "serving"})
           => phase \in {"allocate", "place", "views", "serving"}
  PROVE  WeightsInv'
<1>1. WeightsFaithful'
  BY DEF PlanInv, WeightsInv, WeightsFaithful
<1> QED BY <1>1 DEF PlanInv, WeightsInv

\* The facts about the source that the steps below use.
LEMMA RootType ==
  ASSUME PlanInv
  PROVE  /\ root \in [state : {"closed", "open", "transferred"}, scanned : BOOLEAN,
                      borrows : 0..2, anchors : Seq(Dirs), dir : Dirs \cup {Nil}]
         /\ Len(root.anchors) \in Nat /\ fds \in Nat /\ Len(lease) \in Nat
         /\ IsFiniteSet(handles) /\ Cardinality(handles) \in Nat
         /\ handles = {} => Cardinality(handles) = 0
         /\ item \in [name : Names, id : Objects \cup {Nil}]
<1>1. root \in [state : {"closed", "open", "transferred"}, scanned : BOOLEAN,
                borrows : 0..2, anchors : Seq(Dirs), dir : Dirs \cup {Nil}]
      /\ fds \in Nat /\ IsFiniteSet(handles) /\ Len(lease) \in Nat
  BY DEF PlanInv, PlanTypeOK, RootOK
<1>2. item \in [name : Names, id : Objects \cup {Nil}]
  BY DEF PlanInv, PlanTypeOK, ScanOK
<1>3. Cardinality(handles) \in Nat /\ (handles = {} => Cardinality(handles) = 0)
  BY <1>1, FS_CardinalityType, FS_EmptySet
<1>4. Len(root.anchors) \in Nat
  BY <1>1
<1> QED BY <1>1, <1>2, <1>3, <1>4

\* Before and after the scan, the descriptors are those of the root, a borrow, the
\* lease and the open files.
LEMMA DescriptorsNow ==
  ASSUME PlanInv, phase # "facts"
  PROVE  /\ spc \in {"idle", "done"}
         /\ fds = (IF root.state = "closed" THEN 0 ELSE 1 + Len(root.anchors))
                    + (IF phase = "borrowed" THEN 1 ELSE 0) + Len(lease) + Cardinality(handles)
<1>1. spc \in {"idle", "done"}
  BY DEF PlanInv, HolderInv
<1> QED BY <1>1, RootType DEF PlanInv, DescriptorsOwned

\* What the command leaves alone.
Command == UNCHANGED <<request, egress, weights, plan, throughputVars>>

\* The command inspects the source.
LEMMA InspectSourceKeeps ==
  ASSUME PlanInv, InspectSource, Command
  PROVE  PlanInv'
<1>1. /\ phase = "open" /\ phase' = "bind" /\ item'.id \in Dirs
      /\ item' = [name |-> SourceName, id |-> entries[Slash][SourceName]]
      /\ UNCHANGED <<treeVars, target, follow, faults, cancelled, root, spc, stack, walk,
                     captured, scanned, useVars, fds>>
  BY DEF InspectSource, InspectRoot, Flow
<1>2. spc \in {"idle", "done"}
  BY <1>1, DescriptorsNow
<1>3. item' \in [name : Names, id : Objects \cup {Nil}]
  BY <1>1, SourceAssumption DEF Objects
<1>4. RootOK'
  BY <1>1 DEF PlanInv, PlanTypeOK, RootOK
<1>5. HolderInv'
  BY <1>1 DEF PlanInv, HolderInv, Command
<1>6. DescriptorsOwned'
  BY <1>1, <1>2 DEF PlanInv, DescriptorsOwned
<1>7. WeightsInv'
  BY <1>1, WeightsFlow DEF PlanInv, WeightsInv, Command
<1> QED BY <1>1, <1>2, <1>3, <1>4, <1>5, <1>6, <1>7, FlowKeeps DEF Command

\* It refuses what is not a directory.
LEMMA RefuseSourceKeeps ==
  ASSUME PlanInv, RefuseSource, Command
  PROVE  PlanInv'
<1>1. /\ phase = "open" /\ phase' = "closed"
      /\ UNCHANGED <<treeVars, target, follow, faults, cancelled, root, scanVars, useVars, fds>>
  BY DEF RefuseSource, Flow, KeepSource, sourceVars
<1>2. spc \in {"idle", "done"} /\ lease = <<>> /\ handles = {} /\ root.state = "closed"
  BY <1>1, DescriptorsNow DEF PlanInv, HolderInv
<1>3. RootOK'
  BY <1>1 DEF PlanInv, PlanTypeOK, RootOK
<1>4. HolderInv'
  BY <1>1, <1>2 DEF PlanInv, HolderInv, Command
<1>5. DescriptorsOwned'
  BY <1>1, <1>2, DescriptorsNow, RootType DEF PlanInv, DescriptorsOwned
<1>6. WeightsInv'
  BY <1>1, WeightsFlow DEF PlanInv, WeightsInv, Command
<1> QED BY <1>1, <1>2, <1>3, <1>4, <1>5, <1>6, RootType, FlowKeeps DEF Command

\* A SourceRoot that was just opened.
LEMMA NewRootType ==
  ASSUME NEW d \in Dirs
  PROVE  LET r == NewRoot(d)
         IN /\ r \in [state : {"closed", "open", "transferred"}, scanned : BOOLEAN,
                      borrows : 0..2, anchors : Seq(Dirs), dir : Dirs \cup {Nil}]
            /\ r.state = "open" /\ r.dir = d /\ r.borrows = 0 /\ r.anchors = <<>>
<1>1. <<>> \in Seq(Dirs) /\ FALSE \in BOOLEAN /\ 0 \in 0..2
  OBVIOUS
<1>2. /\ ClosedRoot \in [state : {"closed", "open", "transferred"}, scanned : BOOLEAN,
                         borrows : 0..2, anchors : Seq(Dirs), dir : Dirs \cup {Nil}]
      /\ ClosedRoot.borrows = 0 /\ ClosedRoot.anchors = <<>>
  BY <1>1 DEF ClosedRoot
<1> QED BY <1>2 DEF NewRoot

\* OpenSourceRoot, with the descriptor closed again if the root is another one.
LEMMA BindSourceKeeps ==
  ASSUME PlanInv, BindSource, Command
  PROVE  PlanInv'
<1>1. /\ phase = "bind" /\ phase' = (IF SameRoot THEN "command" ELSE "closed")
      /\ root' = (IF SameRoot THEN NewRoot(item.id) ELSE root)
      /\ fds' = (IF SameRoot THEN fds + 1 ELSE fds) /\ item' = NoItem
      /\ UNCHANGED <<treeVars, target, follow, faults, cancelled, spc, stack, walk, captured,
                     scanned, useVars>>
  BY DEF BindSource, Flow, OpenSourceRoot
<1>2. /\ spc \in {"idle", "done"} /\ lease = <<>> /\ handles = {} /\ root.state = "closed"
      /\ item.id \in Dirs /\ request # "list" /\ root.borrows = 0
  BY <1>1, DescriptorsNow DEF PlanInv, HolderInv
<1>3. fds = 0
  BY <1>1, <1>2, DescriptorsNow, RootType
<1>4. item' \in [name : Names, id : Objects \cup {Nil}]
  BY <1>1, NoItemType
<1>5. WeightsInv'
  BY <1>1, WeightsFlow DEF PlanInv, WeightsInv, Command
<1>6. CASE SameRoot
  <2>1. /\ root'.state = "open" /\ root'.dir = item.id /\ root'.borrows = 0
        /\ root'.anchors = <<>> /\ fds' = 1 /\ phase' = "command"
        /\ root' \in [state : {"closed", "open", "transferred"}, scanned : BOOLEAN,
                      borrows : 0..2, anchors : Seq(Dirs), dir : Dirs \cup {Nil}]
    BY <1>1, <1>2, <1>3, <1>6, NewRootType
  <2>2. RootOK'
    BY <1>1, <2>1 DEF PlanInv, PlanTypeOK, RootOK
  <2>3. HolderInv'
    BY <1>1, <1>2, <2>1 DEF HolderInv, Command
  <2>4. DescriptorsOwned'
    BY <1>1, <1>2, <2>1, RootType DEF DescriptorsOwned
  <2> QED BY <1>1, <1>2, <1>4, <1>5, <2>1, <2>2, <2>3, <2>4, FlowKeeps DEF Command
<1>7. CASE ~SameRoot
  <2>1. UNCHANGED <<root, fds>> /\ phase' = "closed"
    BY <1>1, <1>7
  <2>2. RootOK'
    BY <1>1, <2>1 DEF PlanInv, PlanTypeOK, RootOK
  <2>3. HolderInv'
    BY <1>1, <1>2, <2>1 DEF PlanInv, HolderInv, Command
  <2>4. DescriptorsOwned'
    BY <1>1, <1>2, <1>3, <2>1, RootType DEF PlanInv, DescriptorsOwned
  <2> QED BY <1>1, <1>2, <1>4, <1>5, <2>1, <2>2, <2>3, <2>4, FlowKeeps DEF Command
<1> QED BY <1>6, <1>7

\* runlogs borrows the source.
LEMMA BorrowForLogsKeeps ==
  ASSUME PlanInv, BorrowForLogs, Command
  PROVE  PlanInv'
<1>1. /\ phase = "command" /\ phase' = "borrowed" /\ fds' = fds + 1
      /\ root' = [root EXCEPT !.borrows = root.borrows + 1]
      /\ UNCHANGED <<treeVars, target, follow, faults, cancelled, scanVars, useVars>>
  BY DEF BorrowForLogs, Flow, Borrow
<1>2. /\ spc \in {"idle", "done"} /\ lease = <<>> /\ handles = {} /\ root.state = "open"
      /\ request # "list" /\ root.borrows = 0 /\ root.dir \in Dirs
  BY <1>1, DescriptorsNow DEF PlanInv, HolderInv
<1>3. /\ root'.state = "open" /\ root'.dir = root.dir /\ root'.borrows = 1
      /\ root'.anchors = root.anchors
      /\ root' \in [state : {"closed", "open", "transferred"}, scanned : BOOLEAN,
                    borrows : 0..2, anchors : Seq(Dirs), dir : Dirs \cup {Nil}]
  BY <1>1, <1>2, RootType
<1>4. fds = 1 + Len(root.anchors) /\ fds \in Nat
  BY <1>1, <1>2, DescriptorsNow, RootType
<1>5. RootOK'
  BY <1>1, <1>3, <1>4 DEF PlanInv, PlanTypeOK, RootOK
<1>6. HolderInv'
  BY <1>1, <1>2, <1>3 DEF HolderInv, Command
<1>7. DescriptorsOwned'
  BY <1>1, <1>2, <1>3, <1>4, RootType DEF DescriptorsOwned
<1>8. WeightsInv'
  BY <1>1, WeightsFlow DEF PlanInv, WeightsInv, Command
<1> QED BY <1>1, <1>2, <1>5, <1>6, <1>7, <1>8, RootType, FlowKeeps DEF Command

\* It returns what it borrowed.
LEMMA LogsReadyKeeps ==
  ASSUME PlanInv, LogsReady, Command
  PROVE  PlanInv'
<1>1. /\ phase = "borrowed" /\ phase' = "launch" /\ fds' = fds - 1
      /\ root' = [root EXCEPT !.borrows = root.borrows - 1]
      /\ UNCHANGED <<treeVars, target, follow, faults, cancelled, scanVars, useVars>>
  BY DEF LogsReady, Flow, ReturnBorrow
<1>2. /\ spc \in {"idle", "done"} /\ lease = <<>> /\ handles = {} /\ root.state = "open"
      /\ request # "list" /\ root.borrows = 1 /\ root.dir \in Dirs
  BY <1>1, DescriptorsNow DEF PlanInv, HolderInv
<1>3. /\ root'.state = "open" /\ root'.dir = root.dir /\ root'.borrows = 0
      /\ root'.anchors = root.anchors
      /\ root' \in [state : {"closed", "open", "transferred"}, scanned : BOOLEAN,
                    borrows : 0..2, anchors : Seq(Dirs), dir : Dirs \cup {Nil}]
  BY <1>1, <1>2, RootType
<1>4. fds = 1 + Len(root.anchors) + 1 /\ Len(root.anchors) \in Nat
  BY <1>1, <1>2, DescriptorsNow, RootType
<1>5. RootOK'
  BY <1>1, <1>3, <1>4 DEF PlanInv, PlanTypeOK, RootOK
<1>6. HolderInv'
  BY <1>1, <1>2, <1>3 DEF HolderInv, Command
<1>7. DescriptorsOwned'
  BY <1>1, <1>2, <1>3, <1>4, RootType DEF DescriptorsOwned
<1>8. WeightsInv'
  BY <1>1, WeightsFlow DEF PlanInv, WeightsInv, Command
<1> QED BY <1>1, <1>2, <1>5, <1>6, <1>7, <1>8, RootType, FlowKeeps DEF Command

\* TransferDescriptor.
LEMMA LaunchSupervisorKeeps ==
  ASSUME PlanInv, LaunchSupervisor, Command
  PROVE  PlanInv'
<1>1. /\ phase = "launch" /\ phase' = "inherit" /\ fds' = fds - Len(root.anchors)
      /\ root' = [root EXCEPT !.state = "transferred", !.anchors = <<>>]
      /\ UNCHANGED <<treeVars, target, follow, faults, cancelled, scanVars, useVars>>
  BY DEF LaunchSupervisor, Flow, TransferDescriptor
<1>2. /\ spc \in {"idle", "done"} /\ lease = <<>> /\ handles = {} /\ root.state = "open"
      /\ request # "list" /\ root.borrows = 0 /\ root.dir \in Dirs
  BY <1>1, DescriptorsNow DEF PlanInv, HolderInv
<1>3. /\ root'.state = "transferred" /\ root'.dir = root.dir /\ root'.borrows = 0
      /\ root'.anchors = <<>>
      /\ root' \in [state : {"closed", "open", "transferred"}, scanned : BOOLEAN,
                    borrows : 0..2, anchors : Seq(Dirs), dir : Dirs \cup {Nil}]
  <2>1. <<>> \in Seq(Dirs) /\ "transferred" \in {"closed", "open", "transferred"}
    OBVIOUS
  <2> QED BY <1>1, <1>2, <2>1, RootType
<1>4. fds' = 1
  BY <1>1, <1>2, DescriptorsNow, RootType
<1>5. RootOK'
  BY <1>1, <1>3, <1>4 DEF PlanInv, PlanTypeOK, RootOK
<1>6. HolderInv'
  BY <1>1, <1>2, <1>3 DEF HolderInv, Command
<1>7. DescriptorsOwned'
  BY <1>1, <1>2, <1>3, <1>4, RootType DEF DescriptorsOwned
<1>8. WeightsInv'
  BY <1>1, WeightsFlow DEF PlanInv, WeightsInv, Command
<1> QED BY <1>1, <1>2, <1>5, <1>6, <1>7, <1>8, RootType, FlowKeeps DEF Command

\* TakeSourceRoot in the supervisor.
LEMMA AcceptSourceKeeps ==
  ASSUME PlanInv, AcceptSource, Command
  PROVE  PlanInv'
<1>1. /\ phase = "inherit" /\ phase' = "facts" /\ root' = NewRoot(root.dir)
      /\ UNCHANGED <<treeVars, target, follow, faults, cancelled, scanVars, useVars, fds>>
  BY DEF AcceptSource, Flow, TakeSourceRoot
<1>2. /\ spc \in {"idle", "done"} /\ lease = <<>> /\ handles = {}
      /\ root.state = "transferred" /\ root.anchors = <<>>
      /\ request # "list" /\ root.borrows = 0 /\ root.dir \in Dirs
  BY <1>1, DescriptorsNow DEF PlanInv, HolderInv
<1>3. /\ root'.state = "open" /\ root'.dir = root.dir /\ root'.borrows = 0
      /\ root'.anchors = <<>>
      /\ root' \in [state : {"closed", "open", "transferred"}, scanned : BOOLEAN,
                    borrows : 0..2, anchors : Seq(Dirs), dir : Dirs \cup {Nil}]
  BY <1>1, <1>2, NewRootType
<1>4. fds = 1
  BY <1>1, <1>2, DescriptorsNow, RootType
<1>5. RootOK'
  BY <1>1, <1>3, <1>4 DEF PlanInv, PlanTypeOK, RootOK
<1>6. HolderInv'
  BY <1>1, <1>2, <1>3 DEF HolderInv, Command
<1>7. DescriptorsOwned'
  BY <1>1, <1>2, <1>3, <1>4, RootType DEF DescriptorsOwned
<1>8. WeightsInv'
  BY <1>1, WeightsFlow DEF PlanInv, WeightsInv, Command
<1> QED BY <1>1, <1>2, <1>5, <1>6, <1>7, <1>8, RootType, FlowKeeps DEF Command

\* Every step of the command.
LEMMA CommandStepKeeps ==
  ASSUME PlanInv, CommandStep
  PROVE  PlanInv'
<1>1. Command
  BY DEF CommandStep, KeepMeasure, Command, InspectSource, RefuseSource, BindSource, BorrowForLogs,
     LogsReady, LaunchSupervisor, AcceptSource, Flow
<1> QED BY <1>1, InspectSourceKeeps, RefuseSourceKeeps, BindSourceKeeps, BorrowForLogsKeeps,
           LogsReadyKeeps, LaunchSupervisorKeeps, AcceptSourceKeeps DEF CommandStep

\* The phases in which the supervisor holds the source.
Held == {"facts", "measure", "weights", "allocate", "place", "views", "serving", "ended", "close"}

\* A step that changes neither the source nor the measurement.
LEMMA PhaseKeeps ==
  ASSUME PlanInv, UNCHANGED <<request, sourceVars, throughputVars>>, WeightsInv', phase \in Held,
         phase' \in Held \/ (request = "list" /\ phase' = "closed"),
         phase \in {"serving", "ended"} <=> phase' \in {"serving", "ended"},
         phase' # "facts" => spc \in {"idle", "done"},
         request = "list" => phase' \in {"measure", "closed"}
  PROVE  PlanInv'
<1>1. UNCHANGED <<treeVars, target, follow, faults, cancelled, root, scanVars, useVars, fds>>
  BY DEF sourceVars
<1>2. RootOK'
  BY <1>1 DEF PlanInv, PlanTypeOK, RootOK
<1>3. HolderInv'
  BY <1>1 DEF PlanInv, HolderInv, Held
<1>4. phase' = "closed" => fds = 0
  <2>1. SUFFICES ASSUME phase' = "closed" PROVE fds = 0
    OBVIOUS
  <2>2. request = "list" /\ phase = "measure"
    BY <2>1 DEF PlanInv, HolderInv, Held
  <2>3. root.state = "closed" /\ lease = <<>> /\ handles = {}
    BY <2>2 DEF PlanInv, HolderInv
  <2> QED BY <2>2, <2>3, DescriptorsNow, RootType
<1>5. DescriptorsOwned'
  BY <1>1, <1>4 DEF PlanInv, DescriptorsOwned, ScanDescriptors, Entered, Held
<1>6. phase' \in Held \cup {"closed"} /\ item \in [name : Names, id : Objects \cup {Nil}]
  BY RootType
<1> QED BY <1>1, <1>2, <1>3, <1>5, <1>6, FlowKeeps DEF Held

\* The networks are resolved.
LEMMA ResolveEgressesKeeps ==
  ASSUME PlanInv, NEW result, ResolveEgresses(result)
  PROVE  PlanInv'
<1>1. phase = "facts" /\ UNCHANGED <<request, phase, weights, throughputVars, sourceVars>>
  BY DEF ResolveEgresses, KeepMeasure, KeepSource
<1>2. WeightsInv'
  BY <1>1, WeightsKept DEF PlanInv
<1>3. request # "list"
  BY <1>1, FactsState
<1> QED BY <1>1, <1>2, <1>3, PhaseKeeps DEF Held

\* readOnlyFacts returns when both have.
LEMMA FactsReadKeeps ==
  ASSUME PlanInv, FactsRead
  PROVE  PlanInv'
<1>1. /\ phase = "facts" /\ spc = "done"
      /\ UNCHANGED <<request, weights, throughputVars, sourceVars>>
      /\ phase' = IF egress # "ok" \/ scanned # "snapshot" THEN "close"
                  ELSE IF request = "automatic" THEN "measure" ELSE "weights"
  BY DEF FactsRead, Flow, KeepMeasure, KeepSource
<1>2. request # "list" /\ request \in {"manual", "automatic", "list"}
  BY <1>1, FactsState DEF PlanInv, PlanTypeOK
<1>3. phase' \in {"close", "measure", "weights"} /\ (phase' = "weights" => request = "manual")
  BY <1>1, <1>2
<1>4. weights = <<>>
  BY <1>1 DEF PlanInv, WeightsInv
<1>5. WeightsInv'
  BY <1>1, <1>3, <1>4, WeightsFlow
<1> QED BY <1>1, <1>2, <1>3, <1>5, PhaseKeeps DEF Held

\* A step of the measurement.
LEMMA MeasureKeeps ==
  ASSUME PlanInv, Measure
  PROVE  PlanInv'
<1>1. phase = "measure" /\ ThroughputStep /\ UNCHANGED <<request, flowVars, sourceVars>>
  BY DEF Measure, KeepSource
<1>2. UNCHANGED <<treeVars, target, follow, faults, cancelled, root, scanVars, useVars, fds>>
  BY <1>1 DEF sourceVars
<1>3. MeasureOK' /\ FailureInv'
  BY <1>1, MeasureStep DEF PlanInv, PlanTypeOK
<1>4. WeightsInv'
  BY <1>1 DEF PlanInv, WeightsInv, WeightsFaithful
<1>5. TreeOK'
  <2>1. cancelled' \in BOOLEAN
    BY <1>2, Zenon DEF PlanInv, PlanTypeOK, TreeOK
  <2> QED BY <1>2, <2>1 DEF PlanInv, PlanTypeOK, TreeOK
<1>6. RootOK'
  BY <1>2 DEF PlanInv, PlanTypeOK, RootOK
<1>7. ScanOK'
  BY <1>2 DEF PlanInv, PlanTypeOK, ScanOK
<1>8. HolderInv'
  BY <1>1, <1>2 DEF PlanInv, HolderInv
<1>9. WalkInv'
  BY <1>2 DEF PlanInv, WalkInv, Top
<1>10. SeenInv'
  BY <1>2, ChangeSeen
<1>11. DescriptorsOwned'
  BY <1>1, <1>2 DEF PlanInv, DescriptorsOwned, ScanDescriptors, Entered
<1> QED BY <1>1, <1>3, <1>4, <1>5, <1>6, <1>7, <1>8, <1>9, <1>10, <1>11 DEF PlanInv, PlanTypeOK

\* The weights of a measurement state what it measured.
LEMMA RelativeWeightsFaithful ==
  ASSUME MeasureOK, FailureInv, NEW only \in BOOLEAN, RelativeWeights(only) # <<>>
  PROVE  LET w == RelativeWeights(only)
             Bytes(t) == observation[t].bytes
             slow == CHOOSE t \in DOMAIN w : \A u \in DOMAIN w : Bytes(t) <= Bytes(u)
             Error(t) == w[t] * Bytes(slow) - w[slow] * Bytes(t)
         IN /\ \A t \in DOMAIN w :
                 /\ w[t] \in 1..(Limit - 1)
                 /\ 2 * Scale * Error(t) <= w[slow] * Bytes(slow)
                 /\ -2 * Scale * Error(t) <= w[slow] * Bytes(slow)
            /\ CommonDivisor({w[t] : t \in DOMAIN w}) = 1
            /\ only = FALSE => \A t \in Targets : observation[t].result = "ok" /\ tpc[t] # "dead"
<1> DEFINE valid == {t \in Targets : observation[t].result = "ok"}
           bytes == [t \in valid |-> observation[t].bytes]
           w == Weigh(bytes)
<1>1. /\ ~((valid # Targets /\ ~only) \/ Cardinality(valid) < 2
             \/ (\E t \in Targets : tpc[t] = "dead"))
      /\ RelativeWeights(only) = w
  BY DEF RelativeWeights
<1>2. valid # {}
  <2>1. Cardinality({}) = 0
    BY FS_EmptySet
  <2>2. ~(Cardinality(valid) < 2)
    BY <1>1
  <2> HIDE DEF valid
  <2> QED BY <2>1, <2>2
<1>3. bytes \in [valid -> Nat \ {0}]
  <2>1. \A t \in valid : observation[t].bytes \in Nat \ {0}
    BY ThroughputAssumption DEF MeasureOK, FailureInv, FailuresReported
  <2> QED BY <2>1
<1>4. PICK u \in valid : \A t \in valid : bytes[u] <= bytes[t]
  <2> DEFINE B == {bytes[t] : t \in valid}
  <2>1. B \in SUBSET Nat /\ B # {}
    BY <1>2, <1>3
  <2>2. Min(B) \in B /\ \A b \in B : Min(B) <= b
    BY <2>1, MinOfNumbers
  <2> QED BY <2>2
<1>5. \A t \in valid : bytes[t] = observation[t].bytes
  OBVIOUS
<1>6. DOMAIN w = valid
  BY <1>1, <1>2, <1>3, <1>4, WeighFaithful
<1> DEFINE slow == CHOOSE t \in valid :
                     \A v \in valid : observation[t].bytes <= observation[v].bytes
<1>7. slow \in valid /\ \A v \in valid : observation[slow].bytes <= observation[v].bytes
  BY <1>4, <1>5
<1>8. slow \in valid /\ \A v \in valid : bytes[slow] <= bytes[v]
  BY <1>5, <1>7
<1> HIDE DEF slow
<1>9. /\ \A t \in valid :
           /\ w[t] \in 1..(Limit - 1)
           /\ 2 * Scale * (w[t] * bytes[slow] - w[slow] * bytes[t]) <= w[slow] * bytes[slow]
           /\ -2 * Scale * (w[t] * bytes[slow] - w[slow] * bytes[t]) <= w[slow] * bytes[slow]
      /\ CommonDivisor({w[t] : t \in valid}) = 1
  <2>1. Weigh(bytes) # <<>>
    BY <1>1
  <2> HIDE DEF valid, bytes
  <2> QED BY <1>2, <1>3, <1>8, <2>1, WeighFaithful, Zenon
<1>10. only = FALSE => \A t \in Targets : observation[t].result = "ok" /\ tpc[t] # "dead"
  BY <1>1
<1> HIDE DEF w, bytes
<1>11. /\ \A t \in valid :
            /\ w[t] \in 1..(Limit - 1)
            /\ 2 * Scale * (w[t] * observation[slow].bytes - w[slow] * observation[t].bytes)
                 <= w[slow] * observation[slow].bytes
            /\ -2 * Scale * (w[t] * observation[slow].bytes - w[slow] * observation[t].bytes)
                 <= w[slow] * observation[slow].bytes
       /\ CommonDivisor({w[t] : t \in valid}) = 1
  BY <1>5, <1>7, <1>9
<1> HIDE DEF valid
<1> QED BY <1>1, <1>6, <1>10, <1>11, Zenon DEF slow

\* RelativeWeights and NewTransferWeights.
LEMMA MeasurementEndsKeeps ==
  ASSUME PlanInv, MeasurementEnds
  PROVE  PlanInv'
<1> DEFINE only == (request = "list")
<1>1. /\ phase = "measure" /\ Observed /\ weights' = RelativeWeights(only)
      /\ phase' = IF request = "list" THEN "closed"
                  ELSE IF DOMAIN weights' = Targets THEN "allocate" ELSE "close"
      /\ UNCHANGED <<request, throughputVars, sourceVars>>
  BY DEF MeasurementEnds, Flow, KeepMeasure, KeepSource
<1>2. /\ phase' \in {"closed", "allocate", "close"} /\ (phase' = "closed" <=> request = "list")
      /\ phase' = "allocate" => DOMAIN weights' = Targets
  <2>1. CASE request = "list"
    <3>1. phase' = "closed"
      BY <1>1, <2>1
    <3> QED BY <2>1, <3>1
  <2>2. CASE request # "list" /\ DOMAIN weights' = Targets
    <3>1. phase' = "allocate"
      BY <1>1, <2>2
    <3> QED BY <2>2, <3>1
  <2>3. CASE request # "list" /\ DOMAIN weights' # Targets
    <3>1. phase' = "close"
      BY <1>1, <2>3
    <3> QED BY <2>3, <3>1
  <2> QED BY <2>1, <2>2, <2>3
<1>3. MeasureOK /\ FailureInv
  BY DEF PlanInv, PlanTypeOK
<1>4. WeightsFaithful'
  <2>1. SUFFICES ASSUME weights' # <<>> PROVE WeightsFaithful'
    BY DEF WeightsFaithful
  <2>2. only \in BOOLEAN
    OBVIOUS
  <2>3. UNCHANGED observation
    BY <1>1
  <2> HIDE DEF only
  <2> DEFINE w == RelativeWeights(only)
  <2>4. w # <<>> /\ weights' = w
    BY <1>1, <2>1
  <2>5. LET Bytes(t) == observation[t].bytes
            slow == CHOOSE t \in DOMAIN w : \A u \in DOMAIN w : Bytes(t) <= Bytes(u)
            Error(t) == w[t] * Bytes(slow) - w[slow] * Bytes(t)
        IN /\ \A t \in DOMAIN w :
                /\ w[t] \in 1..(Limit - 1)
                /\ 2 * Scale * Error(t) <= w[slow] * Bytes(slow)
                /\ -2 * Scale * Error(t) <= w[slow] * Bytes(slow)
           /\ CommonDivisor({w[t] : t \in DOMAIN w}) = 1
    BY <1>3, <2>2, <2>4, RelativeWeightsFaithful, Zenon
  <2> HIDE DEF w
  <2> QED BY <2>3, <2>4, <2>5, Zenon DEF WeightsFaithful
<1>5. ASSUME request = "automatic", phase' = "allocate"
      PROVE  \A t \in Targets : tpc[t] = "done" /\ observation[t].result = "ok"
  <2>1. CASE weights' = <<>>
    BY <1>2, <1>5, <2>1
  <2>2. CASE weights' # <<>>
    <3>1. only = FALSE
      BY <1>5
    <3>2. RelativeWeights(FALSE) # <<>>
      BY <1>1, <2>2, <3>1
    <3>3. \A t \in Targets : observation[t].result = "ok" /\ tpc[t] # "dead"
      BY <1>3, <3>2, RelativeWeightsFaithful
    <3> QED BY <1>1, <3>3 DEF Observed
  <2> QED BY <2>1, <2>2
<1>6. WeightsInv'
  <2>1. phase' \in {"closed", "allocate", "close"} /\ UNCHANGED <<request, tpc, observation>>
    BY <1>1, <1>2
  <2> QED BY <1>2, <1>4, <1>5, <2>1 DEF WeightsInv
<1>7. spc \in {"idle", "done"}
  BY <1>1, DescriptorsNow
<1> QED BY <1>1, <1>2, <1>6, <1>7, PhaseKeeps DEF Held

\* The weights of a manual request.
LEMMA ManualWeightsKeeps ==
  ASSUME PlanInv, NEW w, ManualWeights(w)
  PROVE  PlanInv'
<1>1. phase = "weights" /\ phase' = "allocate" /\ UNCHANGED <<request, throughputVars, sourceVars>>
  BY DEF ManualWeights, Flow, KeepMeasure, KeepSource
<1>2. request = "manual" /\ spc \in {"idle", "done"}
  BY <1>1, DescriptorsNow DEF PlanInv, WeightsInv
<1>3. WeightsInv'
  BY <1>1, <1>2 DEF WeightsInv, WeightsFaithful
<1> QED BY <1>1, <1>2, <1>3, PhaseKeeps DEF Held

\* A step of the allocation.
LEMMA AllocationKeeps ==
  ASSUME PlanInv, BeginAllocation \/ AllocateFile \/ FinishAllocation
  PROVE  PlanInv'
<1>1. /\ phase \in {"allocate", "place"} /\ phase' \in {"place", "views", "close"}
      /\ UNCHANGED <<request, weights, throughputVars, sourceVars>>
  BY DEF BeginAllocation, AllocateFile, FinishAllocation, Flow, KeepMeasure, KeepSource
<1>2. spc \in {"idle", "done"} /\ request # "list"
  BY <1>1, DescriptorsNow DEF PlanInv, HolderInv
<1>3. WeightsInv'
  BY <1>1, WeightsFlow
<1> QED BY <1>1, <1>2, <1>3, PhaseKeeps DEF Held

\* The commands have ended.
LEMMA CommandsEndKeeps ==
  ASSUME PlanInv, CommandsEnd
  PROVE  PlanInv'
<1>1. /\ phase = "serving" /\ phase' = "ended"
      /\ UNCHANGED <<request, weights, throughputVars, sourceVars>>
  BY DEF CommandsEnd, Flow, KeepMeasure, KeepSource
<1>2. spc \in {"idle", "done"} /\ request # "list"
  BY <1>1, DescriptorsNow DEF PlanInv, HolderInv
<1>3. WeightsInv'
  BY <1>1, WeightsFlow
<1> QED BY <1>1, <1>2, <1>3, PhaseKeeps DEF Held

\* prepareLogicalViews: the lease has a descriptor of its own for each backing directory.
LEMMA OpenViewsKeeps ==
  ASSUME PlanInv, OpenViews
  PROVE  PlanInv'
<1>1. /\ phase = "views" /\ phase' = "serving" /\ lease' = <<root.dir>> \o root.anchors
      /\ root' = [root EXCEPT !.borrows = root.borrows + 1]
      /\ fds' = fds + 1 + Len(root.anchors)
      /\ UNCHANGED <<treeVars, target, follow, faults, cancelled, scanVars, handles>>
      /\ UNCHANGED <<request, weights, throughputVars>>
  BY DEF OpenViews, Flow, AcquireAccess, KeepMeasure
<1>2. /\ spc \in {"idle", "done"} /\ lease = <<>> /\ handles = {} /\ root.state = "open"
      /\ request # "list" /\ root.borrows = 0 /\ root.dir \in Dirs
  BY <1>1, DescriptorsNow DEF PlanInv, HolderInv
<1>3. /\ root'.state = "open" /\ root'.dir = root.dir /\ root'.borrows = 1
      /\ root'.anchors = root.anchors
      /\ root' \in [state : {"closed", "open", "transferred"}, scanned : BOOLEAN,
                    borrows : 0..2, anchors : Seq(Dirs), dir : Dirs \cup {Nil}]
  BY <1>1, <1>2, RootType
<1>4. fds = 1 + Len(root.anchors) /\ Len(root.anchors) \in Nat
  BY <1>1, <1>2, DescriptorsNow, RootType
<1>5. lease' \in Seq(Dirs \cup {Nil}) /\ Len(lease') = 1 + Len(root.anchors) /\ lease' # <<>>
  <2>1. root.anchors \in Seq(Dirs) /\ <<root.dir>> \in Seq(Dirs) /\ Len(<<root.dir>>) = 1
    BY <1>2, RootType
  <2>2. lease' \in Seq(Dirs) /\ Len(lease') = 1 + Len(root.anchors)
    BY <1>1, <2>1
  <2>3. lease' \in Seq(Dirs \cup {Nil})
    BY <2>2
  <2>4. lease' # <<>>
    BY <1>4, <2>2
  <2> QED BY <2>2, <2>3, <2>4
<1>6. RootOK'
  BY <1>1, <1>3, <1>4, <1>5 DEF PlanInv, PlanTypeOK, RootOK
<1>7. HolderInv'
  BY <1>1, <1>2, <1>3, <1>5 DEF HolderInv
<1>8. DescriptorsOwned'
  <2>1. /\ spc' \in {"idle", "done"} /\ phase' # "borrowed" /\ phase' # "closed"
        /\ root'.state # "closed" /\ Len(root'.anchors) = Len(root.anchors)
    BY <1>1, <1>2, <1>3
  <2>2. Cardinality(handles') = 0
    BY <1>1, <1>2, FS_EmptySet
  <2>3. fds' = 1 + Len(root.anchors) + 1 + Len(root.anchors)
    BY <1>1, <1>4
  <2>4. fds' = (1 + Len(root.anchors)) + 0 + 0 + Len(lease') + Cardinality(handles')
    BY <1>4, <1>5, <2>2, <2>3
  <2> QED BY <2>1, <2>4 DEF DescriptorsOwned
<1>9. WeightsInv'
  BY <1>1, WeightsFlow
<1> QED BY <1>1, <1>2, <1>6, <1>7, <1>8, <1>9, RootType, FlowKeeps

\* The views are closed, and the lease with them.
LEMMA CloseViewsKeeps ==
  ASSUME PlanInv, CloseViews
  PROVE  PlanInv'
<1>1. /\ phase = "ended" /\ phase' = "close" /\ lease' = <<>> /\ handles = {}
      /\ root' = [root EXCEPT !.borrows = root.borrows - 1]
      /\ fds' = fds - Len(lease)
      /\ UNCHANGED <<treeVars, target, follow, faults, cancelled, scanVars, handles>>
      /\ UNCHANGED <<request, weights, throughputVars>>
  BY DEF CloseViews, Flow, CloseAccess, KeepMeasure
<1>2. /\ spc \in {"idle", "done"} /\ root.state = "open"
      /\ request # "list" /\ root.borrows = 1 /\ root.dir \in Dirs
  BY <1>1, DescriptorsNow DEF PlanInv, HolderInv
<1>3. /\ root'.state = "open" /\ root'.dir = root.dir /\ root'.borrows = 0
      /\ root'.anchors = root.anchors
      /\ root' \in [state : {"closed", "open", "transferred"}, scanned : BOOLEAN,
                    borrows : 0..2, anchors : Seq(Dirs), dir : Dirs \cup {Nil}]
  BY <1>1, <1>2, RootType
<1>4. fds' = 1 + Len(root.anchors) /\ Len(root.anchors) \in Nat
  BY <1>1, <1>2, DescriptorsNow, RootType
<1>5. RootOK'
  BY <1>1, <1>3, <1>4 DEF PlanInv, PlanTypeOK, RootOK
<1>6. HolderInv'
  BY <1>1, <1>2, <1>3 DEF HolderInv
<1>7. DescriptorsOwned'
  BY <1>1, <1>2, <1>3, <1>4, RootType DEF DescriptorsOwned
<1>8. WeightsInv'
  BY <1>1, WeightsFlow
<1> QED BY <1>1, <1>2, <1>5, <1>6, <1>7, <1>8, RootType, FlowKeeps

\* SourceRoot.Close.
LEMMA CloseSourceKeeps ==
  ASSUME PlanInv, CloseSource
  PROVE  PlanInv'
<1>1. /\ phase = "close" /\ phase' = "closed"
      /\ root' = [root EXCEPT !.state = "closed", !.anchors = <<>>]
      /\ fds' = fds - 1 - Len(root.anchors)
      /\ UNCHANGED <<treeVars, target, follow, faults, cancelled, scanVars, useVars>>
      /\ UNCHANGED <<request, weights, throughputVars>>
  BY DEF CloseSource, Flow, CloseRoot, KeepMeasure
<1>2. /\ spc \in {"idle", "done"} /\ root.state = "open" /\ lease = <<>> /\ handles = {}
      /\ request # "list" /\ root.borrows = 0
  BY <1>1, DescriptorsNow DEF PlanInv, HolderInv
<1>3. /\ root'.state = "closed" /\ root'.borrows = 0 /\ root'.anchors = <<>>
      /\ root' \in [state : {"closed", "open", "transferred"}, scanned : BOOLEAN,
                    borrows : 0..2, anchors : Seq(Dirs), dir : Dirs \cup {Nil}]
  <2>1. <<>> \in Seq(Dirs) /\ "closed" \in {"closed", "open", "transferred"}
    OBVIOUS
  <2> QED BY <1>1, <1>2, <2>1, RootType
<1>4. fds' = 0
  BY <1>1, <1>2, DescriptorsNow, RootType
<1>5. RootOK'
  BY <1>1, <1>3, <1>4 DEF PlanInv, PlanTypeOK, RootOK
<1>6. HolderInv'
  BY <1>1, <1>2, <1>3 DEF HolderInv
<1>7. DescriptorsOwned'
  BY <1>1, <1>2, <1>3, <1>4, RootType DEF DescriptorsOwned
<1>8. WeightsInv'
  BY <1>1, WeightsFlow
<1> QED BY <1>1, <1>2, <1>5, <1>6, <1>7, <1>8, RootType, FlowKeeps

-----------------------------------------------------------------------------
(* The commands                                                            *)

\* A file is opened or closed through the lease.
LEMMA HandlesKeep ==
  ASSUME PlanInv, phase \in {"serving", "ended"},
         UNCHANGED <<request, phase, weights, throughputVars>>,
         UNCHANGED <<treeVars, target, follow, faults, cancelled, root, scanVars, lease>>,
         IsFiniteSet(handles'), \A h \in handles' : h.transfer \in Targets /\ h.file \in Files,
         fds' = fds + Cardinality(handles') - Cardinality(handles), fds' \in Nat
  PROVE  PlanInv'
<1>1. RootOK'
  BY DEF PlanInv, PlanTypeOK, RootOK
<1>2. HolderInv'
  BY DEF PlanInv, HolderInv
<1>3. spc \in {"idle", "done"} /\ Cardinality(handles') \in Nat
  BY DescriptorsNow, FS_CardinalityType
<1>4. DescriptorsOwned'
  <2>1. /\ phase # "borrowed" /\ phase # "closed" /\ request # "list" /\ root.state = "open"
    BY DEF PlanInv, HolderInv
  <2>2. /\ Len(root.anchors) \in Nat /\ Len(lease) \in Nat /\ Cardinality(handles) \in Nat
        /\ fds = 1 + Len(root.anchors) + Len(lease) + Cardinality(handles)
    BY <1>3, <2>1, DescriptorsNow, RootType
  <2>3. fds' = (1 + Len(root.anchors)) + 0 + 0 + Len(lease) + Cardinality(handles')
    BY <1>3, <2>2
  <2>4. /\ spc' = spc /\ phase' = phase /\ root' = root /\ lease' = lease
    OBVIOUS
  <2> QED BY <1>3, <2>1, <2>3, <2>4 DEF DescriptorsOwned
<1>5. WeightsInv'
  BY WeightsKept DEF PlanInv
<1> QED BY <1>1, <1>2, <1>3, <1>4, <1>5, RootType, FlowKeeps

\* regularFileNode.Open.
LEMMA OpenFileKeeps ==
  ASSUME PlanInv, NEW t \in Targets, NEW e, OpenFile(t, e)
  PROVE  PlanInv'
<1> DEFINE file == OpenBacking(lease, e.backing)
           handle == [transfer |-> t, entry |-> e, file |-> file]
<1>1. /\ phase = "serving" /\ file \in Files /\ handle \notin handles
      /\ handles' = handles \cup {handle} /\ fds' = fds + 1
      /\ UNCHANGED <<treeVars, target, follow, faults, cancelled, root, scanVars, lease>>
      /\ UNCHANGED <<request, phase, weights, throughputVars>>
  BY DEF OpenFile, KeepMeasure
<1>2. handle.transfer \in Targets /\ handle.file \in Files
  BY <1>1
<1> HIDE DEF file, handle
<1>3. IsFiniteSet(handles') /\ Cardinality(handles') = Cardinality(handles) + 1
      /\ Cardinality(handles) \in Nat /\ fds \in Nat
  BY <1>1, RootType, FS_AddElement
<1>4. \A h \in handles' : h.transfer \in Targets /\ h.file \in Files
  BY <1>1, <1>2 DEF PlanInv, PlanTypeOK, RootOK
<1> QED BY <1>1, <1>3, <1>4, HandlesKeep

\* readOnlyFile.Release.
LEMMA ReleaseFileKeeps ==
  ASSUME PlanInv, NEW h \in handles, ReleaseFile(h)
  PROVE  PlanInv'
<1>1. /\ handles' = handles \ {h} /\ fds' = fds - 1
      /\ UNCHANGED <<treeVars, target, follow, faults, cancelled, root, scanVars, lease>>
      /\ UNCHANGED <<request, phase, weights, throughputVars>>
  BY DEF ReleaseFile, KeepMeasure
<1>2. phase \in {"serving", "ended"}
  BY DEF PlanInv, HolderInv
<1>3. IsFiniteSet(handles') /\ Cardinality(handles') = Cardinality(handles) - 1
  BY <1>1, RootType, FS_RemoveElement
<1>4. Cardinality(handles) \in Nat /\ fds \in Nat /\ Cardinality(handles') \in Nat
  BY <1>3, RootType, FS_CardinalityType
<1>5. fds' \in Nat
  <2>1. fds >= Cardinality(handles)
    <3>1. /\ phase # "borrowed" /\ root.state = "open" /\ spc \in {"idle", "done"}
      BY <1>2 DEF PlanInv, HolderInv
    <3>2. /\ Len(root.anchors) \in Nat /\ Len(lease) \in Nat
          /\ fds = 1 + Len(root.anchors) + Len(lease) + Cardinality(handles)
      BY <1>2, <3>1, DescriptorsNow, RootType
    <3> QED BY <1>4, <3>2
  <2> QED BY <1>1, <1>3, <1>4, <2>1
<1>6. \A g \in handles' : g.transfer \in Targets /\ g.file \in Files
  BY <1>1 DEF PlanInv, PlanTypeOK, RootOK
<1> QED BY <1>1, <1>2, <1>3, <1>4, <1>5, <1>6, HandlesKeep

-----------------------------------------------------------------------------
(* Where a backing reference leads                                         *)

\* Route begins in its directory and goes on name by name.
LEMMA RouteUnfolds ==
  ASSUME NEW tree, NEW from, NEW names, Len(names) \in Nat
  PROVE  /\ Route(tree, from, names)[0] = from
         /\ \A k \in 1..Len(names) :
              Route(tree, from, names)[k] =
                IF Route(tree, from, names)[k - 1] \in Dirs
                THEN tree[Route(tree, from, names)[k - 1]][names[k]] ELSE Nil
<1> DEFINE Step(f, k) == IF k = 0 THEN from
                         ELSE IF f[k - 1] \in Dirs THEN tree[f[k - 1]][names[k]] ELSE Nil
           Is(f, n) == f = [k \in 0..n |-> Step(f, k)]
           S == {n \in 0..Len(names) : ~\E f : Is(f, n)}
<1>1. S = {}
  <2>1. SUFFICES ASSUME S # {} PROVE FALSE
    OBVIOUS
  <2>2. PICK m \in S : \A n \in S : m <= n
    <3>1. S \in SUBSET Nat
      OBVIOUS
    <3> HIDE DEF S
    <3> QED BY <2>1, <3>1, MinOfNumbers
  <2>3. m # 0
    <3> DEFINE f == [k \in 0..0 |-> from]
    <3>1. f = [k \in 0..0 |-> Step(f, k)]
      OBVIOUS
    <3>2. Is(f, 0)
      BY <3>1
    <3> QED BY <3>2
  <2>4. m - 1 \in 0..Len(names) /\ m - 1 \notin S /\ m \in Nat
    BY <2>2, <2>3
  <2>5. PICK f : f = [k \in 0..(m - 1) |-> Step(f, k)]
    BY <2>4
  <2> DEFINE last == IF f[m - 1] \in Dirs THEN tree[f[m - 1]][names[m]] ELSE Nil
             g == [k \in 0..m |-> IF k = m THEN last ELSE f[k]]
  <2>6. \A k \in 0..m : g[k] = Step(g, k)
    <3>1. SUFFICES ASSUME NEW k \in 0..m PROVE g[k] = Step(g, k)
      OBVIOUS
    <3>2. CASE k = m
      <4>1. g[m] = last /\ g[m - 1] = f[m - 1]
        BY <2>3, <2>4
      <4> QED BY <2>3, <3>2, <4>1
    <3>3. CASE k # m
      <4>1. k \in 0..(m - 1) /\ g[k] = f[k]
        BY <2>4, <3>3
      <4>2. f[k] = Step(f, k)
        <5> HIDE DEF Step
        <5> QED BY <2>5, <4>1
      <4>3. k # 0 => g[k - 1] = f[k - 1]
        BY <2>4, <4>1
      <4> QED BY <4>1, <4>2, <4>3
    <3> QED BY <3>2, <3>3
  <2>7. g = [k \in 0..m |-> g[k]]
    OBVIOUS
  <2>8. g = [k \in 0..m |-> Step(g, k)]
    <3> HIDE DEF g, Step
    <3> QED BY <2>6, <2>7
  <2>9. Is(g, m)
    BY <2>8
  <2> QED BY <2>2, <2>9
<1>2. Len(names) \in 0..Len(names) /\ Len(names) \notin S
  BY <1>1
<1>3. \E f : f = [k \in 0..Len(names) |-> Step(f, k)]
  BY <1>2
<1> DEFINE r == CHOOSE f : f = [k \in 0..Len(names) |-> Step(f, k)]
<1>4. r = [k \in 0..Len(names) |-> Step(r, k)]
  <2> HIDE DEF Step
  <2> QED BY <1>3
<1>5. Route(tree, from, names) = r
  BY DEF Route
<1> HIDE DEF r
<1>6. \A k \in 0..Len(names) : r[k] = Step(r, k)
  <2> HIDE DEF Step
  <2> QED BY <1>4
<1>7. r[0] = from
  BY <1>6
<1>8. \A k \in 1..Len(names) : r[k] = IF r[k - 1] \in Dirs THEN tree[r[k - 1]][names[k]] ELSE Nil
  <2>1. \A k \in 1..Len(names) : k \in 0..Len(names) /\ k # 0
    OBVIOUS
  <2> QED BY <1>6, <2>1
<1> QED BY <1>5, <1>7, <1>8

\* Two routes agree as long as their names do and the trees denote the same.
LEMMA RoutesAgree ==
  ASSUME NEW tree, NEW tree2, NEW from, NEW names, NEW names2,
         Len(names) \in Nat, Len(names2) \in Nat, NEW n \in Nat,
         n <= Len(names), n <= Len(names2),
         \A k \in 1..n : names[k] = names2[k],
         \A k \in 1..n : Route(tree2, from, names2)[k - 1] \in Dirs =>
            tree[Route(tree2, from, names2)[k - 1]][names2[k]]
              = tree2[Route(tree2, from, names2)[k - 1]][names2[k]]
  PROVE  \A k \in 0..n : Route(tree, from, names)[k] = Route(tree2, from, names2)[k]
<1> DEFINE r == Route(tree, from, names)
           q == Route(tree2, from, names2)
           S == {k \in 0..n : r[k] # q[k]}
<1>1. r[0] = from /\ q[0] = from
  BY RouteUnfolds
<1>2. \A k \in 1..n : r[k] = IF r[k - 1] \in Dirs THEN tree[r[k - 1]][names[k]] ELSE Nil
  BY RouteUnfolds
<1>3. \A k \in 1..n : q[k] = IF q[k - 1] \in Dirs THEN tree2[q[k - 1]][names2[k]] ELSE Nil
  BY RouteUnfolds
<1>4. \A k \in 1..n : q[k - 1] \in Dirs => tree[q[k - 1]][names2[k]] = tree2[q[k - 1]][names2[k]]
  OBVIOUS
<1> HIDE DEF r, q
<1>5. SUFFICES ASSUME S # {} PROVE FALSE
  BY DEF r, q
<1>6. PICK m \in S : \A k \in S : m <= k
  <2>1. S \in SUBSET Nat
    OBVIOUS
  <2> HIDE DEF S
  <2> QED BY <1>5, <2>1, MinOfNumbers
<1>7. m # 0
  BY <1>1, <1>6
<1>8. m \in 1..n /\ m - 1 \in 0..n /\ m - 1 \notin S
  BY <1>6, <1>7
<1>9. r[m - 1] = q[m - 1]
  BY <1>8
<1>10. r[m] = IF q[m - 1] \in Dirs THEN tree[q[m - 1]][names2[m]] ELSE Nil
  <2>1. names[m] = names2[m]
    BY <1>8
  <2> QED BY <1>2, <1>8, <1>9, <2>1
<1>11. r[m] = q[m]
  BY <1>3, <1>4, <1>8, <1>10
<1> QED BY <1>6, <1>11

\* An object is found along the names from a directory, unless one of them changed.
Found(tree, changed, from, names, object) ==
  LET route == Route(tree, from, names)
  IN {<<route[k - 1], names[k]>> : k \in DOMAIN names} \cap changed = {} =>
       route[Len(names)] = object

\* This is what OpenInv says of a reference.
LEMMA ReachesFound ==
  ASSUME NEW reference, NEW object
  PROVE  Reaches(Anchors, reference, object)
           <=> /\ reference.anchor + 1 \in DOMAIN Anchors
               /\ Found(entries, touched, Anchors[reference.anchor + 1], reference.names, object)
BY DEF Reaches, Found, Slots, OpenBacking

\* Nothing is to be opened below the directory itself.
LEMMA FoundHere ==
  ASSUME NEW tree, NEW changed, NEW from
  PROVE  Found(tree, changed, from, <<>>, from)
BY RouteUnfolds DEF Found

\* What a directory has under a name is found there.
LEMMA FoundBelow ==
  ASSUME NEW tree, NEW changed, NEW from, NEW names \in Seq(Names), NEW n \in Names,
         NEW d \in Dirs, Found(tree, changed, from, names, d)
  PROVE  Found(tree, changed, from, Append(names, n), tree[d][n])
<1> DEFINE longer == Append(names, n)
           r == Route(tree, from, longer)
           q == Route(tree, from, names)
<1>1. /\ Len(names) \in Nat /\ Len(longer) = Len(names) + 1 /\ Len(longer) \in Nat
      /\ longer[Len(names) + 1] = n /\ DOMAIN names = 1..Len(names)
      /\ DOMAIN longer = 1..(Len(names) + 1)
      /\ \A k \in 1..Len(names) : longer[k] = names[k]
  OBVIOUS
<1>2. r[Len(names) + 1] = IF r[Len(names)] \in Dirs THEN tree[r[Len(names)]][n] ELSE Nil
  <2>1. Len(names) + 1 \in 1..Len(longer) /\ (Len(names) + 1) - 1 = Len(names)
    BY <1>1
  <2> HIDE DEF longer
  <2> QED BY <1>1, <2>1, RouteUnfolds
<1>3. \A k \in 0..Len(names) : r[k] = q[k]
  <2> HIDE DEF longer
  <2> QED BY <1>1, RoutesAgree
<1>4. SUFFICES ASSUME {<<r[k - 1], longer[k]>> : k \in DOMAIN longer} \cap changed = {}
               PROVE  r[Len(longer)] = tree[d][n]
  BY DEF Found
<1>5. {<<q[k - 1], names[k]>> : k \in DOMAIN names} \cap changed = {}
  <2>1. SUFFICES ASSUME NEW k \in DOMAIN names PROVE <<q[k - 1], names[k]>> \notin changed
    OBVIOUS
  <2>2. k \in DOMAIN longer /\ q[k - 1] = r[k - 1] /\ longer[k] = names[k]
    <3> HIDE DEF longer, r, q
    <3> QED BY <1>1, <1>3
  <2> QED BY <1>4, <2>2
<1>6. q[Len(names)] = d
  BY <1>5 DEF Found
<1>7. r[Len(names)] = d
  BY <1>1, <1>3, <1>6
<1> QED BY <1>1, <1>2, <1>7

\* Changes that are recorded keep what is found.
LEMMA FoundAfter ==
  ASSUME NEW tree, NEW tree2, NEW changed, NEW changed2, NEW from, NEW names \in Seq(Names),
         NEW object, Found(tree, changed, from, names, object), changed \subseteq changed2,
         \A d \in Dirs, n \in Names : tree2[d][n] = tree[d][n] \/ <<d, n>> \in changed2
  PROVE  Found(tree2, changed2, from, names, object)
<1> DEFINE r == Route(tree, from, names)
           q == Route(tree2, from, names)
<1>1. SUFFICES ASSUME {<<q[k - 1], names[k]>> : k \in DOMAIN names} \cap changed2 = {}
               PROVE  q[Len(names)] = object
  BY DEF Found
<1>2. /\ Len(names) \in Nat /\ DOMAIN names = 1..Len(names)
      /\ \A k \in 1..Len(names) : names[k] \in Names
  OBVIOUS
<1>3. \A k \in 1..Len(names) :
        q[k - 1] \in Dirs => tree[q[k - 1]][names[k]] = tree2[q[k - 1]][names[k]]
  <2>1. SUFFICES ASSUME NEW k \in 1..Len(names), q[k - 1] \in Dirs
                 PROVE  tree[q[k - 1]][names[k]] = tree2[q[k - 1]][names[k]]
    OBVIOUS
  <2>2. <<q[k - 1], names[k]>> \notin changed2
    BY <1>1, <1>2
  <2> QED BY <1>2, <2>1, <2>2
<1>4. \A k \in 0..Len(names) : r[k] = q[k]
  <2>1. Len(names) <= Len(names) /\ \A k \in 1..Len(names) : names[k] = names[k]
    BY <1>2
  <2>2. Len(names) \in Nat
    BY <1>2
  <2>3. \A k \in 1..Len(names) : Route(tree2, from, names)[k - 1] \in Dirs =>
            tree[Route(tree2, from, names)[k - 1]][names[k]]
              = tree2[Route(tree2, from, names)[k - 1]][names[k]]
    BY <1>3
  <2>4. \A k \in 0..Len(names) : Route(tree, from, names)[k] = Route(tree2, from, names)[k]
    BY ONLY <2>1, <2>2, <2>3, RoutesAgree
  <2> QED BY <2>4
<1>5. {<<r[k - 1], names[k]>> : k \in DOMAIN names} \cap changed = {}
  <2>1. SUFFICES ASSUME NEW k \in DOMAIN names PROVE <<r[k - 1], names[k]>> \notin changed
    OBVIOUS
  <2>2. r[k - 1] = q[k - 1]
    BY <1>2, <1>4
  <2> QED BY <1>1, <2>2
<1>6. r[Len(names)] = object
  BY <1>5 DEF Found
<1> QED BY <1>2, <1>4, <1>6

-----------------------------------------------------------------------------
(* The tree that is captured                                               *)

\* A name below a path.
LEMMA AppendFacts ==
  ASSUME NEW p \in Seq(Names), NEW n \in Names
  PROVE  /\ Append(p, n) \in Seq(Names) /\ Len(Append(p, n)) = Len(p) + 1 /\ Len(p) \in Nat
         /\ Append(p, n) # <<>> /\ Front(Append(p, n)) = p
         /\ Append(p, n)[Len(p) + 1] = n
<1>1. Append(p, n) \in Seq(Names) /\ Len(Append(p, n)) = Len(p) + 1 /\ Len(p) \in Nat
  OBVIOUS
<1>2. Append(p, n) # <<>>
  BY <1>1
<1>3. Front(Append(p, n)) = p
  <2> DEFINE s == Append(p, n)
  <2>1. Len(p) \in Nat /\ Len(s) - 1 = Len(p) /\ \A k \in 1..Len(p) : s[k] = p[k]
    OBVIOUS
  <2>2. s \in Seq(Names)
    OBVIOUS
  <2>3. Front(s) = SubSeq(s, 1, Len(p))
    BY <2>1 DEF Front
  <2> HIDE DEF s
  <2>4. Front(s) = [k \in 1..Len(p) |-> s[k]]
    BY <2>1, <2>2, <2>3
  <2>5. p = [k \in 1..Len(p) |-> p[k]]
    OBVIOUS
  <2> QED BY <2>1, <2>4, <2>5 DEF s
<1>4. Append(p, n)[Len(p) + 1] = n
  OBVIOUS
<1> QED BY <1>1, <1>2, <1>3, <1>4

\* The directories being scanned, one inside the other...
LEMMA ScanDepth ==
  ASSUME PlanInv, CaptureInv, spc \notin {"idle", "done"}
  PROVE  /\ stack \in Seq(Frames)
         /\ Len(stack) \in Nat /\ Len(stack) \in DOMAIN stack /\ Len(stack) >= 1
         /\ \A k : k \in DOMAIN stack <=> k \in Nat /\ 1 <= k /\ k <= Len(stack)
         /\ Top = stack[Len(stack)] /\ Top.path \in Seq(Names) /\ Len(Top.path) = Len(stack) - 1
         /\ \A k \in DOMAIN stack : /\ stack[k] \in Frames /\ stack[k].path \in Seq(Names)
                                    /\ Len(stack[k].path) = k - 1
                                    /\ SeenNames(stack[k]) \subseteq Names
<1>1. stack \in Seq(Frames) /\ Top = stack[Len(stack)] /\ Len(stack) \in DOMAIN stack
      /\ Len(stack) \in Nat
  BY ScanTop
<1>2. \A k : k \in DOMAIN stack <=> k \in Nat /\ 1 <= k /\ k <= Len(stack)
  BY <1>1
<1>3. Len(stack) >= 1
  BY <1>1, <1>2
<1>4. \A k \in DOMAIN stack : stack[k] \in Frames
  BY <1>1
<1>5. \A k \in DOMAIN stack : stack[k].path \in Seq(Names) /\ SeenNames(stack[k]) \subseteq Names
  BY <1>4, FrameFields DEF SeenNames
<1>6. \A k \in DOMAIN stack : Len(stack[k].path) = k - 1
  BY DEF CaptureInv, StackInv
<1>7. Top.path \in Seq(Names) /\ Len(Top.path) = Len(stack) - 1
  <2> DEFINE n == Len(stack)
  <2>1. Top = stack[n] /\ n \in DOMAIN stack
    BY <1>1
  <2> HIDE DEF n
  <2>2. Top.path \in Seq(Names) /\ Len(Top.path) = n - 1
    BY <1>5, <1>6, <2>1
  <2> QED BY <2>2 DEF n
<1> QED BY <1>1, <1>2, <1>3, <1>4, <1>5, <1>6, <1>7

\* ...and the entry being captured inside the innermost.
LEMMA ScanPaths ==
  ASSUME PlanInv, CaptureInv, spc \notin {"idle", "done"}
  PROVE  /\ item.name \in Names /\ ItemPath = Append(Top.path, item.name)
         /\ ItemPath \in Seq(Names) /\ Front(ItemPath) = Top.path /\ ItemPath # <<>>
         /\ \A k \in DOMAIN stack : stack[k].path # ItemPath
         /\ \A k \in DOMAIN stack : \A n \in Names :
              Append(stack[k].path, n) = ItemPath => k = Len(stack) /\ n = item.name
         /\ Len(ItemPath) = Len(stack)
<1>1. item.name \in Names
  BY DEF PlanInv, PlanTypeOK, ScanOK
<1>2. ItemPath = Append(Top.path, item.name)
  BY DEF ItemPath
<1>3. Top.path \in Seq(Names) /\ Len(Top.path) = Len(stack) - 1 /\ Len(stack) \in Nat
  BY ScanDepth
<1>4. ItemPath \in Seq(Names) /\ Front(ItemPath) = Top.path /\ ItemPath # <<>>
      /\ Len(ItemPath) = Len(Top.path) + 1 /\ Len(Top.path) \in Nat
  BY <1>1, <1>2, <1>3, AppendFacts
<1>5. Len(ItemPath) = Len(stack)
  BY <1>3, <1>4
<1>6. ASSUME NEW k \in DOMAIN stack PROVE stack[k].path # ItemPath
  <2>1. Len(stack[k].path) = k - 1 /\ k \in Nat /\ k <= Len(stack)
    BY ScanDepth
  <2>2. Len(stack[k].path) # Len(ItemPath)
    BY <1>3, <1>5, <2>1
  <2> QED BY <2>2
<1>7. ASSUME NEW k \in DOMAIN stack, NEW n \in Names, Append(stack[k].path, n) = ItemPath
      PROVE  k = Len(stack) /\ n = item.name
  <2>1. stack[k].path \in Seq(Names)
    BY ScanDepth
  <2>2. Top.path = stack[k].path /\ item.name = n
    <3>1. Append(Top.path, item.name) = Append(stack[k].path, n)
      BY <1>2, <1>7, Zenon
    <3>2. /\ Front(Append(Top.path, item.name)) = Top.path
          /\ Append(Top.path, item.name)[Len(Top.path) + 1] = item.name
      BY <1>1, <1>3, AppendFacts, Zenon
    <3>3. /\ Front(Append(stack[k].path, n)) = stack[k].path
          /\ Append(stack[k].path, n)[Len(stack[k].path) + 1] = n
      BY <2>1, AppendFacts, Zenon
    <3> QED BY <3>1, <3>2, <3>3, Zenon
  <2>3. Len(stack[k].path) = k - 1 /\ k \in Nat
    BY ScanDepth
  <2> QED BY <1>3, <2>2, <2>3
<1> QED BY <1>1, <1>2, <1>4, <1>5, <1>6, <1>7

\* Nothing is captured any more, or the scan has returned what it captured.
LEMMA ReturnCapture ==
  ASSUME PlanInv, CaptureInv, stack' = <<>>, spc' = "done",
         captured' = {} \/ (captured' = captured /\ Len(stack) <= 1 /\ stack \in Seq(Frames))
  PROVE  CaptureInv'
<1>1. StackInv' /\ ItemInv'
  BY DEF StackInv, ItemInv, Active
<1>2. TreeInv'
  <2>1. CASE captured' = {}
    BY <2>1 DEF TreeInv
  <2>2. CASE captured' = captured /\ Len(stack) <= 1 /\ stack \in Seq(Frames)
    <3>1. OnThePath \subseteq {<<>>}
      <4>1. SUFFICES ASSUME NEW k \in DOMAIN stack PROVE stack[k].path = <<>>
        BY DEF OnThePath
      <4>2. k = 1 /\ stack[k].path \in Seq(Names)
        BY <2>2, FrameFields
      <4>3. Len(stack[k].path) = 0
        BY <4>2 DEF CaptureInv, StackInv
      <4> QED BY <4>2, <4>3
    <3> QED BY <2>2, <3>1 DEF CaptureInv, TreeInv
  <2> QED BY <2>1, <2>2
<1> QED BY <1>1, <1>2 DEF CaptureInv

\* A step about the entry that is being captured, or the end of it.
LEMMA StayCapture ==
  ASSUME CaptureInv, UNCHANGED <<stack, captured>>,
         Active' => Active /\ UNCHANGED item
  PROVE  CaptureInv'
<1>1. Paths' = Paths /\ OnThePath' = OnThePath
  BY DEF Paths, OnThePath
<1>2. \A k : SeenNames(stack'[k]) = SeenNames(stack[k])
  BY DEF SeenNames
<1>3. StackInv'
  BY <1>1, <1>2 DEF CaptureInv, StackInv, SeenNames
<1>4. TreeInv'
  BY <1>1 DEF CaptureInv, TreeInv
<1>5. ItemInv'
  BY <1>1 DEF CaptureInv, ItemInv, ItemPath, Top, SeenNames
<1> QED BY <1>3, <1>4, <1>5 DEF CaptureInv

\* The innermost activation has seen more.
LEMMA SetTopCapture ==
  ASSUME CaptureInv, stack \in Seq(Frames), stack # <<>>, NEW g \in Frames, SetTop(g),
         g.path = Top.path, Top.seen \subseteq g.seen, UNCHANGED captured
  PROVE  StackInv' /\ TreeInv'
<1>1. /\ DOMAIN stack' = DOMAIN stack
      /\ \A k \in DOMAIN stack : /\ stack'[k].path = stack[k].path
                                 /\ stack[k].seen \subseteq stack'[k].seen
  BY SetTopStack DEF Top
<1>2. \A k \in DOMAIN stack : SeenNames(stack[k]) \subseteq SeenNames(stack'[k])
  BY <1>1 DEF SeenNames
<1>3. Paths' = Paths /\ OnThePath' = OnThePath
  BY <1>1 DEF Paths, OnThePath
<1>4. StackInv'
  <2>1. SUFFICES ASSUME NEW k \in DOMAIN stack
                 PROVE  /\ Len(stack'[k].path) = k - 1 /\ stack'[k].path \notin Paths
                        /\ k > 1 => \E n \in SeenNames(stack'[k - 1]) :
                                      stack'[k].path = Append(stack'[k - 1].path, n)
                        /\ \A n \in Names : Append(stack'[k].path, n) \in Paths
                                              => n \in SeenNames(stack'[k])
    BY <1>1, <1>3 DEF StackInv, SeenNames
  <2>2. k > 1 => k - 1 \in DOMAIN stack
    OBVIOUS
  <2> QED BY <1>1, <1>2, <2>2 DEF CaptureInv, StackInv
<1>5. TreeInv'
  BY <1>3 DEF CaptureInv, TreeInv
<1> QED BY <1>4, <1>5

\* captureDirectory goes into the directory of the entry.
LEMMA PushCapture ==
  ASSUME PlanInv, CaptureInv, Active, NEW g \in Frames, Push(g), g.path = ItemPath,
         UNCHANGED captured, ~Active'
  PROVE  CaptureInv'
<1>1. /\ spc \notin {"idle", "done"} /\ stack \in Seq(Frames) /\ Len(stack) \in Nat
      /\ Top = stack[Len(stack)]
      /\ item.name \in Names /\ ItemPath = Append(Top.path, item.name)
      /\ ItemPath \in Seq(Names) /\ Len(ItemPath) = Len(stack) /\ ItemPath # <<>>
  <2>1. spc \notin {"idle", "done"}
    BY DEF Active
  <2> QED BY <2>1, ScanDepth, ScanPaths
<1>2. /\ DOMAIN stack' = DOMAIN stack \cup {Len(stack) + 1}
      /\ stack'[Len(stack) + 1] = g /\ \A k \in DOMAIN stack : stack'[k] = stack[k]
  BY <1>1, PushStack
<1>3. Paths' = Paths /\ OnThePath' = OnThePath \cup {ItemPath}
  BY <1>2 DEF Paths, OnThePath
<1>4. ItemPath \notin OnThePath /\ ItemPath \notin Paths /\ item.name \in SeenNames(Top)
  <2>1. ItemPath \notin OnThePath
    BY <1>1, ScanPaths DEF OnThePath
  <2> QED BY <2>1 DEF CaptureInv, ItemInv
<1>5. \A n \in Names : Append(ItemPath, n) \notin Paths
  <2>1. SUFFICES ASSUME NEW n \in Names, NEW e \in captured, e.path = Append(ItemPath, n)
                 PROVE  FALSE
    BY DEF Paths
  <2>2. Front(e.path) = ItemPath
    BY <1>1, <2>1, AppendFacts
  <2>3. ItemPath \in OnThePath \cup {<<>>} \/ \E d \in captured : d.path = ItemPath
    BY <2>2 DEF CaptureInv, TreeInv
  <2> QED BY <1>1, <1>4, <2>3 DEF Paths
<1>6. StackInv'
  <2>1. SUFFICES ASSUME NEW k \in DOMAIN stack'
                 PROVE  /\ Len(stack'[k].path) = k - 1 /\ stack'[k].path \notin Paths
                        /\ k > 1 => \E n \in SeenNames(stack'[k - 1]) :
                                      stack'[k].path = Append(stack'[k - 1].path, n)
                        /\ \A n \in Names : Append(stack'[k].path, n) \in Paths
                                              => n \in SeenNames(stack'[k])
    BY <1>3 DEF StackInv, SeenNames
  <2>2. CASE k \in DOMAIN stack
    <3>1. k > 1 => k - 1 \in DOMAIN stack
      <4>1. k \in Nat /\ k <= Len(stack) /\ Len(stack) \in Nat
        BY <1>1, <2>2, ScanDepth
      <4>2. k > 1 => k - 1 \in Nat /\ 1 <= k - 1 /\ k - 1 <= Len(stack)
        BY <4>1
      <4> QED BY <1>1, <4>2, ScanDepth
    <3>2. stack'[k] = stack[k] /\ (k > 1 => stack'[k - 1] = stack[k - 1])
      BY <1>2, <2>2, <3>1
    <3> QED BY <2>2, <3>2 DEF CaptureInv, StackInv
  <2>3. CASE k = Len(stack) + 1
    <3>1. stack'[k] = g /\ stack'[k - 1] = Top
      <4>1. k - 1 = Len(stack) /\ Len(stack) \in DOMAIN stack
        BY <1>1, <2>3, ScanDepth
      <4> QED BY <1>1, <1>2, <2>3, <4>1
    <3>2. Len(stack'[k].path) = k - 1
      <4>1. k - 1 = Len(stack)
        BY <1>1, <2>3
      <4> QED BY <1>1, <3>1, <4>1
    <3> QED BY <1>1, <1>4, <1>5, <3>1, <3>2
  <2> QED BY <1>2, <2>2, <2>3
<1>7. TreeInv'
  BY <1>3 DEF CaptureInv, TreeInv
<1>8. ItemInv'
  BY DEF ItemInv
<1> QED BY <1>6, <1>7, <1>8 DEF CaptureInv

\* A file is captured.
LEMMA AddCapture ==
  ASSUME PlanInv, CaptureInv, Active, NEW e, e.path = ItemPath, captured' = captured \cup {e},
         UNCHANGED stack, ~Active'
  PROVE  CaptureInv'
<1>1. /\ spc \notin {"idle", "done"} /\ Top = stack[Len(stack)] /\ Len(stack) \in DOMAIN stack
      /\ Front(ItemPath) = Top.path /\ ItemPath # <<>>
  <2>1. spc \notin {"idle", "done"}
    BY DEF Active
  <2> QED BY <2>1, ScanDepth, ScanPaths
<1>2. Paths' = Paths \cup {ItemPath} /\ OnThePath' = OnThePath
  BY DEF Paths, OnThePath
<1>3. ItemPath \notin Paths /\ item.name \in SeenNames(Top) /\ Top.path \in OnThePath
  <2>1. Top.path \in OnThePath
    BY <1>1 DEF OnThePath
  <2> QED BY <2>1 DEF CaptureInv, ItemInv
<1>4. StackInv'
  <2>1. SUFFICES ASSUME NEW k \in DOMAIN stack
                 PROVE  /\ stack[k].path # ItemPath
                        /\ \A n \in Names : Append(stack[k].path, n) = ItemPath
                                              => n \in SeenNames(stack[k])
    BY <1>2 DEF CaptureInv, StackInv, SeenNames
  <2>2. stack[k].path # ItemPath
    BY <1>1, ScanPaths
  <2>3. ASSUME NEW n \in Names, Append(stack[k].path, n) = ItemPath
        PROVE  n \in SeenNames(stack[k])
    <3>1. n = item.name /\ k = Len(stack)
      BY <1>1, <2>3, ScanPaths
    <3> QED BY <1>1, <1>3, <3>1
  <2> QED BY <2>2, <2>3
<1>5. TreeInv'
  <2>1. SUFFICES ASSUME NEW f \in captured'
                 PROVE  /\ \A h \in captured' : f.path = h.path => f = h
                        /\ f.path # <<>>
                        /\ \/ Front(f.path) \in OnThePath \cup {<<>>}
                           \/ \E d \in captured' : d.kind = "directory" /\ d.path = Front(f.path)
    BY <1>2 DEF TreeInv
  <2>2. \A h \in captured' : f.path = h.path => f = h
    BY <1>3 DEF CaptureInv, TreeInv, Paths
  <2>3. CASE f = e
    BY <1>1, <1>3, <2>2, <2>3
  <2>4. CASE f \in captured
    BY <2>2, <2>4 DEF CaptureInv, TreeInv
  <2> QED BY <2>3, <2>4
<1>6. ItemInv'
  BY DEF ItemInv
<1> QED BY <1>4, <1>5, <1>6 DEF CaptureInv

\* captureDirectory comes back and adds the directory.
LEMMA PopCapture ==
  ASSUME PlanInv, CaptureInv, spc \notin {"idle", "done"}, Len(stack) > 1, NEW e,
         e.path = Top.path, e.kind = "directory", captured' = captured \cup {e},
         stack' = Front(stack), ~Active'
  PROVE  CaptureInv'
<1>1. /\ stack \in Seq(Frames) /\ Len(stack) \in Nat /\ Len(stack) \in DOMAIN stack
      /\ Top = stack[Len(stack)] /\ Top.path \in Seq(Names)
      /\ \A k : k \in DOMAIN stack <=> k \in Nat /\ 1 <= k /\ k <= Len(stack)
  BY ScanDepth
<1>2. /\ \A k : k \in DOMAIN stack' <=> k \in DOMAIN stack /\ k # Len(stack)
      /\ \A k \in DOMAIN stack' : stack'[k] = stack[k]
  BY <1>1, PopStack
<1>3. Paths' = Paths \cup {Top.path} /\ OnThePath \subseteq OnThePath' \cup {Top.path}
  <2>1. Paths' = Paths \cup {Top.path}
    BY DEF Paths
  <2>2. OnThePath \subseteq OnThePath' \cup {Top.path}
    BY <1>1, <1>2 DEF OnThePath
  <2> QED BY <2>1, <2>2
<1> DEFINE below == stack[Len(stack) - 1]
<1>4. PICK name \in SeenNames(below) : Top.path = Append(below.path, name)
  <2>1. \A k \in DOMAIN stack :
          k > 1 => \E n \in SeenNames(stack[k - 1]) : stack[k].path = Append(stack[k - 1].path, n)
    BY DEF CaptureInv, StackInv
  <2> QED BY <1>1, <2>1
<1>5. below.path \in Seq(Names) /\ name \in Names /\ Front(Top.path) = below.path
      /\ below.path \in OnThePath' /\ Top.path # <<>> /\ Top.path \notin Paths
  <2>1. Len(stack) - 1 \in DOMAIN stack /\ Len(stack) - 1 \in DOMAIN stack'
    <3>1. Len(stack) - 1 \in Nat /\ 1 <= Len(stack) - 1 /\ Len(stack) - 1 <= Len(stack)
          /\ Len(stack) - 1 # Len(stack)
      BY <1>1
    <3> QED BY <1>1, <1>2, <3>1
  <2>2. below.path \in Seq(Names) /\ name \in Names
    BY <1>4, <2>1, ScanDepth
  <2>3. Front(Top.path) = below.path /\ Top.path # <<>>
    BY <1>4, <2>2, AppendFacts
  <2>4. below.path \in OnThePath'
    BY <1>2, <2>1 DEF OnThePath
  <2>5. Top.path \notin Paths
    BY <1>1, <2>1 DEF CaptureInv, StackInv
  <2> QED BY <2>2, <2>3, <2>4, <2>5
<1>6. StackInv'
  <2>1. SUFFICES ASSUME NEW k \in DOMAIN stack'
                 PROVE  /\ Len(stack'[k].path) = k - 1 /\ stack'[k].path \notin Paths'
                        /\ k > 1 => \E n \in SeenNames(stack'[k - 1]) :
                                      stack'[k].path = Append(stack'[k - 1].path, n)
                        /\ \A n \in Names : Append(stack'[k].path, n) \in Paths'
                                              => n \in SeenNames(stack'[k])
    BY DEF StackInv, SeenNames
  <2>2. stack'[k] = stack[k] /\ k \in DOMAIN stack /\ (k > 1 => stack'[k - 1] = stack[k - 1])
    <3>1. k \in DOMAIN stack /\ k # Len(stack) /\ k \in Nat /\ k <= Len(stack)
      BY <1>1, <1>2
    <3>2. k > 1 => k - 1 \in Nat /\ 1 <= k - 1 /\ k - 1 <= Len(stack) /\ k - 1 # Len(stack)
      BY <1>1, <3>1
    <3>3. k > 1 => k - 1 \in DOMAIN stack'
      BY <1>1, <1>2, <3>2
    <3> QED BY <1>2, <3>1, <3>3
  <2>3. /\ Len(stack[k].path) = k - 1 /\ stack[k].path \notin Paths
        /\ k > 1 => \E n \in SeenNames(stack[k - 1]) :
                      stack[k].path = Append(stack[k - 1].path, n)
        /\ \A n \in Names : Append(stack[k].path, n) \in Paths => n \in SeenNames(stack[k])
    BY <2>2 DEF CaptureInv, StackInv
  <2>4. stack[k].path # Top.path
    <3>1. Len(stack[k].path) = k - 1 /\ Len(Top.path) = Len(stack) - 1 /\ k \in Nat
      BY <1>1, <2>2, ScanDepth
    <3>2. k # Len(stack)
      BY <1>2
    <3> QED BY <1>1, <3>1, <3>2
  <2>5. ASSUME NEW n \in Names, Append(stack[k].path, n) = Top.path
        PROVE  n \in SeenNames(stack[k])
    <3>1. n = name /\ stack[k].path = below.path
      <4>1. stack[k].path \in Seq(Names)
        BY <2>2, ScanDepth
      <4>2. Append(stack[k].path, n) = Append(below.path, name)
        BY <1>4, <2>5, Zenon
      <4> HIDE DEF below
      <4>3. /\ Front(Append(below.path, name)) = below.path
            /\ Append(below.path, name)[Len(below.path) + 1] = name
        BY <1>5, AppendFacts, Zenon
      <4>4. /\ Front(Append(stack[k].path, n)) = stack[k].path
            /\ Append(stack[k].path, n)[Len(stack[k].path) + 1] = n
        BY <4>1, AppendFacts, Zenon
      <4> QED BY <4>2, <4>3, <4>4, Zenon
    <3>2. Len(stack[k].path) = k - 1 /\ k \in Nat
      BY <1>1, <2>2, ScanDepth
    <3>3. Len(below.path) = (Len(stack) - 1) - 1
      <4>1. Len(stack) - 1 \in Nat /\ 1 <= Len(stack) - 1 /\ Len(stack) - 1 <= Len(stack)
        BY <1>1
      <4>2. Len(stack) - 1 \in DOMAIN stack
        BY <1>1, <4>1
      <4> QED BY <4>2, ScanDepth
    <3>4. k = Len(stack) - 1
      BY <1>1, <3>1, <3>2, <3>3
    <3> QED BY <1>4, <3>1, <3>4
  <2> QED BY <1>3, <2>2, <2>3, <2>4, <2>5
<1>7. TreeInv'
  <2>1. SUFFICES ASSUME NEW f \in captured'
                 PROVE  /\ \A h \in captured' : f.path = h.path => f = h
                        /\ f.path # <<>>
                        /\ \/ Front(f.path) \in OnThePath' \cup {<<>>}
                           \/ \E d \in captured' : d.kind = "directory" /\ d.path = Front(f.path)
    BY DEF TreeInv
  <2>2. \A h \in captured' : f.path = h.path => f = h
    BY <1>5 DEF CaptureInv, TreeInv, Paths
  <2>3. CASE f = e
    BY <1>5, <2>2, <2>3
  <2>4. CASE f \in captured
    <3>1. \/ Front(f.path) \in OnThePath \cup {<<>>}
          \/ \E d \in captured : d.kind = "directory" /\ d.path = Front(f.path)
      BY <2>4 DEF CaptureInv, TreeInv
    <3>2. CASE Front(f.path) = Top.path
      BY <2>2, <2>4, <3>2 DEF CaptureInv, TreeInv
    <3>3. CASE Front(f.path) # Top.path
      BY <1>3, <2>2, <2>4, <3>1, <3>3 DEF CaptureInv, TreeInv
    <3> QED BY <3>2, <3>3
  <2> QED BY <2>3, <2>4
<1>8. ItemInv'
  BY DEF ItemInv
<1> QED BY <1>6, <1>7, <1>8 DEF CaptureInv

-----------------------------------------------------------------------------
(* Where it lies                                                           *)

\* The directories that references begin in: the source and its backing directories.
LEMMA AnchorFacts ==
  ASSUME NEW d, NEW s \in Seq(Dirs)
  PROVE  /\ Len(s) \in Nat /\ DOMAIN (<<d>> \o s) = 1..(Len(s) + 1)
         /\ (<<d>> \o s)[1] = d /\ \A k \in 1..Len(s) : (<<d>> \o s)[k + 1] = s[k]
<1>1. Len(s) \in Nat /\ DOMAIN s = 1..Len(s)
  OBVIOUS
<1>2. s \in Seq(Dirs \cup {d}) /\ <<d>> \in Seq(Dirs \cup {d})
  OBVIOUS
<1>3. Len(<<d>>) = 1 /\ <<d>>[1] = d
  OBVIOUS
<1>4. Len(<<d>> \o s) = Len(s) + 1 /\ <<d>> \o s \in Seq(Dirs \cup {d})
  BY <1>1, <1>2, <1>3
<1>5. DOMAIN (<<d>> \o s) = 1..(Len(s) + 1)
  BY <1>4
<1>6. (<<d>> \o s)[1] = d
  BY <1>1, <1>2, <1>3
<1>7. ASSUME NEW k \in 1..Len(s) PROVE (<<d>> \o s)[k + 1] = s[k]
  BY <1>1, <1>2, <1>3
<1> QED BY <1>1, <1>5, <1>6, <1>7

\* What is found is found when a directory is added.
LEMMA ReachesLater ==
  ASSUME root.anchors \in Seq(Dirs), UNCHANGED <<entries, touched>>, root'.dir = root.dir,
         root'.anchors = root.anchors \/ \E d \in Dirs : root'.anchors = Append(root.anchors, d),
         NEW reference, NEW object, Reaches(Anchors, reference, object)
  PROVE  (Reaches(Anchors, reference, object))'
<1> DEFINE k == reference.anchor + 1
<1>1. root'.anchors \in Seq(Dirs) /\ Len(root.anchors) \in Nat /\ Len(root'.anchors) \in Nat
      /\ Len(root.anchors) <= Len(root'.anchors)
      /\ \A i \in 1..Len(root.anchors) : root'.anchors[i] = root.anchors[i]
  <2>1. CASE root'.anchors = root.anchors
    BY <2>1
  <2>2. ASSUME NEW d \in Dirs, root'.anchors = Append(root.anchors, d)
        PROVE  /\ root'.anchors \in Seq(Dirs) /\ Len(root'.anchors) = Len(root.anchors) + 1
               /\ \A i \in 1..Len(root.anchors) : root'.anchors[i] = root.anchors[i]
    BY <2>2
  <2>3. Len(root.anchors) \in Nat
    OBVIOUS
  <2> QED BY <2>1, <2>2, <2>3
<1>2. Anchors' = <<root.dir>> \o root'.anchors /\ Anchors = <<root.dir>> \o root.anchors
  BY DEF Anchors
<1>3. k \in DOMAIN Anchors /\ Found(entries, touched, Anchors[k], reference.names, object)
  BY ReachesFound
<1>4. k \in 1..(Len(root.anchors) + 1)
  BY <1>2, <1>3, AnchorFacts
<1> HIDE DEF k
<1>5. k \in DOMAIN Anchors'
  <2>1. k \in 1..(Len(root'.anchors) + 1)
    BY <1>1, <1>4
  <2> QED BY <1>1, <1>2, <2>1, AnchorFacts
<1>6. Anchors'[k] = Anchors[k]
  <2>1. CASE k = 1
    BY <1>1, <1>2, <2>1, AnchorFacts
  <2>2. CASE k # 1
    <3> DEFINE i == k - 1
    <3>1. i \in 1..Len(root.anchors) /\ i \in 1..Len(root'.anchors) /\ k = i + 1
      BY <1>1, <1>4, <2>2
    <3> HIDE DEF i
    <3>2. Anchors[i + 1] = root.anchors[i] /\ Anchors'[i + 1] = root'.anchors[i]
      BY <1>1, <1>2, <3>1, AnchorFacts
    <3> QED BY <1>1, <3>1, <3>2
  <2> QED BY <2>1, <2>2
<1>7. Found(entries', touched', Anchors'[k], reference.names, object)
  BY <1>3, <1>6
<1> QED BY <1>5, <1>7 DEF k, Reaches, Found, Slots, OpenBacking

\* A step of the scan keeps OpenInv if what it adds is found.
LEMMA ScanOpen ==
  ASSUME PlanInv, OpenInv, phase = "facts", Elsewhere, Tree, spc' # "idle", root'.dir = root.dir,
         root'.anchors = root.anchors \/ \E d \in Dirs : root'.anchors = Append(root.anchors, d),
         \A e \in captured' : e \in captured \/ (Reaches(Anchors, e.backing, e.id))',
         \A k \in DOMAIN stack' :
            \/ \E j \in DOMAIN stack : /\ stack'[k].backing = stack[j].backing
                                       /\ stack'[k].dir = stack[j].dir
            \/ (Reaches(Anchors, stack[k].backing, stack[k].dir))'
  PROVE  OpenInv'
<1>1. root.anchors \in Seq(Dirs) /\ root.state = "open" /\ lease' = <<>> /\ phase' = "facts"
      /\ UNCHANGED <<entries, touched>>
  BY FactsState DEF PlanInv, PlanTypeOK, RootOK, Elsewhere, Tree
<1>2. \A reference, object : Reaches(Anchors, reference, object)
                               => (Reaches(Anchors, reference, object))'
  BY <1>1, ReachesLater
<1>3. \A e \in captured' : (Reaches(Anchors, e.backing, e.id))'
  BY <1>1, <1>2 DEF OpenInv
<1>4. ASSUME NEW k \in DOMAIN stack' PROVE (Reaches(Anchors, stack[k].backing, stack[k].dir))'
  <2>1. CASE \E j \in DOMAIN stack : /\ stack'[k].backing = stack[j].backing
                                     /\ stack'[k].dir = stack[j].dir
    <3>1. PICK j \in DOMAIN stack : /\ stack'[k].backing = stack[j].backing
                                    /\ stack'[k].dir = stack[j].dir
      BY <2>1
    <3>2. PICK b, o : b = stack[j].backing /\ o = stack[j].dir
      OBVIOUS
    <3>3. Reaches(Anchors, b, o)
      BY <1>1, <3>2 DEF OpenInv
    <3>4. stack'[k].backing = b /\ stack'[k].dir = o
      BY <3>1, <3>2
    <3>5. (Reaches(Anchors, b, o))'
      BY <1>2, <3>3
    <3> QED BY <3>4, <3>5 DEF Reaches, Slots, OpenBacking
  <2> QED BY <2>1
<1>5. lease' # <<>> => lease' = Anchors'
  BY <1>1
<1> QED BY <1>1, <1>3, <1>4, <1>5 DEF OpenInv

-----------------------------------------------------------------------------
(* The scan captures a tree and keeps the way to it                        *)

\* Scan returns what it captured, or nothing.
LEMMA ReturnScanned ==
  ASSUME PlanInv, ScanInv, phase = "facts", Elsewhere, Tree, spc \notin {"idle", "done"},
         NEW result, ReturnFromScan(result),
         captured' = {} \/ (captured' = captured /\ ~(Len(stack) > 1))
  PROVE  ScanInv'
<1>1. stack' = <<>> /\ spc' = "done" /\ root' = [root EXCEPT !.borrows = root.borrows - 1]
  BY DEF ReturnFromScan
<1>2. root'.dir = root.dir /\ root'.anchors = root.anchors
  BY <1>1 DEF PlanInv, PlanTypeOK, RootOK
<1>3. Len(stack) \in Nat /\ stack \in Seq(Frames)
  BY ScanTop
<1>4. CaptureInv'
  BY <1>1, <1>3, ReturnCapture DEF ScanInv
<1>5. captured' \subseteq captured /\ DOMAIN stack' = {}
  BY <1>1
<1>6. OpenInv'
  BY <1>1, <1>2, <1>5, ScanOpen DEF ScanInv
<1> QED BY <1>4, <1>6 DEF ScanInv

\* It fails.
LEMMA FailScanned ==
  ASSUME PlanInv, ScanInv, phase = "facts", Elsewhere, KeepScan, spc \notin {"idle", "done"},
         FailScan
  PROVE  ScanInv'
<1>1. Tree
  BY KeepScanTree DEF PlanInv, PlanTypeOK
<1> QED BY <1>1, ReturnScanned DEF FailScan

\* A call fails.
LEMMA ScanFaultScanned ==
  ASSUME PlanInv, ScanInv, phase = "facts", Elsewhere, ScanFault
  PROVE  ScanInv'
<1>1. faults' \in Nat
  BY DEF PlanInv, PlanTypeOK, TreeOK, ScanFault
<1>2. Tree
  BY <1>1 DEF ScanFault, Tree
<1> QED BY <1>2, ReturnScanned DEF ScanFault, StopScan

\* A step about the entry that is being captured, or the end of it.
LEMMA StayScanned ==
  ASSUME PlanInv, ScanInv, phase = "facts", Elsewhere, KeepScan, spc' # "idle",
         UNCHANGED <<stack, captured, root>>, Active' => Active /\ UNCHANGED item
  PROVE  ScanInv'
<1>1. Tree
  BY KeepScanTree DEF PlanInv, PlanTypeOK
<1>2. CaptureInv'
  BY StayCapture DEF ScanInv
<1>3. OpenInv'
  BY <1>1, ScanOpen DEF ScanInv
<1> QED BY <1>2, <1>3 DEF ScanInv

\* The innermost activation goes on.
LEMMA SetTopScanned ==
  ASSUME PlanInv, ScanInv, phase = "facts", Elsewhere, KeepScan, spc \notin {"idle", "done"},
         spc' # "idle", NEW g \in Frames, SetTop(g), g.path = Top.path, g.dir = Top.dir,
         g.backing = Top.backing, Top.seen \subseteq g.seen, UNCHANGED <<captured, root>>, ItemInv'
  PROVE  ScanInv'
<1>1. Tree
  BY KeepScanTree DEF PlanInv, PlanTypeOK
<1>2. stack \in Seq(Frames) /\ stack # <<>>
  BY ScanTop
<1>3. CaptureInv'
  <2>1. StackInv' /\ TreeInv'
    BY <1>2, SetTopCapture DEF ScanInv
  <2> QED BY <2>1 DEF CaptureInv
<1>4. /\ DOMAIN stack' = DOMAIN stack
      /\ \A k \in DOMAIN stack : /\ stack'[k].backing = stack[k].backing
                                 /\ stack'[k].dir = stack[k].dir
  BY <1>2, SetTopStack DEF Top
<1>5. OpenInv'
  BY <1>1, <1>4, ScanOpen DEF ScanInv
<1> QED BY <1>3, <1>5 DEF ScanInv

\* The names of a directory are read.
LEMMA ReadSourceNamesScanned ==
  ASSUME PlanInv, ScanInv, phase = "facts", Elsewhere, ReadSourceNames
  PROVE  ScanInv'
<1> DEFINE g == [Top EXCEPT !.todo = NamesIn(Top.dir)]
<1>1. SetTop(g) /\ spc = "names" /\ spc' = "entry" /\ UNCHANGED <<captured, root>> /\ KeepScan
  BY DEF ReadSourceNames
<1>2. Top \in Frames
  BY <1>1, ScanTop
<1>3. g \in Frames /\ g.path = Top.path /\ g.dir = Top.dir /\ g.backing = Top.backing
      /\ g.seen = Top.seen
  BY <1>2 DEF Frames, NamesIn
<1>4. ItemInv'
  BY <1>1 DEF ItemInv, Active
<1> HIDE DEF g
<1> QED BY <1>1, <1>3, <1>4, SetTopScanned

\* They are read again...
LEMMA VerifyNamesScanned ==
  ASSUME PlanInv, ScanInv, phase = "facts", Elsewhere, VerifyNames
  PROVE  ScanInv'
<1>1. spc = "entry" /\ KeepScan
  BY DEF VerifyNames
<1>2. CASE FailScan
  BY <1>1, <1>2, FailScanned
<1>3. CASE ~FailScan
  <2> DEFINE g == [Top EXCEPT !.todo = NamesIn(Top.dir), !.then = Contents(Top.dir)]
  <2>1. SetTop(g) /\ spc' = "verify" /\ UNCHANGED <<captured, root>>
    BY <1>3 DEF VerifyNames
  <2>2. Top \in Frames
    BY <1>1, ScanTop
  <2>3. Contents(Top.dir) \in SUBSET (Names \X Objects)
    BY <2>2, FrameFields, ContentsType DEF PlanInv, PlanTypeOK
  <2>4. NamesIn(Top.dir) \in SUBSET Names
    BY DEF NamesIn
  <2>5. g \in Frames /\ g.path = Top.path /\ g.dir = Top.dir /\ g.backing = Top.backing
        /\ g.seen = Top.seen
    BY <2>2, <2>3, <2>4 DEF Frames
  <2>6. ItemInv'
    BY <2>1 DEF ItemInv, Active
  <2> HIDE DEF g
  <2> QED BY <1>1, <2>1, <2>5, <2>6, SetTopScanned
<1> QED BY <1>2, <1>3

\* ...and compared.
LEMMA VerifyEntryScanned ==
  ASSUME PlanInv, ScanInv, phase = "facts", Elsewhere, VerifyEntry
  PROVE  ScanInv'
<1>1. spc = "verify" /\ KeepScan
  BY DEF VerifyEntry
<1>2. CASE FailScan
  BY <1>1, <1>2, FailScanned
<1>3. CASE ~FailScan
  <2> DEFINE rest == Top.todo \ {Min(Top.todo)}
             g == [Top EXCEPT !.todo = rest]
  <2>1. SetTop(g) /\ spc' = spc /\ UNCHANGED <<captured, root>>
    BY <1>3 DEF VerifyEntry
  <2>2. Top \in Frames
    BY <1>1, ScanTop
  <2>3. rest \in SUBSET Names
    BY <2>2, FrameFields
  <2> HIDE DEF rest
  <2>4. g \in Frames /\ g.path = Top.path /\ g.dir = Top.dir /\ g.backing = Top.backing
        /\ g.seen = Top.seen
    BY <2>2, <2>3 DEF Frames
  <2>5. ItemInv'
    BY <1>1, <2>1 DEF ItemInv, Active
  <2> HIDE DEF g
  <2> QED BY <1>1, <2>1, <2>4, <2>5, SetTopScanned
<1> QED BY <1>2, <1>3

\* An entry is inspected: its name has not been seen before, and nothing is captured there.
LEMMA InspectEntryScanned ==
  ASSUME PlanInv, ScanInv, phase = "facts", Elsewhere, InspectEntry
  PROVE  ScanInv'
<1> DEFINE n == Min(Top.todo)
           object == entries[Top.dir][n]
           rest == Top.todo \ {n}
           more == Top.seen \cup {<<n, object>>}
           g == [Top EXCEPT !.todo = rest, !.seen = more]
<1>1. spc = "entry" /\ KeepScan /\ Top.todo # {}
  BY DEF InspectEntry
<1>2. CASE object = Nil
  BY <1>1, <1>2, FailScanned DEF InspectEntry
<1>3. CASE object # Nil
  <2>1. /\ SetTop(g) /\ UNCHANGED <<captured, root>>
        /\ spc' = IF Captures(object) THEN Kind(object) ELSE "entry"
        /\ item' = IF Captures(object) THEN [name |-> n, id |-> object] ELSE item
    BY <1>3 DEF InspectEntry
  <2>2. Top \in Frames /\ stack \in Seq(Frames) /\ stack # <<>> /\ Top = stack[Len(stack)]
        /\ \A s \in Top.seen : s[1] \notin Top.todo
    BY <1>1, ScanTop
  <2>3. Top.todo \subseteq Names /\ Top.dir \in Dirs /\ Top.seen \subseteq Names \X Objects
        /\ Top.path \in Seq(Names)
    BY <2>2, FrameFields
  <2>4. n \in Top.todo /\ n \in Names
    BY <1>1, <2>3, MinOfNumbers, SourceAssumption
  <2>5. object \in Objects
    BY <1>3, <2>3, <2>4 DEF PlanInv, PlanTypeOK, TreeOK
  <2>6. rest \in SUBSET Names /\ more \in SUBSET (Names \X Objects)
    BY <2>3, <2>4, <2>5
  <2>7. spc' \in {"entry", "directory", "file", "link", "special"}
    BY <2>1 DEF Kind
  <2> HIDE DEF n, object
  <2>8. <<n, object>> \in more /\ Top.seen \subseteq more
    OBVIOUS
  <2> HIDE DEF rest, more
  <2>9. g \in Frames /\ g.path = Top.path /\ g.dir = Top.dir /\ g.backing = Top.backing
        /\ g.seen = more
    BY <2>2, <2>6 DEF Frames
  <2>10. Append(Top.path, n) \notin Paths
    <3>1. SUFFICES ASSUME Append(Top.path, n) \in Paths PROVE FALSE
      OBVIOUS
    <3>2. Len(stack) \in DOMAIN stack
      BY <2>2
    <3>3. n \in SeenNames(Top)
      BY <2>2, <2>4, <3>1, <3>2 DEF ScanInv, CaptureInv, StackInv
    <3> QED BY <2>2, <2>4, <3>3 DEF SeenNames
  <2>11. Top' = g
    BY <2>2, <2>9, SetTopStack, <2>1 DEF Top
  <2>12. ItemInv'
    <3>1. CASE Captures(object)
      <4>1. item'.name = n
        BY <2>1, <3>1
      <4>2. n \in SeenNames(g)
        BY <2>8, <2>9 DEF SeenNames
      <4>3. ItemPath' = Append(Top.path, n) /\ Paths' = Paths
        BY <2>1, <2>9, <2>11, <4>1 DEF ItemPath, Paths
      <4> QED BY <2>10, <2>11, <4>1, <4>2, <4>3 DEF ItemInv, SeenNames
    <3>2. CASE ~Captures(object)
      <4>1. spc' = "entry"
        BY <2>1, <3>2
      <4> QED BY <4>1 DEF ItemInv, Active
    <3> QED BY <3>1, <3>2
  <2> HIDE DEF g
  <2> QED BY <1>1, <2>1, <2>7, <2>8, <2>9, <2>12, SetTopScanned
<1> QED BY <1>2, <1>3

\* An entry of a directory is found below it.
LEMMA ReachesBelow ==
  ASSUME NEW reference \in References, NEW d \in Dirs, NEW n \in Names,
         Reaches(Anchors, reference, d)
  PROVE  Reaches(Anchors, Below(reference, n), entries[d][n])
<1> DEFINE longer == Append(reference.names, n)
           r == Below(reference, n)
           from == Anchors[reference.anchor + 1]
<1>1. r = [reference EXCEPT !.names = longer] /\ reference.names \in Seq(Names)
  BY DEF Below
<1>2. r.anchor = reference.anchor /\ r.names = longer
  BY <1>1
<1>3. reference.anchor + 1 \in DOMAIN Anchors
      /\ Found(entries, touched, from, reference.names, d)
  BY ReachesFound
<1>4. Found(entries, touched, from, longer, entries[d][n])
  <2> HIDE DEF from
  <2> QED BY <1>1, <1>3, FoundBelow
<1> HIDE DEF r, longer
<1>5. /\ r.anchor + 1 \in DOMAIN Anchors
      /\ Found(entries, touched, Anchors[r.anchor + 1], r.names, entries[d][n])
  BY <1>2, <1>3, <1>4
<1>6. Reaches(Anchors, r, entries[d][n])
  BY <1>5, ReachesFound
<1> QED BY <1>6 DEF r

\* The directory that is being scanned is found.
LEMMA TopReached ==
  ASSUME PlanInv, ScanInv, phase = "facts", spc \notin {"idle", "done"}
  PROVE  /\ Reaches(Anchors, Top.backing, Top.dir) /\ Top.backing \in References
         /\ Top.dir \in Dirs /\ root.anchors \in Seq(Dirs) /\ root.state = "open"
         /\ item.name \in Names
<1>1. Len(stack) \in DOMAIN stack /\ Top = stack[Len(stack)] /\ Top \in Frames
  BY ScanTop
<1>2. root.state = "open"
  BY FactsState
<1>3. Reaches(Anchors, Top.backing, Top.dir)
  BY <1>1, <1>2 DEF ScanInv, OpenInv
<1>4. Top.backing \in References /\ Top.dir \in Dirs
  BY <1>1, FrameFields
<1>5. root.anchors \in Seq(Dirs) /\ item.name \in Names
  BY DEF PlanInv, PlanTypeOK, RootOK, ScanOK
<1> QED BY <1>2, <1>3, <1>4, <1>5

\* An entry that is unchanged is found where its reference says, and will be.
LEMMA ItemReached ==
  ASSUME PlanInv, ScanInv, phase = "facts", spc \notin {"idle", "done"},
         Unchanged(Top.dir, item.name, item.id), UNCHANGED <<entries, touched, root>>,
         NEW reference, reference = Below(Top.backing, item.name), NEW object, object = item.id
  PROVE  (Reaches(Anchors, reference, object))'
<1>1. /\ Reaches(Anchors, Top.backing, Top.dir) /\ Top.backing \in References
      /\ Top.dir \in Dirs /\ root.anchors \in Seq(Dirs) /\ item.name \in Names
  BY TopReached
<1>2. entries[Top.dir][item.name] = item.id
  <2>1. item.name # Up
    BY <1>1, SourceAssumption
  <2> QED BY <2>1 DEF Unchanged, Lookup
<1>3. Reaches(Anchors, Below(Top.backing, item.name), item.id)
  BY <1>1, <1>2, ReachesBelow
<1>4. Reaches(Anchors, reference, object)
  BY <1>3
<1> QED BY <1>1, <1>4, ReachesLater

\* A directory is entered.
LEMMA CaptureDirectoryScanned ==
  ASSUME PlanInv, ScanInv, phase = "facts", Elsewhere, CaptureDirectory
  PROVE  ScanInv'
<1>1. spc = "directory" /\ KeepScan
  BY DEF CaptureDirectory
<1>2. CASE FailScan
  BY <1>1, <1>2, FailScanned
<1>3. CASE ~FailScan
  <2> DEFINE b == Below(Top.backing, item.name)
             g == Frame(item.id, ItemPath, b, TRUE)
  <2>1. /\ Unchanged(Top.dir, item.name, item.id) /\ Push(g) /\ spc' = "names"
        /\ UNCHANGED <<captured, root>>
    BY <1>3 DEF CaptureDirectory
  <2>2. item.id \in Dirs /\ ItemPath \in Seq(Names) /\ b \in References
    BY <1>1, ItemTypes DEF PlanInv, WalkInv
  <2> HIDE DEF b
  <2>3. g \in Frames /\ g.path = ItemPath /\ g.backing = b /\ g.dir = item.id
    <3>1. TRUE \in BOOLEAN
      OBVIOUS
    <3> QED BY <2>2, <3>1 DEF Frame, Frames
  <2> HIDE DEF g
  <2>4. CaptureInv'
    BY <1>1, <2>1, <2>3, PushCapture DEF Active, ScanInv
  <2>5. stack \in Seq(Frames) /\ Tree /\ UNCHANGED <<entries, touched, root>>
    BY <1>1, <2>1, ScanTop, KeepScanTree DEF PlanInv, PlanTypeOK, KeepScan
  <2>6. /\ DOMAIN stack' = DOMAIN stack \cup {Len(stack) + 1}
        /\ stack'[Len(stack) + 1] = g /\ \A k \in DOMAIN stack : stack'[k] = stack[k]
    BY <2>1, <2>3, <2>5, PushStack
  <2>7. ASSUME NEW k \in DOMAIN stack', k \notin DOMAIN stack
        PROVE  (Reaches(Anchors, stack[k].backing, stack[k].dir))'
    <3>1. stack'[k].backing = Below(Top.backing, item.name) /\ stack'[k].dir = item.id
      BY <2>3, <2>6, <2>7 DEF b
    <3> QED BY <1>1, <2>1, <2>5, <3>1, ItemReached DEF Reaches, Slots, OpenBacking
  <2>8. OpenInv'
    BY <2>1, <2>5, <2>6, <2>7, ScanOpen DEF ScanInv
  <2> QED BY <2>4, <2>8 DEF ScanInv
<1> QED BY <1>2, <1>3

\* A file is captured.
LEMMA CaptureRegularFileScanned ==
  ASSUME PlanInv, ScanInv, phase = "facts", Elsewhere, CaptureRegularFile
  PROVE  ScanInv'
<1>1. spc = "file" /\ KeepScan
  BY DEF CaptureRegularFile
<1>2. CASE FailScan
  BY <1>1, <1>2, FailScanned
<1>3. CASE ~FailScan
  <2> DEFINE e == Entry("file", ItemPath, size[item.id], Below(Top.backing, item.name), item.id)
  <2>1. /\ Unchanged(Top.dir, item.name, item.id) /\ captured' = captured \cup {e}
        /\ spc' = "entry" /\ UNCHANGED <<stack, root>>
    BY <1>3 DEF CaptureRegularFile
  <2>2. e.path = ItemPath /\ e.backing = Below(Top.backing, item.name) /\ e.id = item.id
    BY DEF Entry
  <2> HIDE DEF e
  <2>3. CaptureInv'
    BY <1>1, <2>1, <2>2, AddCapture DEF Active, ScanInv
  <2>4. Tree /\ UNCHANGED <<entries, touched, root>>
    BY <1>1, <2>1, KeepScanTree DEF PlanInv, PlanTypeOK, KeepScan
  <2>5. ASSUME NEW f \in captured', f \notin captured
        PROVE  (Reaches(Anchors, f.backing, f.id))'
    <3>1. f.backing = Below(Top.backing, item.name) /\ f.id = item.id
      BY <2>1, <2>2, <2>5
    <3> QED BY <1>1, <2>1, <2>4, <3>1, ItemReached DEF Reaches, Slots, OpenBacking
  <2>6. OpenInv'
    BY <2>1, <2>4, <2>5, ScanOpen DEF ScanInv
  <2> QED BY <2>3, <2>6 DEF ScanInv
<1> QED BY <1>2, <1>3

\* A directory is complete, or the scan is.
LEMMA FinishDirectoryScanned ==
  ASSUME PlanInv, ScanInv, phase = "facts", Elsewhere, FinishDirectory
  PROVE  ScanInv'
<1>1. spc = "verify" /\ KeepScan
  BY DEF FinishDirectory
<1>2. stack \in Seq(Frames) /\ Tree /\ UNCHANGED <<entries, touched>>
  BY <1>1, ScanTop, KeepScanTree DEF PlanInv, PlanTypeOK, KeepScan
<1>3. CASE Len(stack) > 1
  <2> DEFINE e == Entry("directory", Top.path, 0, Top.backing, Top.dir)
  <2>1. /\ captured' = captured \cup {e} /\ stack' = Front(stack) /\ spc' = "entry"
        /\ UNCHANGED root
    BY <1>3 DEF FinishDirectory
  <2>2. e.path = Top.path /\ e.kind = "directory" /\ e.backing = Top.backing /\ e.id = Top.dir
    BY DEF Entry
  <2> HIDE DEF e
  <2>3. CaptureInv'
    BY <1>1, <1>3, <2>1, <2>2, PopCapture DEF Active, ScanInv
  <2>4. ASSUME NEW f \in captured', f \notin captured
        PROVE  (Reaches(Anchors, f.backing, f.id))'
    <3>1. Reaches(Anchors, f.backing, f.id) /\ root.anchors \in Seq(Dirs)
      BY <1>1, <2>1, <2>2, <2>4, TopReached
    <3> QED BY <1>2, <2>1, <3>1, ReachesLater
  <2>5. \A k \in DOMAIN stack' : k \in DOMAIN stack /\ stack'[k] = stack[k]
    BY <1>2, <1>3, <2>1, PopStack
  <2>6. OpenInv'
    BY <1>2, <2>1, <2>4, <2>5, ScanOpen DEF ScanInv
  <2> QED BY <2>3, <2>6 DEF ScanInv
<1>4. CASE ~(Len(stack) > 1)
  <2>1. PICK result : ReturnFromScan(result) /\ UNCHANGED captured
    BY <1>4 DEF FinishDirectory
  <2> QED BY <1>1, <1>2, <1>4, <2>1, ReturnScanned
<1> QED BY <1>3, <1>4

\* A link is inspected, read and inspected again...
LEMMA ReadingLinkScanned ==
  ASSUME PlanInv, ScanInv, phase = "facts", Elsewhere,
         InspectLink \/ ReadLink \/ ReinspectLink \/ EnterDirectory
  PROVE  ScanInv'
<1>1. spc \in {"link", "readlink", "reinspect", "enter"} /\ KeepScan
  BY DEF InspectLink, ReadLink, ReinspectLink, EnterDirectory
<1>2. CASE FailScan
  BY <1>1, <1>2, FailScanned
<1>3. CASE ~FailScan
  <2>1. spc' \in {"readlink", "reinspect", "walk"} /\ UNCHANGED <<stack, item, captured, root>>
    BY <1>3 DEF InspectLink, ReadLink, ReinspectLink, EnterDirectory
  <2> QED BY <1>1, <2>1, StayScanned DEF Active
<1> QED BY <1>2, <1>3

\* ...and its target walked.
LEMMA WalkComponentScanned ==
  ASSUME PlanInv, ScanInv, phase = "facts", Elsewhere, WalkComponent
  PROVE  ScanInv'
<1>1. spc = "walk" /\ KeepScan
  BY DEF WalkComponent
<1>2. CASE FailScan
  BY <1>1, <1>2, FailScanned
<1>3. CASE ~FailScan
  <2>1. /\ UNCHANGED <<stack, captured, root>>
        /\ \/ spc' \in {"walk", "link", "enter", "final"} /\ UNCHANGED item
           \/ spc' = "entry"
    BY <1>1, <1>3 DEF WalkComponent
  <2> QED BY <1>1, <2>1, StayScanned DEF Active
<1> QED BY <1>2, <1>3

\* The directory a walk ended in is the last one the references may begin in.
LEMMA AnchorReached ==
  ASSUME root.anchors \in Seq(Dirs), NEW d \in Dirs, AddBackingDirectory(d),
         root.state = "open",
         root \in [state : {"closed", "open", "transferred"}, scanned : BOOLEAN,
                   borrows : 0..2, anchors : Seq(Dirs), dir : Dirs \cup {Nil}]
  PROVE  /\ root'.anchors = Append(root.anchors, d) /\ root'.dir = root.dir
         /\ NewAnchor + 1 \in DOMAIN Anchors' /\ Anchors'[NewAnchor + 1] = d
         /\ NewAnchor \in Nat
<1>1. root' = [root EXCEPT !.anchors = Append(root.anchors, d)]
  BY DEF AddBackingDirectory
<1>2. root'.anchors = Append(root.anchors, d) /\ root'.dir = root.dir
  BY <1>1
<1>3. Len(root.anchors) \in Nat /\ Append(root.anchors, d) \in Seq(Dirs)
      /\ Len(Append(root.anchors, d)) = Len(root.anchors) + 1
      /\ Append(root.anchors, d)[Len(root.anchors) + 1] = d
  OBVIOUS
<1>4. NewAnchor = Len(root.anchors) + 1 /\ NewAnchor \in Nat
  BY <1>3 DEF NewAnchor
<1>5. Anchors' = <<root'.dir>> \o root'.anchors
  BY DEF Anchors
<1> DEFINE s == Append(root.anchors, d)
           k == Len(root.anchors) + 1
<1>6. s \in Seq(Dirs) /\ Len(s) = k /\ s[k] = d /\ k \in Nat /\ k >= 1 /\ root'.anchors = s
      /\ NewAnchor = k
  BY <1>2, <1>3, <1>4
<1> HIDE DEF s, k
<1>7. DOMAIN Anchors' = 1..(k + 1) /\ Anchors'[k + 1] = s[k]
  BY <1>5, <1>6, AnchorFacts
<1>8. k + 1 \in 1..(k + 1)
  BY <1>6
<1> QED BY <1>2, <1>4, <1>6, <1>7, <1>8

\* The target of a link is a directory.
LEMMA CaptureSymlinkDirectoryScanned ==
  ASSUME PlanInv, ScanInv, phase = "facts", Elsewhere, KeepScan, spc \in {"walk", "final"},
         NEW dir \in Dirs, CaptureSymlinkDirectory(dir)
  PROVE  ScanInv'
<1>1. CASE FailScan
  BY <1>1, FailScanned
<1>2. CASE ~FailScan
  <2> DEFINE b == [anchor |-> NewAnchor, names |-> <<>>]
             g == Frame(dir, ItemPath, b, FALSE)
  <2>1. /\ AddBackingDirectory(dir) /\ Push(g) /\ spc' = "names" /\ UNCHANGED captured
    BY <1>2 DEF CaptureSymlinkDirectory
  <2>2. root \in [state : {"closed", "open", "transferred"}, scanned : BOOLEAN,
                  borrows : 0..2, anchors : Seq(Dirs), dir : Dirs \cup {Nil}]
        /\ root.anchors \in Seq(Dirs) /\ root.state = "open"
    BY FactsState DEF PlanInv, PlanTypeOK, RootOK
  <2>3. /\ root'.anchors = Append(root.anchors, dir) /\ root'.dir = root.dir
        /\ NewAnchor + 1 \in DOMAIN Anchors' /\ Anchors'[NewAnchor + 1] = dir
        /\ NewAnchor \in Nat
    BY <2>1, <2>2, AnchorReached
  <2>4. ItemPath \in Seq(Names)
    BY ItemTypes
  <2>5. b \in References
    <3>1. <<>> \in Seq(Names)
      OBVIOUS
    <3> QED BY <2>3, <3>1
  <2>6. b.anchor = NewAnchor /\ b.names = <<>>
    OBVIOUS
  <2> HIDE DEF b
  <2>7. g \in Frames /\ g.path = ItemPath /\ g.backing = b /\ g.dir = dir
    <3>1. FALSE \in BOOLEAN
      OBVIOUS
    <3> QED BY <2>4, <2>5, <3>1 DEF Frame, Frames
  <2> HIDE DEF g
  <2>8. CaptureInv'
    BY <2>1, <2>7, PushCapture DEF Active, ScanInv
  <2>9. stack \in Seq(Frames) /\ Tree /\ UNCHANGED <<entries, touched>>
    BY ScanTop, KeepScanTree DEF PlanInv, PlanTypeOK, KeepScan
  <2>10. /\ DOMAIN stack' = DOMAIN stack \cup {Len(stack) + 1}
         /\ stack'[Len(stack) + 1] = g /\ \A k \in DOMAIN stack : stack'[k] = stack[k]
    BY <2>1, <2>7, <2>9, PushStack
  <2>11. ASSUME NEW k \in DOMAIN stack', k \notin DOMAIN stack
         PROVE  (Reaches(Anchors, stack[k].backing, stack[k].dir))'
    <3>1. stack'[k].backing = b /\ stack'[k].dir = dir
      BY <2>7, <2>10, <2>11
    <3>2. Found(entries', touched', dir, <<>>, dir)
      BY FoundHere
    <3> QED BY <2>3, <2>6, <3>1, <3>2 DEF Reaches, Slots, OpenBacking, Found
  <2>12. OpenInv'
    BY <2>1, <2>3, <2>9, <2>10, <2>11, ScanOpen DEF ScanInv
  <2> QED BY <2>8, <2>12 DEF ScanInv
<1> QED BY <1>1, <1>2

\* The target is a file, which is found in the directory the walk is in.
LEMMA CaptureSymlinkFileScanned ==
  ASSUME PlanInv, ScanInv, phase = "facts", Elsewhere, KeepScan, spc = "final",
         NEW file, NEW name \in Names, Unchanged(walk.dir, name, file),
         CaptureSymlinkFile(file, name)
  PROVE  ScanInv'
<1>1. CASE FailScan
  BY <1>1, FailScanned
<1>2. CASE ~FailScan
  <2> DEFINE b == [anchor |-> NewAnchor, names |-> <<name>>]
             e == Entry("file", ItemPath, size[file], b, file)
             d == walk.dir
  <2>1. /\ AddBackingDirectory(d) /\ captured' = captured \cup {e} /\ spc' = "entry"
        /\ UNCHANGED stack
    BY <1>2 DEF CaptureSymlinkFile
  <2>2. root \in [state : {"closed", "open", "transferred"}, scanned : BOOLEAN,
                  borrows : 0..2, anchors : Seq(Dirs), dir : Dirs \cup {Nil}]
        /\ root.anchors \in Seq(Dirs) /\ root.state = "open"
    BY FactsState DEF PlanInv, PlanTypeOK, RootOK
  <2>3. d \in Dirs
    BY DEF PlanInv, PlanTypeOK, ScanOK, WalkInv
  <2>4. entries[d][name] = file
    <3>1. name # Up
      BY SourceAssumption
    <3> QED BY <3>1 DEF Unchanged, Lookup
  <2> HIDE DEF d
  <2>5. /\ root'.anchors = Append(root.anchors, d) /\ root'.dir = root.dir
        /\ NewAnchor + 1 \in DOMAIN Anchors' /\ Anchors'[NewAnchor + 1] = d
        /\ NewAnchor \in Nat
    BY <2>1, <2>2, <2>3, AnchorReached
  <2>6. b.anchor = NewAnchor /\ b.names = <<name>>
    OBVIOUS
  <2> HIDE DEF b
  <2>7. e.path = ItemPath /\ e.backing = b /\ e.id = file
    BY DEF Entry
  <2> HIDE DEF e
  <2>8. CaptureInv'
    BY <2>1, <2>7, AddCapture DEF Active, ScanInv
  <2>9. Tree /\ UNCHANGED <<entries, touched>>
    BY KeepScanTree DEF PlanInv, PlanTypeOK, KeepScan
  <2>10. Found(entries', touched', d, <<name>>, file)
    <3>1. Found(entries, touched, d, <<>>, d) /\ <<>> \in Seq(Names)
      BY FoundHere
    <3>2. Found(entries, touched, d, Append(<<>>, name), file)
      BY <2>3, <2>4, <3>1, FoundBelow
    <3>3. Append(<<>>, name) = <<name>>
      OBVIOUS
    <3> QED BY <2>9, <3>2, <3>3
  <2>11. ASSUME NEW f \in captured', f \notin captured
         PROVE  (Reaches(Anchors, f.backing, f.id))'
    <3>1. f.backing = b /\ f.id = file
      BY <2>1, <2>7, <2>11
    <3> QED BY <2>5, <2>6, <2>10, <3>1 DEF Reaches, Slots, OpenBacking, Found
  <2>12. OpenInv'
    BY <2>1, <2>3, <2>5, <2>9, <2>11, ScanOpen DEF ScanInv
  <2> QED BY <2>8, <2>12 DEF ScanInv
<1> QED BY <1>1, <1>2

\* A walk ends.
LEMMA ResolveScanned ==
  ASSUME PlanInv, ScanInv, phase = "facts", Elsewhere,
         ResolveCurrentDirectory \/ ResolveFinalEntry
  PROVE  ScanInv'
<1>1. CASE ResolveCurrentDirectory
  <2>1. spc = "walk" /\ KeepScan /\ CaptureSymlinkDirectory(walk.dir)
    BY <1>1 DEF ResolveCurrentDirectory
  <2>2. walk.dir \in Dirs
    BY <2>1 DEF PlanInv, PlanTypeOK, ScanOK, WalkInv
  <2> QED BY <2>1, <2>2, CaptureSymlinkDirectoryScanned
<1>2. CASE ResolveFinalEntry
  <2>1. spc = "final" /\ KeepScan
    BY <1>2 DEF ResolveFinalEntry
  <2>2. walk.id \in Dirs \cup Files /\ Head(walk.comps) \in Names
    BY <2>1 DEF PlanInv, WalkInv
  <2>3. CASE FailScan
    BY <2>1, <2>3, FailScanned
  <2>4. CASE walk.id \in Dirs /\ CaptureSymlinkDirectory(walk.id)
    BY <2>1, <2>4, CaptureSymlinkDirectoryScanned
  <2>5. CASE /\ Unchanged(walk.dir, Head(walk.comps), walk.id)
             /\ CaptureSymlinkFile(walk.id, Head(walk.comps))
    BY <2>1, <2>2, <2>5, CaptureSymlinkFileScanned
  <2> QED BY <1>2, <2>3, <2>4, <2>5 DEF ResolveFinalEntry
<1> QED BY <1>1, <1>2

\* The scan begins with the source, or is refused.
LEMMA BeginScanScanned ==
  ASSUME PlanInv, ScanInv, phase = "facts", Elsewhere, BeginScan \/ RefuseScan
  PROVE  ScanInv'
<1>1. spc = "idle" /\ captured = {} /\ captured' = {} /\ stack = <<>> /\ KeepScan
  BY DEF BeginScan, RefuseScan, ScanInv, OpenInv, PlanInv, WalkInv
<1>2. Tree /\ root.anchors \in Seq(Dirs)
      /\ root \in [state : {"closed", "open", "transferred"}, scanned : BOOLEAN,
                   borrows : 0..2, anchors : Seq(Dirs), dir : Dirs \cup {Nil}]
  BY <1>1, KeepScanTree DEF PlanInv, PlanTypeOK, RootOK
<1>3. CASE BeginScan
  <2> DEFINE b == [anchor |-> 0, names |-> <<>>]
             g == Frame(root.dir, <<>>, b, FALSE)
             borrows == root.borrows + 1
  <2>1. /\ root' = [root EXCEPT !.borrows = borrows, !.scanned = TRUE]
        /\ stack' = <<g>> /\ spc' = "names"
    BY <1>3 DEF BeginScan
  <2>2. root'.dir = root.dir /\ root'.anchors = root.anchors
    BY <1>2, <2>1
  <2>3. g.path = <<>> /\ g.backing = b /\ g.dir = root.dir
    BY DEF Frame
  <2>4. b.anchor = 0 /\ b.names = <<>>
    OBVIOUS
  <2> HIDE DEF b, g
  <2>5. DOMAIN stack' = {1} /\ stack'[1] = g
    BY <2>1
  <2>6. Paths' = {}
    BY <1>1 DEF Paths
  <2>7. StackInv'
    <3>1. Len(g.path) = 0
      BY <2>3
    <3> QED BY <2>5, <2>6, <3>1 DEF StackInv
  <2>8. TreeInv' /\ ItemInv'
    BY <1>1, <2>1 DEF TreeInv, ItemInv, Active
  <2>9. ASSUME NEW k \in DOMAIN stack'
        PROVE  (Reaches(Anchors, stack[k].backing, stack[k].dir))'
    <3>1. stack'[k].backing = b /\ stack'[k].dir = root.dir
      BY <2>3, <2>5
    <3>2. Found(entries', touched', root.dir, <<>>, root.dir)
      BY FoundHere
    <3>3. Anchors' = <<root.dir>> \o root.anchors
      BY <2>2 DEF Anchors
    <3>4. 1 \in DOMAIN Anchors' /\ Anchors'[1] = root.dir
      BY <1>2, <3>3, AnchorFacts
    <3>5. b.anchor + 1 = 1
      BY <2>4
    <3> QED BY <2>4, <3>1, <3>2, <3>4, <3>5 DEF Reaches, Slots, OpenBacking, Found
  <2>10. OpenInv'
    BY <1>1, <1>2, <2>1, <2>2, <2>9, ScanOpen DEF ScanInv
  <2> QED BY <2>7, <2>8, <2>10 DEF ScanInv, CaptureInv
<1>4. CASE RefuseScan
  <2>1. UNCHANGED <<stack, captured, root>> /\ spc' = "done"
    BY <1>4 DEF RefuseScan
  <2> QED BY <1>1, <2>1, StayScanned DEF Active
<1> QED BY <1>3, <1>4

\* Every step of the scan.
LEMMA ScanSourceScanned ==
  ASSUME PlanInv, ScanInv, ScanSource
  PROVE  ScanInv'
<1>1. phase = "facts" /\ Elsewhere
  BY DEF ScanSource, Elsewhere, KeepMeasure
<1>2. CASE ScanStep
  BY <1>1, <1>2, ReadSourceNamesScanned, InspectEntryScanned, CaptureDirectoryScanned,
     CaptureRegularFileScanned, VerifyNamesScanned, VerifyEntryScanned, FinishDirectoryScanned,
     ReadingLinkScanned, WalkComponentScanned, ResolveScanned DEF ScanStep
<1> QED BY <1>1, <1>2, BeginScanScanned, ScanFaultScanned DEF ScanSource

-----------------------------------------------------------------------------
(* What was captured stays                                                 *)

\* A change of the tree is recorded, so that what is found is found or was changed.
LEMMA ChangeScanned ==
  ASSUME PlanInv, ScanInv, touched \subseteq touched',
         \A d \in Dirs, n \in Names : entries'[d][n] = entries[d][n] \/ <<d, n>> \in touched',
         UNCHANGED <<phase, root, scanVars, useVars>>
  PROVE  ScanInv'
<1>1. CaptureInv'
  BY StayCapture DEF ScanInv, Active
<1>2. Anchors' = Anchors
  BY DEF Anchors
<1>3. ASSUME NEW reference, NEW object, reference.names \in Seq(Names),
             Reaches(Anchors, reference, object)
      PROVE  (Reaches(Anchors, reference, object))'
  <2> DEFINE from == Anchors[reference.anchor + 1]
  <2>1. reference.anchor + 1 \in DOMAIN Anchors
        /\ Found(entries, touched, from, reference.names, object)
    BY <1>3, ReachesFound
  <2> HIDE DEF from
  <2>2. Found(entries', touched', from, reference.names, object)
    BY <1>3, <2>1, FoundAfter
  <2> QED BY <1>2, <2>1, <2>2 DEF from, Reaches, Found, Slots, OpenBacking
<1>4. ASSUME root.state = "open", NEW e \in captured PROVE (Reaches(Anchors, e.backing, e.id))'
  <2>1. e.backing.names \in Seq(Names)
    BY DEF PlanInv, PlanTypeOK, ScanOK, Entries
  <2> QED BY <1>3, <1>4, <2>1 DEF ScanInv, OpenInv
<1>5. ASSUME root.state = "open", NEW k \in DOMAIN stack
      PROVE  (Reaches(Anchors, stack[k].backing, stack[k].dir))'
  <2>1. stack[k] \in Frames
    BY DEF PlanInv, PlanTypeOK, ScanOK
  <2>2. PICK b, o : b = stack[k].backing /\ o = stack[k].dir
    OBVIOUS
  <2>3. b.names \in Seq(Names)
    BY <2>1, <2>2 DEF Frames
  <2>4. Reaches(Anchors, b, o)
    BY <1>5, <2>2 DEF ScanInv, OpenInv
  <2>5. stack'[k].backing = b /\ stack'[k].dir = o
    BY <2>2
  <2>6. (Reaches(Anchors, b, o))'
    BY <1>3, <2>3, <2>4
  <2> QED BY <2>5, <2>6 DEF Reaches, Slots, OpenBacking
<1>6. OpenInv'
  BY <1>2, <1>4, <1>5 DEF ScanInv, OpenInv
<1> QED BY <1>1, <1>6 DEF ScanInv

\* Whatever happens around the run.
LEMMA SurroundingsScanned ==
  ASSUME PlanInv, ScanInv, Surroundings
  PROVE  ScanInv'
<1>1. TreeOK /\ phase' = phase
  BY DEF PlanInv, PlanTypeOK, Surroundings
<1>2. ASSUME NEW d \in Dirs, NEW n \in Names, NEW e \in Dirs, NEW m \in Names, Exchange(d, n, e, m)
      PROVE  ScanInv'
  <2>1. touched \subseteq touched' /\ UNCHANGED <<root, scanVars, useVars>>
    BY <1>2 DEF Exchange
  <2>2. \A x \in Dirs, y \in Names : entries'[x][y] = entries[x][y] \/ <<x, y>> \in touched'
    BY <1>1, <1>2, ExchangeRecorded
  <2> QED BY <1>1, <2>1, <2>2, ChangeScanned
<1>3. ASSUME NEW f \in Files, NEW bytes \in Sizes, WriteFile(f, bytes) PROVE ScanInv'
  BY <1>1, <1>3, ChangeScanned DEF WriteFile
<1>4. ASSUME CancelContext PROVE ScanInv'
  BY <1>1, <1>4, ChangeScanned DEF CancelContext
<1> QED BY <1>2, <1>3, <1>4 DEF Surroundings, OtherPrograms

\* The phases before the scan.
Early == {"open", "bind", "command", "borrowed", "launch", "inherit"}

\* A step outside the scan keeps what it captured, and the root it refers to.
LEMMA LaterScanned ==
  ASSUME PlanInv, ScanInv, UNCHANGED <<entries, touched, spc, stack, captured>>,
         Active => UNCHANGED item, (lease # <<>> => lease = Anchors)',
         root'.state = "open" =>
           \/ captured = {} /\ stack = <<>>
           \/ root.state = "open" /\ root'.dir = root.dir /\ root'.anchors = root.anchors,
         phase' \in Early => captured = {}
  PROVE  ScanInv'
<1>1. CaptureInv'
  BY StayCapture DEF ScanInv, Active
<1>2. phase' \in Early \/ spc' = "idle" => captured' = {}
  BY DEF ScanInv, OpenInv
<1>3. ASSUME root'.state = "open"
      PROVE  /\ \A e \in captured' : (Reaches(Anchors, e.backing, e.id))'
             /\ \A k \in DOMAIN stack' : (Reaches(Anchors, stack[k].backing, stack[k].dir))'
  <2>1. CASE captured = {} /\ stack = <<>>
    BY <2>1
  <2>2. CASE root.state = "open" /\ root'.dir = root.dir /\ root'.anchors = root.anchors
    <3>1. Anchors' = Anchors
      BY <2>2 DEF Anchors
    <3> QED BY <2>2, <3>1 DEF ScanInv, OpenInv, Reaches, Slots, OpenBacking
  <2> QED BY <1>3, <2>1, <2>2
<1>4. OpenInv'
  BY <1>2, <1>3 DEF OpenInv, Early
<1> QED BY <1>1, <1>4 DEF ScanInv

\* Before the scan there is nothing.
LEMMA CommandStepScanned ==
  ASSUME PlanInv, ScanInv, CommandStep
  PROVE  ScanInv'
<1>1. phase \in Early /\ UNCHANGED <<treeVars, spc, stack, captured, lease>>
  BY DEF Early, CommandStep, InspectSource, RefuseSource, BindSource, BorrowForLogs, LogsReady,
         LaunchSupervisor, AcceptSource, Flow, InspectRoot, KeepSource, sourceVars,
         OpenSourceRoot, Borrow, ReturnBorrow, TransferDescriptor, TakeSourceRoot
<1>2. captured = {} /\ lease = <<>> /\ spc \in {"idle", "done"} /\ stack = <<>>
  BY <1>1 DEF Early, PlanInv, HolderInv, WalkInv, ScanInv, OpenInv
<1>3. ~Active
  BY <1>2 DEF Active
<1> QED BY <1>1, <1>2, <1>3, LaterScanned

\* A step that does not concern the source.
LEMMA KeepSourceScanned ==
  ASSUME PlanInv, ScanInv, phase \notin Early, phase' \notin Early, KeepSource
  PROVE  ScanInv'
<1>1. UNCHANGED <<treeVars, scanVars, root, lease>>
  BY DEF KeepSource, sourceVars
<1>2. (lease # <<>> => lease = Anchors)'
  BY <1>1 DEF ScanInv, OpenInv, Anchors
<1> QED BY <1>1, <1>2, LaterScanned

\* The supervisor's other steps, and the commands'.
LEMMA SupervisorStepScanned ==
  ASSUME PlanInv, ScanInv, SupervisorStep \/ ClientStep \/ CommandsEnd
  PROVE  ScanInv'
<1>1. CASE \E result \in {"ok", "error"} : ResolveEgresses(result)
  BY <1>1, KeepSourceScanned DEF ResolveEgresses, Early
<1>2. CASE FactsRead \/ MeasurementEnds \/ CommandsEnd
  BY <1>2, KeepSourceScanned DEF FactsRead, MeasurementEnds, CommandsEnd, Flow, Early
<1>3. CASE Measure
  BY <1>3, KeepSourceScanned DEF Measure, Early
<1>4. CASE \E w \in Weights : ManualWeights(w)
  BY <1>4, KeepSourceScanned DEF ManualWeights, Flow, Early
<1>5. CASE BeginAllocation \/ AllocateFile \/ FinishAllocation
  BY <1>5, KeepSourceScanned DEF BeginAllocation, AllocateFile, FinishAllocation, Flow, Early
<1>6. CASE OpenViews
  <2>1. /\ phase \notin Early /\ phase' \notin Early /\ UNCHANGED <<treeVars, scanVars>>
        /\ root' = [root EXCEPT !.borrows = root.borrows + 1]
        /\ lease' = <<root.dir>> \o root.anchors
    BY <1>6 DEF OpenViews, Flow, AcquireAccess, Early
  <2>2. root'.state = root.state /\ root'.dir = root.dir /\ root'.anchors = root.anchors
    BY <2>1 DEF PlanInv, PlanTypeOK, RootOK
  <2>3. (lease # <<>> => lease = Anchors)'
    BY <2>1, <2>2 DEF Anchors
  <2> QED BY <2>1, <2>2, <2>3, LaterScanned
<1>7. CASE CloseViews
  <2>1. /\ phase \notin Early /\ phase' \notin Early /\ UNCHANGED <<treeVars, scanVars>>
        /\ root' = [root EXCEPT !.borrows = root.borrows - 1] /\ lease' = <<>>
    BY <1>7 DEF CloseViews, Flow, CloseAccess, Early
  <2>2. root'.state = root.state /\ root'.dir = root.dir /\ root'.anchors = root.anchors
    BY <2>1 DEF PlanInv, PlanTypeOK, RootOK
  <2> QED BY <2>1, <2>2, LaterScanned
<1>8. CASE CloseSource
  <2>1. /\ phase = "close" /\ phase' = "closed" /\ UNCHANGED <<treeVars, scanVars, useVars>>
        /\ root' = [root EXCEPT !.state = "closed", !.anchors = <<>>]
    BY <1>8 DEF CloseSource, Flow, CloseRoot
  <2>2. root'.state = "closed" /\ root'.dir = root.dir /\ lease' = <<>>
    BY <2>1 DEF PlanInv, PlanTypeOK, RootOK, HolderInv
  <2> QED BY <2>1, <2>2, LaterScanned DEF Early
<1>9. CASE ClientStep
  <2>1. UNCHANGED <<treeVars, scanVars, root, lease, phase>>
    BY <1>9 DEF ClientStep, OpenFile, ReleaseFile
  <2>2. phase \notin Early
    <3>1. phase = "serving" \/ handles # {}
      BY <1>9 DEF ClientStep, OpenFile, ReleaseFile
    <3> QED BY <3>1 DEF PlanInv, HolderInv, Early
  <2>3. (lease # <<>> => lease = Anchors)'
    BY <2>1 DEF ScanInv, OpenInv, Anchors
  <2> QED BY <2>1, <2>2, <2>3, LaterScanned
<1> QED BY <1>1, <1>2, <1>3, <1>4, <1>5, <1>6, <1>7, <1>8, <1>9, ScanSourceScanned
        DEF SupervisorStep

\* Every step.
LEMMA PlanNextScanned ==
  ASSUME PlanInv, ScanInv, [PlanNext]_planVars
  PROVE  ScanInv'
<1>1. CASE UNCHANGED planVars
  <2>1. UNCHANGED <<phase, treeVars, root, scanVars, useVars>>
    BY <1>1 DEF planVars, sourceVars
  <2> QED BY <2>1, ChangeScanned
<1> QED BY <1>1, CommandStepScanned, SupervisorStepScanned, SurroundingsScanned DEF PlanNext

\* Nothing is captured at the start.
LEMMA PlanInitScanned ==
  ASSUME PlanInit
  PROVE  ScanInv
<1>1. root = ClosedRoot /\ spc = "idle" /\ stack = <<>> /\ captured = {} /\ lease = <<>>
  BY DEF PlanInit, SourceInit
<1>2. root.state = "closed"
  BY <1>1 DEF ClosedRoot
<1> QED BY <1>1, <1>2 DEF ScanInv, CaptureInv, StackInv, TreeInv, ItemInv, OpenInv, Active

-----------------------------------------------------------------------------
(* Orders                                                                  *)

\* A finite set that is not empty has a first element in a total order.
LEMMA FirstElement ==
  ASSUME NEW T, NEW R,
         \A x, y, z \in T : <<x, y>> \in R /\ <<y, z>> \in R => <<x, z>> \in R,
         \A x, y \in T : x # y => <<x, y>> \in R \/ <<y, x>> \in R,
         NEW S \in SUBSET T, IsFiniteSet(S), S # {}
  PROVE  \E m \in S : \A x \in S \ {m} : <<m, x>> \in R
<1> DEFINE First(U) == \E m \in U : \A x \in U \ {m} : <<m, x>> \in R
           C == {U \in SUBSET S : U # {} /\ ~First(U)}
           N == {Cardinality(U) : U \in C}
<1>1. \A U \in SUBSET S : IsFiniteSet(U) /\ Cardinality(U) \in Nat
  BY FS_Subset, FS_CardinalityType
<1>2. SUFFICES ASSUME ~First(S) PROVE FALSE
  OBVIOUS
<1>3. S \in C
  BY <1>2
<1>4. N \in SUBSET Nat /\ N # {}
  <2>1. \A U \in C : Cardinality(U) \in Nat
    BY <1>1
  <2>2. N \subseteq Nat
    <3> HIDE DEF C
    <3> QED BY <2>1
  <2>3. Cardinality(S) \in N
    <3> HIDE DEF C
    <3> QED BY <1>3
  <2> QED BY <2>2, <2>3
<1>5. PICK U \in C : \A V \in C : Cardinality(U) <= Cardinality(V)
  <2>1. Min(N) \in N /\ \A n \in N : Min(N) <= n
    BY <1>4, MinOfNumbers
  <2>2. PICK U \in C : Cardinality(U) = Min(N)
    BY <2>1
  <2>3. \A V \in C : Cardinality(V) \in N
    OBVIOUS
  <2> HIDE DEF C, N
  <2> QED BY <2>1, <2>2, <2>3
<1>6. PICK x \in U : TRUE
  BY <1>5
<1> DEFINE V == U \ {x}
<1>7. V \in SUBSET S /\ Cardinality(V) = Cardinality(U) - 1 /\ Cardinality(U) \in Nat
  BY <1>1, <1>5, <1>6, FS_RemoveElement
<1>8. V \notin C
  <2>1. Cardinality(V) \in Nat /\ ~(Cardinality(U) <= Cardinality(V))
    BY <1>1, <1>7
  <2> QED BY <1>5, <2>1
<1>9. CASE V = {}
  <2>1. \A y \in U \ {x} : <<x, y>> \in R
    BY <1>9
  <2> QED BY <1>5, <1>6, <2>1
<1>10. CASE V # {}
  <2>1. PICK m \in V : \A y \in V \ {m} : <<m, y>> \in R
    BY <1>7, <1>8, <1>10
  <2>2. m \in U /\ x # m /\ m \in T /\ x \in T
    BY <1>5, <1>6, <2>1
  <2>3. CASE <<m, x>> \in R
    <3>1. \A y \in U \ {m} : <<m, y>> \in R
      BY <2>1, <2>3
    <3> QED BY <1>5, <2>2, <3>1
  <2>4. CASE <<x, m>> \in R
    <3>1. ASSUME NEW y \in U \ {x} PROVE <<x, y>> \in R
      <4>1. CASE y = m
        BY <2>4, <4>1
      <4>2. CASE y # m
        <5>1. <<m, y>> \in R /\ y \in T
          BY <1>5, <2>1, <3>1, <4>2
        <5> QED BY <2>2, <2>4, <5>1
      <4> QED BY <4>1, <4>2
    <3> QED BY <1>5, <1>6, <3>1
  <2> QED BY <2>2, <2>3, <2>4
<1> QED BY <1>9, <1>10

\* The words of two products are compared as the products are.
LEMMA WordsCompare ==
  ASSUME NEW a \in Nat, NEW b \in Nat
  PROVE  (High(a) < High(b) \/ (High(a) = High(b) /\ Low(a) < Low(b))) <=> a < b
<1> DEFINE ha == a \div Word
           la == a % Word
           hb == b \div Word
           lb == b % Word
<1>1. /\ ha \in Nat /\ la \in 0..(Word - 1) /\ a = Word * ha + la
      /\ hb \in Nat /\ lb \in 0..(Word - 1) /\ b = Word * hb + lb /\ Word \in Nat \ {0}
  BY WordAssumption, Division
<1> HIDE DEF ha, la, hb, lb
<1>2. ASSUME NEW x \in Nat, NEW y \in Nat, x < y PROVE Word * x + Word <= Word * y
  <2>1. Word * (x + 1) <= Word * y
    BY <1>1, <1>2, Monotone
  <2>2. Word * (x + 1) = Word * x + Word
    BY <1>1
  <2> QED BY <2>1, <2>2
<1>3. Word * ha \in Nat /\ Word * hb \in Nat
  BY <1>1
<1>4. CASE ha < hb
  BY <1>1, <1>2, <1>3, <1>4 DEF High, Low, ha, hb, la, lb
<1>5. CASE hb < ha
  BY <1>1, <1>2, <1>3, <1>5 DEF High, Low, ha, hb, la, lb
<1>6. CASE ha = hb
  BY <1>1, <1>3, <1>6 DEF High, Low, ha, hb, la, lb
<1> QED BY <1>1, <1>4, <1>5, <1>6

\* What LessLoaded says of two loads.
LEMMA LessLoadedMeans ==
  ASSUME NEW l \in [weight : Nat \ {0}, bytes : Nat], NEW r \in [weight : Nat \ {0}, bytes : Nat]
  PROVE  LessLoaded(l, r) <=> l.bytes * r.weight < r.bytes * l.weight
<1>1. l.bytes * r.weight \in Nat /\ r.bytes * l.weight \in Nat
  OBVIOUS
<1> QED BY <1>1, WordsCompare DEF LessLoaded

\* Fractions are ordered.
LEMMA Fractions ==
  ASSUME NEW a \in Nat, NEW c \in Nat, NEW e \in Nat,
         NEW b \in Nat \ {0}, NEW d \in Nat \ {0}, NEW f \in Nat \ {0},
         a * d <= c * b, c * f <= e * d
  PROVE  /\ a * f <= e * b
         /\ a * d < c * b \/ c * f < e * d => a * f < e * b
<1>1. /\ a * d \in Nat /\ c * b \in Nat /\ c * f \in Nat /\ e * d \in Nat /\ a * f \in Nat
      /\ e * b \in Nat
  OBVIOUS
<1>2. f * (a * d) <= f * (c * b) /\ b * (c * f) <= b * (e * d)
  BY <1>1, Monotone
<1>3. /\ f * (a * d) = d * (a * f) /\ f * (c * b) = b * (c * f) /\ b * (e * d) = d * (e * b)
  OBVIOUS
<1>4. d * (a * f) <= d * (e * b)
  BY <1>1, <1>2, <1>3
<1>5. a * f <= e * b
  BY <1>1, <1>4, Cancel
<1>6. ASSUME a * d < c * b \/ c * f < e * d PROVE a * f # e * b
  <2>1. SUFFICES ASSUME a * f = e * b PROVE FALSE
    OBVIOUS
  <2>2. f * (a * d) = f * (c * b) /\ b * (c * f) = b * (e * d)
    BY <1>1, <1>2, <1>3, <2>1
  <2>3. a * d >= c * b /\ c * f >= e * d
    BY <1>1, <2>2, Cancel
  <2> QED BY <1>1, <1>6, <2>3
<1> QED BY <1>1, <1>5, <1>6

\* minimumLoad finds a transfer no other is less loaded than.
LEMMA MinimumLoadLeast ==
  ASSUME NEW loads \in [Targets -> [weight : Nat \ {0}, bytes : Nat]]
  PROVE  /\ MinimumLoad(loads) \in Targets
         /\ \A u \in Targets : loads[MinimumLoad(loads)].bytes * loads[u].weight
                                 <= loads[u].bytes * loads[MinimumLoad(loads)].weight
<1> DEFINE Lower(t, u) == loads[t].bytes * loads[u].weight
           R == {p \in Targets \X Targets :
                   \/ Lower(p[1], p[2]) < Lower(p[2], p[1])
                   \/ Lower(p[1], p[2]) = Lower(p[2], p[1]) /\ p[1] < p[2]}
<1>1. \A t, u \in Targets : Lower(t, u) \in Nat /\ t \in Nat
  BY WeightsAssumption
<1>2. \A t, u \in Targets : <<t, u>> \in R <=> \/ Lower(t, u) < Lower(u, t)
                                               \/ Lower(t, u) = Lower(u, t) /\ t < u
  OBVIOUS
<1>3. \A t, u \in Targets : LessLoaded(loads[t], loads[u]) <=> Lower(t, u) < Lower(u, t)
  BY LessLoadedMeans
<1>4. ASSUME NEW x \in Targets, NEW y \in Targets, NEW z \in Targets,
             <<x, y>> \in R, <<y, z>> \in R
      PROVE  <<x, z>> \in R
  <2>1. Lower(x, y) <= Lower(y, x) /\ Lower(y, z) <= Lower(z, y)
    <3> HIDE DEF Lower, R
    <3> QED BY <1>1, <1>2, <1>4
  <2>2. /\ Lower(x, z) <= Lower(z, x)
        /\ Lower(x, y) < Lower(y, x) \/ Lower(y, z) < Lower(z, y) => Lower(x, z) < Lower(z, x)
    <3> DEFINE a == loads[x].bytes
               b == loads[x].weight
               c == loads[y].bytes
               d == loads[y].weight
               e == loads[z].bytes
               f == loads[z].weight
    <3>1. a \in Nat /\ c \in Nat /\ e \in Nat /\ b \in Nat \ {0} /\ d \in Nat \ {0}
          /\ f \in Nat \ {0}
      OBVIOUS
    <3>2. a * d <= c * b /\ c * f <= e * d
      BY <2>1
    <3> HIDE DEF a, b, c, d, e, f
    <3>3. a * f <= e * b /\ (a * d < c * b \/ c * f < e * d => a * f < e * b)
      BY ONLY <3>1, <3>2, Fractions
    <3> QED BY <3>3 DEF a, b, c, d, e, f
  <2> HIDE DEF Lower, R
  <2> QED BY <1>1, <1>2, <1>4, <2>2
<1>5. \A x, y \in Targets : x # y => <<x, y>> \in R \/ <<y, x>> \in R
  <2> HIDE DEF Lower, R
  <2> QED BY <1>1, <1>2
<1>6. PICK m \in Targets : \A u \in Targets \ {m} : <<m, u>> \in R
  <2>1. IsFiniteSet(Targets) /\ Targets # {} /\ Targets \in SUBSET Targets
    BY ThroughputAssumption, WeightsAssumption
  <2>2. \A x, y, z \in Targets : <<x, y>> \in R /\ <<y, z>> \in R => <<x, z>> \in R
    BY <1>4
  <2> HIDE DEF R
  <2> QED BY <1>5, <2>1, <2>2, FirstElement
<1>7. \A u \in Targets : /\ ~LessLoaded(loads[u], loads[m])
                         /\ u < m => LessLoaded(loads[m], loads[u])
  <2>1. TAKE u \in Targets
  <2>2. CASE u = m
    <3> HIDE DEF Lower, R
    <3> QED BY <1>1, <1>3, <2>2
  <2>3. CASE u # m
    <3> HIDE DEF Lower, R
    <3>1. <<m, u>> \in R
      BY <1>6, <2>3
    <3>2. \/ Lower(m, u) < Lower(u, m)
          \/ Lower(m, u) = Lower(u, m) /\ m < u
      BY <1>2, <3>1
    <3>3. Lower(m, u) \in Nat /\ Lower(u, m) \in Nat /\ m \in Nat /\ u \in Nat
      BY <1>1
    <3>4. ~(Lower(u, m) < Lower(m, u)) /\ (u < m => Lower(m, u) < Lower(u, m))
      BY <3>2, <3>3
    <3> QED BY <1>3, <3>4
  <2> QED BY <2>2, <2>3
<1> DEFINE t == MinimumLoad(loads)
<1>8. t \in Targets /\ \A u \in Targets : ~LessLoaded(loads[u], loads[t])
  <2>1. DOMAIN loads = Targets
    OBVIOUS
  <2> QED BY <1>7, <2>1 DEF MinimumLoad
<1> HIDE DEF t
<1>9. \A u \in Targets : Lower(t, u) <= Lower(u, t)
  <2> HIDE DEF Lower, R
  <2> QED BY <1>1, <1>3, <1>8
<1> QED BY <1>8, <1>9 DEF t

\* A path is made of numbers.
LEMMA PathNumbers ==
  ASSUME NEW p \in Seq(Names)
  PROVE  Len(p) \in Nat /\ \A k \in 1..Len(p) : p[k] \in Nat
<1>1. Len(p) \in Nat /\ \A k \in 1..Len(p) : p[k] \in Names
  OBVIOUS
<1>2. \A n \in Names : n \in Nat
  BY SourceAssumption
<1> QED BY <1>1, <1>2

\* Paths are in a total order.
LEMMA PathLessTransitive ==
  ASSUME NEW p \in Seq(Names), NEW q \in Seq(Names), NEW r \in Seq(Names),
         PathLess(p, q), PathLess(q, r)
  PROVE  PathLess(p, r)
<1>1. /\ Len(p) \in Nat /\ Len(q) \in Nat /\ Len(r) \in Nat
      /\ \A k \in 1..Len(p) : p[k] \in Nat
      /\ \A k \in 1..Len(q) : q[k] \in Nat
      /\ \A k \in 1..Len(r) : r[k] \in Nat
  BY PathNumbers
<1>2. PICK k \in 1..Len(q) : /\ \A j \in 1..(k - 1) : j <= Len(p) /\ p[j] = q[j]
                             /\ k > Len(p) \/ p[k] < q[k]
  BY DEF PathLess
<1>3. PICK l \in 1..Len(r) : /\ \A j \in 1..(l - 1) : j <= Len(q) /\ q[j] = r[j]
                             /\ l > Len(q) \/ q[l] < r[l]
  BY DEF PathLess
<1>4. k \in Nat /\ l \in Nat /\ k >= 1 /\ l >= 1 /\ k <= Len(q) /\ l <= Len(r)
  BY <1>1
<1>5. CASE k <= l
  <2>1. \A j \in 1..(k - 1) : j <= Len(p) /\ p[j] = r[j]
    BY <1>2, <1>3, <1>4, <1>5
  <2>2. k \in 1..Len(r)
    BY <1>1, <1>4, <1>5
  <2>3. k > Len(p) \/ p[k] < r[k]
    <3>1. SUFFICES ASSUME k <= Len(p) PROVE p[k] < r[k]
      BY <1>1, <1>4
    <3>2. p[k] < q[k]
      BY <1>1, <1>2, <1>4, <3>1
    <3>3. p[k] \in Nat /\ q[k] \in Nat /\ r[k] \in Nat
      BY <1>1, <1>4, <2>2, <3>1
    <3>4. q[k] <= r[k]
      <4>1. CASE k = l
        BY <1>1, <1>3, <1>4, <3>3, <4>1
      <4>2. CASE k < l
        <5>1. q[k] = r[k]
          BY <1>3, <1>4, <4>2
        <5> QED BY <3>3, <5>1
      <4> QED BY <1>4, <1>5, <4>1, <4>2
    <3> QED BY <3>2, <3>3, <3>4
  <2> QED BY <2>1, <2>2, <2>3 DEF PathLess
<1>6. CASE l < k
  <2>1. l <= Len(q) /\ q[l] < r[l]
    BY <1>1, <1>3, <1>4, <1>6
  <2>2. l <= Len(p) /\ p[l] = q[l]
    BY <1>2, <1>4, <1>6
  <2>3. \A j \in 1..(l - 1) : j <= Len(p) /\ p[j] = r[j]
    <3>1. TAKE j \in 1..(l - 1)
    <3>2. j \in 1..(k - 1)
      BY <1>4, <1>6
    <3> QED BY <1>2, <1>3, <3>2
  <2> QED BY <2>1, <2>2, <2>3 DEF PathLess
<1> QED BY <1>4, <1>5, <1>6

\* One of two paths comes first.
LEMMA PathLessTotal ==
  ASSUME NEW p \in Seq(Names), NEW q \in Seq(Names), p # q
  PROVE  PathLess(p, q) \/ PathLess(q, p)
<1>1. /\ Len(p) \in Nat /\ Len(q) \in Nat
      /\ \A k \in 1..Len(p) : p[k] \in Nat
      /\ \A k \in 1..Len(q) : q[k] \in Nat
  BY PathNumbers
<1> DEFINE D == {k \in Nat : 1 <= k /\ k <= Len(p) /\ k <= Len(q) /\ p[k] # q[k]}
<1>2. CASE D = {}
  <2>1. \A k \in Nat : 1 <= k /\ k <= Len(p) /\ k <= Len(q) => p[k] = q[k]
    BY <1>2
  <2>2. Len(p) # Len(q)
    <3>1. SUFFICES ASSUME Len(p) = Len(q) PROVE FALSE
      OBVIOUS
    <3>2. \A k \in 1..Len(p) : p[k] = q[k]
      BY <1>1, <2>1, <3>1
    <3>3. p = [k \in 1..Len(p) |-> p[k]] /\ q = [k \in 1..Len(q) |-> q[k]]
      OBVIOUS
    <3> QED BY <3>1, <3>2, <3>3
  <2>3. CASE Len(p) < Len(q)
    <3> DEFINE k == Len(p) + 1
    <3>1. k \in 1..Len(q) /\ k > Len(p)
      BY <1>1, <2>3
    <3>2. \A j \in 1..(k - 1) : j <= Len(p) /\ p[j] = q[j]
      BY <1>1, <2>1, <2>3
    <3> HIDE DEF k
    <3> QED BY <3>1, <3>2 DEF PathLess
  <2>4. CASE Len(q) < Len(p)
    <3> DEFINE k == Len(q) + 1
    <3>1. k \in 1..Len(p) /\ k > Len(q)
      BY <1>1, <2>4
    <3>2. \A j \in 1..(k - 1) : j <= Len(q) /\ q[j] = p[j]
      BY <1>1, <2>1, <2>4
    <3> HIDE DEF k
    <3> QED BY <3>1, <3>2 DEF PathLess
  <2> QED BY <1>1, <2>2, <2>3, <2>4
<1>3. CASE D # {}
  <2>1. PICK m \in D : \A k \in D : m <= k
    <3>1. D \in SUBSET Nat
      OBVIOUS
    <3> HIDE DEF D
    <3> QED BY <1>3, <3>1, MinOfNumbers
  <2>2. \A j \in 1..(m - 1) : j <= Len(p) /\ j <= Len(q) /\ p[j] = q[j]
    <3>1. TAKE j \in 1..(m - 1)
    <3>2. j \in Nat /\ 1 <= j /\ ~(m <= j) /\ j <= Len(p) /\ j <= Len(q)
      BY <1>1, <2>1
    <3> QED BY <2>1, <3>2
  <2>3. m \in 1..Len(p) /\ m \in 1..Len(q) /\ p[m] # q[m]
    BY <1>1, <2>1
  <2>4. p[m] < q[m] \/ q[m] < p[m]
    BY <1>1, <2>3
  <2> HIDE DEF D
  <2> QED BY <2>2, <2>3, <2>4 DEF PathLess
<1> QED BY <1>2, <1>3

\* The next file is one of those left, and none of them is larger.
LEMMA NextFileLargest ==
  ASSUME NEW files \in SUBSET FilesOf(captured), files # {}, captured \subseteq Entries,
         IsFiniteSet(captured), TreeInv
  PROVE  /\ NextFile(files) \in files
         /\ \A g \in files : g.size <= NextFile(files).size
<1> DEFINE R == {p \in files \X files : Before(p[1], p[2])}
<1>1. \A f \in files : f \in captured /\ f.size \in Nat /\ f.path \in Seq(Names)
  BY DEF FilesOf, Entries
<1>2. \A f, g \in files : f # g => f.path # g.path
  BY <1>1 DEF TreeInv
<1>3. \A f, g \in files : <<f, g>> \in R <=> Before(f, g)
  OBVIOUS
<1>4. ASSUME NEW x \in files, NEW y \in files, NEW z \in files, Before(x, y), Before(y, z)
      PROVE  Before(x, z)
  <2>1. x.size >= y.size /\ y.size >= z.size
    BY <1>1, <1>4 DEF Before
  <2>2. CASE x.size = y.size /\ y.size = z.size
    <3>1. PathLess(x.path, y.path) /\ PathLess(y.path, z.path)
      BY <1>1, <1>4, <2>2 DEF Before
    <3> QED BY <1>1, <2>2, <3>1, PathLessTransitive DEF Before
  <2>3. CASE x.size > y.size \/ y.size > z.size
    BY <1>1, <2>1, <2>3 DEF Before
  <2> QED BY <1>1, <2>1, <2>2, <2>3
<1>5. \A x, y \in files : x # y => Before(x, y) \/ Before(y, x)
  BY <1>1, <1>2, PathLessTotal DEF Before
<1>6. \E f \in files : \A g \in files \ {f} : Before(f, g)
  <2>1. IsFiniteSet(files) /\ files \in SUBSET files
    BY FS_Subset DEF FilesOf
  <2>2. \A x, y, z \in files : <<x, y>> \in R /\ <<y, z>> \in R => <<x, z>> \in R
    BY <1>3, <1>4
  <2>3. \A x, y \in files : x # y => <<x, y>> \in R \/ <<y, x>> \in R
    BY <1>3, <1>5
  <2> HIDE DEF R
  <2>4. \E f \in files : \A g \in files \ {f} : <<f, g>> \in R
    BY <2>1, <2>2, <2>3, FirstElement
  <2> QED BY <1>3, <2>4
<1> DEFINE f == NextFile(files)
<1>7. f \in files /\ \A g \in files \ {f} : Before(f, g)
  BY <1>6 DEF NextFile
<1> HIDE DEF f
<1>8. \A g \in files : g.size <= f.size
  BY <1>1, <1>7 DEF Before
<1> QED BY <1>7, <1>8 DEF f

-----------------------------------------------------------------------------
(* The allocation                                                          *)

\* What is captured, with paths of its own.
LEMMA CapturedFacts ==
  ASSUME PlanInv, ScanInv
  PROVE  /\ \A e \in captured : e.path \in Seq(Names) /\ e.path # <<>> /\ e.size \in Nat
         /\ \A e, f \in captured : e.path = f.path => e = f
         /\ captured \subseteq Entries /\ IsFiniteSet(captured) /\ TreeInv
         /\ FilesOf(captured) \subseteq captured /\ EmptyDirsOf(captured) \subseteq captured
         /\ \A f \in FilesOf(captured), d \in EmptyDirsOf(captured) : f.path # d.path
<1>1. captured \subseteq Entries /\ IsFiniteSet(captured) /\ TreeInv
  BY DEF PlanInv, PlanTypeOK, ScanOK, ScanInv, CaptureInv
<1>2. \A e \in captured : e.path \in Seq(Names) /\ e.path # <<>> /\ e.size \in Nat
  BY <1>1 DEF Entries, TreeInv
<1>3. \A e, f \in captured : e.path = f.path => e = f
  BY <1>1 DEF TreeInv
<1>4. FilesOf(captured) \subseteq captured /\ EmptyDirsOf(captured) \subseteq captured
  BY DEF FilesOf, EmptyDirsOf
<1>5. \A f \in FilesOf(captured), d \in EmptyDirsOf(captured) : f # d
  BY DEF FilesOf, EmptyDirsOf
<1>6. \A f \in FilesOf(captured), d \in EmptyDirsOf(captured) : f.path # d.path
  BY <1>3, <1>4, <1>5
<1> QED BY <1>1, <1>2, <1>3, <1>4, <1>6

\* The weights that are given are positive.
LEMMA ManualWeightsShare ==
  ASSUME NEW w \in Weights, ManualWeights(w)
  PROVE  ShareInv'
<1>1. phase' = "allocate" /\ weights' = w
  BY DEF ManualWeights, Flow
<1> QED BY <1>1, WeightsAssumption DEF ShareInv

\* So are those that are measured, of all transfers.
LEMMA MeasurementEndsShare ==
  ASSUME PlanInv, MeasurementEnds
  PROVE  ShareInv'
<1> DEFINE only == (request = "list")
           w == RelativeWeights(only)
<1>1. /\ weights' = w
      /\ phase' = IF request = "list" THEN "closed"
                  ELSE IF DOMAIN weights' = Targets THEN "allocate" ELSE "close"
  BY DEF MeasurementEnds, Flow
<1>2. CASE phase' = "allocate"
  <2>1. DOMAIN w = Targets
    <3> HIDE DEF w
    <3> QED BY <1>1, <1>2
  <2>2. w # <<>>
    <3>1. DOMAIN <<>> = {}
      OBVIOUS
    <3> HIDE DEF w
    <3> QED BY <2>1, <3>1, WeightsAssumption
  <2>3. only \in BOOLEAN /\ MeasureOK /\ FailureInv
    BY DEF PlanInv, PlanTypeOK
  <2>4. \A t \in DOMAIN w : w[t] \in 1..(Limit - 1)
    <3> HIDE DEF only
    <3> QED BY <2>2, <2>3, RelativeWeightsFaithful, Zenon
  <2>5. w = [t \in DOMAIN w |-> w[t]]
    BY <2>2 DEF RelativeWeights, Weigh
  <2>6. \A t \in Targets : w[t] \in Nat \ {0}
    <3> HIDE DEF w
    <3> QED BY <2>1, <2>4, ThroughputAssumption
  <2>7. w \in [Targets -> Nat \ {0}]
    <3> HIDE DEF w
    <3> QED BY <2>1, <2>5, <2>6
  <2> HIDE DEF w
  <2> QED BY <1>1, <1>2, <2>7 DEF ShareInv
<1>3. phase' \in {"closed", "allocate", "close"}
  <2> HIDE DEF w
  <2> QED BY <1>1
<1> QED BY <1>2, <1>3 DEF ShareInv

\* The allocation begins with nothing placed.
LEMMA BeginAllocationShare ==
  ASSUME ShareInv, BeginAllocation
  PROVE  ShareInv'
<1> DEFINE files == FilesOf(captured)
<1>1. phase = "allocate" /\ phase' = "place" /\ captured' = captured
      /\ plan' = [todo |-> files, loads |-> Loads(weights), owners |-> {}]
  BY DEF BeginAllocation, Flow, KeepSource, sourceVars, NewPlan
<1>2. weights \in [Targets -> Nat \ {0}]
  BY <1>1 DEF ShareInv
<1>3. Loads(weights) \in [Targets -> [weight : Nat \ {0}, bytes : Nat]]
  BY <1>2 DEF Loads
<1>4. /\ plan'.todo = files /\ plan'.owners = {} /\ plan'.loads = Loads(weights)
      /\ plan' \in [todo : SUBSET files, loads : [Targets -> [weight : Nat \ {0}, bytes : Nat]],
                   owners : SUBSET (Seq(Names) \X Targets)]
  BY <1>1, <1>3
<1>5. (FilesOf(captured))' = files
  BY <1>1 DEF FilesOf
<1> HIDE DEF files
<1>6. OwnersInv'
  BY <1>1, <1>4, <1>5 DEF OwnersInv, Placed
<1>7. BalanceInv'
  BY <1>4 DEF BalanceInv
<1> QED BY <1>1, <1>4, <1>5, <1>6, <1>7 DEF ShareInv

\* The file that is placed goes to the least loaded transfer, and is no larger than those
\* that were placed before: without any of them, the transfer would be no more loaded than
\* another.
LEMMA BalanceKept ==
  ASSUME NEW bi \in Nat, NEW bj \in Nat, NEW ni \in Nat, NEW nj \in Nat,
         NEW wi \in Nat, NEW wj \in Nat, NEW s \in Nat, bj <= nj,
         \/ ni - s <= bi /\ bi * wj <= bj * wi
         \/ ni = bi /\ (bi - s) * wj <= bj * wi
  PROVE  (ni - s) * wj <= nj * wi
<1>1. bj * wi <= nj * wi
  <2>1. wi * bj <= wi * nj
    BY Monotone
  <2>2. wi * bj = bj * wi /\ wi * nj = nj * wi
    OBVIOUS
  <2> QED BY <2>1, <2>2
<1>2. ni - s \in Int
  OBVIOUS
<1>3. (ni - s) * wj \in Int /\ bi * wj \in Int /\ bj * wi \in Int /\ nj * wi \in Int
  BY <1>2
<1>4. (ni - s) * wj <= bj * wi
  <2>1. CASE ni - s <= bi /\ bi * wj <= bj * wi
    <3>1. wj * (ni - s) <= wj * bi
      BY <1>2, <2>1, Monotone
    <3>2. wj * (ni - s) = (ni - s) * wj /\ wj * bi = bi * wj
      BY <1>2
    <3> QED BY <1>3, <2>1, <3>1, <3>2
  <2>2. CASE ni = bi /\ (bi - s) * wj <= bj * wi
    BY <2>2
  <2> QED BY <2>1, <2>2
<1> QED BY <1>1, <1>3, <1>4

\* The next file is placed, or does not fit.
LEMMA AllocateFileShare ==
  ASSUME PlanInv, ScanInv, ShareInv, AllocateFile
  PROVE  ShareInv'
<1> DEFINE files == FilesOf(captured)
           t == MinimumLoad(plan.loads)
           file == NextFile(plan.todo)
<1>1. /\ phase = "place" /\ plan.todo # {} /\ captured' = captured
      /\ \/ plan' = PlaceFile(plan, t) /\ phase' = "place"
         \/ phase' = "close"
  BY DEF AllocateFile, Flow, KeepSource, sourceVars
<1>2. CASE phase' = "close"
  BY <1>2 DEF ShareInv
<1>3. CASE plan' = PlaceFile(plan, t) /\ phase' = "place"
  <2>1. /\ plan.loads \in [Targets -> [weight : Nat \ {0}, bytes : Nat]]
        /\ plan.todo \subseteq files /\ plan.owners \subseteq Seq(Names) \X Targets
        /\ \A f \in files \ plan.todo : \A g \in plan.todo : g.size <= f.size
        /\ OwnersInv /\ BalanceInv
    BY <1>1 DEF ShareInv
  <2>2. t \in Targets /\ \A u \in Targets : plan.loads[t].bytes * plan.loads[u].weight
                                             <= plan.loads[u].bytes * plan.loads[t].weight
    BY <2>1, MinimumLoadLeast
  <2>3. file \in plan.todo /\ \A g \in plan.todo : g.size <= file.size
    BY <1>1, <2>1, CapturedFacts, NextFileLargest
  <2>4. /\ plan'.todo = plan.todo \ {file} /\ plan'.owners = plan.owners \cup {<<file.path, t>>}
        /\ plan'.loads = [plan.loads EXCEPT ![t].bytes = plan.loads[t].bytes + file.size]
        /\ plan' = [todo |-> plan'.todo, loads |-> plan'.loads, owners |-> plan'.owners]
    BY <1>3 DEF PlaceFile
  <2>5. file \in files /\ file \in captured /\ file.size \in Nat /\ file.path \in Seq(Names)
    BY <2>1, <2>3, CapturedFacts
  <2> HIDE DEF t, file
  <2>6. /\ plan'.loads \in [Targets -> [weight : Nat \ {0}, bytes : Nat]]
        /\ \A u \in Targets :
             /\ plan'.loads[u].weight = plan.loads[u].weight
             /\ plan'.loads[u].bytes = IF u = t THEN plan.loads[t].bytes + file.size
                                                ELSE plan.loads[u].bytes
    <3> DEFINE total == plan.loads[t].bytes + file.size
    <3>1. total \in Nat
      BY <2>1, <2>2, <2>5
    <3>2. plan'.loads = [plan.loads EXCEPT ![t].bytes = total]
      BY <2>4
    <3> HIDE DEF total
    <3>3. plan'.loads \in [Targets -> [weight : Nat \ {0}, bytes : Nat]]
      BY <2>1, <2>2, <3>1, <3>2
    <3>4. \A u \in Targets : /\ plan'.loads[u].weight = plan.loads[u].weight
                             /\ plan'.loads[u].bytes = IF u = t THEN total
                                                                ELSE plan.loads[u].bytes
      BY <2>1, <2>2, <3>2
    <3> QED BY <3>3, <3>4 DEF total
  <2>7. (FilesOf(captured))' = files
    BY <1>1 DEF FilesOf
  <2>8. Placed = files \ plan.todo /\ Placed' = (files \ plan.todo) \cup {file}
    BY <1>1, <1>3, <2>4, <2>5, <2>7 DEF Placed
  <2>9. \A e, f \in files : e.path = f.path => e = f
    BY CapturedFacts
  <2>10. \A o \in plan.owners : o[1] # file.path
    BY <2>1, <2>3, <2>5, <2>8, <2>9 DEF OwnersInv
  <2>11. OwnersInv'
    <3> DEFINE new == <<file.path, t>>
    <3>1. new[1] = file.path /\ plan'.owners = plan.owners \cup {new}
      BY <2>4
    <3> HIDE DEF new
    <3>2. \A o \in plan'.owners : \E e \in Placed' : o[1] = e.path
      BY <2>1, <2>8, <3>1 DEF OwnersInv
    <3>3. \A o, p \in plan'.owners : o[1] = p[1] => o = p
      BY <2>1, <2>10, <3>1, Zenon DEF OwnersInv
    <3>4. \A e \in Placed' : \E o \in plan'.owners : o[1] = e.path
      <4>1. TAKE e \in Placed'
      <4>2. CASE e = file
        BY <3>1, <4>2
      <4>3. CASE e # file
        BY <2>1, <2>8, <3>1, <4>3 DEF OwnersInv
      <4> QED BY <4>2, <4>3
    <3> QED BY <3>2, <3>3, <3>4 DEF OwnersInv
  <2>12. ASSUME NEW i \in Targets, NEW j \in Targets, NEW f \in files,
                <<f.path, i>> \in plan'.owners
         PROVE  (plan'.loads[i].bytes - f.size) * plan'.loads[j].weight
                  <= plan'.loads[j].bytes * plan'.loads[i].weight
    <3>1. f.size \in Nat
      BY CapturedFacts
    <3>2. \/ i = t /\ file.size <= f.size
          \/ /\ (plan.loads[i].bytes - f.size) * plan.loads[j].weight
                  <= plan.loads[j].bytes * plan.loads[i].weight
             /\ i # t
      <4>1. CASE <<f.path, i>> \in plan.owners
        <5>1. f \in Placed
          BY <2>1, <2>8, <2>9, <4>1 DEF OwnersInv
        <5>2. file.size <= f.size
          BY <2>1, <2>3, <2>8, <5>1
        <5>3. (plan.loads[i].bytes - f.size) * plan.loads[j].weight
                  <= plan.loads[j].bytes * plan.loads[i].weight
          BY <2>1, <4>1 DEF BalanceInv
        <5> QED BY <5>2, <5>3
      <4>2. CASE <<f.path, i>> \notin plan.owners
        <5>1. <<f.path, i>> = <<file.path, t>>
          BY <2>4, <2>12, <4>2, Zenon
        <5>2. f = file /\ i = t
          BY <2>5, <2>9, <5>1
        <5> QED BY <3>1, <5>2
      <4> QED BY <4>1, <4>2
    <3> DEFINE bi == plan.loads[i].bytes
               bj == plan.loads[j].bytes
               wi == plan.loads[i].weight
               wj == plan.loads[j].weight
               ni == plan'.loads[i].bytes
               nj == plan'.loads[j].bytes
               s == f.size
    <3>3. /\ bi \in Nat /\ bj \in Nat /\ wi \in Nat /\ wj \in Nat /\ ni \in Nat /\ nj \in Nat
          /\ s \in Nat /\ plan'.loads[i].weight = wi /\ plan'.loads[j].weight = wj
      BY <2>1, <2>6, <3>1
    <3>4. bj <= nj
      <4>1. nj = bj + file.size \/ nj = bj
        BY <2>6
      <4> HIDE DEF bj, nj
      <4> QED BY <2>5, <3>3, <4>1
    <3>5. \/ ni - s <= bi /\ bi * wj <= bj * wi
          \/ ni = bi /\ (bi - s) * wj <= bj * wi
      <4>1. CASE i = t
        <5>1. ni = bi + file.size /\ file.size <= s /\ bi * wj <= bj * wi
          BY <2>2, <2>6, <3>2, <4>1
        <5> HIDE DEF bi, bj, wi, wj, ni, nj, s
        <5> QED BY <2>5, <3>3, <5>1
      <4>2. CASE i # t
        BY <2>6, <3>2, <4>2
      <4> QED BY <4>1, <4>2
    <3> HIDE DEF bi, bj, wi, wj, ni, nj, s
    <3>6. (ni - s) * wj <= nj * wi
      BY ONLY <3>3, <3>4, <3>5, BalanceKept
    <3> QED BY <3>3, <3>6 DEF ni, nj, s
  <2>13. BalanceInv'
    BY <2>7, <2>12 DEF BalanceInv
  <2>14. /\ plan'.todo \subseteq files
         /\ \A f \in files \ plan'.todo : \A g \in plan'.todo : g.size <= f.size
    BY <2>1, <2>3, <2>4
  <2>15. plan' \in [todo : SUBSET files, loads : [Targets -> [weight : Nat \ {0}, bytes : Nat]],
                    owners : SUBSET (Seq(Names) \X Targets)]
    <3>1. plan'.owners \subseteq Seq(Names) \X Targets
      BY <2>1, <2>2, <2>4, <2>5
    <3> HIDE DEF files
    <3> QED BY <2>4, <2>6, <2>14, <3>1
  <2> HIDE DEF files
  <2> QED BY <1>3, <2>7, <2>11, <2>13, <2>14, <2>15 DEF ShareInv
<1> QED BY <1>1, <1>2, <1>3

\* The empty directories follow, in turn.
LEMMA FinishAllocationShare ==
  ASSUME PlanInv, ScanInv, ShareInv, FinishAllocation
  PROVE  ShareInv'
<1> DEFINE files == FilesOf(captured)
           dirs == EmptyDirsOf(captured)
           full == CompletePlan(plan, dirs)
           given == AllocateEmptyDirectories(dirs, DOMAIN plan.loads)
<1>1. /\ phase = "place" /\ plan.todo = {} /\ captured' = captured
      /\ \/ plan' = full /\ ValidAllocation(full, files, dirs) /\ phase' = "views"
         \/ phase' = "close"
  BY DEF FinishAllocation, Flow, KeepSource, sourceVars
<1>2. CASE phase' = "close"
  BY <1>2 DEF ShareInv
<1>3. CASE plan' = full /\ ValidAllocation(full, files, dirs) /\ phase' = "views"
  <2>1. /\ plan \in [todo : SUBSET files, loads : [Targets -> [weight : Nat \ {0}, bytes : Nat]],
                    owners : SUBSET (Seq(Names) \X Targets)]
        /\ OwnersInv /\ BalanceInv
    BY <1>1 DEF ShareInv
  <2>2. /\ plan'.todo = {} /\ plan'.loads = plan.loads /\ plan'.owners = plan.owners \cup given
        /\ plan' = [todo |-> plan'.todo, loads |-> plan'.loads, owners |-> plan'.owners]
    <3>1. plan' = [plan EXCEPT !.owners = plan.owners \cup given]
      BY <1>3 DEF CompletePlan
    <3> HIDE DEF files, given
    <3> QED BY <1>1, <2>1, <3>1
  <2>3. \A o \in plan'.owners : o[2] \in Targets
    BY <1>3, <2>1, <2>2 DEF ValidAllocation
  <2> HIDE DEF full
  <2>4. PICK T : given = {<<d.path, T[d]>> : d \in dirs}
    <3> DEFINE Index(d) == Cardinality({e \in dirs : PathLess(e.path, d.path)})
               Transfer(k) == CHOOSE t \in DOMAIN plan.loads :
                                Cardinality({u \in DOMAIN plan.loads : u < t}) = k
               F == [d \in dirs |-> Transfer(Index(d) % Cardinality(DOMAIN plan.loads))]
    <3>1. given = {<<d.path, Transfer(Index(d) % Cardinality(DOMAIN plan.loads))>> : d \in dirs}
      BY DEF AllocateEmptyDirectories
    <3> HIDE DEF Index, Transfer
    <3>2. given = {<<d.path, F[d]>> : d \in dirs}
      BY <3>1
    <3> QED BY <3>2
  <2> HIDE DEF given
  <2>5. Placed = files /\ Placed' = files \cup dirs /\ (FilesOf(captured))' = files
    BY <1>1, <1>3 DEF Placed, Items, FilesOf, EmptyDirsOf
  <2>6. /\ \A d \in dirs : d.path \in Seq(Names)
        /\ \A f \in files, d \in dirs : f.path # d.path
        /\ \A d, e \in dirs : d.path = e.path => d = e
    BY CapturedFacts
  <2> HIDE DEF files, dirs
  <2>7. OwnersInv'
    <3>1. \A o \in plan'.owners : \E e \in Placed' : o[1] = e.path
      BY <2>1, <2>2, <2>4, <2>5 DEF OwnersInv
    <3>2. \A o, p \in plan'.owners : o[1] = p[1] => o = p
      <4>1. TAKE o, p \in plan'.owners
      <4>2. CASE o \in plan.owners /\ p \in plan.owners
        BY <2>1, <4>2 DEF OwnersInv
      <4>3. CASE o \in given /\ p \in given
        BY <2>4, <2>6, <4>3
      <4>4. \A q \in plan.owners, r \in given : q[1] # r[1]
        BY <2>1, <2>4, <2>5, <2>6 DEF OwnersInv
      <4> QED BY <2>2, <4>2, <4>3, <4>4
    <3>3. \A e \in Placed' : \E o \in plan'.owners : o[1] = e.path
      <4>1. TAKE e \in Placed'
      <4>2. CASE e \in files
        BY <2>1, <2>2, <2>5, <4>2 DEF OwnersInv
      <4>3. CASE e \in dirs
        <5>1. <<e.path, T[e]>> \in plan'.owners
          BY <2>2, <2>4, <4>3
        <5> QED BY <5>1
      <4> QED BY <2>5, <4>2, <4>3
    <3> QED BY <3>1, <3>2, <3>3 DEF OwnersInv
  <2>8. \A f \in files, i \in Targets :
          <<f.path, i>> \in plan'.owners => <<f.path, i>> \in plan.owners
    BY <2>2, <2>4, <2>6
  <2>9. BalanceInv'
    BY <2>1, <2>2, <2>5, <2>8 DEF BalanceInv, files
  <2>10. plan' \in [todo : SUBSET files, loads : [Targets -> [weight : Nat \ {0}, bytes : Nat]],
                    owners : SUBSET (Seq(Names) \X Targets)]
    <3>1. \A d \in dirs : <<d.path, T[d]>> \in Seq(Names) \X Targets
      BY <2>2, <2>3, <2>4, <2>6
    <3>2. plan'.owners \subseteq Seq(Names) \X Targets
      BY <2>1, <2>2, <2>4, <3>1
    <3> QED BY <2>1, <2>2, <3>2
  <2> QED BY <1>3, <2>2, <2>5, <2>7, <2>9, <2>10 DEF ShareInv
<1> QED BY <1>1, <1>2, <1>3

\* Every step.
LEMMA PlanNextShare ==
  ASSUME PlanInv, ScanInv, ShareInv, [PlanNext]_planVars
  PROVE  ShareInv'
<1>1. ASSUME phase' \notin {"allocate", "place", "views"} PROVE ShareInv'
  BY <1>1 DEF ShareInv
<1>2. ASSUME UNCHANGED <<phase, weights, plan, captured>> PROVE ShareInv'
  BY <1>2 DEF ShareInv, OwnersInv, BalanceInv, Placed, Items, FilesOf, EmptyDirsOf
<1>3. CASE CommandStep
  BY <1>1, <1>3 DEF CommandStep, InspectSource, RefuseSource, BindSource, BorrowForLogs, LogsReady,
     LaunchSupervisor, AcceptSource, Flow
<1>4. CASE UNCHANGED planVars
  <2>1. UNCHANGED <<flowVars, scanVars>>
    BY <1>4 DEF planVars, sourceVars
  <2> QED BY <1>2, <2>1
<1>5. CASE ClientStep \/ Surroundings \/ Measure
  <2>1. UNCHANGED flowVars
    BY <1>5 DEF ClientStep, OpenFile, ReleaseFile, Surroundings, Measure
  <2>2. UNCHANGED scanVars
    <3>1. CASE ClientStep
      BY <3>1 DEF ClientStep, OpenFile, ReleaseFile
    <3>2. CASE Measure
      BY <3>2 DEF Measure, KeepSource, sourceVars
    <3>3. CASE Surroundings
      <4>1. ASSUME NEW d \in Dirs, NEW e \in Dirs, NEW n \in Names, NEW m \in Names,
                   Exchange(d, n, e, m)
            PROVE  UNCHANGED scanVars
        BY <4>1 DEF Exchange
      <4> QED BY <3>3, <4>1 DEF Surroundings, OtherPrograms, WriteFile, CancelContext
    <3> QED BY <1>5, <3>1, <3>2, <3>3
  <2> QED BY <1>2, <2>1, <2>2
<1>6. CASE ScanSource
  BY <1>1, <1>6 DEF ScanSource
<1>7. CASE \E result \in {"ok", "error"} : ResolveEgresses(result)
  BY <1>1, <1>7 DEF ResolveEgresses
<1>8. CASE FactsRead \/ OpenViews \/ CommandsEnd \/ CloseViews \/ CloseSource
  BY <1>1, <1>8 DEF FactsRead, OpenViews, CommandsEnd, CloseViews, CloseSource, Flow
<1> QED BY <1>3, <1>4, <1>5, <1>6, <1>7, <1>8, ManualWeightsShare, MeasurementEndsShare,
           BeginAllocationShare, AllocateFileShare, FinishAllocationShare
        DEF PlanNext, SupervisorStep

-----------------------------------------------------------------------------
(* The views                                                               *)

\* What a prefix is.
LEMMA PrefixMeans ==
  ASSUME NEW p \in Seq(Names), NEW q \in Seq(Names)
  PROVE  IsPrefix(p, q) <=> Len(p) <= Len(q) /\ \A k \in 1..Len(p) : p[k] = q[k]
<1>1. Len(p) \in Nat /\ Len(q) \in Nat
  OBVIOUS
<1>2. ASSUME Len(p) <= Len(q)
      PROVE  /\ SubSeq(p, 1, Len(p)) = [k \in 1..Len(p) |-> p[k]]
             /\ SubSeq(q, 1, Len(p)) = [k \in 1..Len(p) |-> q[k]]
  BY <1>1, <1>2
<1>3. ASSUME Len(p) <= Len(q), SubSeq(p, 1, Len(p)) = SubSeq(q, 1, Len(p)), NEW k \in 1..Len(p)
      PROVE  p[k] = q[k]
  <2> DEFINE n == Len(p)
             f == [j \in 1..n |-> p[j]]
             g == [j \in 1..n |-> q[j]]
  <2>1. f = g
    BY <1>2, <1>3
  <2>2. f[k] = p[k] /\ g[k] = q[k]
    BY <1>3
  <2> QED BY <2>1, <2>2
<1> QED BY <1>2, <1>3 DEF IsPrefix

\* The beginnings of a path.
LEMMA PathBeginning ==
  ASSUME NEW p \in Seq(Names), NEW k \in 0..Len(p)
  PROVE  /\ SubSeq(p, 1, k) \in Seq(Names) /\ Len(SubSeq(p, 1, k)) = k
         /\ \A j \in 1..k : SubSeq(p, 1, k)[j] = p[j]
         /\ IsPrefix(SubSeq(p, 1, k), p)
<1> DEFINE s == SubSeq(p, 1, k)
<1>1. s \in Seq(Names) /\ Len(s) = k /\ (\A j \in 1..k : s[j] = p[j]) /\ k <= Len(p)
  OBVIOUS
<1> HIDE DEF s
<1>2. IsPrefix(s, p)
  BY <1>1, PrefixMeans
<1> QED BY <1>1, <1>2 DEF s

\* A path that begins with another and is not it goes on below it.
LEMMA FrontPrefix ==
  ASSUME NEW p \in Seq(Names), NEW q \in Seq(Names), IsPrefix(p, q), p # q, p # <<>>
  PROVE  /\ Front(q) \in Seq(Names) /\ IsPrefix(p, Front(q)) /\ Front(q) # <<>>
         /\ Len(Front(q)) = Len(q) - 1 /\ Len(q) \in Nat
<1>1. /\ Len(p) \in Nat /\ Len(q) \in Nat /\ Len(p) <= Len(q)
      /\ \A k \in 1..Len(p) : p[k] = q[k]
  BY PrefixMeans
<1>2. Len(p) # Len(q)
  <2>1. SUFFICES ASSUME Len(p) = Len(q) PROVE FALSE
    OBVIOUS
  <2>2. p = [k \in 1..Len(p) |-> p[k]] /\ q = [k \in 1..Len(q) |-> q[k]]
    OBVIOUS
  <2> QED BY <1>1, <2>1, <2>2
<1>3. Len(p) # 0
  OBVIOUS
<1> DEFINE s == SubSeq(q, 1, Len(q) - 1)
<1>4. Len(q) - 1 \in 0..Len(q) /\ Len(p) <= Len(q) - 1
  BY <1>1, <1>2, <1>3
<1>5. s \in Seq(Names) /\ Len(s) = Len(q) - 1 /\ \A j \in 1..(Len(q) - 1) : s[j] = q[j]
  BY <1>4, PathBeginning
<1> HIDE DEF s
<1>6. IsPrefix(p, s)
  <2>1. \A k \in 1..Len(p) : p[k] = s[k]
    BY <1>1, <1>4, <1>5
  <2> QED BY <1>4, <1>5, <2>1, PrefixMeans
<1>7. s # <<>>
  BY <1>1, <1>3, <1>4, <1>5
<1>8. Front(q) = s
  BY DEF Front, s
<1> QED BY <1>1, <1>5, <1>6, <1>7, <1>8

\* A prefix of a prefix is one.
LEMMA PrefixTransitive ==
  ASSUME NEW p \in Seq(Names), NEW q \in Seq(Names), NEW r \in Seq(Names),
         IsPrefix(p, q), IsPrefix(q, r)
  PROVE  IsPrefix(p, r)
<1>1. /\ Len(p) \in Nat /\ Len(q) \in Nat /\ Len(r) \in Nat /\ Len(p) <= Len(q) /\ Len(q) <= Len(r)
      /\ \A k \in 1..Len(p) : p[k] = q[k]
      /\ \A k \in 1..Len(q) : q[k] = r[k]
  BY PrefixMeans
<1>2. Len(p) <= Len(r) /\ \A k \in 1..Len(p) : p[k] = r[k]
  BY <1>1
<1> QED BY <1>2, PrefixMeans

\* Nothing lies below what is given to a transfer.
LEMMA NothingBelow ==
  ASSUME PlanInv, ScanInv, stack = <<>>, NEW e \in Items, NEW f \in captured,
         IsPrefix(e.path, f.path)
  PROVE  f = e
<1> DEFINE B == {g \in captured : IsPrefix(e.path, g.path) /\ g # e}
           N == {Len(g.path) : g \in B}
<1>1. SUFFICES ASSUME B # {} PROVE FALSE
  OBVIOUS
<1>2. e \in captured
  BY CapturedFacts DEF Items
<1>3. \A g \in captured : /\ g.path \in Seq(Names) /\ Len(g.path) \in Nat /\ g.path # <<>>
                          /\ \A h \in captured : g.path = h.path => g = h
  BY CapturedFacts
<1>4. PICK g \in B : \A h \in B : Len(g.path) <= Len(h.path)
  <2>1. N \in SUBSET Nat /\ N # {}
    <3>1. \A h \in B : Len(h.path) \in Nat
      BY <1>3
    <3> HIDE DEF B
    <3> QED BY <1>1, <3>1
  <2>2. Min(N) \in N /\ \A n \in N : Min(N) <= n
    BY <2>1, MinOfNumbers
  <2>3. PICK g \in B : Len(g.path) = Min(N)
    BY <2>2
  <2>4. \A h \in B : Len(h.path) \in N
    OBVIOUS
  <2> HIDE DEF B, N
  <2> QED BY <2>2, <2>3, <2>4
<1>5. g \in captured /\ IsPrefix(e.path, g.path) /\ g # e /\ g.path # e.path
  BY <1>2, <1>3, <1>4
<1>6. /\ IsPrefix(e.path, Front(g.path)) /\ Front(g.path) # <<>>
      /\ Len(Front(g.path)) = Len(g.path) - 1 /\ Len(g.path) \in Nat
  BY <1>2, <1>3, <1>5, FrontPrefix
<1>7. PICK d \in captured : d.kind = "directory" /\ d.path = Front(g.path)
  <2>1. OnThePath = {}
    BY DEF OnThePath
  <2> QED BY <1>5, <1>6, <2>1 DEF ScanInv, CaptureInv, TreeInv
<1>8. d = e
  <2>1. SUFFICES ASSUME d # e PROVE FALSE
    OBVIOUS
  <2>2. d \in B
    BY <1>6, <1>7, <2>1
  <2>3. Len(d.path) = Len(g.path) - 1
    BY <1>6, <1>7
  <2> HIDE DEF B
  <2> QED BY <1>4, <1>6, <2>2, <2>3
<1>9. e \in EmptyDirsOf(captured)
  BY <1>7, <1>8 DEF Items, FilesOf
<1>10. g.path # <<>> /\ Front(g.path) = e.path
  BY <1>3, <1>5, <1>7, <1>8
<1> QED BY <1>5, <1>9, <1>10 DEF EmptyDirsOf

\* A transfer sees a path if it owns something there or below it.
LEMMA VisibleMember ==
  ASSUME ShareInv, phase = "views", NEW path \in Seq(Names), path # <<>>, NEW t
  PROVE  Visible(plan, t, path) <=> t \in Members(plan, path)
<1>1. Len(path) \in Nat /\ Len(path) # 0
  OBVIOUS
<1>2. SubSeq(path, 1, Len(path)) = path
  BY <1>1
<1>3. \A o \in plan.owners : o[1] \in Seq(Names)
  BY DEF ShareInv
<1>4. ASSUME Visible(plan, t, path) PROVE t \in Members(plan, path)
  <2>1. Len(path) \in 1..Len(path)
    BY <1>1
  <2> QED BY <1>2, <1>4, <2>1 DEF Visible
<1>5. ASSUME t \in Members(plan, path), NEW k \in 1..Len(path)
      PROVE  t \in Members(plan, SubSeq(path, 1, k))
  <2> DEFINE s == SubSeq(path, 1, k)
  <2>1. s \in Seq(Names) /\ IsPrefix(s, path)
    <3>1. k \in 0..Len(path)
      BY <1>1
    <3> QED BY <3>1, PathBeginning
  <2> HIDE DEF s
  <2>2. PICK o \in plan.owners : IsPrefix(path, o[1]) /\ t = o[2]
    BY <1>5 DEF Members
  <2>3. IsPrefix(s, o[1])
    BY <1>3, <2>1, <2>2, PrefixTransitive
  <2>4. t \in Members(plan, s)
    BY <2>2, <2>3 DEF Members
  <2> QED BY <2>4 DEF s
<1> QED BY <1>4, <1>5 DEF Visible

\* Each item is shown to its owner, and a directory to those who own something in it.
LEMMA SharesPartition ==
  ASSUME PlanInv, ScanInv, ShareInv, phase = "views"
  PROVE  ViewsPartition
<1> DEFINE Seers(e) == {t \in Targets : Visible(plan, t, e.path)}
<1>1. stack = <<>>
  BY DEF PlanInv, HolderInv, WalkInv
<1>2. OwnersInv /\ plan.owners \subseteq Seq(Names) \X Targets /\ Placed = Items
  BY DEF ShareInv, Placed
<1>3. \A e \in captured : e.path \in Seq(Names) /\ e.path # <<>>
  BY CapturedFacts
<1>4. Items \subseteq captured
  BY CapturedFacts DEF Items
<1>5. \A e \in captured : \A t : t \in Seers(e) <=>
        \E o \in plan.owners : IsPrefix(e.path, o[1]) /\ t = o[2]
  <2>1. SUFFICES ASSUME NEW e \in captured, NEW t
               PROVE  t \in Seers(e) <=> \E o \in plan.owners : IsPrefix(e.path, o[1]) /\ t = o[2]
    OBVIOUS
  <2>2. Visible(plan, t, e.path) <=> t \in Members(plan, e.path)
    BY <1>3, VisibleMember
  <2>3. t \in Members(plan, e.path) <=> \E o \in plan.owners : IsPrefix(e.path, o[1]) /\ t = o[2]
    BY DEF Members
  <2>4. \A o \in plan.owners : o[2] \in Targets
    BY <1>2
  <2> QED BY <2>2, <2>3, <2>4
<1>6. \A o \in plan.owners : \E f \in Items : o[1] = f.path
  BY <1>2 DEF OwnersInv
<1> HIDE DEF Seers
<1>7. ASSUME NEW e \in Items PROVE Cardinality(Seers(e)) = 1
  <2>1. PICK o \in plan.owners : o[1] = e.path
    BY <1>2 DEF OwnersInv
  <2>2. IsPrefix(e.path, e.path)
    <3>1. e.path \in Seq(Names)
      BY <1>3, <1>4
    <3>2. Len(e.path) \in Nat
      BY <3>1
    <3> QED BY <3>1, <3>2, PrefixMeans
  <2>3. ASSUME NEW p \in plan.owners, IsPrefix(e.path, p[1]) PROVE p = o
    <3>1. PICK f \in Items : p[1] = f.path
      BY <1>6
    <3>2. f = e
      BY <1>1, <1>4, <2>3, <3>1, NothingBelow
    <3> QED BY <1>2, <2>1, <3>1, <3>2 DEF OwnersInv
  <2>4. \A t : t \in Seers(e) <=> t = o[2]
    BY <1>4, <1>5, <2>1, <2>2, <2>3
  <2>5. Seers(e) = {o[2]}
    BY <2>4
  <2> QED BY <2>5, FS_Singleton
<1>8. ASSUME NEW e \in captured
      PROVE  Seers(e) = UNION {Seers(f) : f \in {i \in Items : IsPrefix(e.path, i.path)}}
  <2>1. ASSUME NEW t \in Seers(e)
        PROVE  \E f \in Items : IsPrefix(e.path, f.path) /\ t \in Seers(f)
    <3>1. PICK o \in plan.owners : IsPrefix(e.path, o[1]) /\ t = o[2]
      BY <1>5, <2>1
    <3>2. PICK f \in Items : o[1] = f.path
      BY <1>6
    <3>3. IsPrefix(f.path, f.path)
      <4>1. f.path \in Seq(Names)
        BY <1>3, <1>4
      <4>2. Len(f.path) \in Nat
        BY <4>1
      <4> QED BY <4>1, <4>2, PrefixMeans
    <3>4. t \in Seers(f)
      BY <1>4, <1>5, <3>1, <3>2, <3>3
    <3> QED BY <3>1, <3>2, <3>4
  <2>2. ASSUME NEW f \in Items, IsPrefix(e.path, f.path), NEW t \in Seers(f)
        PROVE  t \in Seers(e)
    <3>1. PICK o \in plan.owners : IsPrefix(f.path, o[1]) /\ t = o[2]
      BY <1>4, <1>5, <2>2
    <3>2. IsPrefix(e.path, o[1])
      <4>1. e.path \in Seq(Names) /\ f.path \in Seq(Names) /\ o[1] \in Seq(Names)
        BY <1>2, <1>3, <1>4
      <4> QED BY <2>2, <3>1, <4>1, PrefixTransitive
    <3> QED BY <1>5, <3>1, <3>2
  <2> QED BY <2>1, <2>2
<1> QED BY <1>7, <1>8 DEF ViewsPartition, Seers

\* Without its smallest file, no transfer is more loaded than another.
LEMMA SharesBalanced ==
  ASSUME PlanInv, ScanInv, ShareInv, phase = "views"
  PROVE  LoadsBalanced
<1>1. DOMAIN plan.loads = Targets /\ BalanceInv
  BY DEF ShareInv
<1>2. ASSUME NEW i \in Targets, NEW j \in Targets,
             NEW mine, mine = {f \in FilesOf(captured) : <<f.path, i>> \in plan.owners},
             mine # {}
      PROVE  (plan.loads[i].bytes - Min({f.size : f \in mine})) * plan.loads[j].weight
                        <= plan.loads[j].bytes * plan.loads[i].weight
  <2> DEFINE S == {f.size : f \in mine}
  <2>1. \A f \in mine : f.size \in Nat
    BY <1>2, CapturedFacts
  <2>2. S \in SUBSET Nat /\ S # {}
    BY <1>2, <2>1
  <2>3. Min(S) \in S
    BY <2>2, MinOfNumbers
  <2>4. PICK f \in mine : Min(S) = f.size
    BY <2>3
  <2>5. f \in FilesOf(captured) /\ <<f.path, i>> \in plan.owners
    BY <1>2
  <2> HIDE DEF S
  <2>6. (plan.loads[i].bytes - f.size) * plan.loads[j].weight
                        <= plan.loads[j].bytes * plan.loads[i].weight
    BY <1>1, <2>5 DEF BalanceInv
  <2> QED BY <2>4, <2>6 DEF S
<1> QED BY <1>1, <1>2 DEF LoadsBalanced

\* Nothing is placed at the start.
LEMMA PlanInitShare ==
  ASSUME PlanInit
  PROVE  ShareInv
BY DEF PlanInit, ShareInv

-----------------------------------------------------------------------------
(* Every behaviour                                                         *)

\* The invariant holds at the start...
LEMMA PlanInitInv ==
  ASSUME PlanInit
  PROVE  PlanInv
<1>1. PICK s \in Scenarios : request = s.request /\ SourceInit(s)
  BY DEF PlanInit
<1>2. /\ request \in {"manual", "automatic", "list"}
      /\ phase = (IF request = "list" THEN "measure" ELSE "open") /\ weights = <<>>
  BY <1>1, PlanAssumption DEF PlanInit
<1>3. /\ root = ClosedRoot /\ spc = "idle" /\ stack = <<>> /\ item = NoItem /\ walk = NoWalk
      /\ captured = {} /\ scanned = "none" /\ lease = <<>> /\ handles = {} /\ fds = 0
  BY <1>1 DEF SourceInit
<1>4. TreeOK
  <2>1. cancelled \in BOOLEAN
    BY <1>1 DEF SourceInit
  <2> QED BY <1>1, <2>1, PlanAssumption DEF SourceInit, TreeOK
<1>5. /\ ClosedRoot \in [state : {"closed", "open", "transferred"}, scanned : BOOLEAN,
                         borrows : 0..2, anchors : Seq(Dirs), dir : Dirs \cup {Nil}]
      /\ ClosedRoot.state = "closed" /\ ClosedRoot.borrows = 0 /\ ClosedRoot.anchors = <<>>
  <2>1. FALSE \in BOOLEAN /\ <<>> \in Seq(Dirs) /\ 0 \in 0..2
    OBVIOUS
  <2> QED BY <2>1 DEF ClosedRoot
<1>6. RootOK
  BY <1>3, <1>5, FS_EmptySet DEF RootOK
<1>7. ScanOK
  <2>1. NoWalk \in [dir : Dirs \cup {Nil}, comps : Seq(Components), needDir : BOOLEAN,
                    followed : Nat, id : Objects \cup {Nil}, text : Links \cup {Nil}]
    <3>1. FALSE \in BOOLEAN /\ <<>> \in Seq(Components)
      OBVIOUS
    <3> QED BY <3>1 DEF NoWalk
  <2> QED BY <1>3, <2>1, NoItemType, FS_EmptySet DEF ScanOK
<1>8. MeasureOK
  <2>1. NoObservation \in [result : {"none", "ok", "failed"}, stage : Stages,
                           bytes : 0..(Limit - 1)]
    BY ThroughputAssumption DEF NoObservation, Stages
  <2>2. NoCause \in Causes
    BY DEF Causes
  <2> QED BY <2>1, <2>2 DEF PlanInit, ThroughputInit, MeasureOK, Stages
<1>9. HolderInv
  BY <1>2, <1>3, <1>5 DEF HolderInv
<1>10. WalkInv
  BY <1>3 DEF WalkInv, NoWalk
<1>11. SeenInv
  BY <1>3 DEF SeenInv
<1>12. DescriptorsOwned
  BY <1>2, <1>3, <1>5, FS_EmptySet DEF DescriptorsOwned
<1>13. FailureInv
  BY DEF PlanInit, ThroughputInit, FailureInv, FailuresReported, FailureKnown, NoObservation,
         NoCause
<1>14. WeightsInv
  BY <1>2 DEF WeightsInv, WeightsFaithful
<1> QED BY <1>2, <1>4, <1>6, <1>7, <1>8, <1>9, <1>10, <1>11, <1>12, <1>13, <1>14
        DEF PlanInv, PlanTypeOK

\* ...is kept when nothing changes...
LEMMA PlanStutters ==
  ASSUME PlanInv, UNCHANGED planVars
  PROVE  PlanInv'
<1>1. /\ Elsewhere
      /\ UNCHANGED <<treeVars, target, follow, faults, cancelled, root, scanVars, useVars, fds>>
  BY DEF planVars, sourceVars, Elsewhere
<1>2. TreeOK'
  <2>1. cancelled' \in BOOLEAN
    BY <1>1, Zenon DEF PlanInv, PlanTypeOK, TreeOK
  <2> QED BY <1>1, <2>1 DEF PlanInv, PlanTypeOK, TreeOK
<1>3. SeenInv'
  BY <1>1, ChangeSeen
<1> QED BY <1>1, <1>2, <1>3, ChangeKeeps

\* ...and by every step.
LEMMA PlanNextInv ==
  ASSUME PlanInv, [PlanNext]_planVars
  PROVE  PlanInv'
<1>1. CASE CommandStep
  BY <1>1, CommandStepKeeps
<1>2. CASE SupervisorStep
  BY <1>2, ResolveEgressesKeeps, ScanSourceKeeps, FactsReadKeeps, MeasureKeeps,
     MeasurementEndsKeeps, ManualWeightsKeeps, AllocationKeeps, OpenViewsKeeps,
     CloseViewsKeeps, CloseSourceKeeps DEF SupervisorStep
<1>3. CASE ClientStep \/ CommandsEnd
  BY <1>3, OpenFileKeeps, ReleaseFileKeeps, CommandsEndKeeps DEF ClientStep
<1>4. CASE Surroundings
  BY <1>4, SurroundingsKeeps
<1>5. CASE UNCHANGED planVars
  BY <1>5, PlanStutters
<1> QED BY <1>1, <1>2, <1>3, <1>4, <1>5 DEF PlanNext

\* The inductive invariant of a transfer's planning: the types, who holds and borrows the
\* source, what the scan is about and has seen, who owns each descriptor, and what the
\* failures and the weights of the measurement stand for.
THEOREM PlanInvariant == PlanSpec => []PlanInv
<1>1. PlanInit => PlanInv
  BY PlanInitInv
<1>2. PlanInv /\ [PlanNext]_planVars => PlanInv'
  BY PlanNextInv
<1> QED BY <1>1, <1>2, PTL DEF PlanSpec

\* Every descriptor has an owner that will close it and none is left at the end, however
\* many links are followed, whichever call fails and whenever the run is cancelled
\* (finishScan, replaceDirectory, addBackingDirectory, SourceAccess.Close, SourceRoot.Close).
THEOREM PlanOwnsDescriptors == PlanSpec => []DescriptorsOwned
<1>1. PlanInv => DescriptorsOwned
  BY DEF PlanInv
<1> QED BY <1>1, PlanInvariant, PTL

\* The inductive invariant of what is captured: every path once, in a directory that is
\* captured or being scanned, and each object found where its backing reference says unless
\* a name on the way changed.
THEOREM PlanScanInvariant == PlanSpec => []ScanInv
<1>1. PlanInit => PlanInv /\ ScanInv
  BY PlanInitInv, PlanInitScanned
<1>2. (PlanInv /\ ScanInv) /\ [PlanNext]_planVars => (PlanInv /\ ScanInv)'
  BY PlanNextInv, PlanNextScanned
<1> QED BY <1>1, <1>2, PTL DEF PlanSpec

\* A directory is captured as it was at one moment, whatever any number of other programs
\* do to it during the scan, unless a name that changed was changed back
\* (scanDirectory, verifySourceNames); and a file opened later, through any number of links,
\* is the one that was captured, unless a name on the way to it changed
\* (BackingReference, addBackingDirectory, OpenRegular).
THEOREM PlanCapturesAsItWas == PlanSpec => []CapturedAsItWas
<1>1. ASSUME PlanInv PROVE ShownAsItWas
  <2>1. SUFFICES ASSUME spc = "verify", Top.todo = {}, Top.seen # Top.then
                 PROVE  \E n \in Names : <<Top.dir, n>> \in retouched
    BY DEF ShownAsItWas
  <2>2. ThenThere(Top) /\ Top \in Frames
    BY <1>1, <2>1, ScanTop
  <2>3. Top.seen \subseteq Names \X Objects /\ Top.then \subseteq Names \X Objects
    BY <2>2, FrameFields
  <2>4. PICK s \in Top.seen, r \in Top.then : s[1] = r[1] /\ s # r
    <3>1. CASE \E s \in Top.seen : s \notin Top.then
      BY <2>2, <3>1 DEF ThenThere
    <3>2. CASE \E r \in Top.then : r \notin Top.seen
      BY <2>2, <3>2 DEF ThenThere
    <3> QED BY <2>1, <3>1, <3>2
  <2>5. <<Top.dir, s[1]>> \in retouched
    BY <2>1, <2>2, <2>4 DEF ThenThere
  <2> QED BY <2>3, <2>4, <2>5
<1>2. ASSUME PlanInv, ScanInv PROVE OpensWhatWasCaptured
  <2>1. lease # <<>> => root.state = "open" /\ lease = Anchors
    BY <1>2 DEF PlanInv, HolderInv, ScanInv, OpenInv
  <2> QED BY <1>2, <2>1 DEF OpensWhatWasCaptured, ScanInv, OpenInv, Reaches
<1>3. PlanInv /\ ScanInv => CapturedAsItWas
  BY <1>1, <1>2 DEF PlanInv, CapturedAsItWas
<1> QED BY <1>3, PlanInvariant, PlanScanInvariant, PTL

\* The views divide the source, for any tree, any number of transfers and any weights: each
\* file and each empty directory is shown to one transfer, a directory to those who have
\* something in it, and without its smallest file no transfer is more loaded for its weight
\* than another, whatever the width of a word (allocateFiles, minimumLoad, compareLoad,
\* buildViewDirectory).
THEOREM PlanSharesFairly == PlanSpec => []FairShares
<1>1. PlanInit => PlanInv /\ ScanInv /\ ShareInv
  BY PlanInitInv, PlanInitScanned, PlanInitShare
<1>2. (PlanInv /\ ScanInv /\ ShareInv) /\ [PlanNext]_planVars
        => (PlanInv /\ ScanInv /\ ShareInv)'
  BY PlanNextInv, PlanNextScanned, PlanNextShare
<1>3. PlanInv /\ ScanInv /\ ShareInv => FairShares
  BY SharesPartition, SharesBalanced DEF FairShares, ViewsPartition, LoadsBalanced
<1> QED BY <1>1, <1>2, <1>3, PTL DEF PlanSpec

\* Weights state what was measured, for any number of targets and streams, any scale and
\* any width of a number: they are positive and in lowest terms, proportional to the bytes
\* within the rounding, and come from helpers that all succeeded; a failure that is
\* reported is the one that came first (RelativeWeights, prepareStreams, sampleStreams).
THEOREM PlanMeasuresTruthfully == PlanSpec => []MeasuredTruthfully
<1>1. PlanInv => MeasuredTruthfully
  BY DEF PlanInv, FailureInv, WeightsInv, MeasuredTruthfully, GroupMeasured
<1> QED BY <1>1, PlanInvariant, PTL
=============================================================================
