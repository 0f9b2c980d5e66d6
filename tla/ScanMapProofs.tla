---- MODULE ScanMapProofs ----
(***************************************************************************)
(* Proofs about ScanMap, for every number and size of vectors, every limit *)
(* of the angles and every value _lastTrimTime may start with.             *)
(***************************************************************************)
EXTENDS ScanMap, TLAPS

LEMMA FullIsNat == Full \in Nat \ {0}
<1>1. \A a, b \in Nat \ {0} : a * b \in Nat \ {0}
  OBVIOUS
<1> QED
  BY <1>1, SizeAssumption DEF Full

(* LidarTypes::AddDegrees stays below 360 degrees for two angles whose sum is  *)
(* below 720.                                                                  *)
LEMMA AddDegreesInRange ==
  ASSUME NEW a \in Nat, NEW b \in Nat, a + b < 2 * Full
  PROVE  AddDegrees(a, b) \in 0..(Full - 1)
BY FullIsNat DEF AddDegrees

(* An angle below 360 degrees is in one of the vectors. *)
LEMMA IndexInRange ==
  ASSUME NEW a \in 0..(Full - 1)
  PROVE  Index(a) \in Sectors
<1>1. a < Vectors * PerVector /\ a \in Nat
  BY FullIsNat DEF Full
<1>2. a \div PerVector \in Nat /\ PerVector * (a \div PerVector) <= a
  BY <1>1, SizeAssumption
<1> DEFINE q == a \div PerVector
<1>3. \A k \in Nat : k >= Vectors => PerVector * k >= PerVector * Vectors
  BY SizeAssumption
<1>4. q < Vectors
  BY <1>1, <1>2, <1>3, SizeAssumption
<1> QED
  BY <1>2, <1>4, SizeAssumption DEF Index, Sectors

(* A write inside a map keeps it a map. *)
LEMMA EnterInRange ==
  ASSUME NEW map \in [Sectors -> Nat], NEW i \in Sectors, NEW value \in Nat
  PROVE  Enter(map, i, value) \in [Sectors -> Nat]
BY DEF Enter

------------------------------------------------------------------------------
(* Why a turn publishes one map at most: within the turn of the last good      *)
(* sample bearings only grow, so the next smaller one is of a later turn.      *)
TurnOrder == /\ published <= goodTurn
             /\ goodTurn <= turns
             /\ goodTurn = turns => lastBearing <= position

IInv == TypeOK /\ TurnOrder

LEMMA InitIInv == Init => IInv
<1> SUFFICES ASSUME Init PROVE IInv
  OBVIOUS
<1>1. TypeOK
  BY FullIsNat, SizeAssumption, TimeAssumption DEF Init, TypeOK, NoMap, Sectors
<1>2. TurnOrder
  BY DEF Init, TurnOrder
<1> QED
  BY <1>1, <1>2 DEF IInv

(* A scan response keeps the map a map. *)
LEMMA ResponseKeepsMap ==
  ASSUME TypeOK, NEW s \in Samples, ProcessScanResponse(s)
  PROVE  /\ vectors' \in [Sectors -> Nat]
         /\ refreshTimes' \in [Sectors -> Nat]
         /\ scanComplete' \in [Sectors -> Nat]
<1> DEFINE bearing == AddDegrees(s.angle, 0)
           entered == IF Good(s) THEN Enter(vectors, Index(bearing), s.distance) ELSE vectors
<1>1. entered \in [Sectors -> Nat] /\ refreshTimes' \in [Sectors -> Nat]
  <2>1. CASE Good(s)
    <3>1. s.angle \in Nat /\ s.angle < Full /\ s.distance \in Nat
      <4>1. s.angle \in Angles /\ s.distance \in Distances
        BY DEF Samples
      <4>2. s.angle < Full
        BY <2>1 DEF Good
      <4>3. s.angle \in Nat
        BY <4>1, SizeAssumption DEF Angles
      <4>4. s.distance \in Nat
        BY <4>1, MeasureAssumption
      <4> QED
        BY <4>2, <4>3, <4>4
    <3>2. Index(bearing) \in Sectors
      <4>1. s.angle + 0 < 2 * Full /\ 0 \in Nat
        BY <3>1, FullIsNat
      <4>2. bearing \in 0..(Full - 1)
        BY <3>1, <4>1, AddDegreesInRange
      <4> QED
        BY <4>2, IndexInRange
    <3>3. now \in Nat
      BY DEF TypeOK
    <3> QED
      BY <2>1, <3>1, <3>2, <3>3, EnterInRange DEF TypeOK, ProcessScanResponse
  <2>2. CASE ~Good(s)
    BY <2>2 DEF TypeOK, ProcessScanResponse
  <2> QED
    BY <2>1, <2>2
<1>2. vectors' \in [Sectors -> Nat]
  <2>1. vectors' = IF TrimDue THEN Trimmed(entered, refreshTimes') ELSE entered
    BY DEF ProcessScanResponse
  <2>2. Trimmed(entered, refreshTimes') \in [Sectors -> Nat]
    BY <1>1 DEF Trimmed
  <2> QED
    BY <1>1, <2>1, <2>2
<1>3. scanComplete' \in [Sectors -> Nat]
  <2>1. scanComplete' = IF Good(s) /\ CompletesScan(bearing) THEN entered ELSE NoMap
    BY DEF ProcessScanResponse
  <2> QED
    BY <1>1, <2>1 DEF NoMap
<1> QED
  BY <1>1, <1>2, <1>3

(* A response with an angle the device cannot be at is not entered. *)
LEMMA BeyondIInv ==
  ASSUME IInv, NEW angle \in Full..(AngleLimit - 1), NEW d \in Distances,
         MeasureBeyond(angle, d)
  PROVE  IInv'
<1> DEFINE s == [angle |-> angle, distance |-> d, flags |-> TRUE]
<1>1. s \in Samples
  BY FullIsNat, SizeAssumption DEF Samples, Angles
<1>2. ~Good(s) /\ ProcessScanResponse(s)
  BY FullIsNat, SizeAssumption DEF Good, MeasureBeyond
<1>3. UNCHANGED <<scanVars, deviceVars, lastTrimTime, now>> /\ lastResponse' = now
  BY <1>2 DEF ProcessScanResponse, MeasureBeyond
<1>4. TypeOK'
  BY <1>1, <1>2, <1>3, ResponseKeepsMap DEF IInv, TypeOK, scanVars, deviceVars
<1>5. TurnOrder'
  BY <1>3 DEF IInv, TurnOrder, scanVars, deviceVars
<1> QED
  BY <1>4, <1>5 DEF IInv

LEMMA MeasureIInv ==
  ASSUME IInv, NEW step \in 1..(Full - 1), NEW d \in Distances, NEW flags \in BOOLEAN,
         Measure(step, d, flags)
  PROVE  IInv'
<1> DEFINE s == [angle |-> position', distance |-> d, flags |-> flags]
           bearing == AddDegrees(s.angle, 0)
<1>1. /\ position' \in 0..(Full - 1) /\ turns' \in Nat
      /\ (turns' = turns /\ position' > position) \/ turns' = turns + 1
  BY FullIsNat DEF IInv, TypeOK, Measure
<1>2. s \in Samples /\ ProcessScanResponse(s)
  BY <1>1, FullIsNat, SizeAssumption DEF Samples, Angles, Measure
<1>3. bearing = position' /\ bearing \in 0..(Full - 1)
  <2>1. s.angle = position'
    OBVIOUS
  <2>2. \A a \in 0..(Full - 1) : AddDegrees(a, 0) = a
    BY FullIsNat DEF AddDegrees
  <2> QED
    BY <1>1, <2>1, <2>2
<1>4. UNCHANGED <<lastTrimTime, now>> /\ lastResponse' = now
  BY <1>2 DEF ProcessScanResponse
<1>5. CASE Good(s)
  <2>1. /\ lastBearing' = position' /\ goodTurn' = turns'
        /\ lastScanOffset' = Index(position')
        /\ published' = IF CompletesScan(position') THEN published + 1 ELSE published
    BY <1>2, <1>3, <1>5 DEF ProcessScanResponse
  <2>2. lastScanOffset' \in Sectors
    BY <1>1, <2>1, IndexInRange
  <2>3. published' \in Nat /\ published' <= turns'
    BY <1>1, <2>1 DEF IInv, TypeOK, TurnOrder, CompletesScan
  <2>4. TypeOK'
    BY <1>1, <1>2, <1>4, <2>1, <2>2, <2>3, ResponseKeepsMap DEF IInv, TypeOK
  <2>5. TurnOrder'
    BY <1>1, <2>1, <2>3 DEF TurnOrder
  <2> QED
    BY <2>4, <2>5 DEF IInv
<1>6. CASE ~Good(s)
  <2>1. UNCHANGED scanVars
    BY <1>2, <1>6 DEF ProcessScanResponse
  <2>2. TypeOK'
    BY <1>1, <1>2, <1>4, <2>1, ResponseKeepsMap DEF IInv, TypeOK, scanVars
  <2>3. TurnOrder'
    BY <1>1, <2>1 DEF IInv, TypeOK, TurnOrder, scanVars
  <2> QED
    BY <2>2, <2>3 DEF IInv
<1> QED
  BY <1>5, <1>6

LEMMA ExpressIInv ==
  ASSUME IInv, NEW start \in Angles, NEW o1 \in CabinOffsets, NEW o2 \in CabinOffsets,
         NEW d \in Distances, ProcessExpressScanResponse(start, o1, d, o2, d)
  PROVE  IInv'
<1> DEFINE first == Index(AddDegrees(o1, start))
           second == Index(AddDegrees(o2, start))
<1>1. first \in Sectors /\ second \in Sectors
  <2>1. /\ o1 \in Nat /\ o2 \in Nat /\ start \in Nat
        /\ o1 + start < 2 * Full /\ o2 + start < 2 * Full
    BY SizeAssumption, FullIsNat DEF Angles
  <2> QED
    BY <2>1, AddDegreesInRange, IndexInRange
<1>2. d \in Nat /\ now \in Nat
  BY MeasureAssumption DEF IInv, TypeOK
<1>3. vectors' \in [Sectors -> Nat] /\ refreshTimes' \in [Sectors -> Nat]
  <2>1. /\ Enter(vectors, first, d) \in [Sectors -> Nat]
        /\ Enter(refreshTimes, first, now) \in [Sectors -> Nat]
    BY <1>1, <1>2, EnterInRange DEF IInv, TypeOK
  <2>2. /\ Enter(Enter(vectors, first, d), second, d) \in [Sectors -> Nat]
        /\ Enter(Enter(refreshTimes, first, now), second, now) \in [Sectors -> Nat]
    BY <1>1, <1>2, <2>1, EnterInRange
  <2> QED
    BY <2>2 DEF ProcessExpressScanResponse
<1>4. /\ UNCHANGED <<scanVars, deviceVars, lastTrimTime, now, lastResponse>>
      /\ scanComplete' = NoMap
  BY DEF ProcessExpressScanResponse
<1>5. TypeOK'
  BY <1>3, <1>4 DEF IInv, TypeOK, scanVars, deviceVars, NoMap
<1>6. TurnOrder'
  BY <1>4 DEF IInv, TurnOrder, scanVars, deviceVars
<1> QED
  BY <1>5, <1>6 DEF IInv

LEMMA NextIInv == IInv /\ [Next]_vars => IInv'
<1> SUFFICES ASSUME IInv, [Next]_vars PROVE IInv'
  OBVIOUS
<1>1. CASE Tick
  <2>1. TypeOK'
    BY <1>1, TimeAssumption DEF Tick, IInv, TypeOK, mapVars, scanVars, deviceVars, NoMap
  <2>2. TurnOrder'
    BY <1>1 DEF Tick, IInv, TurnOrder, scanVars, deviceVars
  <2> QED
    BY <2>1, <2>2 DEF IInv
<1>2. CASE UNCHANGED vars
  BY <1>2 DEF vars, mapVars, scanVars, deviceVars, IInv, TypeOK, TurnOrder
<1> QED
  BY <1>1, <1>2, MeasureIInv, BeyondIInv, ExpressIInv DEF Next

LEMMA AlwaysIInv == Spec => []IInv
BY InitIInv, NextIInv, PTL DEF Spec

(* No write to _vectors or _refreshTimes is out of their range. *)
THEOREM TypeCorrect == Spec => []TypeOK
<1>1. IInv => TypeOK
  BY DEF IInv
<1> QED
  BY <1>1, AlwaysIInv, PTL

(* However the turns are sampled, none publishes two maps. *)
THEOREM NeverTwoPerTurn == Spec => []AtMostOnePerTurn
<1>1. IInv => AtMostOnePerTurn
  BY DEF IInv, TypeOK, TurnOrder, AtMostOnePerTurn
<1> QED
  BY <1>1, AlwaysIInv, PTL

------------------------------------------------------------------------------
(* What a response does to one range: it is entered, trimmed, or left.         *)
LEMMA OneRange ==
  ASSUME IInv, NEW s \in Samples, ProcessScanResponse(s), NEW x \in Sectors
  PROVE  LET entered == IF Good(s) THEN Enter(vectors, Index(AddDegrees(s.angle, 0)), s.distance)
                        ELSE vectors
         IN /\ entered[x] # vectors[x] => refreshTimes'[x] = now
            /\ refreshTimes'[x] \in {refreshTimes[x], now}
            /\ vectors'[x] = IF TrimDue /\ now > refreshTimes'[x] + RefreshTime THEN 0
                             ELSE entered[x]
<1> DEFINE i == Index(AddDegrees(s.angle, 0))
           entered == IF Good(s) THEN Enter(vectors, i, s.distance) ELSE vectors
<1>1. /\ entered[x] = IF Good(s) /\ x = i THEN s.distance ELSE vectors[x]
      /\ refreshTimes'[x] = IF Good(s) /\ x = i THEN now ELSE refreshTimes[x]
      /\ x \in DOMAIN entered
  BY DEF IInv, TypeOK, ProcessScanResponse, Enter
<1>2. vectors'[x] = IF TrimDue /\ now > refreshTimes'[x] + RefreshTime THEN 0 ELSE entered[x]
  <2>1. vectors' = IF TrimDue THEN Trimmed(entered, refreshTimes') ELSE entered
    BY DEF ProcessScanResponse
  <2> QED
    BY <1>1, <2>1 DEF Trimmed
<1> QED
  BY <1>1, <1>2

(* A cabin enters its ranges now and trims nothing. *)
LEMMA OneCabin ==
  ASSUME IInv, NEW start \in Angles, NEW o1 \in CabinOffsets, NEW o2 \in CabinOffsets,
         NEW d \in Distances, ProcessExpressScanResponse(start, o1, d, o2, d),
         NEW x \in Sectors
  PROVE  \/ refreshTimes'[x] = now
         \/ refreshTimes'[x] = refreshTimes[x] /\ vectors'[x] = vectors[x]
BY DEF IInv, TypeOK, ProcessExpressScanResponse, Enter

(* The scan responses are those of a measurement. *)
LEMMA NextCases ==
  ASSUME IInv, Next
  PROVE  \/ \E s \in Samples : ProcessScanResponse(s)
         \/ \E start \in Angles, o1, o2 \in CabinOffsets, d \in Distances :
              ProcessExpressScanResponse(start, o1, d, o2, d)
         \/ Tick
<1>1. ASSUME NEW step \in 1..(Full - 1), NEW d \in Distances, NEW flags \in BOOLEAN,
             Measure(step, d, flags)
      PROVE  \E s \in Samples : ProcessScanResponse(s)
  <2> DEFINE s == [angle |-> position', distance |-> d, flags |-> flags]
  <2>1. position' \in 0..(Full - 1)
    BY <1>1, FullIsNat DEF IInv, TypeOK, Measure
  <2>2. s \in Samples /\ ProcessScanResponse(s)
    BY <1>1, <2>1, FullIsNat, SizeAssumption DEF Samples, Angles, Measure
  <2> QED
    BY <2>2
<1>2. ASSUME NEW angle \in Full..(AngleLimit - 1), NEW d \in Distances,
             MeasureBeyond(angle, d)
      PROVE  \E s \in Samples : ProcessScanResponse(s)
  <2> DEFINE s == [angle |-> angle, distance |-> d, flags |-> TRUE]
  <2>1. s \in Samples /\ ProcessScanResponse(s)
    BY <1>2, FullIsNat, SizeAssumption DEF Samples, Angles, MeasureBeyond
  <2> QED
    BY <2>1
<1> QED
  BY <1>1, <1>2 DEF Next

(* What trimming leaves behind: as long as it takes place, no range was too    *)
(* old when the last response was handled.                                     *)
TrimmedThen == /\ lastResponse <= now
               /\ lastResponse > lastTrimTime + RefreshTime =>
                    \A x \in Sectors :
                      vectors[x] # 0 => lastResponse <= refreshTimes[x] + RefreshTime

LEMMA NextTrimmedThen == IInv /\ TrimmedThen /\ [Next]_vars => TrimmedThen'
<1> SUFFICES ASSUME IInv, TrimmedThen, [Next]_vars PROVE TrimmedThen'
  OBVIOUS
<1> USE TimeAssumption
<1>1. ASSUME NEW s \in Samples, ProcessScanResponse(s)
      PROVE  TrimmedThen'
  <2>1. lastResponse' = now /\ now' = now /\ lastTrimTime' = lastTrimTime /\ now \in Nat
    BY <1>1 DEF ProcessScanResponse, IInv, TypeOK
  <2>2. ASSUME TrimDue, NEW x \in Sectors, vectors'[x] # 0
        PROVE  now <= refreshTimes'[x] + RefreshTime
    <3>1. ~(now > refreshTimes'[x] + RefreshTime)
      BY <1>1, <2>2, OneRange
    <3>2. refreshTimes'[x] \in Nat
      BY <1>1, OneRange DEF IInv, TypeOK
    <3> QED
      BY <2>1, <3>1, <3>2
  <2> QED
    BY <2>1, <2>2 DEF TrimmedThen, TrimDue
<1>2. ASSUME NEW start \in Angles, NEW o1 \in CabinOffsets, NEW o2 \in CabinOffsets,
             NEW d \in Distances, ProcessExpressScanResponse(start, o1, d, o2, d)
      PROVE  TrimmedThen'
  <2>1. UNCHANGED <<lastResponse, now, lastTrimTime>>
    BY <1>2 DEF ProcessExpressScanResponse
  <2>2. ASSUME lastResponse > lastTrimTime + RefreshTime, NEW x \in Sectors, vectors'[x] # 0
        PROVE  lastResponse <= refreshTimes'[x] + RefreshTime
    <3>1. CASE refreshTimes'[x] = now
      BY <3>1 DEF TrimmedThen, IInv, TypeOK
    <3>2. CASE refreshTimes'[x] = refreshTimes[x] /\ vectors'[x] = vectors[x]
      BY <2>2, <3>2 DEF TrimmedThen
    <3> QED
      BY <1>2, <3>1, <3>2, OneCabin
  <2> QED
    BY <2>1, <2>2 DEF TrimmedThen
<1>3. CASE Tick
  BY <1>3 DEF Tick, mapVars, TrimmedThen, IInv, TypeOK
<1>4. CASE UNCHANGED vars
  BY <1>4 DEF vars, mapVars, TrimmedThen
<1> QED
  BY <1>1, <1>2, <1>3, <1>4, NextCases

LEMMA AlwaysTrimmedThen == Spec => []TrimmedThen
<1>1. Init => TrimmedThen
  BY DEF Init, TrimmedThen
<1> QED
  BY <1>1, AlwaysIInv, NextTrimmedThen, PTL DEF Spec

(* A published map holds no range that was too old at the response before, but *)
(* the one that completes the turn (lidar.cpp:284-299, 320).                   *)
THEOREM PublishedAlwaysFresh == Spec => PublishedFresh
<1> DEFINE Fresh == published' > published /\ lastResponse > lastTrimTime + RefreshTime =>
                      \A x \in Sectors \ {lastScanOffset'} :
                        scanComplete'[x] # 0 => lastResponse <= refreshTimes[x] + RefreshTime
<1>1. IInv /\ TrimmedThen /\ [Next]_vars => [Fresh]_vars
  <2> SUFFICES ASSUME IInv, TrimmedThen, Next, published' > published,
                      lastResponse > lastTrimTime + RefreshTime,
                      NEW x \in Sectors \ {lastScanOffset'}, scanComplete'[x] # 0
               PROVE  lastResponse <= refreshTimes[x] + RefreshTime
    OBVIOUS
  <2>1. ASSUME UNCHANGED published PROVE FALSE
    BY <2>1 DEF IInv, TypeOK
  <2>2. PICK s \in Samples : ProcessScanResponse(s)
    BY <2>1, NextCases DEF ProcessExpressScanResponse, Tick, scanVars
  <2> DEFINE i == Index(AddDegrees(s.angle, 0))
  <2>3. Good(s)
    BY <2>1, <2>2 DEF ProcessScanResponse, scanVars
  <2>4. CompletesScan(AddDegrees(s.angle, 0)) /\ lastScanOffset' = i
    BY <2>1, <2>2, <2>3 DEF ProcessScanResponse
  <2>5. scanComplete' = Enter(vectors, i, s.distance)
    BY <2>2, <2>3, <2>4 DEF ProcessScanResponse
  <2>6. scanComplete'[x] = vectors[x]
    BY <2>4, <2>5 DEF Enter, IInv, TypeOK
  <2> QED
    BY <2>6 DEF TrimmedThen
<1> QED
  BY <1>1, AlwaysIInv, AlwaysTrimmedThen, PTL DEF Spec, PublishedFresh

(* Only ranges that are too old, or entered anew, leave the map                *)
(* (lidar.cpp:315-325).                                                        *)
THEOREM NeverTrimmedEarly == Spec => NoEarlyTrim
<1> DEFINE Kept == \A x \in Sectors : vectors[x] # 0 /\ vectors'[x] = 0 =>
                     now > refreshTimes[x] + RefreshTime \/ refreshTimes'[x] = now
<1>1. IInv /\ [Next]_vars => [Kept]_vars
  <2> SUFFICES ASSUME IInv, Next, NEW x \in Sectors, vectors[x] # 0, vectors'[x] = 0,
                      refreshTimes'[x] # now
               PROVE  now > refreshTimes[x] + RefreshTime
    OBVIOUS
  <2>1. PICK s \in Samples : ProcessScanResponse(s)
    BY NextCases, OneCabin DEF Tick, mapVars
  <2>2. refreshTimes'[x] = refreshTimes[x]
    BY <2>1, OneRange
  <2> QED
    BY <2>1, <2>2, OneRange
<1> QED
  BY <1>1, AlwaysIInv, PTL DEF Spec, NoEarlyTrim
====
