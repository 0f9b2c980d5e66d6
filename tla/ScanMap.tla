---- MODULE ScanMap ----
(***************************************************************************)
(* The range map of class Lidar: one range per vector (a quarter degree),  *)
(* updated by measurement responses, cleared of old ranges by trimVectors  *)
(* and published, as a RangeMap, when a bearing shows that a new turn has  *)
(* begun.  All of it runs in the Lidar thread, one response at a time.     *)
(*                                                                         *)
(* Angles are in the device's unit (1/64 degree), distances in its unit    *)
(* (1/4 mm), times in a unit that divides the refresh time.  The device is *)
(* external: it turns one way and measures at some of the angles it        *)
(* passes.  position, turns, goodTurn, published and lastResponse are not  *)
(* in the code: the angle and turn of the device, the turn of the last     *)
(* good sample, the number of maps published, the time of the last scan    *)
(* response.  scanComplete is the map the last step published, if any.     *)
(***************************************************************************)
EXTENDS Integers

CONSTANTS Vectors,          \* number of vectors: 1440
          PerVector,        \* angle units of a vector: 16
          Near,             \* 10 degrees in angle units: 640
          AngleLimit,       \* one more than the largest angle of a response: 2^15
          CabinOffsets,     \* offsets of a cabin: below 4 degrees, 0..255
          Distances,        \* distances a response may hold
          MinDistance,      \* .010 m: 40
          RefreshTime,      \* _vectorRefreshTime: 500 ms
          InitialTrimTimes, \* values _lastTrimTime may have uninitialised
          MaxTurns, MaxTime \* bounds on the turns and on the time

Full == Vectors * PerVector         \* 360 degrees
Angles == 0..(AngleLimit - 1)
Sectors == 0..(Vectors - 1)

ASSUME SizeAssumption == /\ Vectors \in Nat \ {0} /\ PerVector \in Nat \ {0}
                         /\ AngleLimit \in Nat /\ Full <= AngleLimit /\ AngleLimit < 2 * Full
                         /\ CabinOffsets \subseteq Nat
                         /\ \A o \in CabinOffsets : AngleLimit + o <= 2 * Full
ASSUME MeasureAssumption == /\ Near \in Nat /\ MinDistance \in Nat
                            /\ Distances \subseteq Nat
ASSUME TimeAssumption == /\ RefreshTime \in Nat /\ InitialTrimTimes \subseteq Int
                         /\ MaxTurns \in Nat /\ MaxTime \in Nat

VARIABLES vectors, refreshTimes, lastBearing, lastScanOffset, lastTrimTime,
          now, position, turns, goodTurn, published, lastResponse, scanComplete

mapVars == <<vectors, refreshTimes>>
scanVars == <<lastBearing, lastScanOffset, goodTurn, published>>
deviceVars == <<position, turns>>
vars == <<mapVars, scanVars, deviceVars, lastTrimTime, now, lastResponse, scanComplete>>

NoMap == [x \in Sectors |-> 0]      \* no scanComplete signal in the last step

Init == /\ vectors = [x \in Sectors |-> 0]
        /\ refreshTimes = [x \in Sectors |-> 0]
        /\ lastBearing = 0 /\ lastScanOffset = 0
        /\ lastTrimTime \in InitialTrimTimes
        /\ now = 0 /\ position = 0 /\ turns = 0
        /\ goodTurn = 0 /\ published = 0 /\ lastResponse = 0
        /\ scanComplete = NoMap

(* Mutant: 360 degrees itself is not taken back to 0. *)
AddDegreesBeyond(to, count) == IF to + count > Full THEN to + count - Full ELSE to + count

(* LidarTypes::AddDegrees. *)
AddDegrees(to, count) == IF to + count >= Full THEN to + count - Full ELSE to + count

(* int(bearing / _vectorSize). *)
Index(bearing) == bearing \div PerVector

(* _vectors[i] = value: a write that lands outside if i does. *)
Enter(map, i, value) == [x \in DOMAIN map \cup {i} |-> IF x = i THEN value ELSE map[x]]

(* What the device can report: angle, distance, and whether quality, check bit *)
(* and start flag are as processScanResponse wants them.                       *)
Samples == [angle : Angles, distance : Distances, flags : BOOLEAN]

(* The samples that are entered into the map. *)
Good(s) == s.flags /\ s.angle < Full /\ s.distance > MinDistance

(* Mutant: every bearing near 0 does. *)
NearCompletesScan(bearing) == bearing < Near

(* A bearing behind the last one, near 0, begins a new turn. *)
CompletesScan(bearing) == bearing < lastBearing /\ bearing < Near

(* Mutants: a range is kept for twice the time, or cleared one unit early. *)
TrimmedLate(map, times) ==
  [x \in DOMAIN map |-> IF now > times[x] + 2 * RefreshTime THEN 0 ELSE map[x]]
TrimmedEarly(map, times) ==
  [x \in DOMAIN map |-> IF now >= times[x] + RefreshTime THEN 0 ELSE map[x]]

(* trimVectors: ranges not refreshed for RefreshTime are cleared. *)
Trimmed(map, times) ==
  [x \in DOMAIN map |-> IF now > times[x] + RefreshTime THEN 0 ELSE map[x]]

TrimDue == now > lastTrimTime + RefreshTime     \* _lastTrimTime is never set

(***************************************************************************)
(* processScanResponse.  The map is published with the new range entered   *)
(* and before it is trimmed.  _offset is 0.                                *)
(***************************************************************************)
ProcessScanResponse(s) ==
  LET bearing == AddDegrees(s.angle, 0)
      entered == IF Good(s) THEN Enter(vectors, Index(bearing), s.distance) ELSE vectors
  IN /\ refreshTimes' = IF Good(s) THEN Enter(refreshTimes, Index(bearing), now)
                        ELSE refreshTimes
     /\ vectors' = IF TrimDue THEN Trimmed(entered, refreshTimes') ELSE entered
     /\ IF Good(s)
        THEN /\ lastBearing' = bearing
             /\ lastScanOffset' = Index(bearing)
             /\ goodTurn' = turns'
             /\ published' = IF CompletesScan(bearing) THEN published + 1 ELSE published
        ELSE UNCHANGED scanVars
     /\ scanComplete' = IF Good(s) /\ CompletesScan(bearing) THEN entered ELSE NoMap
     /\ lastResponse' = now
     /\ UNCHANGED <<lastTrimTime, now>>

(* The device turns on and measures at the angle it comes to. *)
Measure(step, distance, flags) ==
  LET angle == position + step IN
  /\ IF angle < Full
     THEN position' = angle /\ turns' = turns
     ELSE position' = angle - Full /\ turns' = turns + 1
  /\ turns' <= MaxTurns
  /\ ProcessScanResponse([angle |-> position', distance |-> distance, flags |-> flags])

(* A response with an angle no measurement has: up to 512 degrees. *)
MeasureBeyond(angle, distance) ==
  /\ UNCHANGED deviceVars
  /\ ProcessScanResponse([angle |-> angle, distance |-> distance, flags |-> TRUE])

(***************************************************************************)
(* processExpressScanResponse, for one cabin: two ranges, at the offsets   *)
(* from the start angle, entered as they are.  No map is published and     *)
(* nothing is trimmed.                                                     *)
(***************************************************************************)
ProcessExpressScanResponse(start, offset1, distance1, offset2, distance2) ==
  LET first == Index(AddDegrees(offset1, start))
      second == Index(AddDegrees(offset2, start))
  IN /\ vectors' = Enter(Enter(vectors, first, distance1), second, distance2)
     /\ refreshTimes' = Enter(Enter(refreshTimes, first, now), second, now)
     /\ UNCHANGED <<scanVars, deviceVars, lastTrimTime, now, lastResponse>>
     /\ scanComplete' = NoMap

Tick == /\ now < MaxTime
        /\ now' = now + 1
        /\ UNCHANGED <<mapVars, scanVars, deviceVars, lastTrimTime, lastResponse>>
        /\ scanComplete' = NoMap

Next == \/ \E step \in 1..(Full - 1), d \in Distances, flags \in BOOLEAN : Measure(step, d, flags)
        \/ \E angle \in Full..(AngleLimit - 1), d \in Distances : MeasureBeyond(angle, d)
        \/ \E start \in Angles, o1, o2 \in CabinOffsets, d \in Distances :
             ProcessExpressScanResponse(start, o1, d, o2, d)
        \/ Tick

Spec == Init /\ [][Next]_vars

------------------------------------------------------------------------------
(* Every variable has its type: no write lands outside of _vectors, for every  *)
(* angle a response of either kind can hold (lidar.cpp:248-257, 266-275).      *)
TypeOK == /\ vectors \in [Sectors -> Nat]
          /\ refreshTimes \in [Sectors -> Nat]
          /\ lastBearing \in 0..(Full - 1)
          /\ lastScanOffset \in Sectors
          /\ lastTrimTime \in Int
          /\ now \in Nat /\ lastResponse \in Nat
          /\ position \in 0..(Full - 1)
          /\ turns \in Nat /\ goodTurn \in Nat /\ published \in Nat
          /\ scanComplete \in [Sectors -> Nat]

(* A turn of the device publishes one map at most, however many of its samples *)
(* are bad or far apart (lidar.cpp:284-291).                                   *)
AtMostOnePerTurn == published <= turns

(* A map holds no range that was too old when the response before was handled, *)
(* besides the one that completes the turn - if trimming takes place at all,   *)
(* which an uninitialised _lastTrimTime decides (lidar.cpp:284-299, 320).      *)
PublishedFresh ==
  [][published' > published /\ lastResponse > lastTrimTime + RefreshTime =>
       \A x \in Sectors \ {lastScanOffset'} :
         scanComplete'[x] # 0 => lastResponse <= refreshTimes[x] + RefreshTime]_vars

(* A range stays in the map until it is replaced or is too old: no step clears *)
(* a range of the last RefreshTime (lidar.cpp:315-325).                        *)
NoEarlyTrim ==
  [][\A x \in Sectors : vectors[x] # 0 /\ vectors'[x] = 0 =>
       now > refreshTimes[x] + RefreshTime \/ refreshTimes'[x] = now]_vars

(* README.md:5: a map is published on completion of each scan.  Not so: a turn *)
(* whose first good sample is at 10 degrees or more completes none.            *)
EachTurnPublishes == published >= turns - 1
====
