---- MODULE WireFormatsProofs ----
(* Proofs about WireFormats, for all samples and cabins and every map. *)
EXTENDS WireFormats, TLAPS, SequenceTheorems

(* What a response says of a sample: all but the sync bit. *)
Decoded(s) == [quality |-> s.quality, startFlag |-> s.startFlag,
               checkBit |-> s.checkBit, angle |-> s.angle, distance |-> s.distance]

(* A member of an interval from 0 is a natural number. *)
LEMMA FromZero == ASSUME NEW m, NEW n \in 0..m PROVE n \in Nat
  OBVIOUS

(* Each field from the bytes it is packed into. *)
LEMMA QualityBits ==
  ASSUME NEW q \in 0..63, NEW f \in 0..1, NEW y \in 0..1
  PROVE  /\ (q * 4 + f * 2 + y) \div 4 = q
         /\ ((q * 4 + f * 2 + y) \div 2) % 2 = f
<1>1. (q * 4 + f * 2 + y) \div 2 = q * 2 + f
  OBVIOUS
<1>2. (q * 2 + f) % 2 = f
  OBVIOUS
<1>. QED  BY <1>1, <1>2

LEMMA AngleBits ==
  ASSUME NEW a \in Nat, NEW c \in 0..1
  PROVE  /\ ((a % 128) * 2 + c) % 2 = c
         /\ (a \div 128) * 128 + (((a % 128) * 2 + c) \div 2) = a
<1>1. a % 128 \in Nat /\ (a \div 128) * 128 + (a % 128) = a
  OBVIOUS
<1>2. \A k \in Nat : (k * 2 + c) % 2 = c /\ (k * 2 + c) \div 2 = k
  OBVIOUS
<1>. QED  BY <1>1, <1>2

LEMMA DistanceBits ==
  ASSUME NEW d \in Nat
  PROVE  (d \div 256) * 256 + (d % 256) = d
  OBVIOUS

(* Decoding undoes what the device did, for every sample. *)
LEMMA RoundTrip == ASSUME NEW s \in Samples
                   PROVE  ScanResponse(ScanFrame(s)) = Decoded(s)
<1>1. s.quality \in 0..63 /\ s.startFlag \in 0..1 /\ s.syncBit \in 0..1
  BY DEF Samples
<1>2. s.checkBit \in 0..1 /\ s.angle \in Nat
  <2>1. s.checkBit \in 0..1
    BY DEF Samples
  <2>2. s.angle \in 0..(128 * 256 - 1)
    BY DEF Samples
  <2>. QED  BY <2>1, <2>2, FromZero, Zenon
<1>3. s.distance \in Nat
  <2>1. s.distance \in 0..(256 * 256 - 1)
    BY DEF Samples
  <2>. QED  BY <2>1, FromZero, Zenon
<1>4. \A b1, b2, b3, b4, b5 :
        ScanResponse(<<b1, b2, b3, b4, b5>>) =
          [quality |-> b1 \div 4, startFlag |-> (b1 \div 2) % 2, checkBit |-> b2 % 2,
           angle |-> b3 * 128 + (b2 \div 2), distance |-> b5 * 256 + b4]
  BY DEF ScanResponse
<1>. DEFINE b1 == s.quality * 4 + s.startFlag * 2 + s.syncBit
            b2 == (s.angle % 128) * 2 + s.checkBit
            b3 == s.angle \div 128
            b4 == s.distance % 256
            b5 == s.distance \div 256
<1>5. ScanResponse(ScanFrame(s)) =
        [quality |-> b1 \div 4, startFlag |-> (b1 \div 2) % 2, checkBit |-> b2 % 2,
         angle |-> b3 * 128 + (b2 \div 2), distance |-> b5 * 256 + b4]
  <2>1. ScanFrame(s) = <<b1, b2, b3, b4, b5>>
    BY DEF ScanFrame
  <2>. HIDE DEF b1, b2, b3, b4, b5
  <2>. QED  BY <2>1, <1>4
<1>6. /\ (s.quality * 4 + s.startFlag * 2 + s.syncBit) \div 4 = s.quality
      /\ ((s.quality * 4 + s.startFlag * 2 + s.syncBit) \div 2) % 2 = s.startFlag
  BY <1>1, QualityBits, Zenon
<1>7. /\ ((s.angle % 128) * 2 + s.checkBit) % 2 = s.checkBit
      /\ (s.angle \div 128) * 128 + (((s.angle % 128) * 2 + s.checkBit) \div 2) = s.angle
  BY <1>2, AngleBits, Zenon
<1>8. (s.distance \div 256) * 256 + (s.distance % 256) = s.distance
  BY <1>3, DistanceBits, Zenon
<1>. QED  BY <1>5, <1>6, <1>7, <1>8, Zenon DEF Decoded

------------------------------------------------------------------------------
(* The serialised map as a sequence of cells. *)
Values(map) == {0, Vectors % CountLimit} \cup {map[x] : x \in Sectors}
Cells(map) == {"marker", "count", "msecs", "range"} \X Values(map) \X Nat

LEMMA FieldType ==
  ASSUME NEW map, NEW name \in {"marker", "count", "msecs", "range"},
         NEW value \in Values(map), NEW width \in Nat
  PROVE  /\ Field(name, value, width) \in Seq(Cells(map))
         /\ Len(Field(name, value, width)) = width
         /\ \A i \in 1..width : Field(name, value, width)[i] = <<name, value, i>>
<1>1. \A i \in 1..width : <<name, value, i>> \in Cells(map)
  BY DEF Cells
<1>2. Field(name, value, width) \in [1..width -> Cells(map)]
  BY <1>1 DEF Field
<1>3. \A i \in 1..width : Field(name, value, width)[i] = <<name, value, i>>
  BY DEF Field
<1>4. Len(Field(name, value, width)) = width
  BY DEF Field
<1>5. Field(name, value, width) \in Seq(Cells(map))
  BY <1>2
<1>. QED  BY <1>3, <1>4, <1>5

LEMMA DoublesType ==
  ASSUME NEW map
  PROVE  /\ Doubles(map) \in Seq(Cells(map))
         /\ Len(Doubles(map)) = 8 * Vectors
         /\ \A x \in Sectors : \A i \in 1..8 : Doubles(map)[8 * x + i] = <<"range", map[x], i>>
<1>1. 8 * Vectors \in Nat
  BY VectorsAssumption
<1>2. \A j \in 1..(8 * Vectors) : (j - 1) \div 8 \in Sectors /\ ((j - 1) % 8) + 1 \in Nat
  BY VectorsAssumption DEF Sectors
<1>3. \A j \in 1..(8 * Vectors) :
        <<"range", map[(j - 1) \div 8], ((j - 1) % 8) + 1>> \in Cells(map)
  <2>. SUFFICES ASSUME NEW j \in 1..(8 * Vectors)
                PROVE  <<"range", map[(j - 1) \div 8], ((j - 1) % 8) + 1>> \in Cells(map)
    OBVIOUS
  <2>1. map[(j - 1) \div 8] \in Values(map)
    BY <1>2, Zenon DEF Values
  <2>2. ((j - 1) % 8) + 1 \in Nat
    BY <1>2, Zenon
  <2>. QED  BY <2>1, <2>2, Zenon DEF Cells
<1>4. Doubles(map) \in [1..(8 * Vectors) -> Cells(map)]
  BY <1>3, Zenon DEF Doubles
<1>5. Doubles(map) \in Seq(Cells(map)) /\ Len(Doubles(map)) = 8 * Vectors
  BY <1>1, <1>4
<1>6. ASSUME NEW x \in Sectors, NEW i \in 1..8
      PROVE  Doubles(map)[8 * x + i] = <<"range", map[x], i>>
  <2>1. 8 * x + i \in 1..(8 * Vectors)
    BY VectorsAssumption DEF Sectors
  <2>2. ((8 * x + i) - 1) \div 8 = x /\ (((8 * x + i) - 1) % 8) + 1 = i
    BY VectorsAssumption DEF Sectors
  <2>. QED  BY <2>1, <2>2, Zenon DEF Doubles
<1>. QED  BY <1>5, <1>6

(* ConcatProperties by the part the element is in. *)
LEMMA Joined ==
  ASSUME NEW S
  PROVE  \A s, t \in Seq(S) :
           /\ s \o t \in Seq(S)
           /\ Len(s \o t) = Len(s) + Len(t)
           /\ \A i \in 1..Len(s) : (s \o t)[i] = s[i]
           /\ \A i \in 1..Len(t) : (s \o t)[Len(s) + i] = t[i]
<1>. TAKE s, t \in Seq(S)
<1>. DEFINE r == s \o t
<1>1. /\ r \in Seq(S)
      /\ Len(r) = Len(s) + Len(t)
      /\ \A i \in 1 .. Len(s) + Len(t) : r[i] = IF i <= Len(s) THEN s[i] ELSE t[i - Len(s)]
  BY ConcatProperties, Zenon
<1>2. Len(s) \in Nat /\ Len(t) \in Nat
  BY LenProperties, Zenon
<1>. HIDE DEF r
<1>3. \A i \in 1..Len(s) : r[i] = s[i]
  BY <1>1, <1>2
<1>4. \A i \in 1..Len(t) : r[Len(s) + i] = t[i]
  BY <1>1, <1>2
<1>. QED  BY <1>1, <1>3, <1>4, Zenon DEF r

(* Where a client finds the count and the doubles. *)
LEMMA Layout ==
  ASSUME NEW map
  PROVE  /\ SerializedMap(map)[7][2] = Vectors
         /\ \A x \in Sectors :
              SubSeq(SerializedMap(map), 9 + 8 + 8 * x, 16 + 8 + 8 * x) = Field("range", map[x], 8)
<1>. DEFINE marker == Field("marker", 0, 6)
            count == Field("count", Vectors % CountLimit, 2)
            msecs == Field("msecs", 0, 8)
            doubles == Doubles(map)
            S == Cells(map)
            b == ((marker \o count) \o msecs) \o doubles
<1>1. /\ 0 \in Values(map) /\ Vectors % CountLimit \in Values(map)
      /\ 6 \in Nat /\ 2 \in Nat /\ 8 \in Nat /\ 1 \in 1..2
  BY DEF Values
<1>2. marker \in Seq(S) /\ Len(marker) = 6
  BY <1>1, FieldType, Zenon
<1>3. /\ count \in Seq(S) /\ Len(count) = 2
      /\ count[1] = <<"count", Vectors % CountLimit, 1>>
  BY <1>1, FieldType, ZenonT(60)
<1>4. msecs \in Seq(S) /\ Len(msecs) = 8
  <2>1. \A w \in Nat : /\ Field("msecs", 0, w) \in Seq(S)
                       /\ Len(Field("msecs", 0, w)) = w
    BY <1>1, FieldType, Zenon
  <2>. HIDE DEF S
  <2>. QED  BY <1>1, <2>1, Zenon
<1>5. /\ doubles \in Seq(S) /\ Len(doubles) = 8 * Vectors
      /\ \A x \in Sectors : \A i \in 1..8 : doubles[8 * x + i] = <<"range", map[x], i>>
  BY DoublesType
<1>6. SerializedMap(map) = b
  BY DEF SerializedMap
<1>. HIDE DEF marker, count, msecs, doubles, S
<1>. DEFINE head == marker \o count
            front == head \o msecs
<1>7. head \in Seq(S) /\ Len(head) = 8 /\ head[7] = count[1]
  <2>1. /\ head \in Seq(S) /\ Len(head) = Len(marker) + Len(count)
        /\ \A i \in 1..Len(count) : head[Len(marker) + i] = count[i]
    <3>1. marker \in Seq(S) /\ count \in Seq(S)
      BY <1>2, <1>3
    <3>. QED  BY <3>1, Joined, SMTT(30)
  <2>. HIDE DEF head
  <2>. QED  BY <1>2, <1>3, <2>1
<1>. HIDE DEF head
<1>8. front \in Seq(S) /\ Len(front) = 16 /\ front[7] = count[1]
  <2>1. /\ front \in Seq(S) /\ Len(front) = Len(head) + Len(msecs)
        /\ \A i \in 1..Len(head) : front[i] = head[i]
    BY <1>4, <1>7, Joined, Zenon
  <2>. HIDE DEF front
  <2>. QED  BY <1>4, <1>7, <2>1
<1>. HIDE DEF front
<1>9. /\ b \in Seq(S) /\ Len(b) = 16 + 8 * Vectors
      /\ b[7] = count[1]
      /\ \A i \in 1..(8 * Vectors) : b[16 + i] = doubles[i]
  <2>1. b = front \o doubles
    BY DEF front, head
  <2>. HIDE DEF b
  <2>2. /\ b \in Seq(S) /\ Len(b) = Len(front) + Len(doubles)
        /\ \A i \in 1..Len(front) : b[i] = front[i]
        /\ \A i \in 1..Len(doubles) : b[Len(front) + i] = doubles[i]
    <3>1. front \in Seq(S) /\ doubles \in Seq(S)
      BY <1>5, <1>8, Zenon
    <3>. QED  BY <2>1, <3>1, Joined, SMTT(30)
  <2>. QED  BY <1>5, <1>8, <2>2
<1>10. b[7][2] = Vectors
  <2>1. Vectors % CountLimit = Vectors
    BY VectorsAssumption
  <2>. QED  BY <1>3, <1>9, <2>1
<1>. HIDE DEF b
<1>11. ASSUME NEW x \in Sectors
       PROVE  SubSeq(b, 9 + 8 + 8 * x, 16 + 8 + 8 * x) = Field("range", map[x], 8)
  <2>1. x \in Nat /\ 8 * x + 8 <= 8 * Vectors
    BY VectorsAssumption DEF Sectors
  <2>2. /\ 9 + 8 + 8 * x \in Int /\ 16 + 8 + 8 * x \in Int
        /\ \A j \in (9 + 8 + 8 * x)..(16 + 8 + 8 * x) : j \in 1..Len(b)
    BY <1>9, <2>1, VectorsAssumption
  <2>3. \A j \in (9 + 8 + 8 * x)..(16 + 8 + 8 * x) : b[j] \in S
    BY <1>9, <2>2, LenProperties
  <2>. DEFINE d == SubSeq(b, 9 + 8 + 8 * x, 16 + 8 + 8 * x)
  <2>4. /\ d \in Seq(S) /\ Len(d) = 8
        /\ \A i \in 1..8 : d[i] = b[9 + 8 + 8 * x + i - 1]
    BY <2>1, <2>2, <2>3, SubSeqProperties
  <2>5. \A i \in 1..8 : b[9 + 8 + 8 * x + i - 1] = <<"range", map[x], i>>
    <3>. SUFFICES ASSUME NEW i \in 1..8
                  PROVE  b[9 + 8 + 8 * x + i - 1] = <<"range", map[x], i>>
      OBVIOUS
    <3>1. 8 * x + i \in 1..(8 * Vectors) /\ 9 + 8 + 8 * x + i - 1 = 16 + (8 * x + i)
      BY <2>1, VectorsAssumption
    <3>. QED  BY <1>5, <1>9, <3>1, Zenon
  <2>6. map[x] \in Values(map)
    BY DEF Values
  <2>. HIDE DEF d
  <2>7. d = [i \in 1..8 |-> <<"range", map[x], i>>]
    BY <2>4, <2>5, LenProperties
  <2>. QED  BY <2>7, Zenon DEF d, Field
<1>. QED  BY <1>6, <1>10, <1>11

(* A client of the layout reads the map that was serialised. *)
LEMMA ClientReadsMap ==
  ASSUME NEW map, map = [x \in Sectors |-> map[x]]
  PROVE  ReadMap(SerializedMap(map), 8) = map
<1>. DEFINE b == SerializedMap(map)
            double(x) == SubSeq(b, 9 + 8 + 8 * x, 16 + 8 + 8 * x)
<1>1. \A v : /\ Len(Field("range", v, 8)) = 8
             /\ Field("range", v, 8)[1][2] = v
  BY DEF Field
<1>2. \A v : Understood(Field("range", v, 8))
  BY <1>1, Zenon DEF Understood
<1>3. ReadMap(b, 8) = [x \in 0..(b[7][2] - 1) |->
        IF Len(double(x)) = 8 /\ Understood(double(x)) THEN double(x)[1][2] ELSE -1]
  BY DEF ReadMap
<1>4. 0..(b[7][2] - 1) = Sectors
  BY Layout, Zenon DEF Sectors
<1>5. \A x \in Sectors : double(x) = Field("range", map[x], 8)
  BY Layout, Zenon
<1>6. \A x \in Sectors :
        (IF Len(double(x)) = 8 /\ Understood(double(x)) THEN double(x)[1][2] ELSE -1) = map[x]
  BY <1>1, <1>2, <1>5, Zenon
<1>. QED  BY <1>3, <1>4, <1>6, Zenon

------------------------------------------------------------------------------
(* The map after the sample has been entered. *)
Expected(s) == [x \in Sectors |-> IF Good(s) /\ x = s.angle \div PerVector
                                  THEN s.distance ELSE 0]

(* A good sample's angle is in one of the vectors. *)
LEMMA IndexInRange ==
  ASSUME NEW a \in Nat, a < Full
  PROVE  a \div PerVector \in Sectors
<1>1. a \div PerVector \in Nat /\ PerVector * (a \div PerVector) <= a
  BY VectorsAssumption
<1>. DEFINE q == a \div PerVector
<1>2. \A k \in Nat : k >= Vectors => PerVector * k >= PerVector * Vectors
  BY VectorsAssumption
<1>3. q < Vectors
  BY <1>1, <1>2, VectorsAssumption DEF Full
<1>. QED  BY <1>1, <1>3, VectorsAssumption DEF Sectors

(* The frame is the sample's until it is decoded, its response the sample's     *)
(* from then on, and so are the ranges and what a client reads.                 *)
IInv == /\ stage \in {"measured", "sent", "decoded", "entered", "serialized", "read", "cabin"}
        /\ stage # "cabin" => sample \in Samples
        /\ stage = "sent" => frame = ScanFrame(sample)
        /\ stage \notin {"measured", "sent", "cabin"} => response = Decoded(sample)
        /\ stage \in {"measured", "sent", "decoded"} => ranges = [x \in Sectors |-> 0]
        /\ stage \in {"entered", "serialized", "read"} => ranges = Expected(sample)
        /\ stage = "serialized" => blob = SerializedMap(ranges)
        /\ stage = "read" => read = ranges

LEMMA InitIInv == Init => IInv
  BY MeasuredAssumption DEF Init, IInv

LEMMA EnterExpected ==
  ASSUME NEW s \in Samples
  PROVE  (IF Good(Decoded(s))
          THEN [[x \in Sectors |-> 0] EXCEPT ![Decoded(s).angle \div PerVector] = Decoded(s).distance]
          ELSE [x \in Sectors |-> 0]) = Expected(s)
<1>1. /\ Good(Decoded(s)) <=> Good(s)
      /\ Decoded(s).angle = s.angle /\ Decoded(s).distance = s.distance
  BY DEF Decoded, Good
<1>2. CASE Good(s)
  <2>1. s.angle \in Nat
    <3>1. s.angle \in 0..(128 * 256 - 1)
      BY DEF Samples
    <3>. QED  BY <3>1, FromZero, Zenon
  <2>2. s.angle < Full
    BY <1>2 DEF Good
  <2>3. s.angle \div PerVector \in Sectors
    BY <2>1, <2>2, IndexInRange
  <2>4. [[x \in Sectors |-> 0] EXCEPT ![s.angle \div PerVector] = s.distance] = Expected(s)
    BY <1>2, <2>3, Zenon DEF Expected
  <2>. QED  BY <1>1, <1>2, <2>4, Zenon
<1>3. CASE ~Good(s)
  <2>1. [x \in Sectors |-> 0] = Expected(s)
    BY <1>3, Zenon DEF Expected
  <2>. QED  BY <1>1, <1>3, <2>1, Zenon
<1>. QED  BY <1>2, <1>3

LEMMA NextIInv == IInv /\ [Next]_vars => IInv'
<1>. SUFFICES ASSUME IInv, [Next]_vars PROVE IInv'
  OBVIOUS
<1>. USE DEF IInv
<1>1. CASE Send
  BY <1>1 DEF Send
<1>2. CASE Decode
  BY <1>2, RoundTrip DEF Decode
<1>3. CASE Enter
  <2>1. /\ stage = "decoded" /\ stage' = "entered"
        /\ UNCHANGED <<sample, response>>
    BY <1>3 DEF Enter
  <2>2. ranges' = Expected(sample)
    BY <1>3, EnterExpected, Zenon DEF Enter
  <2>3. ranges' = Expected(sample')
    BY <2>1, <2>2
  <2>. QED  BY <2>1, <2>3
<1>4. CASE Serialize
  BY <1>4 DEF Serialize
<1>5. CASE ClientReads
  <2>1. /\ stage = "serialized" /\ stage' = "read"
        /\ read' = ReadMap(SerializedMap(ranges), 8)
        /\ UNCHANGED <<sample, response, ranges>>
    BY <1>5 DEF ClientReads
  <2>2. ranges = [x \in Sectors |-> ranges[x]]
    BY <2>1, Zenon DEF Expected
  <2>3. read' = ranges
    BY <2>1, <2>2, ClientReadsMap, Zenon
  <2>. QED  BY <2>1, <2>3
<1>6. CASE NextCabin
  BY <1>6 DEF NextCabin
<1>7. CASE UNCHANGED vars
  BY <1>7 DEF vars
<1>. QED  BY <1>1, <1>2, <1>3, <1>4, <1>5, <1>6, <1>7 DEF Next

(* For every sample and every number of vectors a 16-bit count can hold, a      *)
(* client reads what was measured (rangemap.cpp:32-53).                         *)
THEOREM AlwaysClientReadsMeasured == Spec => []ClientReadsMeasured
<1>1. IInv => ClientReadsMeasured
  BY DEF IInv, ClientReadsMeasured, Expected
<1>. QED  BY <1>1, InitIInv, NextIInv, PTL DEF Spec

(* For every sample of the device the response says what was measured           *)
(* (lidarresponse.cpp:53-62).                                                   *)
THEOREM AlwaysDecodedAsMeasured == Spec => []DecodedAsMeasured
<1>1. IInv => DecodedAsMeasured
  BY DEF IInv, DecodedAsMeasured, Decoded
<1>. QED  BY <1>1, InitIInv, NextIInv, PTL DEF Spec

(* For all cabins the two measurements use disjoint bits (cabin.cpp:8-23).      *)
THEOREM AlwaysHalvesIndependent == Spec => HalvesIndependent
<1>1. ASSUME [Next]_vars
      PROVE  [stage = "cabin" =>
               /\ Same(1) /\ Same(2) /\ frame'[5] % 16 = frame[5] % 16
                    => First(frame') = First(frame)
               /\ Same(3) /\ Same(4) /\ frame'[5] \div 16 = frame[5] \div 16
                    => Second(frame') = Second(frame)]_vars
  <2>1. Same(1) /\ Same(2) /\ frame'[5] % 16 = frame[5] % 16
          => First(frame') = First(frame)
    BY DEF Same, First
  <2>2. Same(3) /\ Same(4) /\ frame'[5] \div 16 = frame[5] \div 16
          => Second(frame') = Second(frame)
    BY DEF Same, Second
  <2>. QED  BY <2>1, <2>2
<1>. QED  BY <1>1, PTL DEF Spec, HalvesIndependent
====
