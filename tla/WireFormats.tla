---- MODULE WireFormats ----
(***************************************************************************)
(* The formats a measurement goes through, from the bytes of the device to *)
(* the bytes of a client: decoding of a scan response (lidarresponse.cpp)  *)
(* or of a cabin of an express response (cabin.cpp), entry into the range  *)
(* map, and the serialised map (rangemap.cpp), which a client reads.       *)
(*                                                                         *)
(* Angles are in 1/64 degree and distances in the device's unit; doubles   *)
(* are 8 bytes that nothing looks into.  The device and the client are     *)
(* external: the device packs its bits as the constants of lidarprotocol.h *)
(* say, the client reads the layout that is documented.                    *)
(***************************************************************************)
EXTENDS Integers, Sequences

CONSTANTS Measured,     \* the samples of the device
          Cabins,       \* the cabins of the device, as five bytes
          Vectors, PerVector,   \* number and size of the vectors: 1440, 16
          CountLimit    \* one more than the largest quint16

Byte == 0..255
Full == Vectors * PerVector
Sectors == 0..(Vectors - 1)

(* A sample as the fields of its response: bit 1 of the first byte is the one *)
(* the decoder calls start flag, bit 0 the sync bit of lidarprotocol.h.       *)
Samples == [quality : 0..63, startFlag : 0..1, syncBit : 0..1, checkBit : 0..1,
            angle : 0..(128 * 256 - 1), distance : 0..(256 * 256 - 1)]

ASSUME MeasuredAssumption == Measured \subseteq Samples
ASSUME CabinsAssumption == Cabins \subseteq [1..5 -> Byte]
ASSUME VectorsAssumption == /\ Vectors \in Nat \ {0} /\ PerVector \in Nat \ {0}
                            /\ CountLimit \in Nat /\ Vectors < CountLimit

VARIABLES sample,       \* what the device measured
          frame,        \* its bytes, or those of a cabin
          response,     \* the decoded response
          ranges,       \* _vectors
          blob,         \* the serialised map
          read,         \* what the client makes of it
          stage         \* "measured", "sent", "decoded", "entered", "serialized",
                        \* "read"; or "cabin"

vars == <<sample, frame, response, ranges, blob, read, stage>>

------------------------------------------------------------------------------
(* The device: RPLIDAR_RESP_MEASUREMENT_*. *)
ScanFrame(s) ==
  << s.quality * 4 + s.startFlag * 2 + s.syncBit,
     (s.angle % 128) * 2 + s.checkBit,
     s.angle \div 128,
     s.distance % 256,
     s.distance \div 256 >>

(* ScanResponse::ScanResponse. *)
ScanResponse(b) ==
  [quality |-> b[1] \div 4, startFlag |-> (b[1] \div 2) % 2, checkBit |-> b[2] % 2,
   angle |-> b[3] * 128 + (b[2] \div 2), distance |-> b[5] * 256 + b[4]]

(* Mutant: the nibbles of the last byte are taken crosswise. *)
SecondCrossed(b) == [distance |-> b[4] * 256 + (b[3] \div 4),
                     offset |-> ((b[5] % 16) * 2 + (b[3] % 2)) * 8]

(* Cabin::Cabin: two distances and two offsets of at most 31/8 degrees, of which *)
(* the first values computed are overwritten.                                    *)
First(b) == [distance |-> b[2] * 256 + (b[1] \div 4),
             offset |-> ((b[5] % 16) * 2 + (b[1] % 2)) * 8]
Second(b) == [distance |-> b[4] * 256 + (b[3] \div 4),
              offset |-> ((b[5] \div 16) * 2 + (b[3] % 2)) * 8]

(* The samples processScanResponse enters, with their distance. *)
Good(r) == /\ r.quality > 10 /\ r.checkBit = 1 /\ r.startFlag = 1
           /\ r.angle < Full /\ r.distance > 40

(* A value of some bytes, written by a QDataStream. *)
Field(name, value, width) == [i \in 1..width |-> <<name, value, i>>]

(* The ranges as doubles, one after the other. *)
Doubles(map) == [i \in 1..(8 * Vectors) |->
                   <<"range", map[(i - 1) \div 8], ((i - 1) % 8) + 1>>]

(* Mutant: the count is written after the time. *)
SerializeTimeFirst(map) ==
  Field("marker", 0, 6) \o Field("msecs", 0, 8)
    \o Field("count", Vectors % CountLimit, 2) \o Doubles(map)

(* RangeMap::serialize. *)
SerializedMap(map) ==
  Field("marker", 0, 6) \o Field("count", Vectors % CountLimit, 2)
    \o Field("msecs", 0, 8) \o Doubles(map)

(* A client that skips the marker, takes two bytes as the count, skips some more *)
(* bytes and takes the rest as doubles: it understands a double of which it got  *)
(* the eight bytes in their order.  (README.md:8 has two bytes to skip, a        *)
(* sequence number; the code writes the eight of a time.)                        *)
Understood(bytes) == \E v \in {bytes[1][2]} : bytes = Field("range", v, 8)
ReadMap(b, skipped) ==
  LET count == b[7][2]
      double(x) == SubSeq(b, 9 + skipped + 8 * x, 16 + skipped + 8 * x)
  IN [x \in 0..(count - 1) |->
        IF Len(double(x)) = 8 /\ Understood(double(x)) THEN double(x)[1][2] ELSE -1]

------------------------------------------------------------------------------
Nothing == <<>>

Init == /\ \/ sample \in Measured /\ frame = Nothing /\ stage = "measured"
           \/ sample = Nothing /\ frame \in Cabins /\ stage = "cabin"
        /\ response = Nothing
        /\ ranges = [x \in Sectors |-> 0]
        /\ blob = Nothing /\ read = Nothing

Send == /\ stage = "measured"
        /\ stage' = "sent"
        /\ frame' = ScanFrame(sample)
        /\ UNCHANGED <<sample, response, ranges, blob, read>>

Decode == /\ stage = "sent"
          /\ stage' = "decoded"
          /\ response' = ScanResponse(frame)
          /\ UNCHANGED <<sample, frame, ranges, blob, read>>

Enter == /\ stage = "decoded"
         /\ stage' = "entered"
         /\ ranges' = IF Good(response)
                      THEN [ranges EXCEPT ![response.angle \div PerVector] = response.distance]
                      ELSE ranges
         /\ UNCHANGED <<sample, frame, response, blob, read>>

Serialize == /\ stage = "entered"
             /\ stage' = "serialized"
             /\ blob' = SerializedMap(ranges)
             /\ UNCHANGED <<sample, frame, response, ranges, read>>

(* The client, external, reads the format of rangemap.cpp:12-15: eight bytes   *)
(* between the count and the ranges.                                           *)
ClientReads == /\ stage = "serialized"
               /\ stage' = "read"
               /\ read' = ReadMap(blob, 8)
               /\ UNCHANGED <<sample, frame, response, ranges, blob>>

(* The next cabin of the device differs from the last. *)
NextCabin == /\ stage = "cabin"
             /\ frame' \in Cabins
             /\ UNCHANGED <<sample, response, ranges, blob, read, stage>>

Next == Send \/ Decode \/ Enter \/ Serialize \/ ClientReads \/ NextCabin

Spec == Init /\ [][Next]_vars

------------------------------------------------------------------------------
(* No bit is lost or moved between the device and the decoded response         *)
(* (lidarresponse.cpp:53-62 against lidarprotocol.h:75-79).                    *)
DecodedAsMeasured ==
  stage \notin {"measured", "sent", "cabin"} =>
    response = [quality |-> sample.quality, startFlag |-> sample.startFlag,
                checkBit |-> sample.checkBit, angle |-> sample.angle,
                distance |-> sample.distance]

(* What a client reads at the vector of the angle is the distance the device   *)
(* measured there, and nothing elsewhere (rangemap.cpp:12-15, 32-53).          *)
ClientReadsMeasured ==
  stage = "read" =>
    read = [x \in Sectors |-> IF Good(sample) /\ x = sample.angle \div PerVector
                              THEN sample.distance ELSE 0]

(* The two measurements of a cabin share a byte but not a bit: when the bytes  *)
(* of one stay as they are, so does the other's decoding (cabin.cpp:8-23).     *)
Same(i) == frame'[i] = frame[i]
HalvesIndependent ==
  [][stage = "cabin" =>
       /\ Same(1) /\ Same(2) /\ frame'[5] % 16 = frame[5] % 16
            => First(frame') = First(frame)
       /\ Same(3) /\ Same(4) /\ frame'[5] \div 16 = frame[5] \div 16
            => Second(frame') = Second(frame)]_vars
====
