---- MODULE LidarFramer ----
(***************************************************************************)
(* The framing state machine of class Lidar (lidar.cpp): bytes from the    *)
(* serial port are appended to a buffer of fixed size, and one call of     *)
(* processReadBuffer per delivery walks over them with the states Sync,    *)
(* StartFlag, LengthModeAndType, SingleResponse and MultiResponse, and     *)
(* then moves what it did not consume to the front of the buffer.          *)
(*                                                                         *)
(* The Lidar thread runs HandleDataReady and then, through a direct signal *)
(* call, the loop: one action per iteration of do ... while, one for what  *)
(* follows it.  The Monitor thread calls reset() (from getDeviceInfo)      *)
(* without taking _recvBufferLock: Reset may come between any two of these *)
(* actions.  (A reset in the middle of one iteration is finer than this    *)
(* module.)                                                                *)
(*                                                                         *)
(* The buffer is the sequence of its valid bytes, so that Len(receiveBuffer)*)
(* is _bytesInBuffer.  wire, expected, disturbed and resets are not in    *)
(* the code: the bytes the device has yet to send, the responses its bytes *)
(* encode, whether received bytes were thrown away unread and how many     *)
(* resets there have been; noisy says that there are bytes between the     *)
(* frames.                                                                 *)
(***************************************************************************)
EXTENDS Integers, Sequences

CONSTANTS BufferSize,   \* sizeof(_receiveBuffer): 32786
          LengthLimit,  \* one more than the mask of the length: 0x3FFF + 1
          MaxRead,      \* the longest data of one dataReady signal
          MaxResets,    \* bound on the resets by the Monitor thread
          Streams       \* what the device may send: bytes and what they encode

Byte == 0..255
SYNC == 165             \* 0xA5
START_FLAG == 90        \* 0x5A
DescriptorSize == 5     \* length, mode and type

(* The codes of LidarTypes::ResponseType that LidarResponse::Create knows. *)
DevInfo == 4
SampleRate == 21
Measurement == 129
MeasurementCapsuled == 130

Response == [type : Byte, data : Seq(Byte)]

ASSUME BufferSizeAssumption == BufferSize \in Nat /\ BufferSize >= DescriptorSize
ASSUME LengthLimitAssumption == LengthLimit \in Nat \ {0} /\ LengthLimit <= BufferSize
ASSUME BoundsAssumption == MaxRead \in Nat \ {0} /\ MaxResets \in Nat
ASSUME StreamsAssumption == 
  Streams \subseteq [bytes : Seq(Byte), frames : Seq(Response), noisy : BOOLEAN]

VARIABLES wire, expected, noisy, disturbed, resets,
          receiveBuffer, bytesProcessed, state, chunkLength, responseType,
          pc,           \* "idle": in the event loop; "parse": at switch(_state);
                        \* "shift": after the loop
          delivered     \* the responses handed on: to _responseQueue, to the map

parserVars == <<receiveBuffer, bytesProcessed, state, chunkLength, responseType>>
ghostVars == <<expected, noisy, disturbed, resets>>
vars == <<wire, ghostVars, parserVars, pc, delivered>>

States == {"Sync", "StartFlag", "LengthModeAndType", "SingleResponse", "MultiResponse"}

Init == /\ \E s \in Streams : wire = s.bytes /\ expected = s.frames /\ noisy = s.noisy
        /\ disturbed = FALSE
        /\ resets = 0
        /\ receiveBuffer = <<>>
        /\ bytesProcessed = 0
        /\ state = "Sync"
        /\ chunkLength = 0
        /\ responseType = 0
        /\ pc = "idle"
        /\ delivered = <<>>

Remaining == Len(receiveBuffer) - bytesProcessed
Room == BufferSize - Len(receiveBuffer)

(***************************************************************************)
(* handleDataReady: append what fits, drop the rest, and call (directly)   *)
(* handleReceiveDataAvailable.                                             *)
(***************************************************************************)
HandleDataReady(n) ==
  /\ pc = "idle"
  /\ n <= Len(wire)
  /\ LET bytesToAppend == IF n <= Room THEN n ELSE Room IN
       /\ receiveBuffer' = receiveBuffer \o SubSeq(wire, 1, bytesToAppend)
       /\ disturbed' = (disturbed \/ bytesToAppend < n)
  /\ wire' = SubSeq(wire, n + 1, Len(wire))
  /\ pc' = "parse"
  /\ UNCHANGED <<bytesProcessed, state, chunkLength, responseType, delivered,
                 expected, noisy, resets>>

(* The condition of do ... while, after an iteration that completed its state. *)
LoopTest == pc' = IF bytesProcessed' < Len(receiveBuffer') THEN "parse" ELSE "shift"

(* An iteration that has to wait for more bytes leaves the loop. *)
AwaitBytes == pc' = "shift" /\ UNCHANGED <<parserVars, delivered, disturbed>>

(* Mutant: the search starts at the front of the buffer. *)
FoundFromFront(b) == {x \in 1..Len(receiveBuffer) :
                        receiveBuffer[x] = b /\ \A y \in 1..(x - 1) : receiveBuffer[y] # b}

(* Where seekToByte stops: the number of bytes up to and with the first b. *)
Found(b) == {x \in (bytesProcessed + 1)..Len(receiveBuffer) :
               /\ receiveBuffer[x] = b
               /\ \A y \in (bytesProcessed + 1)..(x - 1) : receiveBuffer[y] # b}

(* Mutant: a failed search throws the buffer away. *)
SeekOrDrop(b, next) ==
  /\ UNCHANGED <<receiveBuffer, chunkLength, responseType, delivered, disturbed>>
  /\ \/ bytesProcessed' \in Found(b) /\ state' = next /\ LoopTest
     \/ /\ Found(b) = {}
        /\ bytesProcessed' = Len(receiveBuffer)
        /\ state' = "Sync"
        /\ pc' = "shift"

SeekToByte(b, next) ==
  /\ UNCHANGED <<receiveBuffer, chunkLength, responseType, delivered, disturbed>>
  /\ \/ /\ bytesProcessed' \in Found(b)
        /\ state' = next
        /\ LoopTest
     \/ /\ Found(b) = {}
        /\ bytesProcessed' = 0          \* startSyncState
        /\ state' = "Sync"
        /\ pc' = "shift"

EnvUnchanged == UNCHANGED <<wire, expected, noisy, resets>>

SyncState == /\ pc = "parse" /\ state = "Sync"
             /\ SeekToByte(SYNC, "StartFlag")
             /\ EnvUnchanged

StartFlagState == /\ pc = "parse" /\ state = "StartFlag"
                  /\ SeekToByte(START_FLAG, "LengthModeAndType")
                  /\ EnvUnchanged

(* Mutant: the mask is forgotten. *)
UnmaskedLength(b0, b1) == b0 + 256 * b1

(* value & 0x3FFF of the little-endian value whose low bytes are b0, b1. *)
ChunkLength(b0, b1) == (b0 + 256 * b1) % LengthLimit

(* Mutant: the value is read into a quint32. *)
UnsignedMode(b3) == b3 \div 64

(* ResponseMode(value >> 30): value is a qint32, so its sign is extended. *)
ResponseMode(b3) == IF b3 < 128 THEN b3 \div 64 ELSE b3 \div 64 - 4

(* Mutant: the index is left as it was. *)
ResetKeepingIndex(lossy) ==
  /\ receiveBuffer' = <<>>
  /\ state' = "Sync"
  /\ disturbed' = (disturbed \/ lossy)
  /\ UNCHANGED bytesProcessed

(* reset(): an empty buffer and the state Sync; lossy: this loses a frame. *)
ResetParser(lossy) ==
  /\ receiveBuffer' = <<>>
  /\ bytesProcessed' = 0
  /\ state' = "Sync"
  /\ disturbed' = (disturbed \/ lossy)

LengthModeAndTypeState ==
  /\ pc = "parse" /\ state = "LengthModeAndType"
  /\ \/ Remaining < DescriptorSize /\ AwaitBytes
     \/ /\ Remaining >= DescriptorSize
        /\ LET d == bytesProcessed
               mode == ResponseMode(receiveBuffer[d + 4])
           IN /\ chunkLength' = ChunkLength(receiveBuffer[d + 1], receiveBuffer[d + 2])
              /\ responseType' = receiveBuffer[d + 5]
              /\ CASE mode \in {0, 1} ->
                        /\ bytesProcessed' = d + DescriptorSize
                        /\ state' = IF mode = 0 THEN "SingleResponse" ELSE "MultiResponse"
                        /\ UNCHANGED <<receiveBuffer, disturbed>>
                   [] mode \in {2, 3} ->    \* Reserved1, Reserved2: startSyncState
                        /\ bytesProcessed' = 0
                        /\ state' = "Sync"
                        /\ UNCHANGED <<receiveBuffer, disturbed>>
                   [] OTHER -> ResetParser(Remaining > DescriptorSize)
        /\ LoopTest
        /\ UNCHANGED delivered
  /\ EnvUnchanged

(* Mutant: the last byte of the chunk is not copied. *)
ShortChunk == [type |-> responseType,
               data |-> SubSeq(receiveBuffer, bytesProcessed + 1, bytesProcessed + chunkLength - 1)]

(* handleResponse: the chunk is complete; _responseData is its bytes. *)
ChunkComplete == Remaining >= chunkLength
Chunk == [type |-> responseType,
          data |-> SubSeq(receiveBuffer, bytesProcessed + 1, bytesProcessed + chunkLength)]

(* LidarResponse::Create returns an object for these types, nullptr for others. *)
Creatable == {DevInfo, SampleRate, Measurement, MeasurementCapsuled}
ScanTypes == {Measurement, MeasurementCapsuled}

SingleResponse ==
  /\ pc = "parse" /\ state = "SingleResponse"
  /\ \/ ~ChunkComplete /\ AwaitBytes
     \/ /\ ChunkComplete
        /\ bytesProcessed' = bytesProcessed + chunkLength
        /\ delivered' = IF responseType \in Creatable THEN Append(delivered, Chunk)
                        ELSE delivered
        /\ state' = "Sync"
        /\ UNCHANGED <<receiveBuffer, chunkLength, responseType, disturbed>>
        /\ LoopTest
  /\ EnvUnchanged

MultiResponse ==
  /\ pc = "parse" /\ state = "MultiResponse"
  /\ \/ ~ChunkComplete /\ AwaitBytes
     \/ /\ ChunkComplete /\ responseType \in Creatable
        /\ bytesProcessed' = bytesProcessed + chunkLength
        /\ delivered' = IF responseType \in ScanTypes THEN Append(delivered, Chunk)
                        ELSE delivered
        /\ UNCHANGED <<receiveBuffer, state, chunkLength, responseType, disturbed>>
        /\ LoopTest
     \/ /\ ChunkComplete /\ responseType \notin Creatable
        /\ ResetParser(Remaining > chunkLength)
        /\ LoopTest
        /\ UNCHANGED <<chunkLength, responseType, delivered>>
  /\ EnvUnchanged

(* What follows the loop: removeBytesFromReceiveBuffer(_bytesProcessed). *)
RemoveBytesFromReceiveBuffer ==
  /\ pc = "shift"
  /\ receiveBuffer' = SubSeq(receiveBuffer, bytesProcessed + 1, Len(receiveBuffer))
  /\ bytesProcessed' = 0
  /\ pc' = "idle"
  /\ UNCHANGED <<state, chunkLength, responseType, delivered, disturbed>>
  /\ EnvUnchanged

(* reset() called by the Monitor thread, in getDeviceInfo. *)
Reset ==
  /\ resets < MaxResets
  /\ resets' = resets + 1
  /\ ResetParser(Remaining > 0 \/ state # "Sync")
  /\ UNCHANGED <<wire, expected, noisy, chunkLength, responseType, pc, delivered>>

ParseStep == SyncState \/ StartFlagState \/ LengthModeAndTypeState
             \/ SingleResponse \/ MultiResponse
LidarThread == ParseStep \/ RemoveBytesFromReceiveBuffer
DataArrives == \E n \in 1..MaxRead : HandleDataReady(n)

Next == DataArrives \/ LidarThread \/ Reset

(* The Lidar thread is scheduled, and the device sends what it has to send. *)
Spec == Init /\ [][Next]_vars /\ WF_vars(LidarThread) /\ WF_vars(DataArrives)

------------------------------------------------------------------------------
(* Every variable has its type; the loop never reads past the valid bytes and  *)
(* the valid bytes never exceed the buffer (lidar.cpp:417, 379, 396).          *)
TypeOK == /\ wire \in Seq(Byte)
          /\ expected \in Seq(Response)
          /\ noisy \in BOOLEAN /\ disturbed \in BOOLEAN
          /\ resets \in 0..MaxResets
          /\ receiveBuffer \in Seq(Byte)
          /\ Len(receiveBuffer) <= BufferSize
          /\ bytesProcessed \in 0..Len(receiveBuffer)
          /\ state \in States
          /\ chunkLength \in 0..(LengthLimit - 1)
          /\ responseType \in Byte
          /\ pc \in {"idle", "parse", "shift"}
          /\ delivered \in Seq(Response)

(* The bytes after which the current state can complete. *)
Need == CASE state = "LengthModeAndType" -> DescriptorSize
          [] state \in {"SingleResponse", "MultiResponse"} /\ chunkLength > 0 -> chunkLength
          [] OTHER -> 1

(* When the parser waits inside a frame it lacks bytes of this frame, and the  *)
(* whole of what it waits for fits in the buffer: no length a descriptor may   *)
(* announce can leave it waiting with a full buffer, where handleDataReady     *)
(* drops all data for ever (lidar.cpp:383 against 417).                        *)
NoWedge == pc = "idle" /\ state # "Sync" =>
             /\ Len(receiveBuffer) < Need
             /\ Need <= BufferSize

(* Each iteration of processReadBuffer that stays in the loop brings it nearer *)
(* its end: it consumes bytes, or leaves SingleResponse for Sync with an empty *)
(* chunk.  The exception is the code's: a multiple response of length 0 is     *)
(* repeated for ever (lidar.cpp:184-208).                                      *)
Variant == 2 * Remaining + (IF state = "SingleResponse" THEN 1 ELSE 0)
LoopStep == /\ pc = "parse" /\ pc' = "parse" /\ resets' = resets
            /\ ~(state = "MultiResponse" /\ chunkLength = 0)
LoopVariant == [][LoopStep => Variant' < Variant]_vars

(* Bytes go through the buffer without loss of order or of a frame: see        *)
(* ResponseStream.  No response is invented, merged, repeated or passed over,  *)
(* however the bytes are cut into reads, until bytes are thrown away           *)
(* (lidar.cpp:124-216, 344-434).                                               *)
Abstract == INSTANCE ResponseStream WITH
  Response <- Response,
  expected <- expected,
  delivered <- delivered,
  disturbed <- disturbed \/ noisy
Implements == Abstract!Safety

(* In a stream with noise between the frames, responses may be handed on again *)
(* (a seek that fails sets _bytesProcessed to 0 and so keeps the frame before  *)
(* the noise, lidar.cpp:363, 408), but only ones the device sent: never one    *)
(* put together from noise.                                                    *)
NothingInvented == ~disturbed =>
  \A i \in 1..Len(delivered) : \E j \in 1..Len(expected) : delivered[i] = expected[j]

(* ... and noise hides no frame that follows it: all are handed on at last.    *)
(* The parser does not wait for a byte more than a frame has, so that without  *)
(* noise, where they are handed on in order, this is ResponseStream's Progress *)
(* (lidar.cpp:208, 341, 379, 396).                                             *)
NoFrameHidden ==
  <>(disturbed \/ /\ Len(delivered) >= Len(expected)
                  /\ \A j \in 1..Len(expected) :
                       \E i \in 1..Len(delivered) : delivered[i] = expected[j])
====
