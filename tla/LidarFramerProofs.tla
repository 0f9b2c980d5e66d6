---- MODULE LidarFramerProofs ----
(***************************************************************************)
(* Proofs about LidarFramer, for every buffer, mask, read size and stream. *)
(***************************************************************************)
EXTENDS FramedStreams, SequenceTheorems, TLAPS

(* What a descriptor announces is within the mask, for all its bytes.      *)
LEMMA ChunkLengthBounded ==
  ASSUME NEW b0 \in Byte, NEW b1 \in Byte
  PROVE  ChunkLength(b0, b1) \in 0..(LengthLimit - 1)
<1>1. b0 + 256 * b1 \in Nat
  BY DEF Byte
<1>2. QED
  BY <1>1, LengthLimitAssumption DEF ChunkLength

(* The sign extension of value >> 30 keeps Reserved1 and Reserved2 out of      *)
(* reach: their branch, which consumes nothing, would repeat itself for ever.  *)
LEMMA ReservedModesUnreachable ==
  ASSUME NEW b3 \in Byte
  PROVE  ResponseMode(b3) \in {-2, -1, 0, 1}
<1>1. CASE b3 < 128
  <2>1. b3 \div 64 \in {0, 1}
    BY <1>1 DEF Byte
  <2> QED
    BY <1>1, <2>1 DEF ResponseMode
<1>2. CASE b3 >= 128
  <2>1. b3 \div 64 \in {2, 3}
    BY <1>2 DEF Byte
  <2> QED
    BY <1>2, <2>1 DEF ResponseMode, Byte
<1> QED
  BY <1>1, <1>2 DEF Byte

(* A part of a sequence is a sequence over the same set, of known length.  *)
LEMMA PartOfSeq ==
  ASSUME NEW S, NEW s \in Seq(S), NEW m \in Nat, NEW n \in Nat, m <= n, n <= Len(s)
  PROVE  /\ SubSeq(s, m + 1, n) \in Seq(S)
         /\ Len(SubSeq(s, m + 1, n)) = n - m
OBVIOUS

------------------------------------------------------------------------------
(* What NoWedge needs before the loop is left: once it is, what remains behind *)
(* the consumed bytes is less than the state waits for.                        *)
Waiting == /\ pc = "idle" => bytesProcessed = 0
           /\ pc \in {"idle", "shift"} /\ state # "Sync" => Remaining < Need

IInv == TypeOK /\ Waiting

LEMMA InitIInv == Init => IInv
<1> SUFFICES ASSUME Init PROVE IInv
  OBVIOUS
<1>1. TypeOK
  <2>1. wire \in Seq(Byte) /\ expected \in Seq(Response) /\ noisy \in BOOLEAN
    BY StreamsAssumption DEF Init
  <2>2. receiveBuffer \in Seq(Byte) /\ delivered \in Seq(Response) /\ Len(receiveBuffer) = 0
    BY DEF Init
  <2>3. /\ Len(receiveBuffer) <= BufferSize
        /\ bytesProcessed \in 0..Len(receiveBuffer)
        /\ chunkLength \in 0..(LengthLimit - 1)
        /\ resets \in 0..MaxResets
    BY <2>2, BufferSizeAssumption, LengthLimitAssumption, BoundsAssumption DEF Init
  <2>4. responseType \in Byte
    BY DEF Init, Byte
  <2>5. disturbed \in BOOLEAN /\ state \in States /\ pc \in {"idle", "parse", "shift"}
    BY DEF Init, States
  <2> QED
    BY <2>1, <2>2, <2>3, <2>4, <2>5 DEF TypeOK
<1>2. Waiting
  BY DEF Init, Waiting
<1> QED
  BY <1>1, <1>2 DEF IInv

(* A seek keeps the type invariant, and gives up only in state Sync.       *)
LEMMA SeekToByteIInv ==
  ASSUME IInv, NEW b \in Byte, NEW next \in States \ {"Sync"},
         pc = "parse", SeekToByte(b, next), EnvUnchanged
  PROVE  IInv'
<1> USE DEF IInv, TypeOK
<1>1. Len(receiveBuffer) \in Nat
  OBVIOUS
<1>2. bytesProcessed' \in 0..Len(receiveBuffer)
  BY <1>1 DEF SeekToByte, Found
<1>3. TypeOK'
  BY <1>2 DEF SeekToByte, EnvUnchanged, States, LoopTest
<1>4. Waiting'
  <2>1. CASE bytesProcessed' \in Found(b) /\ state' = next /\ LoopTest
    BY <2>1, <1>1, <1>2 DEF SeekToByte, LoopTest, Waiting, Remaining, Need, DescriptorSize
  <2>2. CASE state' = "Sync" /\ pc' = "shift"
    BY <2>2 DEF Waiting
  <2> QED
    BY <2>1, <2>2 DEF SeekToByte
<1> QED
  BY <1>3, <1>4 DEF IInv

(* An iteration that waits for more bytes changes nothing and is right to wait. *)
LEMMA AwaitBytesIInv ==
  ASSUME IInv, pc = "parse", AwaitBytes, EnvUnchanged, Remaining < Need
  PROVE  IInv'
<1>1. TypeOK'
  BY DEF IInv, TypeOK, AwaitBytes, EnvUnchanged, parserVars, States
<1>2. Waiting'
  BY DEF AwaitBytes, parserVars, Waiting, Remaining, Need
<1> QED
  BY <1>1, <1>2 DEF IInv

(* After a reset, by either thread, the buffer is empty and the state Sync. *)
LEMMA ResetParserIInv ==
  ASSUME IInv, NEW lossy \in BOOLEAN, ResetParser(lossy),
         wire' = wire, expected' = expected, noisy' = noisy, delivered' = delivered,
         resets' \in 0..MaxResets,
         chunkLength' \in 0..(LengthLimit - 1),
         responseType' \in Byte, pc' \in {"idle", "parse", "shift"}
  PROVE  IInv'
<1>1. /\ receiveBuffer' \in Seq(Byte)
      /\ Len(receiveBuffer') <= BufferSize
      /\ bytesProcessed' \in 0..Len(receiveBuffer')
  BY BufferSizeAssumption DEF ResetParser
<1>2. disturbed' \in BOOLEAN
  BY DEF IInv, TypeOK, ResetParser
<1>3. TypeOK'
  BY <1>1, <1>2 DEF IInv, TypeOK, ResetParser, States
<1>4. Waiting'
  BY DEF ResetParser, Waiting
<1> QED
  BY <1>3, <1>4 DEF IInv

LEMMA HandleDataReadyIInv ==
  ASSUME IInv, NEW n \in 1..MaxRead, HandleDataReady(n)
  PROVE  IInv'
<1> USE DEF IInv, TypeOK
<1> DEFINE k == IF n <= Room THEN n ELSE Room
<1>1. /\ k \in Nat /\ k <= n /\ k <= Room /\ n <= Len(wire)
      /\ Len(wire) \in Nat /\ n \in Nat
  BY BufferSizeAssumption, BoundsAssumption DEF Room, HandleDataReady
<1>2. SubSeq(wire, 1, k) \in Seq(Byte) /\ Len(SubSeq(wire, 1, k)) = k
  BY <1>1, PartOfSeq, k <= Len(wire), 0 + 1 = 1, 0 <= k, 0 \in Nat, k - 0 = k
<1>3. wire' \in Seq(Byte)
  BY <1>1, PartOfSeq, Len(wire) <= Len(wire) DEF HandleDataReady
<1>4. receiveBuffer' = receiveBuffer \o SubSeq(wire, 1, k)
  BY DEF HandleDataReady
<1>5. /\ receiveBuffer' \in Seq(Byte)
      /\ Len(receiveBuffer') = Len(receiveBuffer) + k
  BY <1>2, <1>4
<1>6. /\ Len(receiveBuffer') <= BufferSize
      /\ bytesProcessed' \in 0..Len(receiveBuffer')
  BY <1>1, <1>5, BufferSizeAssumption DEF Room, HandleDataReady
<1>7. disturbed' \in BOOLEAN
  BY DEF HandleDataReady
<1>8. TypeOK'
  BY <1>3, <1>5, <1>6, <1>7 DEF HandleDataReady
<1>9. Waiting'
  BY DEF HandleDataReady, Waiting
<1> QED
  BY <1>8, <1>9

LEMMA LengthModeAndTypeIInv ==
  ASSUME IInv, LengthModeAndTypeState
  PROVE  IInv'
<1> USE DEF IInv, TypeOK
<1>0. pc = "parse" /\ state = "LengthModeAndType" /\ EnvUnchanged
  BY DEF LengthModeAndTypeState
<1>1. CASE Remaining < DescriptorSize /\ AwaitBytes
  BY <1>0, <1>1, AwaitBytesIInv DEF Need
<1>2. CASE Remaining >= DescriptorSize
  <2> DEFINE d == bytesProcessed
             mode == ResponseMode(receiveBuffer[d + 4])
  <2>1. /\ receiveBuffer[d + 1] \in Byte /\ receiveBuffer[d + 2] \in Byte
        /\ receiveBuffer[d + 5] \in Byte
        /\ d + DescriptorSize \in 0..Len(receiveBuffer)
        /\ ~(Remaining < DescriptorSize)
    BY <1>2 DEF Remaining, DescriptorSize
  <2>2. /\ chunkLength' = ChunkLength(receiveBuffer[d + 1], receiveBuffer[d + 2])
        /\ responseType' = receiveBuffer[d + 5]
        /\ delivered' = delivered
        /\ LoopTest
    BY <2>1 DEF LengthModeAndTypeState
  <2>3. \/ /\ bytesProcessed' = d + DescriptorSize
           /\ state' \in {"SingleResponse", "MultiResponse"}
           /\ UNCHANGED <<receiveBuffer, disturbed>>
        \/ /\ bytesProcessed' = 0
           /\ state' = "Sync"
           /\ UNCHANGED <<receiveBuffer, disturbed>>
        \/ ResetParser(Remaining > DescriptorSize)
    <3>1. CASE mode \in {0, 1}
      BY <2>1, <3>1 DEF LengthModeAndTypeState
    <3>2. CASE mode \in {2, 3}
      BY <2>1, <3>2 DEF LengthModeAndTypeState
    <3>3. CASE mode \notin {0, 1} /\ mode \notin {2, 3}
      BY <2>1, <3>3 DEF LengthModeAndTypeState
    <3> QED
      BY <3>1, <3>2, <3>3
  <2>4. /\ chunkLength' \in 0..(LengthLimit - 1)
        /\ responseType' \in Byte
        /\ pc' \in {"parse", "shift"}
    BY <2>1, <2>2, ChunkLengthBounded DEF LoopTest
  <2>5. CASE ResetParser(Remaining > DescriptorSize)
    BY <1>0, <2>2, <2>4, <2>5, ResetParserIInv, (Remaining > DescriptorSize) \in BOOLEAN
    DEF EnvUnchanged
  <2>6. CASE /\ bytesProcessed' = d + DescriptorSize
             /\ state' \in {"SingleResponse", "MultiResponse"}
             /\ UNCHANGED <<receiveBuffer, disturbed>>
    <3>1. TypeOK'
      BY <1>0, <2>1, <2>2, <2>4, <2>6 DEF EnvUnchanged, States
    <3>2. Waiting'
      BY <2>1, <2>2, <2>4, <2>6 DEF Waiting, LoopTest, Remaining, Need
    <3> QED
      BY <3>1, <3>2
  <2>7. CASE /\ bytesProcessed' = 0
             /\ state' = "Sync"
             /\ UNCHANGED <<receiveBuffer, disturbed>>
    <3>1. TypeOK'
      BY <1>0, <2>2, <2>4, <2>7 DEF EnvUnchanged, States
    <3>2. Waiting'
      BY <2>4, <2>7 DEF Waiting
    <3> QED
      BY <3>1, <3>2
  <2> QED
    BY <2>5, <2>6, <2>7, <2>3
<1> QED
  BY <1>1, <1>2 DEF LengthModeAndTypeState

(* The chunk handed on is a response, and its bytes are valid ones. *)
LEMMA ChunkIsResponse ==
  ASSUME TypeOK, ChunkComplete
  PROVE  /\ Chunk \in Response
         /\ bytesProcessed + chunkLength \in 0..Len(receiveBuffer)
<1>1. /\ bytesProcessed \in Nat /\ bytesProcessed + chunkLength \in Nat
      /\ bytesProcessed <= bytesProcessed + chunkLength
      /\ bytesProcessed + chunkLength <= Len(receiveBuffer)
  BY LengthLimitAssumption DEF TypeOK, ChunkComplete, Remaining
<1>2. Chunk.data \in Seq(Byte)
  BY <1>1, PartOfSeq DEF TypeOK, Chunk
<1> QED
  BY <1>1, <1>2 DEF TypeOK, Chunk, Response

LEMMA SingleResponseIInv ==
  ASSUME IInv, SingleResponse
  PROVE  IInv'
<1> USE DEF IInv, TypeOK
<1>0. pc = "parse" /\ state = "SingleResponse" /\ EnvUnchanged
  BY DEF SingleResponse
<1>1. CASE ~ChunkComplete /\ AwaitBytes
  BY <1>0, <1>1, AwaitBytesIInv, LengthLimitAssumption DEF Need, ChunkComplete, Remaining
<1>2. CASE ChunkComplete /\ ~(~ChunkComplete /\ AwaitBytes)
  <2>1. /\ bytesProcessed' = bytesProcessed + chunkLength
        /\ delivered' = IF responseType \in Creatable THEN Append(delivered, Chunk)
                        ELSE delivered
        /\ state' = "Sync"
        /\ pc' \in {"parse", "shift"}
        /\ UNCHANGED <<receiveBuffer, chunkLength, responseType, disturbed>>
    BY <1>2 DEF SingleResponse, LoopTest
  <2>2. delivered' \in Seq(Response)
    BY <1>2, <2>1, ChunkIsResponse
  <2>3. TypeOK'
    BY <1>0, <1>2, <2>1, <2>2, ChunkIsResponse DEF EnvUnchanged, States
  <2>4. Waiting'
    BY <2>1 DEF Waiting
  <2> QED
    BY <2>3, <2>4
<1> QED
  BY <1>1, <1>2 DEF SingleResponse

LEMMA MultiResponseIInv ==
  ASSUME IInv, MultiResponse
  PROVE  IInv'
<1> USE DEF IInv, TypeOK
<1>0. pc = "parse" /\ state = "MultiResponse" /\ EnvUnchanged
  BY DEF MultiResponse
<1>1. CASE ~ChunkComplete /\ AwaitBytes
  BY <1>0, <1>1, AwaitBytesIInv, LengthLimitAssumption DEF Need, ChunkComplete, Remaining
<1>2. CASE ChunkComplete /\ responseType \in Creatable
  <2>1. /\ bytesProcessed' = bytesProcessed + chunkLength
        /\ delivered' = IF responseType \in ScanTypes THEN Append(delivered, Chunk)
                        ELSE delivered
        /\ LoopTest
        /\ UNCHANGED <<receiveBuffer, state, chunkLength, responseType, disturbed>>
    BY <1>2 DEF MultiResponse
  <2>2. delivered' \in Seq(Response)
    BY <1>2, <2>1, ChunkIsResponse
  <2>3. pc' \in {"parse", "shift"}
    BY <2>1 DEF LoopTest
  <2>4. TypeOK'
    BY <1>0, <1>2, <2>1, <2>2, <2>3, ChunkIsResponse DEF EnvUnchanged
  <2>5. Waiting'
    BY <1>0, <1>2, <2>1, <2>3, ChunkIsResponse DEF Waiting, LoopTest, Remaining, Need
  <2> QED
    BY <2>4, <2>5
<1>3. CASE /\ ChunkComplete /\ responseType \notin Creatable
           /\ ResetParser(Remaining > chunkLength)
           /\ LoopTest
           /\ UNCHANGED <<chunkLength, responseType, delivered>>
  <2>1. pc' \in {"parse", "shift"}
    BY <1>3 DEF LoopTest
  <2> QED
    BY <1>0, <1>3, <2>1, ResetParserIInv, (Remaining > chunkLength) \in BOOLEAN
    DEF EnvUnchanged
<1> QED
  BY <1>1, <1>2, <1>3 DEF MultiResponse

LEMMA RemoveBytesIInv ==
  ASSUME IInv, RemoveBytesFromReceiveBuffer
  PROVE  IInv'
<1> USE DEF IInv, TypeOK
<1>1. /\ receiveBuffer' \in Seq(Byte)
      /\ Len(receiveBuffer') = Remaining
      /\ Remaining \in 0..BufferSize
  BY BufferSizeAssumption, PartOfSeq, Len(receiveBuffer) <= Len(receiveBuffer)
  DEF RemoveBytesFromReceiveBuffer, Remaining
<1>2. TypeOK'
  BY <1>1, BufferSizeAssumption DEF RemoveBytesFromReceiveBuffer, EnvUnchanged
<1>3. Remaining' = Remaining
  BY <1>1 DEF RemoveBytesFromReceiveBuffer, Remaining
<1>4. Waiting'
  BY <1>3 DEF RemoveBytesFromReceiveBuffer, Waiting, Need
<1> QED
  BY <1>2, <1>4

LEMMA ResetIInv ==
  ASSUME IInv, Reset
  PROVE  IInv'
<1>1. resets' \in 0..MaxResets
  BY BoundsAssumption DEF IInv, TypeOK, Reset
<1> QED
  BY <1>1, ResetParserIInv, (Remaining > 0 \/ state # "Sync") \in BOOLEAN
  DEF Reset, IInv, TypeOK

LEMMA NextIInv == IInv /\ [Next]_vars => IInv'
<1> SUFFICES ASSUME IInv, [Next]_vars PROVE IInv'
  OBVIOUS
<1>1. CASE DataArrives
  BY <1>1, HandleDataReadyIInv DEF DataArrives
<1>2. CASE SyncState
  BY <1>2, SeekToByteIInv, SYNC \in Byte, "StartFlag" \in States \ {"Sync"}
  DEF SyncState, SYNC, Byte, States
<1>3. CASE StartFlagState
  BY <1>3, SeekToByteIInv, START_FLAG \in Byte, "LengthModeAndType" \in States \ {"Sync"}
  DEF StartFlagState, START_FLAG, Byte, States
<1>4. CASE LengthModeAndTypeState
  BY <1>4, LengthModeAndTypeIInv
<1>5. CASE SingleResponse
  BY <1>5, SingleResponseIInv
<1>6. CASE MultiResponse
  BY <1>6, MultiResponseIInv
<1>7. CASE RemoveBytesFromReceiveBuffer
  BY <1>7, RemoveBytesIInv
<1>8. CASE Reset
  BY <1>8, ResetIInv
<1>9. CASE UNCHANGED vars
  BY <1>9 DEF vars, ghostVars, parserVars, IInv, TypeOK, Waiting, Remaining, Need
<1> QED
  BY <1>1, <1>2, <1>3, <1>4, <1>5, <1>6, <1>7, <1>8, <1>9
  DEF Next, LidarThread, ParseStep

LEMMA AlwaysIInv == Spec => []IInv
BY InitIInv, NextIInv, PTL DEF Spec

(* The loop's index stays within the valid bytes and these within the buffer,  *)
(* for every stream, way of cutting it into reads, and reset between steps.    *)
THEOREM TypeCorrect == Spec => []TypeOK
<1>1. IInv => TypeOK
  BY DEF IInv
<1> QED
  BY <1>1, AlwaysIInv, PTL

(* No length a descriptor may announce wedges the parser behind a full buffer. *)
THEOREM NeverWedged == Spec => []NoWedge
<1>1. IInv => NoWedge
  <2> SUFFICES ASSUME IInv, pc = "idle", state # "Sync"
               PROVE  Len(receiveBuffer) < Need /\ Need <= BufferSize
    BY DEF NoWedge
  <2>1. Len(receiveBuffer) < Need
    BY DEF IInv, TypeOK, Waiting, Remaining
  <2>2. Need <= BufferSize
    BY BufferSizeAssumption, LengthLimitAssumption DEF IInv, TypeOK, Need, DescriptorSize
  <2> QED
    BY <2>1, <2>2
<1> QED
  BY <1>1, AlwaysIInv, PTL

(* Each step of a seek that stays in the loop consumes the byte it found.      *)
LEMMA SeekToByteVariant ==
  ASSUME TypeOK, NEW b, NEW next \in States, next # "SingleResponse",
         state # "SingleResponse", SeekToByte(b, next), pc' = "parse"
  PROVE  Variant' < Variant
<1>1. /\ bytesProcessed' \in (bytesProcessed + 1)..Len(receiveBuffer)
      /\ state' = next
      /\ receiveBuffer' = receiveBuffer
  BY DEF SeekToByte, Found
<1> QED
  BY <1>1 DEF TypeOK, Variant, Remaining

(* processReadBuffer ends: each iteration that stays in its loop lowers twice  *)
(* the unread bytes plus one in SingleResponse, but for empty multi chunks.    *)
THEOREM LoopApproachesEnd == Spec => LoopVariant
<1>1. IInv /\ [Next]_vars => [LoopStep => Variant' < Variant]_vars
  <2> SUFFICES ASSUME IInv, Next, LoopStep PROVE Variant' < Variant
    OBVIOUS
  <2> USE DEF IInv, LoopStep
  <2>0. TypeOK /\ TypeOK'
    BY NextIInv
  <2>1. ~DataArrives /\ ~RemoveBytesFromReceiveBuffer /\ ~Reset
    BY <2>0 DEF DataArrives, HandleDataReady, RemoveBytesFromReceiveBuffer, Reset, TypeOK
  <2>2. CASE SyncState
    BY <2>2, <2>0, SeekToByteVariant DEF SyncState, States
  <2>3. CASE StartFlagState
    BY <2>3, <2>0, SeekToByteVariant DEF StartFlagState, States
  <2>4. CASE LengthModeAndTypeState
    <3> DEFINE d == bytesProcessed
               mode == ResponseMode(receiveBuffer[d + 4])
    <3>1. ~AwaitBytes /\ LoopTest
      BY <2>4 DEF LengthModeAndTypeState, AwaitBytes
    <3>2. state = "LengthModeAndType"
      BY <2>4 DEF LengthModeAndTypeState
    <3>3. mode \notin {2, 3}
      <4>1. Remaining >= DescriptorSize
        BY <2>4, <3>1 DEF LengthModeAndTypeState
      <4>2. receiveBuffer[d + 4] \in Byte
        BY <2>0, <4>1 DEF TypeOK, Remaining, DescriptorSize
      <4> QED
        BY <4>2, ReservedModesUnreachable
    <3>4. mode \in {0, 1}
      <4>1. CASE mode \notin {0, 1}
        <5>1. ResetParser(Remaining > DescriptorSize)
          BY <2>4, <3>1, <3>3, <4>1 DEF LengthModeAndTypeState
        <5> QED
          BY <5>1, <3>1 DEF ResetParser, LoopTest
      <4> QED
        BY <4>1
    <3>5. bytesProcessed' = d + DescriptorSize /\ receiveBuffer' = receiveBuffer
      BY <2>4, <3>1, <3>4 DEF LengthModeAndTypeState
    <3> QED
      BY <2>0, <3>2, <3>5 DEF TypeOK, Variant, Remaining, DescriptorSize
  <2>5. CASE SingleResponse
    <3>1. /\ bytesProcessed' = bytesProcessed + chunkLength
          /\ receiveBuffer' = receiveBuffer
          /\ state = "SingleResponse" /\ state' = "Sync"
      BY <2>5 DEF SingleResponse, AwaitBytes
    <3> QED
      BY <2>0, <3>1, LengthLimitAssumption DEF TypeOK, Variant, Remaining
  <2>6. CASE MultiResponse
    <3>1. CASE ResetParser(Remaining > chunkLength) /\ LoopTest
      BY <3>1 DEF ResetParser, LoopTest
    <3>2. CASE ~(ResetParser(Remaining > chunkLength) /\ LoopTest)
      <4>1. /\ bytesProcessed' = bytesProcessed + chunkLength
            /\ receiveBuffer' = receiveBuffer
            /\ state = "MultiResponse" /\ state' = "MultiResponse"
        BY <2>6, <3>2 DEF MultiResponse, AwaitBytes
      <4> QED
        BY <2>0, <4>1, LengthLimitAssumption DEF TypeOK, Variant, Remaining
    <3> QED
      BY <3>1, <3>2
  <2> QED
    BY <2>1, <2>2, <2>3, <2>4, <2>5, <2>6 DEF Next, LidarThread, ParseStep
<1> QED
  BY <1>1, AlwaysIInv, PTL DEF LoopVariant, Spec

------------------------------------------------------------------------------
(* The bytes from the wire through the buffer to the parser's place.       *)
Start(s) == Len(s.bytes) - Len(wire) - Len(receiveBuffer)

Agrees(part, bytes, from) == \A i \in 1..Len(part) : part[i] = bytes[from + i]

Carried(s) == /\ Start(s) >= 0
              /\ Agrees(receiveBuffer, s.bytes, Start(s))
              /\ Agrees(wire, s.bytes, Len(s.bytes) - Len(wire))

(* x is where the parser is, and what has been handed on is what x counts. *)
HandedOn(s, x) ==
  IF s.noisy
  THEN \A i \in 1..Len(delivered) : \E j \in 1..Len(expected) : delivered[i] = expected[j]
  ELSE /\ x.count = Len(delivered) /\ Len(delivered) <= Len(expected)
       /\ \A i \in 1..Len(delivered) : delivered[i] = expected[i]

InChunk == {"SingleResponse", "MultiResponse"}

Stands(s, x) ==
  /\ x.at = Start(s) + bytesProcessed /\ x.state = state
  /\ state \in InChunk => x.length = chunkLength /\ x.type = responseType
  /\ HandedOn(s, x)

Unread == pc = "parse" => Remaining > 0 \/ (state = "Sync" /\ bytesProcessed = 0)

FramedAs(s) ==
  /\ expected = s.frames /\ noisy = s.noisy
  /\ Carried(s) /\ Unread
  /\ \E y \in Places(s) : y.at = Start(s)
  /\ \E x \in Places(s) : Stands(s, x)

InFrames == ~disturbed => \E s \in Streams : FramedAs(s)

(* Reading and removing move the boundaries, not the bytes.                *)
LEMMA MovedAgree ==
  ASSUME NEW t \in Seq(Byte), NEW b \in Seq(Byte), NEW w \in Seq(Byte), NEW n \in 1..Len(w),
         Len(t) - Len(w) - Len(b) >= 0,
         Agrees(b, t, Len(t) - Len(w) - Len(b)), Agrees(w, t, Len(t) - Len(w))
  PROVE  /\ Len(b \o SubSeq(w, 1, n)) = Len(b) + n
         /\ Len(SubSeq(w, n + 1, Len(w))) = Len(w) - n
         /\ Agrees(b \o SubSeq(w, 1, n), t, Len(t) - Len(w) - Len(b))
         /\ Agrees(SubSeq(w, n + 1, Len(w)), t, Len(t) - (Len(w) - n))
<1> DEFINE m == SubSeq(w, 1, n)
           r == SubSeq(w, n + 1, Len(w))
<1>1. Len(t) \in Nat /\ Len(b) \in Nat /\ Len(w) \in Nat /\ n \in Nat /\ n <= Len(w)
  OBVIOUS
<1>2. m \in Seq(Byte) /\ Len(m) = n /\ \A i \in 1..n : m[i] = w[i]
  OBVIOUS
<1>3. Len(r) = Len(w) - n /\ \A i \in 1..(Len(w) - n) : r[i] = w[n + i]
  OBVIOUS
<1> HIDE DEF m, r
<1>4. /\ Len(b \o m) = Len(b) + n
      /\ \A i \in 1..(Len(b) + n) : (b \o m)[i] = IF i <= Len(b) THEN b[i] ELSE m[i - Len(b)]
  BY <1>2, ConcatProperties
<1>5. ASSUME NEW i \in 1..Len(b \o m)
      PROVE  (b \o m)[i] = t[Len(t) - Len(w) - Len(b) + i]
  <2>1. CASE i <= Len(b)
    BY <1>1, <1>4, <1>5, <2>1 DEF Agrees
  <2>2. CASE i > Len(b)
    <3>1. /\ (b \o m)[i] = m[i - Len(b)] /\ i - Len(b) \in 1..n /\ i - Len(b) \in 1..Len(w)
          /\ Len(t) - Len(w) + (i - Len(b)) = Len(t) - Len(w) - Len(b) + i
      BY <1>1, <1>4, <1>5, <2>2
    <3> QED
      BY <1>2, <3>1 DEF Agrees
  <2> QED
    BY <1>1, <1>4, <2>1, <2>2
<1>6. ASSUME NEW i \in 1..Len(r)
      PROVE  r[i] = t[Len(t) - (Len(w) - n) + i]
  <2>1. /\ r[i] = w[n + i] /\ n + i \in 1..Len(w)
        /\ Len(t) - Len(w) + (n + i) = Len(t) - (Len(w) - n) + i
    BY <1>1, <1>3
  <2> QED
    BY <2>1 DEF Agrees
<1> QED
  BY <1>3, <1>4, <1>5, <1>6 DEF Agrees, m, r

LEMMA TailAgrees ==
  ASSUME NEW t \in Seq(Byte), NEW b \in Seq(Byte), NEW from \in Nat, NEW p \in 0..Len(b),
         Agrees(b, t, from)
  PROVE  /\ Len(SubSeq(b, p + 1, Len(b))) = Len(b) - p
         /\ Agrees(SubSeq(b, p + 1, Len(b)), t, from + p)
<1> DEFINE r == SubSeq(b, p + 1, Len(b))
<1>1. Len(b) \in Nat /\ p \in Nat /\ p <= Len(b)
  OBVIOUS
<1>2. Len(r) = Len(b) - p /\ \A i \in 1..(Len(b) - p) : r[i] = b[p + i]
  OBVIOUS
<1> HIDE DEF r
<1>3. ASSUME NEW i \in 1..Len(r)
      PROVE  r[i] = t[from + p + i]
  <2>1. r[i] = b[p + i] /\ p + i \in 1..Len(b) /\ from + (p + i) = from + p + i
    BY <1>1, <1>2
  <2> QED
    BY <2>1 DEF Agrees
<1> QED
  BY <1>2, <1>3 DEF Agrees, r

(* Equal bytes make equal chunks.                                          *)
LEMMA EqualParts ==
  ASSUME NEW t \in Seq(Byte), NEW b \in Seq(Byte), NEW from \in Nat, NEW p \in Nat,
         NEW k \in Nat, p + k <= Len(b), from + Len(b) <= Len(t), Agrees(b, t, from),
         NEW q, q = from + p
  PROVE  SubSeq(b, p + 1, p + k) = SubSeq(t, q + 1, q + k)
<1>1. Len(t) \in Nat /\ Len(b) \in Nat /\ q \in Nat /\ q + k <= Len(t)
  OBVIOUS
<1>2. SubSeq(b, p + 1, p + k) = [i \in 1..k |-> b[p + i]]
  BY <1>1
<1>3. SubSeq(t, q + 1, q + k) = [i \in 1..k |-> t[q + i]]
  BY <1>1
<1>4. \A i \in 1..k : b[p + i] = t[q + i]
  <2> TAKE i \in 1..k
  <2>1. p + i \in 1..Len(b) /\ from + (p + i) = q + i
    BY <1>1
  <2> QED
    BY <2>1 DEF Agrees
<1> QED
  BY <1>2, <1>3, <1>4, Zenon

(* What the buffer holds at the parser's place is what the stream has.     *)
LEMMA StreamTypes ==
  ASSUME NEW s \in Streams
  PROVE  /\ s.bytes \in Seq(Byte) /\ s.frames \in Seq(Response) /\ s.noisy \in BOOLEAN
         /\ Encoded(s)
BY StreamsAssumption, EncodingAssumption

LEMMA PlaceTypes ==
  ASSUME NEW s \in Streams, NEW x \in Places(s)
  PROVE  /\ x.at \in Nat /\ x.state \in States /\ x.length \in Nat /\ x.type \in Byte
         /\ x.count \in Nat
         /\ x = [at |-> x.at, state |-> x.state, length |-> x.length, type |-> x.type,
                 count |-> x.count]
<1>1. x \in Place
  BY StreamTypes DEF Encoded
<1> QED
  BY <1>1 DEF Place

LEMMA Window ==
  ASSUME TypeOK, NEW s \in Streams, Carried(s)
  PROVE  /\ Start(s) \in Nat /\ Len(s.bytes) \in Nat /\ Len(receiveBuffer) \in Nat
         /\ Len(wire) \in Nat /\ bytesProcessed \in Nat /\ bytesProcessed <= Len(receiveBuffer)
         /\ Start(s) + Len(receiveBuffer) <= Len(s.bytes)
         /\ \A i \in 1..Len(receiveBuffer) : receiveBuffer[i] = s.bytes[Start(s) + i]
<1>1. /\ Len(s.bytes) \in Nat /\ Len(receiveBuffer) \in Nat /\ Len(wire) \in Nat
      /\ bytesProcessed \in Nat /\ bytesProcessed <= Len(receiveBuffer)
  BY StreamTypes DEF TypeOK
<1> QED
  BY <1>1 DEF Carried, Start, Agrees

(* A step that leaves the bytes where they are.                            *)
LEMMA BytesKept ==
  ASSUME NEW s \in Streams, Carried(s), UNCHANGED <<wire, receiveBuffer>>
  PROVE  Carried(s)' /\ Start(s)' = Start(s)
BY DEF Carried, Agrees, Start

LEMMA HandleDataReadyFramed ==
  ASSUME IInv, NEW s \in Streams, FramedAs(s), NEW n \in 1..MaxRead, HandleDataReady(n),
         ~disturbed'
  PROVE  FramedAs(s)'
<1>1. /\ n \in Nat /\ n > 0 /\ n <= Len(wire) /\ Len(wire) \in Nat /\ n <= Room
      /\ receiveBuffer' = receiveBuffer \o SubSeq(wire, 1, n)
      /\ wire' = SubSeq(wire, n + 1, Len(wire))
  <2>1. n \in Nat /\ n > 0 /\ Len(wire) \in Nat /\ n <= Len(wire)
    BY BoundsAssumption DEF HandleDataReady, IInv, TypeOK
  <2>2. Room \in Int
    BY BufferSizeAssumption DEF Room, IInv, TypeOK
  <2>3. n <= Room
    <3> DEFINE k == IF n <= Room THEN n ELSE Room
    <3>1. disturbed' = (disturbed \/ k < n)
      BY DEF HandleDataReady
    <3>2. ~(k < n)
      BY <3>1
    <3> QED
      BY <2>1, <2>2, <3>2
  <2>4. wire' = SubSeq(wire, n + 1, Len(wire))
    BY DEF HandleDataReady
  <2>5. receiveBuffer' = receiveBuffer \o SubSeq(wire, 1, n)
    BY <2>3 DEF HandleDataReady
  <2> QED
    BY <2>1, <2>3, <2>4, <2>5
<1>2. /\ pc = "idle" /\ pc' = "parse"
      /\ UNCHANGED <<bytesProcessed, state, chunkLength, responseType, delivered,
                     expected, noisy>>
  BY DEF HandleDataReady
<1>3. /\ Len(receiveBuffer') = Len(receiveBuffer) + n /\ Len(wire') = Len(wire) - n
      /\ Agrees(receiveBuffer', s.bytes, Start(s))
      /\ Agrees(wire', s.bytes, Len(s.bytes) - (Len(wire) - n))
  <2>1. s.bytes \in Seq(Byte) /\ receiveBuffer \in Seq(Byte) /\ wire \in Seq(Byte)
    BY StreamTypes DEF IInv, TypeOK
  <2>2. n \in 1..Len(wire)
    BY <1>1
  <2>3. /\ Len(s.bytes) - Len(wire) - Len(receiveBuffer) >= 0
        /\ Agrees(receiveBuffer, s.bytes, Len(s.bytes) - Len(wire) - Len(receiveBuffer))
        /\ Agrees(wire, s.bytes, Len(s.bytes) - Len(wire))
    BY DEF FramedAs, Carried, Start
  <2>4. /\ Len(receiveBuffer \o SubSeq(wire, 1, n)) = Len(receiveBuffer) + n
        /\ Len(SubSeq(wire, n + 1, Len(wire))) = Len(wire) - n
        /\ Agrees(receiveBuffer \o SubSeq(wire, 1, n), s.bytes,
                  Len(s.bytes) - Len(wire) - Len(receiveBuffer))
        /\ Agrees(SubSeq(wire, n + 1, Len(wire)), s.bytes, Len(s.bytes) - (Len(wire) - n))
    BY <2>1, <2>2, <2>3, MovedAgree
  <2> QED
    BY <1>1, <2>4, Zenon DEF Start
<1>4. Start(s) \in Nat /\ Len(s.bytes) \in Nat /\ Len(receiveBuffer) \in Nat
      /\ bytesProcessed = 0
  BY <1>2, Window DEF IInv, Waiting, FramedAs
<1>5. Start(s)' = Start(s)
  <2>1. Start(s)' = Len(s.bytes) - (Len(wire) - n) - (Len(receiveBuffer) + n)
    BY <1>3, Zenon DEF Start
  <2>2. n \in Nat /\ Len(wire) \in Nat
    BY <1>1
  <2> QED
    BY <1>4, <2>1, <2>2 DEF Start
<1>6. Carried(s)'
  <2>1. Agrees(receiveBuffer', s.bytes, Start(s)')
    BY <1>3, <1>5
  <2>2. Agrees(wire', s.bytes, Len(s.bytes) - Len(wire'))
    BY <1>3
  <2>3. Start(s)' >= 0
    BY <1>4, <1>5
  <2> QED
    BY <2>1, <2>2, <2>3 DEF Carried, Agrees
<1>7. Unread'
  BY <1>1, <1>2, <1>3, <1>4 DEF Unread, Remaining
<1> QED
  BY <1>2, <1>5, <1>6, <1>7 DEF FramedAs, Stands, HandedOn

(* A seek that finds its byte, and one that does not.                      *)
LEMMA BehindIs ==
  ASSUME NEW x \in Place, x.state \in Seeking, NEW q
  PROVE  /\ Behind(x, q).at = q /\ Behind(x, q).count = x.count
         /\ Behind(x, q).state = IF x.state = "Sync" THEN "StartFlag"
                                                     ELSE "LengthModeAndType"
BY DEF Behind, Place

LEMMA SeekFramed ==
  ASSUME IInv, NEW s \in Streams, FramedAs(s), NEW b, NEW to,
         \/ state = "Sync" /\ b = SYNC /\ to = "StartFlag"
         \/ state = "StartFlag" /\ b = START_FLAG /\ to = "LengthModeAndType",
         pc = "parse", SeekToByte(b, to), EnvUnchanged
  PROVE  FramedAs(s)'
<1>1. PICK x \in Places(s) : Stands(s, x)
  BY DEF FramedAs
<1>2. Carried(s)' /\ Start(s)' = Start(s)
  BY BytesKept DEF FramedAs, SeekToByte, EnvUnchanged
<1>3. /\ UNCHANGED <<receiveBuffer, chunkLength, responseType, delivered, expected, noisy>>
      /\ \/ bytesProcessed' \in Found(b) /\ state' = to /\ LoopTest
         \/ Found(b) = {} /\ bytesProcessed' = 0 /\ state' = "Sync" /\ pc' = "shift"
  BY DEF SeekToByte, EnvUnchanged
<1>4. /\ Wanted(x) = b /\ x.state \in Seeking /\ x.at = Start(s) + bytesProcessed
      /\ SoughtAt(s, x) /\ HandedOn(s, x)
      /\ \A q : /\ Behind(x, q).at = q /\ Behind(x, q).state = to
                /\ Behind(x, q).count = x.count
  <2>1. x.state = state /\ x.at = Start(s) + bytesProcessed /\ HandedOn(s, x)
    BY <1>1 DEF Stands
  <2>2. x.state \in Seeking /\ Wanted(x) = b
    BY <2>1 DEF Seeking, Wanted
  <2>3. SoughtAt(s, x)
    BY <2>2, StreamTypes DEF Encoded
  <2>4. \A q : /\ Behind(x, q).at = q /\ Behind(x, q).state = to
               /\ Behind(x, q).count = x.count
    <3>1. x \in Place
      BY StreamTypes DEF Encoded
    <3>2. to = IF x.state = "Sync" THEN "StartFlag" ELSE "LengthModeAndType"
      BY <2>1
    <3> QED
      BY <2>2, <3>1, <3>2, BehindIs
  <2> QED
    BY <2>1, <2>2, <2>3, <2>4
<1>5. /\ Start(s) \in Nat /\ Len(s.bytes) \in Nat /\ Len(receiveBuffer) \in Nat
      /\ bytesProcessed \in Nat /\ bytesProcessed <= Len(receiveBuffer)
      /\ Start(s) + Len(receiveBuffer) <= Len(s.bytes)
      /\ \A i \in 1..Len(receiveBuffer) : receiveBuffer[i] = s.bytes[Start(s) + i]
  BY Window DEF IInv, FramedAs
<1>7. CASE bytesProcessed' \in Found(b) /\ state' = to /\ LoopTest
  <2> DEFINE q == Start(s) + bytesProcessed'
  <2>1. /\ bytesProcessed' \in (bytesProcessed + 1)..Len(receiveBuffer)
        /\ receiveBuffer[bytesProcessed'] = b
        /\ \A y \in (bytesProcessed + 1)..(bytesProcessed' - 1) : receiveBuffer[y] # b
    BY <1>7 DEF Found
  <2>2. q \in (x.at + 1)..Len(s.bytes) /\ s.bytes[q] = b
    BY <1>4, <1>5, <2>1
  <2>3. ASSUME NEW r \in (x.at + 1)..(q - 1)
        PROVE  s.bytes[r] # b
    <3>1. /\ r - Start(s) \in (bytesProcessed + 1)..(bytesProcessed' - 1)
          /\ r - Start(s) \in 1..Len(receiveBuffer) /\ Start(s) + (r - Start(s)) = r
      BY <1>4, <1>5, <2>1
    <3> QED
      BY <1>5, <2>1, <3>1
  <2>4. PICK z \in Places(s) : z = Behind(x, q)
    BY <1>4, <2>2, <2>3 DEF SoughtAt
  <2>5. Stands(s, z)'
    <3>1. z.at = q /\ z.state = to /\ z.count = x.count
      BY <1>4, <2>4
    <3>2. HandedOn(s, z)'
      BY <1>3, <1>4, <3>1 DEF HandedOn
    <3>3. to \notin InChunk
      BY DEF InChunk
    <3> QED
      BY <1>2, <1>7, <3>1, <3>2, <3>3 DEF Stands
  <2>6. Unread'
    BY <1>3, <1>5, <1>7, <2>1 DEF LoopTest, Unread, Remaining
  <2> HIDE DEF q
  <2> QED
    BY <1>2, <1>3, <2>5, <2>6 DEF FramedAs
<1>8. CASE Found(b) = {} /\ bytesProcessed' = 0 /\ state' = "Sync" /\ pc' = "shift"
  <2>1. Unread'
    BY <1>8 DEF Unread
  <2>2. CASE Remaining > 0
    <3>1. bytesProcessed + 1 \in 1..Len(receiveBuffer)
      BY <1>5, <2>2 DEF Remaining
    <3>2. receiveBuffer[bytesProcessed + 1] # b
      <4>1. bytesProcessed + 1 \in (bytesProcessed + 1)..Len(receiveBuffer)
            /\ (bytesProcessed + 1)..(bytesProcessed + 1 - 1) = {}
        BY <1>5, <3>1
      <4> QED
        BY <1>8, <4>1 DEF Found
    <3>3. x.at < Len(s.bytes) /\ s.bytes[x.at + 1] # b
      BY <1>4, <1>5, <3>1, <3>2
    <3>4. PICK y \in Places(s) : y.at = Start(s)
      BY DEF FramedAs
    <3>5. PICK z \in Places(s) : z = Between(y.at, x.count)
      <4>1. y.at <= x.at
        BY <1>4, <1>5, <3>4
      <4> QED
        BY <1>4, <3>3, <4>1 DEF SoughtAt
    <3>6. Stands(s, z)'
      <4>1. z.at = Start(s) /\ z.state = "Sync" /\ z.count = x.count
        BY <3>4, <3>5 DEF Between
      <4>2. HandedOn(s, z)'
        BY <1>3, <1>4, <4>1 DEF HandedOn
      <4> QED
        BY <1>2, <1>5, <1>8, <4>1, <4>2 DEF Stands, InChunk
    <3> QED
      BY <1>2, <1>3, <2>1, <3>6 DEF FramedAs
  <2>3. CASE ~(Remaining > 0)
    <3>1. state = "Sync" /\ bytesProcessed = 0
      BY <2>3 DEF FramedAs, Unread
    <3>2. Stands(s, x)'
      BY <1>1, <1>2, <1>3, <1>8, <3>1 DEF Stands, HandedOn, InChunk
    <3> QED
      BY <1>2, <1>3, <2>1, <3>2 DEF FramedAs
  <2> QED
    BY <2>2, <2>3
<1> QED
  BY <1>3, <1>7, <1>8

LEMMA AwaitFramed ==
  ASSUME NEW s \in Streams, FramedAs(s), AwaitBytes, EnvUnchanged
  PROVE  FramedAs(s)'
<1>1. UNCHANGED <<wire, receiveBuffer, bytesProcessed, state, chunkLength, responseType,
                  delivered, expected, noisy>> /\ pc' = "shift"
  BY DEF AwaitBytes, EnvUnchanged, parserVars
<1>2. Carried(s)' /\ Start(s)' = Start(s)
  BY <1>1, BytesKept DEF FramedAs
<1> QED
  BY <1>1, <1>2 DEF FramedAs, Stands, HandedOn, Unread

(* After a reset that throws nothing away the parser is between frames.    *)
LEMMA EmptiedFramed ==
  ASSUME IInv, NEW s \in Streams, FramedAs(s), NEW z \in Places(s),
         z.state = "Sync", z.at = Start(s) + Len(receiveBuffer), HandedOn(s, z)',
         receiveBuffer' = <<>>, bytesProcessed' = 0, state' = "Sync",
         UNCHANGED <<wire, expected, noisy>>
  PROVE  FramedAs(s)'
<1>1. /\ Start(s) \in Nat /\ Len(s.bytes) \in Nat /\ Len(receiveBuffer) \in Nat
      /\ Len(wire) \in Nat
  BY Window DEF IInv, FramedAs
<1>2. Len(receiveBuffer') = 0
  OBVIOUS
<1>3. Start(s)' = Start(s) + Len(receiveBuffer)
  BY <1>1, <1>2 DEF Start
<1>4. Carried(s)'
  <2>1. Start(s)' >= 0
    BY <1>1, <1>3
  <2>2. Agrees(receiveBuffer', s.bytes, Start(s)')
    BY <1>2 DEF Agrees
  <2>3. Agrees(wire', s.bytes, Len(s.bytes) - Len(wire'))
    BY DEF FramedAs, Carried
  <2> QED
    BY <2>1, <2>2, <2>3 DEF Carried, Agrees
<1>5. Stands(s, z)'
  BY <1>1, <1>3 DEF Stands, InChunk
<1> QED
  BY <1>3, <1>4, <1>5 DEF FramedAs, Unread

LEMMA LengthModeAndTypeFramed ==
  ASSUME IInv, NEW s \in Streams, FramedAs(s), LengthModeAndTypeState, ~disturbed'
  PROVE  FramedAs(s)'
<1>0. state = "LengthModeAndType" /\ EnvUnchanged
  BY DEF LengthModeAndTypeState
<1>1. CASE Remaining < DescriptorSize /\ AwaitBytes
  BY <1>0, <1>1, AwaitFramed
<1>2. CASE ~(Remaining < DescriptorSize /\ AwaitBytes)
  <2> DEFINE d == bytesProcessed
             mode == ResponseMode(receiveBuffer[d + 4])
  <2>1. PICK x \in Places(s) : Stands(s, x)
    BY DEF FramedAs
  <2>2. /\ Start(s) \in Nat /\ Len(s.bytes) \in Nat /\ Len(receiveBuffer) \in Nat
        /\ d \in Nat /\ d <= Len(receiveBuffer)
        /\ Start(s) + Len(receiveBuffer) <= Len(s.bytes)
        /\ \A i \in 1..Len(receiveBuffer) : receiveBuffer[i] = s.bytes[Start(s) + i]
    BY Window DEF IInv, FramedAs
  <2>3. Remaining >= DescriptorSize /\ d + 5 <= Len(receiveBuffer)
    <3>1. Remaining >= DescriptorSize
      BY <1>2 DEF LengthModeAndTypeState
    <3> QED
      BY <2>2, <3>1 DEF Remaining, DescriptorSize
  <2>4. x.at = Start(s) + d /\ x.state = "LengthModeAndType" /\ HandedOn(s, x)
    BY <1>0, <2>1 DEF Stands
  <2>5. AfterDescriptor(s, x) \in Places(s)
    BY <2>2, <2>3, <2>4, StreamTypes DEF Encoded, DescriptorSize
  <2>6. /\ receiveBuffer[d + 1] = s.bytes[x.at + 1] /\ receiveBuffer[d + 2] = s.bytes[x.at + 2]
        /\ receiveBuffer[d + 4] = s.bytes[x.at + 4] /\ receiveBuffer[d + 5] = s.bytes[x.at + 5]
        /\ receiveBuffer[d + 4] \in Byte
    <3>1. ASSUME NEW j \in 1..5
          PROVE  /\ d + j \in 1..Len(receiveBuffer)
                 /\ receiveBuffer[d + j] = s.bytes[x.at + j]
      <4>1. d + j \in 1..Len(receiveBuffer)
        BY <2>2, <2>3
      <4>2. Start(s) + (d + j) = x.at + j
        BY <2>2, <2>4
      <4> QED
        BY <2>2, <4>1, <4>2
    <3>2. \A j \in 1..5 : receiveBuffer[d + j] = s.bytes[x.at + j]
      BY <3>1
    <3>3. receiveBuffer[d + 4] \in Byte
      BY <3>1 DEF IInv, TypeOK
    <3> QED
      BY <3>2, <3>3
  <2>7. /\ chunkLength' = ChunkLength(receiveBuffer[d + 1], receiveBuffer[d + 2])
        /\ responseType' = receiveBuffer[d + 5] /\ delivered' = delivered
        /\ LoopTest
    BY <1>2 DEF LengthModeAndTypeState
  <2>8. UNCHANGED <<wire, expected, noisy>>
    BY <1>0 DEF EnvUnchanged
  <2>9. CASE s.bytes[x.at + 4] < 128
    <3>1. mode \in {0, 1} /\ (mode = 0 <=> s.bytes[x.at + 4] < 64)
      BY <2>6, <2>9 DEF ResponseMode, Byte
    <3>2. /\ bytesProcessed' = d + DescriptorSize
          /\ state' = IF mode = 0 THEN "SingleResponse" ELSE "MultiResponse"
          /\ receiveBuffer' = receiveBuffer
      BY <1>2, <3>1 DEF LengthModeAndTypeState
    <3>3. PICK z \in Places(s) :
            z = [at |-> x.at + DescriptorSize,
                 state |-> IF s.bytes[x.at + 4] >= 64 THEN "MultiResponse"
                                                      ELSE "SingleResponse",
                 length |-> (s.bytes[x.at + 1] + 256 * s.bytes[x.at + 2]) % LengthLimit,
                 type |-> s.bytes[x.at + 5], count |-> x.count]
      BY <2>5, <2>9 DEF AfterDescriptor
    <3>4. state' = IF s.bytes[x.at + 4] >= 64 THEN "MultiResponse" ELSE "SingleResponse"
      BY <2>6, <3>1, <3>2 DEF Byte
    <3>5. Carried(s)' /\ Start(s)' = Start(s)
      BY <2>8, <3>2, BytesKept DEF FramedAs
    <3>6. Stands(s, z)'
      <4>1. z.at = Start(s)' + bytesProcessed'
        BY <2>2, <2>4, <3>2, <3>3, <3>5 DEF DescriptorSize
      <4>2. z.state = state' /\ z.length = chunkLength' /\ z.type = responseType'
        BY <2>6, <2>7, <3>3, <3>4 DEF ChunkLength
      <4>3. HandedOn(s, z)'
        BY <2>4, <2>7, <2>8, <3>3 DEF HandedOn
      <4> QED
        BY <4>1, <4>2, <4>3 DEF Stands
    <3>7. Unread'
      BY <2>2, <2>3, <2>7, <3>2 DEF LoopTest, Unread, Remaining, DescriptorSize
    <3> QED
      BY <2>8, <3>5, <3>6, <3>7 DEF FramedAs
  <2>10. CASE ~(s.bytes[x.at + 4] < 128)
    <3>1. mode \notin {0, 1} /\ mode \notin {2, 3}
      BY <2>6, <2>10 DEF ResponseMode, Byte
    <3>2. ResetParser(Remaining > DescriptorSize)
      BY <1>2, <3>1 DEF LengthModeAndTypeState
    <3>3. Remaining = DescriptorSize
      <4>1. ~(Remaining > DescriptorSize)
        BY <3>2 DEF ResetParser
      <4> QED
        BY <2>2, <2>3, <4>1 DEF Remaining, DescriptorSize
    <3>4. PICK z \in Places(s) : z = Between(x.at + DescriptorSize, x.count)
      BY <2>5, <2>10 DEF AfterDescriptor
    <3>5. z.state = "Sync" /\ z.at = Start(s) + Len(receiveBuffer) /\ z.count = x.count
      BY <2>2, <2>4, <3>3, <3>4 DEF Between, Remaining, DescriptorSize
    <3>6. HandedOn(s, z)'
      BY <2>4, <2>7, <2>8, <3>5 DEF HandedOn
    <3> QED
      BY <2>8, <3>2, <3>5, <3>6, EmptiedFramed DEF ResetParser
  <2> QED
    BY <2>9, <2>10
<1> QED
  BY <1>1, <1>2

(* A chunk that is complete is the stream's, and the next of its frames.   *)
LEMMA ChunkFramed ==
  ASSUME IInv, NEW s \in Streams, FramedAs(s), state \in InChunk, ChunkComplete
  PROVE  \E x \in Places(s) :
           /\ x.at = Start(s) + bytesProcessed /\ x.state = state
           /\ x.length = chunkLength /\ x.type = responseType
           /\ HandedOn(s, x) /\ ChunkAt(s, x) /\ ChunkOf(s, x) = Chunk
<1>1. PICK x \in Places(s) : Stands(s, x)
  BY DEF FramedAs
<1>2. /\ Start(s) \in Nat /\ Len(s.bytes) \in Nat /\ Len(receiveBuffer) \in Nat
      /\ bytesProcessed \in Nat /\ chunkLength \in Nat
      /\ Start(s) + Len(receiveBuffer) <= Len(s.bytes)
      /\ Agrees(receiveBuffer, s.bytes, Start(s))
      /\ receiveBuffer \in Seq(Byte) /\ s.bytes \in Seq(Byte)
  BY Window, StreamTypes, LengthLimitAssumption DEF IInv, TypeOK, FramedAs, Carried
<1>3. bytesProcessed + chunkLength <= Len(receiveBuffer)
  BY <1>2 DEF ChunkComplete, Remaining
<1>4. /\ x.at = Start(s) + bytesProcessed /\ x.state = state
      /\ x.length = chunkLength /\ x.type = responseType /\ HandedOn(s, x)
  BY <1>1 DEF Stands
<1>5. x.at + x.length <= Len(s.bytes)
  BY <1>2, <1>3, <1>4
<1>6. ChunkAt(s, x)
  BY <1>4, <1>5, StreamTypes DEF Encoded, InChunk
<1>7. ChunkOf(s, x) = Chunk
  <2>1. SubSeq(receiveBuffer, bytesProcessed + 1, bytesProcessed + chunkLength)
          = SubSeq(s.bytes, x.at + 1, x.at + chunkLength)
    <3>1. x.at = Start(s) + bytesProcessed
      BY <1>4
    <3> QED
      BY <1>2, <1>3, <3>1, EqualParts, SMTT(60)
  <2> QED
    BY <1>4, <2>1 DEF ChunkOf, Chunk
<1> QED
  BY <1>4, <1>6, <1>7

(* What has been handed on, one response later.                            *)
LEMMA OneMore ==
  ASSUME NEW S, NEW e \in Seq(S), NEW f \in Seq(S), NEW c \in S
  PROVE  /\ Append(e, c) \in Seq(S) /\ Len(Append(e, c)) = Len(e) + 1
         /\ \A i \in 1..Len(e) : Append(e, c)[i] = e[i]
         /\ Append(e, c)[Len(e) + 1] = c
OBVIOUS

LEMMA CountFramed ==
  ASSUME IInv, NEW s \in Streams, FramedAs(s), ChunkComplete, NEW x \in Places(s),
         HandedOn(s, x), ChunkAt(s, x), ChunkOf(s, x) = Chunk, expected' = expected,
         delivered' = IF Counted(x) THEN Append(delivered, Chunk) ELSE delivered,
         NEW z, z.count = CountAfter(s, x)
  PROVE  /\ HandedOn(s, z)'
         /\ ~s.noisy /\ delivered' # delivered =>
              /\ Len(delivered) < Len(expected)
              /\ delivered' = Append(delivered, expected[Len(delivered) + 1])
<1>1. /\ delivered \in Seq(Response) /\ expected \in Seq(Response) /\ expected = s.frames
      /\ Chunk \in Response /\ Len(delivered) \in Nat /\ Len(expected) \in Nat
      /\ x.count \in Nat
  <2>1. delivered \in Seq(Response) /\ expected \in Seq(Response) /\ expected = s.frames
    BY DEF IInv, TypeOK, FramedAs
  <2>2. Chunk \in Response
    BY ChunkIsResponse DEF IInv
  <2>3. x.count \in Nat
    BY PlaceTypes
  <2>4. Len(delivered) \in Nat /\ Len(expected) \in Nat
    BY <2>1
  <2> QED
    BY <2>1, <2>2, <2>3, <2>4
<1>2. CASE ~Counted(x)
  BY <1>2 DEF HandedOn, CountAfter
<1>3. CASE Counted(x)
  <2>1. /\ delivered' = Append(delivered, Chunk)
        /\ Len(delivered') = Len(delivered) + 1
        /\ \A i \in 1..Len(delivered) : delivered'[i] = delivered[i]
        /\ delivered'[Len(delivered) + 1] = Chunk
    BY <1>1, <1>3, OneMore
  <2>2. 1..Len(delivered') = (1..Len(delivered)) \cup {Len(delivered) + 1}
    BY <1>1, <2>1
  <2>3. CASE s.noisy
    <3>1. \A i \in 1..Len(delivered) : \E j \in 1..Len(expected) : delivered[i] = expected[j]
      BY <2>3 DEF HandedOn
    <3>2. \E j \in 1..Len(expected) : Chunk = expected[j]
      BY <1>1, <1>3, <2>3 DEF ChunkAt
    <3>3. \A i \in 1..Len(delivered') : \E j \in 1..Len(expected) : delivered'[i] = expected[j]
      BY <2>1, <2>2, <3>1, <3>2
    <3> QED
      BY <2>3, <3>3 DEF HandedOn
  <2>4. CASE ~s.noisy
    <3>1. /\ x.count = Len(delivered)
          /\ \A i \in 1..Len(delivered) : delivered[i] = expected[i]
      BY <2>4 DEF HandedOn
    <3>2. Len(delivered) < Len(expected) /\ Chunk = expected[Len(delivered) + 1]
      BY <1>1, <1>3, <2>4, <3>1 DEF ChunkAt
    <3>3. z.count = Len(delivered')
      BY <1>3, <2>1, <2>4, <3>1 DEF CountAfter
    <3>4. Len(delivered') <= Len(expected)
      BY <1>1, <2>1, <3>2
    <3>5. \A i \in 1..Len(delivered') : delivered'[i] = expected[i]
      BY <2>1, <2>2, <3>1, <3>2
    <3>6. HandedOn(s, z)'
      BY <2>4, <3>3, <3>4, <3>5 DEF HandedOn
    <3> QED
      BY <2>1, <3>2, <3>6
  <2> QED
    BY <2>3, <2>4
<1> QED
  BY <1>2, <1>3

(* What hands a response on hands on the next.                             *)
NextHandedOn(s) ==
  ~s.noisy /\ delivered' # delivered =>
    /\ Len(delivered) < Len(expected)
    /\ delivered' = Append(delivered, expected[Len(delivered) + 1])

LEMMA SingleResponseFramed ==
  ASSUME IInv, NEW s \in Streams, FramedAs(s), SingleResponse, ~disturbed'
  PROVE  FramedAs(s)' /\ NextHandedOn(s)
<1>0. state = "SingleResponse" /\ EnvUnchanged
  BY DEF SingleResponse
<1>1. CASE ~ChunkComplete /\ AwaitBytes
  BY <1>0, <1>1, AwaitFramed DEF AwaitBytes, NextHandedOn
<1>2. CASE ChunkComplete
  <2>1. /\ bytesProcessed' = bytesProcessed + chunkLength /\ state' = "Sync"
        /\ delivered' = IF responseType \in Creatable THEN Append(delivered, Chunk)
                        ELSE delivered
        /\ receiveBuffer' = receiveBuffer /\ LoopTest
        /\ UNCHANGED <<wire, expected, noisy>>
    BY <1>0, <1>2 DEF SingleResponse, EnvUnchanged
  <2>2. PICK x \in Places(s) :
          /\ x.at = Start(s) + bytesProcessed /\ x.state = state
          /\ x.length = chunkLength /\ x.type = responseType
          /\ HandedOn(s, x) /\ ChunkAt(s, x) /\ ChunkOf(s, x) = Chunk
    BY <1>0, <1>2, ChunkFramed DEF InChunk
  <2>3. Counted(x) <=> responseType \in Creatable
    BY <1>0, <2>2 DEF Counted
  <2>4. PICK z \in Places(s) : z = Between(x.at + x.length, CountAfter(s, x))
    BY <1>0, <2>2 DEF ChunkAt, AfterChunk
  <2>5. z.at = x.at + x.length /\ z.state = "Sync" /\ z.count = CountAfter(s, x)
    BY <2>4 DEF Between
  <2>6. HandedOn(s, z)' /\ NextHandedOn(s)
    BY <1>2, <2>1, <2>2, <2>3, <2>5, CountFramed DEF NextHandedOn
  <2>7. Carried(s)' /\ Start(s)' = Start(s)
    BY <2>1, BytesKept DEF FramedAs
  <2>8. /\ Start(s) \in Nat /\ bytesProcessed \in Nat /\ chunkLength \in Nat
        /\ Len(receiveBuffer) \in Nat
    BY Window, LengthLimitAssumption DEF IInv, TypeOK, FramedAs
  <2>9. Stands(s, z)'
    BY <2>1, <2>2, <2>5, <2>6, <2>7, <2>8 DEF Stands, InChunk
  <2>10. Unread'
    BY <2>1, <2>8 DEF LoopTest, Unread, Remaining
  <2> QED
    BY <2>1, <2>6, <2>7, <2>9, <2>10 DEF FramedAs
<1> QED
  BY <1>1, <1>2 DEF SingleResponse

LEMMA MultiResponseFramed ==
  ASSUME IInv, NEW s \in Streams, FramedAs(s), MultiResponse, ~disturbed'
  PROVE  FramedAs(s)' /\ NextHandedOn(s)
<1>0. state = "MultiResponse" /\ EnvUnchanged
  BY DEF MultiResponse
<1>1. CASE ~ChunkComplete /\ AwaitBytes
  BY <1>0, <1>1, AwaitFramed DEF AwaitBytes, NextHandedOn
<1>2. CASE ChunkComplete
  <2>1. PICK x \in Places(s) :
          /\ x.at = Start(s) + bytesProcessed /\ x.state = state
          /\ x.length = chunkLength /\ x.type = responseType
          /\ HandedOn(s, x) /\ ChunkAt(s, x) /\ ChunkOf(s, x) = Chunk
    BY <1>0, <1>2, ChunkFramed DEF InChunk
  <2>2. Counted(x) <=> responseType \in ScanTypes
    BY <1>0, <2>1 DEF Counted
  <2>3. /\ Start(s) \in Nat /\ bytesProcessed \in Nat /\ chunkLength \in Nat
        /\ Len(receiveBuffer) \in Nat /\ bytesProcessed <= Len(receiveBuffer)
        /\ x \in Place
    BY Window, LengthLimitAssumption, StreamTypes DEF IInv, TypeOK, FramedAs, Encoded
  <2>4. CASE responseType \in Creatable
    <3>1. /\ bytesProcessed' = bytesProcessed + chunkLength
          /\ delivered' = IF responseType \in ScanTypes THEN Append(delivered, Chunk)
                          ELSE delivered
          /\ UNCHANGED <<receiveBuffer, state, chunkLength, responseType>> /\ LoopTest
          /\ UNCHANGED <<wire, expected, noisy>>
      BY <1>0, <1>2, <2>4 DEF MultiResponse, EnvUnchanged
    <3>2. PICK z \in Places(s) :
            z = [x EXCEPT !.at = x.at + x.length, !.count = CountAfter(s, x)]
      BY <1>0, <2>1, <2>4 DEF ChunkAt, AfterChunk
    <3>3. /\ z.at = x.at + x.length /\ z.state = x.state /\ z.length = x.length
          /\ z.type = x.type /\ z.count = CountAfter(s, x)
      BY <2>3, <3>2 DEF Place
    <3>4. HandedOn(s, z)' /\ NextHandedOn(s)
      BY <1>2, <2>1, <2>2, <3>1, <3>3, CountFramed DEF NextHandedOn
    <3>5. Carried(s)' /\ Start(s)' = Start(s)
      BY <3>1, BytesKept DEF FramedAs
    <3>6. Stands(s, z)'
      BY <2>1, <2>3, <3>1, <3>3, <3>4, <3>5 DEF Stands
    <3>7. Unread'
      BY <2>3, <3>1 DEF LoopTest, Unread, Remaining
    <3> QED
      BY <3>1, <3>4, <3>5, <3>6, <3>7 DEF FramedAs
  <2>5. CASE responseType \notin Creatable
    <3>1. /\ ResetParser(Remaining > chunkLength) /\ delivered' = delivered
          /\ UNCHANGED <<wire, expected, noisy>>
      BY <1>0, <1>2, <2>5 DEF MultiResponse, EnvUnchanged
    <3>2. Remaining = chunkLength
      <4>1. ~(Remaining > chunkLength)
        BY <3>1 DEF ResetParser
      <4> QED
        BY <1>2, <2>3, <4>1 DEF ChunkComplete, Remaining
    <3>3. ~Counted(x)
      BY <2>2, <2>5 DEF ScanTypes, Creatable
    <3>4. PICK z \in Places(s) : z = Between(x.at + x.length, CountAfter(s, x))
      BY <2>1, <2>5 DEF ChunkAt, AfterChunk
    <3>5. z.state = "Sync" /\ z.at = Start(s) + Len(receiveBuffer) /\ z.count = x.count
      BY <2>1, <2>3, <3>2, <3>3, <3>4 DEF Between, Remaining, CountAfter
    <3>6. HandedOn(s, z)'
      BY <2>1, <3>1, <3>5 DEF HandedOn
    <3> QED
      BY <3>1, <3>5, <3>6, EmptiedFramed DEF ResetParser, NextHandedOn
  <2> QED
    BY <2>4, <2>5
<1> QED
  BY <1>1, <1>2 DEF MultiResponse

LEMMA RemoveBytesFramed ==
  ASSUME IInv, NEW s \in Streams, FramedAs(s), RemoveBytesFromReceiveBuffer
  PROVE  FramedAs(s)'
<1>1. /\ receiveBuffer' = SubSeq(receiveBuffer, bytesProcessed + 1, Len(receiveBuffer))
      /\ bytesProcessed' = 0 /\ pc' = "idle"
      /\ UNCHANGED <<wire, state, chunkLength, responseType, delivered, expected, noisy>>
  BY DEF RemoveBytesFromReceiveBuffer, EnvUnchanged
<1>2. /\ Start(s) \in Nat /\ Len(s.bytes) \in Nat /\ Len(receiveBuffer) \in Nat
      /\ Len(wire) \in Nat /\ bytesProcessed \in 0..Len(receiveBuffer)
      /\ receiveBuffer \in Seq(Byte) /\ s.bytes \in Seq(Byte)
      /\ Agrees(receiveBuffer, s.bytes, Start(s))
  BY Window, StreamTypes DEF IInv, TypeOK, FramedAs, Carried
<1>3. /\ Len(receiveBuffer') = Len(receiveBuffer) - bytesProcessed
      /\ Agrees(receiveBuffer', s.bytes, Start(s) + bytesProcessed)
  BY <1>1, <1>2, TailAgrees
<1>4. Start(s)' = Start(s) + bytesProcessed
  <2>1. Start(s)' = Len(s.bytes) - Len(wire) - (Len(receiveBuffer) - bytesProcessed)
    BY <1>1, <1>3, Zenon DEF Start
  <2> QED
    BY <1>2, <2>1 DEF Start
<1>5. Carried(s)'
  <2>1. Start(s)' >= 0 /\ Agrees(receiveBuffer', s.bytes, Start(s)')
    BY <1>2, <1>3, <1>4
  <2>2. Agrees(wire', s.bytes, Len(s.bytes) - Len(wire'))
    BY <1>1 DEF FramedAs, Carried
  <2> QED
    BY <2>1, <2>2 DEF Carried, Agrees
<1>6. PICK x \in Places(s) : Stands(s, x)
  BY DEF FramedAs
<1>7. x.at = Start(s)' /\ Stands(s, x)'
  BY <1>1, <1>2, <1>4, <1>6 DEF Stands, HandedOn
<1>8. Unread'
  BY <1>1 DEF Unread
<1> QED
  BY <1>1, <1>5, <1>7, <1>8 DEF FramedAs

LEMMA ResetFramed ==
  ASSUME IInv, NEW s \in Streams, FramedAs(s), Reset, ~disturbed'
  PROVE  FramedAs(s)'
<1>1. /\ ResetParser(Remaining > 0 \/ state # "Sync")
      /\ UNCHANGED <<wire, delivered, expected, noisy>>
  BY DEF Reset
<1>2. ~(Remaining > 0) /\ state = "Sync"
  BY <1>1 DEF ResetParser
<1>3. Len(receiveBuffer) = bytesProcessed
  BY <1>2, Window DEF IInv, FramedAs, Remaining
<1>4. PICK x \in Places(s) : Stands(s, x)
  BY DEF FramedAs
<1>5. x.state = "Sync" /\ x.at = Start(s) + Len(receiveBuffer) /\ HandedOn(s, x)'
  BY <1>1, <1>2, <1>3, <1>4 DEF Stands, HandedOn
<1> QED
  BY <1>1, <1>5, EmptiedFramed DEF ResetParser

(* Any step, as long as nothing is thrown away.                            *)
LEMMA StepFramed ==
  ASSUME IInv, NEW s \in Streams, FramedAs(s), [Next]_vars, ~disturbed'
  PROVE  FramedAs(s)' /\ NextHandedOn(s)
<1>1. CASE DataArrives
  BY <1>1, HandleDataReadyFramed DEF DataArrives, HandleDataReady, NextHandedOn
<1>2. CASE SyncState
  <2>1. FramedAs(s)'
    BY <1>2, SeekFramed DEF SyncState
  <2> QED
    BY <1>2, <2>1 DEF SyncState, SeekToByte, NextHandedOn
<1>3. CASE StartFlagState
  <2>1. FramedAs(s)'
    BY <1>3, SeekFramed DEF StartFlagState
  <2> QED
    BY <1>3, <2>1 DEF StartFlagState, SeekToByte, NextHandedOn
<1>4. CASE LengthModeAndTypeState
  <2>1. delivered' = delivered
    BY <1>4 DEF LengthModeAndTypeState, AwaitBytes
  <2> QED
    BY <1>4, <2>1, LengthModeAndTypeFramed DEF NextHandedOn
<1>5. CASE SingleResponse \/ MultiResponse
  BY <1>5, SingleResponseFramed, MultiResponseFramed
<1>6. CASE RemoveBytesFromReceiveBuffer
  BY <1>6, RemoveBytesFramed DEF RemoveBytesFromReceiveBuffer, NextHandedOn
<1>7. CASE Reset
  BY <1>7, ResetFramed DEF Reset, NextHandedOn
<1>8. CASE UNCHANGED vars
  <2>1. UNCHANGED <<wire, receiveBuffer, bytesProcessed, state, chunkLength, responseType,
                    delivered, expected, noisy, pc>>
    BY <1>8 DEF vars, ghostVars, parserVars
  <2>2. Carried(s)' /\ Start(s)' = Start(s)
    BY <2>1, BytesKept DEF FramedAs
  <2> QED
    BY <2>1, <2>2 DEF FramedAs, Stands, HandedOn, Unread, Remaining, NextHandedOn
<1> QED
  BY <1>1, <1>2, <1>3, <1>4, <1>5, <1>6, <1>7, <1>8 DEF Next, LidarThread, ParseStep

LEMMA OnceDisturbed ==
  ASSUME IInv, [Next]_vars
  PROVE  disturbed => disturbed'
BY DEF IInv, TypeOK, vars, ghostVars, Next, LidarThread, ParseStep, DataArrives, HandleDataReady,
       SyncState, StartFlagState, SeekToByte, LengthModeAndTypeState, AwaitBytes, parserVars,
       ResetParser, SingleResponse, MultiResponse, RemoveBytesFromReceiveBuffer, Reset

LEMMA InitFramed == Init => InFrames
<1> SUFFICES ASSUME Init PROVE InFrames
  OBVIOUS
<1>1. PICK s \in Streams : wire = s.bytes /\ expected = s.frames /\ noisy = s.noisy
  BY DEF Init
<1>2. /\ receiveBuffer = <<>> /\ bytesProcessed = 0 /\ state = "Sync" /\ pc = "idle"
      /\ delivered = <<>>
  BY DEF Init
<1>3. Len(receiveBuffer) = 0 /\ Len(delivered) = 0 /\ Len(s.bytes) \in Nat
      /\ Len(expected) \in Nat
  BY <1>1, <1>2, StreamTypes
<1>4. Start(s) = 0
  BY <1>1, <1>3 DEF Start
<1>5. Carried(s)
  BY <1>1, <1>3, <1>4 DEF Carried, Agrees
<1>6. PICK z \in Places(s) : z = Between(0, 0)
  BY StreamTypes DEF Encoded
<1>7. Stands(s, z)
  BY <1>2, <1>3, <1>4, <1>6 DEF Stands, HandedOn, Between, InChunk
<1>8. z.at = Start(s) /\ Unread
  BY <1>2, <1>4, <1>6 DEF Between, Unread
<1> QED
  BY <1>1, <1>5, <1>7, <1>8 DEF InFrames, FramedAs

LEMMA AlwaysFramed == Spec => [](IInv /\ InFrames)
<1>1. IInv /\ InFrames /\ [Next]_vars => InFrames'
  <2> SUFFICES ASSUME IInv, InFrames, [Next]_vars, ~disturbed'
               PROVE  \E s \in Streams : FramedAs(s)'
    BY DEF InFrames
  <2>1. PICK s \in Streams : FramedAs(s)
    BY OnceDisturbed DEF InFrames
  <2> QED
    BY <2>1, StepFramed
<1> QED
  BY <1>1, InitFramed, AlwaysIInv, PTL DEF Spec

(* For every stream that encodes its frames, with or without noise between *)
(* them, and however it is cut into reads: until bytes are thrown away     *)
(* nothing is handed on that the device did not send (lidar.cpp:124-216).  *)
THEOREM NothingEverInvented == Spec => []NothingInvented
<1>1. IInv /\ InFrames => NothingInvented
  <2> SUFFICES ASSUME IInv, InFrames, ~disturbed, NEW i \in 1..Len(delivered)
               PROVE  \E j \in 1..Len(expected) : delivered[i] = expected[j]
    BY DEF NothingInvented
  <2>1. PICK s \in Streams : FramedAs(s)
    BY DEF InFrames
  <2>2. PICK x \in Places(s) : HandedOn(s, x)
    BY <2>1 DEF FramedAs, Stands
  <2>3. Len(delivered) \in Nat /\ Len(expected) \in Nat
    BY DEF IInv, TypeOK
  <2>4. CASE s.noisy
    BY <2>2, <2>4 DEF HandedOn
  <2>5. CASE ~s.noisy
    <3>1. Len(delivered) <= Len(expected) /\ delivered[i] = expected[i]
      BY <2>2, <2>5 DEF HandedOn
    <3> QED
      BY <2>3, <3>1
  <2> QED
    BY <2>4, <2>5
<1> QED
  BY <1>1, AlwaysFramed, PTL

(* A step hands on one response or none, and none while it throws bytes away. *)
LEMMA OneAtATime ==
  ASSUME IInv, [Next]_vars
  PROVE  /\ expected' = expected /\ noisy' = noisy
         /\ \/ delivered' = delivered
            \/ /\ \E c \in Response : delivered' = Append(delivered, c)
               /\ disturbed' = disturbed
<1>1. expected' = expected /\ noisy' = noisy
  BY DEF vars, ghostVars, Next, LidarThread, ParseStep, DataArrives, HandleDataReady,
         SyncState, StartFlagState, LengthModeAndTypeState, EnvUnchanged, SingleResponse,
         MultiResponse, RemoveBytesFromReceiveBuffer, Reset
<1>2. CASE SingleResponse \/ MultiResponse
  <2>1. \/ delivered' = delivered
        \/ ChunkComplete /\ delivered' = Append(delivered, Chunk) /\ disturbed' = disturbed
    BY <1>2 DEF SingleResponse, MultiResponse, AwaitBytes
  <2> QED
    BY <1>1, <2>1, ChunkIsResponse DEF IInv
<1>3. CASE ~(SingleResponse \/ MultiResponse)
  <2>1. delivered' = delivered
    BY <1>3 DEF vars, Next, LidarThread, ParseStep, DataArrives, HandleDataReady,
         SyncState, StartFlagState, SeekToByte, LengthModeAndTypeState, AwaitBytes,
         RemoveBytesFromReceiveBuffer, Reset
  <2> QED
    BY <1>1, <2>1
<1> QED
  BY <1>2, <1>3

LEMMA AppendedKeeps ==
  ASSUME NEW S, NEW e \in Seq(S), NEW c \in S
  PROVE  Len(Append(e, c)) = Len(e) + 1 /\ SubSeq(Append(e, c), 1, Len(e)) = e
OBVIOUS

LEMMA StepImplements ==
  ASSUME IInv, InFrames, [Next]_vars
  PROVE  [Abstract!Next]_(Abstract!streamVars)
<1> USE DEF Abstract!Next, Abstract!Deliver, Abstract!Disturb, Abstract!Misread,
            Abstract!streamVars
<1>1. /\ expected' = expected /\ noisy' = noisy
      /\ delivered \in Seq(Response) /\ disturbed \in BOOLEAN /\ noisy \in BOOLEAN
      /\ disturbed' \in BOOLEAN /\ (disturbed => disturbed')
  BY OneAtATime, OnceDisturbed, NextIInv DEF IInv, TypeOK
<1>2. CASE delivered' = delivered
  BY <1>1, <1>2
<1>3. CASE delivered' # delivered
  <2>1. disturbed' = disturbed
    BY <1>3, OneAtATime
  <2>2. PICK c \in Response : delivered' = Append(delivered, c)
    BY <1>3, OneAtATime
  <2>3. CASE disturbed \/ noisy
    <3>1. /\ Len(delivered') = Len(delivered) + 1
          /\ SubSeq(delivered', 1, Len(delivered)) = delivered
      BY <1>1, <2>2, AppendedKeeps
    <3> QED
      BY <1>1, <2>1, <2>3, <3>1
  <2>4. CASE ~disturbed /\ ~noisy
    <3>1. PICK s \in Streams : FramedAs(s)
      BY <2>4 DEF InFrames
    <3>2. NextHandedOn(s) /\ s.noisy = noisy
      BY <2>1, <2>4, <3>1, StepFramed DEF FramedAs
    <3>3. /\ Len(delivered) < Len(expected)
          /\ delivered' = Append(delivered, expected[Len(delivered) + 1])
      BY <1>3, <2>4, <3>2 DEF NextHandedOn
    <3> QED
      BY <1>1, <2>1, <2>4, <3>3
  <2> QED
    BY <2>3, <2>4
<1> QED
  BY <1>2, <1>3

(* The framer's steps are those of ResponseStream: whatever the cutting    *)
(* into reads, the buffer and the resets, each response is handed on once  *)
(* and in order until bytes are thrown away, and what was handed on stays  *)
(* (lidar.cpp:124-216, 302-307, 344-434).                                  *)
THEOREM ImplementsSafely == Spec => Implements
<1>1. Init => Abstract!Init
  BY StreamsAssumption DEF Init, Abstract!Init
<1>2. IInv /\ InFrames /\ [Next]_vars => [Abstract!Next]_(Abstract!streamVars)
  BY StepImplements
<1> QED
  BY <1>1, <1>2, AlwaysFramed, PTL DEF Spec, Implements, Abstract!Safety
====
