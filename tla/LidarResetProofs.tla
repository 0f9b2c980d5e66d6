---- MODULE LidarResetProofs ----
(***************************************************************************)
(* That the one harmful meeting of reset() and the Lidar thread is the one *)
(* in a removal, and that a reset which meets an idle thread is followed by*)
(* the answer and nothing else, for every buffer and stream of frames.     *)
(***************************************************************************)
EXTENDS LidarReset, TLAPS

(* The counters and the locals are numbers; only the count and what is     *)
(* computed from it may become negative.                                   *)
Types == /\ receiveBuffer \in [Cells -> Nat]
         /\ bytesInBuffer \in Int /\ bytesProcessed \in Nat
         /\ chunkLength \in Nat
         /\ seen \in [inBuffer : Int, done : Nat]
         /\ wire \in Seq(Nat) /\ data \in Seq(Nat)
         /\ n \in Int /\ (lpc = "seek" => n >= None)

(* What holds of the counters, as they are and as they were read, as long  *)
(* as no removal has been struck.                                          *)
Counts == /\ bytesInBuffer \in 0..BufferSize
          /\ seen.inBuffer \in 0..BufferSize
          /\ lpc \in {"copy", "count"} => /\ bytesInBuffer + Len(data) <= BufferSize
                                          /\ seen.inBuffer + Len(data) <= BufferSize
          /\ lpc = "descriptor" => /\ bytesProcessed + DescriptorSize <= BufferSize
                                   /\ seen.done + DescriptorSize <= BufferSize
          /\ lpc = "chunk" => /\ bytesProcessed + chunkLength <= BufferSize
                              /\ seen.done + chunkLength <= BufferSize
          /\ lpc \in {"move", "removed"} => /\ 0 <= n /\ n <= bytesInBuffer
                                            /\ n <= seen.inBuffer

(* Whatever happened before: an idle thread holds no old reading and has   *)
(* not faulted.                                                            *)
IdleClean == lpc = "idle" => seen = Unseen
IdleSound == fault => lpc # "idle"
Sound == ~struck => ~fault /\ Counts

IInv == Types /\ IdleClean /\ IdleSound /\ Sound

USE DEF None, DescriptorSize

LEMMA LesserFacts == ASSUME NEW a \in Int, NEW b \in Int
                     PROVE  Lesser(a, b) \in Int /\ Lesser(a, b) <= a /\ Lesser(a, b) <= b
                            /\ (a >= 0 /\ b >= 0 => Lesser(a, b) >= 0)
BY SMT DEF Lesser

LEMMA LessStillFits == ASSUME NEW a \in Nat, NEW b \in Nat, b <= a, NEW k \in Nat
                       PROVE  a + k <= BufferSize => b + k <= BufferSize
BY SizeAssumption, SMT

LEMMA EmptyType == BufferSize \in Nat => Empty \in [Cells -> Nat]
BY DEF Empty, Cells

LEMMA SubSeqFacts == ASSUME NEW s \in Seq(Nat), NEW m \in Int, m <= Len(s)
                     PROVE  /\ SubSeq(s, 1, m) \in Seq(Nat)
                            /\ m >= 0 => Len(SubSeq(s, 1, m)) = m
BY SMT

LEMMA RestSeq == ASSUME NEW s \in Seq(Nat), NEW k \in Nat
                 PROVE  SubSeq(s, k + 1, Len(s)) \in Seq(Nat)
BY SMT

LEMMA ForgetTypes == Forget => /\ seen' \in [inBuffer : Int, done : Nat]
                               /\ data' \in Seq(Nat) /\ n' \in Int
BY SMT DEF Forget, Unseen

LEMMA LookTypes == Types /\ Look => seen' \in [inBuffer : Int, done : Nat]
BY SMT DEF Types, Look

LEMMA UnseenTypes == seen' = Unseen => seen' \in [inBuffer : Int, done : Nat]
BY SMT DEF Unseen

(* Types and counts through the steps that copy or count data.             *)
LEMMA HandleDataReadyCounts ==
  ASSUME Types, NEW k \in ReadSizes, HandleDataReady(k)
  PROVE  Types' /\ (Counts => Counts') /\ IdleClean'
<1> DEFINE m == Lesser(Lesser(k, Len(wire)), BufferSize - bytesInBuffer)
<1>0. k \in Nat /\ BufferSize \in Nat /\ Len(wire) \in Nat
  BY WireAssumption, SizeAssumption, SMT DEF Types
<1>1. m \in Int /\ m <= Len(wire) /\ m <= BufferSize - bytesInBuffer
  BY <1>0, LesserFacts, SMT DEF Types, Lesser
<1>2. bytesInBuffer \in 0..BufferSize => m >= 0
  BY <1>0, SMT DEF Lesser
<1>3. data' = SubSeq(wire, 1, m)
  BY DEF HandleDataReady
<1> HIDE DEF m
<1>4. data' \in Seq(Nat) /\ (m >= 0 => Len(data') = m)
  BY <1>1, <1>3, SubSeqFacts DEF Types
<1>5. wire' \in Seq(Nat)
  BY <1>0, RestSeq DEF Types, HandleDataReady
<1>6. Types'
  BY <1>4, <1>5, SMT DEF Types, HandleDataReady, Step, Look, countVars, Cells
<1>7. Counts => Counts'
  BY <1>0, <1>1, <1>2, <1>4, SMT DEF Types, Counts, HandleDataReady, Step, Look, countVars
<1>8. IdleClean'
  BY DEF IdleClean, HandleDataReady, Step
<1>. QED BY <1>6, <1>7, <1>8

LEMMA CopyDataCounts ==
  ASSUME Types, CopyData
  PROVE  Types' /\ (Counts => Counts') /\ IdleClean'
<1>1. PICK at \in InSeen : InArray(at, Len(data)) /\ Used(at)
         /\ receiveBuffer' = [i \in Cells |-> IF i \in at..(at + Len(data) - 1)
                                              THEN data[i - at + 1] ELSE receiveBuffer[i]]
  BY DEF CopyData
<1>2. at \in Int /\ Len(data) \in Nat
  BY <1>1, SMT DEF InSeen, Types
<1>3. ASSUME NEW i \in Cells, i \in at..(at + Len(data) - 1)
      PROVE  data[i - at + 1] \in Nat
  BY <1>2, <1>3, SizeAssumption, SMT DEF Types, Cells
<1>4. receiveBuffer' \in [Cells -> Nat]
  BY <1>1, <1>3 DEF Types
<1>5. Types'
  BY <1>1, <1>2, <1>4, SMT DEF Types, CopyData, Step, Used, countVars, Cells
<1>6. Counts => Counts'
  BY <1>1, <1>2, SMT DEF Types, Counts, CopyData, Step, Used, InSeen, countVars
<1>7. IdleClean'
  BY DEF IdleClean, CopyData, Step
<1>. QED BY <1>5, <1>6, <1>7

LEMMA CountDataCounts ==
  ASSUME Types, CountData
  PROVE  Types' /\ (Counts => Counts') /\ IdleClean'
<1>1. PICK b \in InSeen : bytesInBuffer' = b + Len(data)
  BY DEF CountData
<1>2. b \in Int /\ Len(data) \in Nat
  BY <1>1, SMT DEF InSeen, Types
<1>3. Types'
  BY <1>1, <1>2, SMT DEF Types, CountData, Step, Forget, Unseen, Cells
<1>4. Counts => Counts'
  BY <1>1, <1>2, SizeAssumption, SMT DEF Types, Counts, CountData, Step, Forget, Unseen, InSeen
<1>5. IdleClean'
  BY DEF IdleClean, CountData, Step
<1>. QED BY <1>3, <1>4, <1>5
(* Types and counts through the steps of the parser.                       *)
LEMMA SeekCounts ==
  ASSUME Types, NEW from, NEW b, NEW to, Seek(from, b, to)
  PROVE  Types' /\ (Counts => Counts') /\ IdleClean'
<1>1. \A x \in Found(b) : x \in Int /\ x >= None
  BY SMT DEF Types, Found
<1>2. n' \in Int /\ n' >= None
  BY <1>1, SMT DEF Seek
<1>3. Types'
  BY <1>2, SMT DEF Types, Seek, Step, Look, UnchangedBytes, Cells
<1>4. Counts => Counts'
  BY SMT DEF Types, Counts, Seek, Step, Look, UnchangedBytes
<1>5. IdleClean'
  BY DEF IdleClean, Seek, Step
<1>. QED BY <1>3, <1>4, <1>5

LEMMA SeekSucceedsCounts ==
  ASSUME Types, SeekSucceeds
  PROVE  Types' /\ (Counts => Counts') /\ IdleClean'
<1>1. Types'
  BY SizeAssumption, SMT DEF Types, SeekSucceeds, Step, UnchangedBytes, Unseen, Cells, InSeen
<1>2. Counts => Counts'
  BY SizeAssumption, SMT DEF Types, Counts, SeekSucceeds, Step, UnchangedBytes, Unseen, Cells, InSeen
<1>3. IdleClean'
  BY DEF IdleClean, SeekSucceeds, Step, Forget
<1>. QED BY <1>1, <1>2, <1>3

LEMMA SeekFailsCounts ==
  ASSUME Types, SeekFails
  PROVE  Types' /\ (Counts => Counts') /\ IdleClean'
<1>1. Types'
  BY SizeAssumption, SMT DEF Types, SeekFails, Step, UnchangedBytes, Unseen, Cells, Forget
<1>2. Counts => Counts'
  BY SizeAssumption, SMT DEF Types, Counts, SeekFails, Step, UnchangedBytes, Unseen, Cells, Forget
<1>3. IdleClean'
  BY DEF IdleClean, SeekFails, Step, Forget
<1>. QED BY <1>1, <1>2, <1>3

LEMMA AwaitCounts ==
  ASSUME Types, NEW length \in Nat, NEW place \in {"descriptor", "chunk"},
         Await(length, place),
         place = "descriptor" => length = DescriptorSize,
         place = "chunk" => length = chunkLength
  PROVE  Types' /\ (Counts => Counts') /\ IdleClean'
<1>0. lpc' # "seek"
  BY DEF Await, Step
<1>1. Types'
  BY <1>0, ForgetTypes, LookTypes, SMT DEF Types, Await, UnchangedBytes, Cells
<1>2. Counts => Counts'
  BY SizeAssumption, SMT DEF Types, Counts, Await, Step, Look, Forget, Unseen, UnchangedBytes
<1>3. IdleClean'
  BY DEF IdleClean, Await, Step, Forget
<1>. QED BY <1>1, <1>2, <1>3

LEMMA ReadDescriptorCounts ==
  ASSUME Types, ReadDescriptor
  PROVE  Types' /\ (Counts => Counts') /\ IdleClean'
<1>1. PICK at \in DoneSeen :
         /\ InArray(at, DescriptorSize) /\ chunkLength' = receiveBuffer[at]
         /\ \/ /\ Step("descriptor", "enter") /\ seen' = Unseen /\ UNCHANGED <<data, n>>
               /\ \E from \in {at, bytesProcessed} : bytesProcessed' = from + DescriptorSize
            \/ Step("descriptor", "own") /\ Forget /\ UNCHANGED bytesProcessed
         /\ UnchangedBytes
  BY DEF ReadDescriptor
<1>2. at \in Nat /\ at \in Cells
  BY <1>1, SizeAssumption, SMT DEF DoneSeen, Types, InArray, Cells
<1>3. receiveBuffer[at] \in Nat
  BY <1>2 DEF Types
<1>41. lpc' # "seek" /\ bytesProcessed' \in Nat
  BY <1>1, <1>2, SMT DEF Types, Step
<1>4. Types'
  BY <1>1, <1>3, <1>41, ForgetTypes, UnseenTypes, SMT DEF Types, UnchangedBytes, Cells
<1>5. Counts => Counts'
  BY <1>1, <1>2, SizeAssumption, SMT DEF Types, Counts, Step, Unseen, Forget, UnchangedBytes
<1>6. IdleClean'
  BY <1>1 DEF IdleClean, Step
<1>. QED BY <1>4, <1>5, <1>6

LEMMA TakeChunkCounts ==
  ASSUME Types, TakeChunk
  PROVE  Types' /\ (Counts => Counts') /\ IdleClean'
<1>1. PICK at \in DoneSeen :
         /\ \E from \in {at, bytesProcessed} : bytesProcessed' = from + chunkLength
         /\ \/ Step("chunk", "enter") /\ seen' = Unseen /\ UNCHANGED <<data, n>>
            \/ Forget /\ (Step("chunk", "test") \/ Step("chunk", "own"))
         /\ UnchangedBytes /\ UNCHANGED chunkLength
  BY DEF TakeChunk
<1>2. at \in Nat
  BY <1>1, SMT DEF DoneSeen, Types
<1>31. lpc' # "seek" /\ bytesProcessed' \in Nat
  BY <1>1, <1>2, SMT DEF Types, Step
<1>3. Types'
  BY <1>1, <1>31, ForgetTypes, UnseenTypes, SMT DEF Types, UnchangedBytes, Cells
<1>4. Counts => Counts'
  BY <1>1, <1>2, SizeAssumption, SMT DEF Types, Counts, Step, Unseen, Forget, UnchangedBytes
<1>5. IdleClean'
  BY <1>1 DEF IdleClean, Step
<1>. QED BY <1>3, <1>4, <1>5

LEMMA EnterStateCounts ==
  ASSUME Types, EnterState
  PROVE  Types' /\ (Counts => Counts') /\ IdleClean'
<1>1. Types'
  BY SizeAssumption, SMT DEF Types, EnterState, Step, UnchangedBytes, Unseen, Cells, Forget
<1>2. Counts => Counts'
  BY SizeAssumption, SMT DEF Types, Counts, EnterState, Step, UnchangedBytes, Unseen, Cells, Forget
<1>3. IdleClean'
  BY DEF IdleClean, EnterState, Step, Forget
<1>. QED BY <1>1, <1>2, <1>3

LEMMA OwnResetCounts ==
  ASSUME Types, OwnReset
  PROVE  Types' /\ (Counts => Counts') /\ IdleClean'
<1>1. Types'
  BY EmptyType, SizeAssumption, SMT DEF Types, OwnReset, Step, localVars, Cells
<1>2. Counts => Counts'
  BY SizeAssumption, SMT DEF Types, Counts, OwnReset, Step, localVars
<1>3. IdleClean'
  BY DEF IdleClean, OwnReset, Step
<1>. QED BY <1>1, <1>2, <1>3

LEMMA LoopTestCounts ==
  ASSUME Types, LoopTest
  PROVE  Types' /\ (Counts => Counts') /\ IdleClean'
<1>1. Types'
  BY SMT DEF Types, LoopTest, Step, UnchangedBytes, localVars, Cells
<1>2. Counts => Counts'
  BY SMT DEF Types, Counts, LoopTest, Step, UnchangedBytes, localVars
<1>3. IdleClean'
  BY DEF IdleClean, LoopTest, Step
<1>. QED BY <1>1, <1>2, <1>3

(* Types and counts through a removal: this is where the clip is needed.   *)
LEMMA MeasureShiftCounts ==
  ASSUME Types, MeasureShift
  PROVE  Types' /\ (Counts => Counts') /\ IdleClean'
<1>1. Lesser(bytesProcessed, bytesInBuffer) \in Int
      /\ Lesser(bytesProcessed, bytesInBuffer) <= bytesInBuffer
      /\ (bytesInBuffer >= 0 => Lesser(bytesProcessed, bytesInBuffer) >= 0)
  BY LesserFacts, SMT DEF Types, Lesser
<1>21. lpc' # "seek"
  BY DEF MeasureShift, Step
<1>2. Types'
  BY <1>1, <1>21, ForgetTypes, LookTypes, SMT DEF Types, MeasureShift, UnchangedBytes, Cells
<1>3. Counts => Counts'
  BY <1>1, SizeAssumption, SMT
  DEF Types, Counts, MeasureShift, Step, Look, Forget, Unseen, UnchangedBytes
<1>4. IdleClean'
  BY DEF IdleClean, MeasureShift, Step, Forget
<1>. QED BY <1>2, <1>3, <1>4

LEMMA MoveBytesCounts ==
  ASSUME Types, MoveBytes
  PROVE  Types' /\ (Counts => Counts') /\ IdleClean'
<1>1. PICK b \in InSeen : InArray(n, b - n) /\ Used(b)
         /\ receiveBuffer' = [i \in Cells |-> IF i < b - n THEN receiveBuffer[i + n]
                                              ELSE receiveBuffer[i]]
  BY DEF MoveBytes
<1>2. b \in Int
  BY <1>1, SMT DEF InSeen, Types
<1>3. ASSUME NEW i \in Cells, i < b - n
      PROVE  i + n \in Cells
  BY <1>1, <1>2, <1>3, SizeAssumption, SMT DEF Types, InArray, Cells
<1>4. receiveBuffer' \in [Cells -> Nat]
  BY <1>1, <1>3 DEF Types
<1>51. seen' \in [inBuffer : Int, done : Nat] /\ lpc' # "seek"
  BY <1>1, <1>2, SMT DEF Types, Used, MoveBytes, Step
<1>5. Types'
  BY <1>4, <1>51, SMT DEF Types, MoveBytes, countVars, Cells
<1>6. Counts => Counts'
  BY <1>1, <1>2, SMT DEF Types, Counts, MoveBytes, Step, Used, InSeen, countVars
<1>7. IdleClean'
  BY DEF IdleClean, MoveBytes, Step
<1>. QED BY <1>5, <1>6, <1>7

LEMMA CountRemovedCounts ==
  ASSUME Types, CountRemoved
  PROVE  Types' /\ (Counts => Counts') /\ IdleClean'
<1>1. PICK b \in InSeen : bytesInBuffer' = b - n
  BY DEF CountRemoved
<1>2. b \in Int
  BY <1>1, SMT DEF InSeen, Types
<1>3. Types'
  BY <1>1, <1>2, SMT DEF Types, CountRemoved, Step, Forget, Unseen, Cells
<1>4. Counts => Counts'
  BY <1>1, <1>2, SizeAssumption, SMT
  DEF Types, Counts, CountRemoved, Step, Forget, Unseen, InSeen
<1>5. IdleClean'
  BY DEF IdleClean, CountRemoved, Forget
<1>. QED BY <1>3, <1>4, <1>5

(* The Lidar thread as a whole.                                            *)
LEMMA LidarThreadCounts ==
  ASSUME Types, LidarThread
  PROVE  Types' /\ (Counts => Counts') /\ IdleClean'
<1>1. CASE DataArrives
  BY <1>1, HandleDataReadyCounts DEF DataArrives
<1>2. CASE SyncState \/ StartFlagState
  BY <1>2, SeekCounts DEF SyncState, StartFlagState
<1>3. CASE LengthModeAndTypeState
  BY <1>3, AwaitCounts DEF LengthModeAndTypeState
<1>4. CASE ResponseState
  BY <1>4, AwaitCounts DEF ResponseState, Types
<1>5. CASE SeekSucceeds \/ SeekFails \/ ReadDescriptor \/ TakeChunk
  BY <1>5, SeekSucceedsCounts, SeekFailsCounts, ReadDescriptorCounts, TakeChunkCounts
<1>6. CASE EnterState \/ OwnReset \/ LoopTest
  BY <1>6, EnterStateCounts, OwnResetCounts, LoopTestCounts
<1>7. CASE CopyData \/ CountData \/ Remove
  BY <1>7, CopyDataCounts, CountDataCounts, MeasureShiftCounts, MoveBytesCounts,
     CountRemovedCounts DEF Remove
<1>. QED
  BY <1>1, <1>2, <1>3, <1>4, <1>5, <1>6, <1>7 DEF LidarThread, Parse

LEMMA LidarThreadGhosts == LidarThread => ~fault /\ UNCHANGED <<fault, struck>>
BY DEF LidarThread, Parse, Remove, DataArrives, HandleDataReady, CopyData, CountData,
       SyncState, StartFlagState, Seek, SeekSucceeds, SeekFails, LengthModeAndTypeState,
       ResponseState, Await, ReadDescriptor, TakeChunk, EnterState, OwnReset, LoopTest,
       MeasureShift, MoveBytes, CountRemoved, Step, ghostVars

LEMMA LidarThreadInvariant ==
  ASSUME IInv, LidarThread
  PROVE  IInv'
<1>1. Types' /\ (Counts => Counts') /\ IdleClean'
  BY LidarThreadCounts DEF IInv
<1>2. ~fault /\ UNCHANGED <<fault, struck>>
  BY LidarThreadGhosts
<1>. QED BY <1>1, <1>2 DEF IInv, Sound, IdleSound

(* A thread that keeps to its counts has nothing to fault on.              *)
LEMMA NothingOutside == Types /\ Counts => ~OutOfArray
BY SizeAssumption, SMT DEF Types, Counts, OutOfArray, InSeen, DoneSeen, InArray

LEMMA FaultInvariant ==
  ASSUME IInv, Fault
  PROVE  IInv'
<1>1. struck
  BY NothingOutside DEF IInv, Sound, Fault
<1>2. lpc # "idle"
  BY DEF Fault, OutOfArray
<1>3. Types' /\ IdleClean'
  BY SMT DEF IInv, Types, IdleClean, Fault, countVars, localVars, Cells
<1>. QED BY <1>1, <1>2, <1>3 DEF IInv, Sound, IdleSound, Fault, ghostVars

(* reset(): only its count is more than a step back for all counts.        *)
LEMMA ResetTypes ==
  ASSUME Types, Reset
  PROVE  Types' /\ UNCHANGED <<fault, lpc, seen, n, data, chunkLength>>
<1>1. UNCHANGED <<fault, lpc, seen, n, data, chunkLength, wire>>
  BY DEF Reset, ZeroProcessed, ZeroInBuffer, Clear, StartSyncIndex, StartSyncState,
         SendCommand, Statement, localVars
<1>2. receiveBuffer' \in [Cells -> Nat]
  BY EmptyType, SizeAssumption DEF Types, Reset, ZeroProcessed, ZeroInBuffer, Clear,
     StartSyncIndex, StartSyncState, SendCommand
<1>3. bytesInBuffer' \in Int /\ bytesProcessed' \in Nat
  BY SMT DEF Types, Reset, ZeroProcessed, ZeroInBuffer, Clear, StartSyncIndex,
     StartSyncState, SendCommand, countVars
<1>. QED BY <1>1, <1>2, <1>3, SMT DEF Types, Cells

LEMMA ZeroInBufferInvariant ==
  ASSUME IInv, ZeroInBuffer
  PROVE  IInv'
<1>1. Types' /\ UNCHANGED <<fault, lpc, seen, n, data, chunkLength>>
  BY ResetTypes DEF IInv, Reset
<1>2. ASSUME Counts, lpc \notin {"move", "removed"}
      PROVE  Counts'
  BY <1>1, <1>2, SizeAssumption, SMT DEF IInv, Types, Counts, ZeroInBuffer
<1>3. ASSUME lpc = "idle"
      PROVE  Counts'
  BY <1>1, <1>3, SizeAssumption, SMT DEF IInv, IdleClean, Unseen, Counts, ZeroInBuffer
<1>4. ASSUME ~struck'
      PROVE  ~fault' /\ Counts'
  BY <1>1, <1>2, <1>3, <1>4 DEF IInv, Sound, IdleSound, ZeroInBuffer
<1>. QED BY <1>1, <1>4 DEF IInv, Sound, IdleSound, IdleClean, Unseen

LEMMA OtherStatementInvariant ==
  ASSUME IInv, Reset, ~ZeroInBuffer
  PROVE  IInv'
<1>1. Types' /\ UNCHANGED <<fault, lpc, seen, n, data, chunkLength>>
  BY ResetTypes DEF IInv
<1>2. UNCHANGED <<struck, bytesInBuffer>>
  BY DEF Reset, ZeroProcessed, Clear, StartSyncIndex, StartSyncState, SendCommand,
         countVars, ghostVars
<1>3. bytesProcessed' = bytesProcessed \/ bytesProcessed' = 0
  BY DEF Reset, ZeroProcessed, Clear, StartSyncIndex, StartSyncState, SendCommand, countVars
<1>4. bytesProcessed \in Nat /\ bytesInBuffer \in Int /\ chunkLength \in Nat
      /\ seen \in [inBuffer : Int, done : Nat]
  BY DEF IInv, Types
<1>5. Counts => Counts'
  <2>1. lpc' = lpc /\ seen' = seen /\ n' = n /\ data' = data /\ chunkLength' = chunkLength
        /\ bytesInBuffer' = bytesInBuffer
    BY <1>1, <1>2
  <2>2. bytesProcessed' <= bytesProcessed
    BY <1>3, <1>4, SMT
  <2>3. bytesProcessed' \in Nat
    BY <1>3, <1>4
  <2>4. \A k \in Nat : bytesProcessed + k <= BufferSize => bytesProcessed' + k <= BufferSize
    BY <1>4, <2>2, <2>3, LessStillFits
  <2>. QED BY <1>4, <2>1, <2>4 DEF Counts
<1>. QED BY <1>1, <1>2, <1>5 DEF IInv, Sound, IdleSound, IdleClean, Unseen

LEMMA ReplyInvariant ==
  ASSUME IInv, Reply
  PROVE  IInv'
<1>1. wire' \in Seq(Nat)
  BY FramesAssumption, SMT DEF IInv, Types, Reply
<1>2. UNCHANGED <<struck, fault, receiveBuffer, bytesInBuffer, bytesProcessed, chunkLength,
                  lpc, seen, data, n>>
  BY DEF Reply, countVars, localVars
<1>3. Types'
  BY <1>1, <1>2, SMT DEF IInv, Types, Cells
<1>. QED BY <1>2, <1>3 DEF IInv, Sound, Counts, IdleSound, IdleClean, Unseen

LEMMA StutterInvariant ==
  ASSUME IInv, UNCHANGED vars
  PROVE  IInv'
BY DEF IInv, Types, Cells, Counts, Sound, IdleSound, IdleClean, Unseen, vars, ghostVars, countVars,
       localVars

LEMMA Initially == Init => IInv
<1> SUFFICES ASSUME Init PROVE IInv
  OBVIOUS
<1>1. Types
  BY EmptyType, SizeAssumption, FramesAssumption, SMT DEF Init, Types, Unseen
<1>2. Counts
  BY SizeAssumption, SMT DEF Init, Counts, Unseen
<1>. QED BY <1>1, <1>2 DEF Init, IInv, Sound, IdleSound, IdleClean

LEMMA AlwaysIInv == Spec => []IInv
<1>1. IInv /\ [Next]_vars => IInv'
  BY LidarThreadInvariant, FaultInvariant, ZeroInBufferInvariant, OtherStatementInvariant,
     ReplyInvariant, StutterInvariant DEF Next
<1>. QED BY Initially, <1>1, PTL DEF Spec

(* For every buffer, whatever is sent and however it is cut into reads:    *)
(* reset() may cut into handleDataReady and processReadBuffer anywhere but *)
(* between the statements of a removal, and no access leaves the array     *)
(* (lidar.cpp:302-307 against 124-216 and 344-421).                        *)
THEOREM FaultsOnlyInRemoval == Spec => []OnlyRemovalFaults
<1>1. IInv => OnlyRemovalFaults
  BY DEF IInv, Sound, Counts, OnlyRemovalFaults
<1>. QED BY AlwaysIInv, <1>1, PTL

------------------------------------------------------------------------------
(* After a reset that met an idle thread: how far the answer has come.     *)
AnswerSize == Len(Answer)

LEMMA Joined ==
  ASSUME NEW s \in Seq(Nat), NEW t \in Seq(Nat)
  PROVE  /\ Len(s \o t) = Len(s) + Len(t)
         /\ \A i \in 1..Len(s) : (s \o t)[i] = s[i]
         /\ \A i \in 1..Len(t) : (s \o t)[Len(s) + i] = t[i]
OBVIOUS

LEMMA AnswerCells ==
  /\ AnswerSize \in Nat /\ AnswerSize > 4 /\ AnswerSize <= BufferSize
  /\ Answer \in Seq(Nat)
  /\ Answer[1] = SYNC /\ Answer[2] = START_FLAG /\ Answer[3] = AnswerSize - 4 /\ Answer[4] = 0
  /\ Len(AnswerData) = AnswerSize - 4
  /\ \A i \in 1..(AnswerSize - 4) : Answer[4 + i] = AnswerData[i]
<1> DEFINE head == <<SYNC, START_FLAG, Len(AnswerData), 0>>
<1>1. AnswerData \in Seq(Nat) /\ Len(AnswerData) \in Nat /\ AnswerData # <<>>
  BY FramesAssumption, AnswerAssumption
<1>2. head \in Seq(Nat) /\ Len(head) = 4
  BY <1>1 DEF SYNC, START_FLAG
<1>3. Answer = head \o AnswerData
  BY AnswerAssumption
<1>4. /\ head[1] = SYNC /\ head[2] = START_FLAG
      /\ head[3] = Len(AnswerData) /\ head[4] = 0
  OBVIOUS
<1> HIDE DEF head
<1>5. /\ Len(Answer) = 4 + Len(AnswerData)
      /\ \A i \in 1..4 : Answer[i] = head[i]
      /\ \A i \in 1..Len(AnswerData) : Answer[4 + i] = AnswerData[i]
  <2>1. /\ Len(head \o AnswerData) = Len(head) + Len(AnswerData)
        /\ \A i \in 1..Len(head) : (head \o AnswerData)[i] = head[i]
        /\ \A i \in 1..Len(AnswerData) : (head \o AnswerData)[Len(head) + i] = AnswerData[i]
    BY <1>1, <1>2, Joined
  <2> QED
    BY <1>2, <1>3, <2>1
<1>6. Len(AnswerData) > 0
  BY <1>1
<1> QED
  BY <1>1, <1>4, <1>5, <1>6, FramesAssumption, AnswerAssumption DEF AnswerSize

(* What of the answer has been removed from the array, and what has been   *)
(* processed.                                                              *)
Uncounted == IF lpc \in {"copy", "count"} THEN Len(data) ELSE 0
Base == AnswerSize - Len(wire) - Uncounted - bytesInBuffer
At == Base + bytesProcessed

(* The state that goes with a place in the answer, and when the cells left *)
(* are too few for it.                                                     *)
InState(st, q) ==
  \/ st = "Sync" /\ q \in {0, AnswerSize}
  \/ st = "StartFlag" /\ q = 1
  \/ st = "LengthModeAndType" /\ q = 2
  \/ st = "SingleResponse" /\ q = 4 /\ chunkLength = AnswerSize - 4
Short(q, k) == k < (IF q = 2 THEN 2 ELSE IF q = 4 THEN AnswerSize - 4 ELSE 1)

(* Where the parser is: no reading is stale, and every seek finds what it  *)
(* looks for at once.                                                      *)
Progress ==
  /\ Base >= 0 /\ bytesProcessed <= bytesInBuffer
  /\ heard = (IF At = AnswerSize THEN "answer" ELSE "nothing")
  /\ InState(IF lpc = "enter" THEN next ELSE state, At)
  /\ lpc = "idle" => bytesProcessed = 0 /\ Short(At, bytesInBuffer)
  /\ lpc \in {"copy", "count"} => /\ bytesProcessed = 0 /\ Len(data) > 0
                                  /\ seen.inBuffer = bytesInBuffer
  /\ lpc = "parse" => bytesProcessed < bytesInBuffer
  /\ lpc = "seek" => /\ n = bytesProcessed /\ n < bytesInBuffer
                     /\ seen.inBuffer = bytesInBuffer
                     /\ \/ At = 0 /\ next = "StartFlag"
                        \/ At = 1 /\ next = "LengthModeAndType"
  /\ lpc = "descriptor" => /\ At = 2 /\ bytesInBuffer - bytesProcessed >= 2
                           /\ seen.done = bytesProcessed
  /\ lpc = "chunk" => /\ At = 4 /\ bytesInBuffer - bytesProcessed >= AnswerSize - 4
                      /\ seen.done = bytesProcessed /\ next = "SingleResponse"
  /\ lpc \in {"shift", "move", "removed"} => Short(At, bytesInBuffer - bytesProcessed)
  /\ lpc \in {"move", "removed"} => /\ n = bytesProcessed /\ n > 0
                                    /\ seen.inBuffer = bytesInBuffer

(* What is under way, read and in the array is the answer, in its order.   *)
Holds(k, from) == \A i \in 0..(k - 1) : receiveBuffer[i] = Answer[from + i + 1]
Contents ==
  /\ \A i \in 1..Len(wire) : wire[i] = Answer[AnswerSize - Len(wire) + i]
  /\ lpc # "removed" => Holds(bytesInBuffer, Base)
  /\ lpc = "removed" => Holds(bytesInBuffer - n, At)
  /\ lpc \in {"copy", "count"} =>
       \A i \in 1..Len(data) : data[i] = Answer[Base + bytesInBuffer + i]
  /\ lpc = "count" => Holds(bytesInBuffer + Len(data), Base)

InFrame == mpc = "out" /\ ~asked /\ ~fault /\ lpc # "own" /\ Progress /\ Contents

(* From the reset to the answer: an idle thread and nothing under way.     *)
Clean ==
  /\ lpc = "idle" /\ wire = <<>> /\ heard = "nothing" /\ ~fault
  /\ bytesProcessed = 0
  /\ mpc # "count" => bytesInBuffer = 0
  /\ mpc \in {"send", "out"} => state = "Sync"
  /\ mpc = "out" => asked

Answered == quiet => Clean \/ InFrame

(* Steps that leave the cells alone.                                       *)
LEMMA ContentsKept ==
  ASSUME Contents, UnchangedBytes,
         lpc \notin {"copy", "count", "removed"}, lpc' \notin {"copy", "count", "removed"}
  PROVE  Contents' /\ Base' = Base
<1>1. Base' = Base
  BY DEF UnchangedBytes, Base, Uncounted
<1> QED
  BY <1>1 DEF Contents, Holds, UnchangedBytes

(* The cell at the parser's place.                                         *)
LEMMA CellAt ==
  ASSUME Types, Progress, Contents, lpc = "parse"
  PROVE  /\ At \in Nat /\ At < AnswerSize
         /\ receiveBuffer[bytesProcessed] = Answer[At + 1]
<1>1. Base \in Nat /\ bytesProcessed < bytesInBuffer /\ bytesProcessed \in Nat
      /\ bytesInBuffer \in Int /\ Base + bytesInBuffer <= AnswerSize
  BY AnswerCells, SMT DEF Types, Progress, Base, Uncounted
<1>2. bytesProcessed \in 0..(bytesInBuffer - 1)
  BY <1>1
<1> QED
  BY <1>1, <1>2, AnswerCells DEF Contents, Holds, At

LEMMA FoundFirst ==
  ASSUME Types, NEW c, receiveBuffer[bytesProcessed] = c, bytesProcessed < bytesInBuffer,
         n' \in Found(c) \/ (Found(c) = {} /\ n' = None)
  PROVE  n' = bytesProcessed
<1>1. bytesProcessed \in Nat /\ bytesInBuffer \in Int
  BY DEF Types
<1>2. bytesProcessed \in Found(c)
  BY <1>1 DEF Found
<1>3. ASSUME NEW x \in Found(c) PROVE x = bytesProcessed
  <2>1. x \in Int /\ x >= bytesProcessed
        /\ \A y \in bytesProcessed..(x - 1) : receiveBuffer[y] # c
    BY <1>1 DEF Found
  <2> QED
    BY <1>1, <2>1
<1> QED
  BY <1>2, <1>3

(* The parser, where it leaves the cells alone.                            *)
LEMMA SeekInFrame ==
  ASSUME Types, InFrame, SyncState \/ StartFlagState
  PROVE  InFrame'
<1>1. PICK from, c, to :
         /\ Seek(from, c, to)
         /\ \/ from = "Sync" /\ c = SYNC /\ to = "StartFlag"
            \/ from = "StartFlag" /\ c = START_FLAG /\ to = "LengthModeAndType"
  BY DEF SyncState, StartFlagState
<1>2. /\ lpc = "parse" /\ lpc' = "seek" /\ state = from /\ next' = to
      /\ UNCHANGED <<mpc, asked, fault, heard, bytesProcessed, state, chunkLength>>
      /\ UnchangedBytes /\ Look
      /\ n' \in Found(c) \/ (Found(c) = {} /\ n' = None)
  BY <1>1 DEF Seek, Step, ghostVars
<1>3. Contents' /\ Base' = Base
  BY <1>2, ContentsKept DEF InFrame
<1>4. At \in Nat /\ At < AnswerSize /\ receiveBuffer[bytesProcessed] = Answer[At + 1]
  BY <1>2, CellAt DEF InFrame
<1>5. \/ At = 0 /\ c = SYNC /\ to = "StartFlag" /\ state = "Sync"
      \/ At = 1 /\ c = START_FLAG /\ to = "LengthModeAndType" /\ state = "StartFlag"
  BY <1>1, <1>2, <1>4 DEF InFrame, Progress, InState
<1>6. receiveBuffer[bytesProcessed] = c
  BY <1>4, <1>5, AnswerCells
<1>7. n' = bytesProcessed /\ bytesProcessed < bytesInBuffer
  BY <1>2, <1>6, FoundFirst DEF InFrame, Progress
<1>8. At' = At /\ bytesInBuffer' = bytesInBuffer /\ seen'.inBuffer = bytesInBuffer
  BY <1>2, <1>3 DEF At, UnchangedBytes, Look
<1>9. Progress'
  BY <1>2, <1>3, <1>5, <1>7, <1>8 DEF InFrame, Progress, InState
<1> QED
  BY <1>2, <1>3, <1>9 DEF InFrame

LEMMA SeekSucceedsInFrame ==
  ASSUME Types, InFrame, SeekSucceeds
  PROVE  InFrame'
<1>1. /\ lpc = "seek" /\ lpc' = "enter" /\ bytesProcessed' = n + 1
      /\ UNCHANGED <<mpc, asked, fault, heard, state, chunkLength, next>>
      /\ UnchangedBytes
  BY DEF SeekSucceeds, Step, ghostVars
<1>2. Contents' /\ Base' = Base
  BY <1>1, ContentsKept DEF InFrame
<1>3. /\ n = bytesProcessed /\ n < bytesInBuffer /\ bytesInBuffer' = bytesInBuffer
      /\ bytesProcessed \in Nat /\ bytesInBuffer \in Int /\ Base \in Int
      /\ \/ At = 0 /\ next = "StartFlag"
         \/ At = 1 /\ next = "LengthModeAndType"
  BY <1>1, AnswerCells DEF InFrame, Progress, Types, UnchangedBytes, Base, Uncounted
<1>4. At' = At + 1
  BY <1>1, <1>2, <1>3 DEF At
<1>5. Progress'
  BY <1>1, <1>2, <1>3, <1>4, AnswerCells DEF InFrame, Progress, InState
<1> QED
  BY <1>1, <1>2, <1>5 DEF InFrame

LEMMA SeekFailsInFrame ==
  ASSUME Types, InFrame, SeekFails
  PROVE  FALSE
BY DEF SeekFails, Step, InFrame, Progress, InSeen, Types

LEMMA AwaitInFrame ==
  ASSUME Types, InFrame, LengthModeAndTypeState \/ ResponseState
  PROVE  InFrame'
<1>1. PICK length, place :
         /\ Await(length, place) /\ lpc = "parse"
         /\ \/ /\ state = "LengthModeAndType" /\ At = 2
               /\ length = 2 /\ place = "descriptor"
            \/ /\ state = "SingleResponse" /\ At = 4
               /\ length = AnswerSize - 4 /\ place = "chunk"
  BY DEF LengthModeAndTypeState, ResponseState, Await, Step, InFrame, Progress, InState
<1>2. /\ lpc' # "own" /\ UNCHANGED <<mpc, asked, fault, heard, bytesProcessed, state, chunkLength>>
      /\ UnchangedBytes /\ bytesInBuffer' = bytesInBuffer
      /\ \/ bytesInBuffer - bytesProcessed < length /\ lpc' = "shift"
         \/ bytesInBuffer - bytesProcessed >= length /\ lpc' = place
            /\ seen'.done = bytesProcessed /\ next' = state
  BY <1>1 DEF Await, Step, ghostVars, Look, UnchangedBytes
<1>3. Contents' /\ Base' = Base
  BY <1>1, <1>2, ContentsKept DEF InFrame
<1>4. At' = At
  BY <1>2, <1>3 DEF At
<1>5. Progress'
  BY <1>1, <1>2, <1>3, <1>4 DEF InFrame, Progress, InState, Short
<1> QED
  BY <1>2, <1>3, <1>5 DEF InFrame

LEMMA EnterStateInFrame ==
  ASSUME Types, InFrame, EnterState
  PROVE  InFrame'
<1>1. /\ lpc = "enter" /\ lpc' = "test" /\ state' = next
      /\ UNCHANGED <<mpc, asked, fault, heard, bytesProcessed, chunkLength>>
      /\ UnchangedBytes /\ bytesInBuffer' = bytesInBuffer
  BY DEF EnterState, Step, ghostVars, UnchangedBytes
<1>2. Contents' /\ Base' = Base
  BY <1>1, ContentsKept DEF InFrame
<1>3. At' = At
  BY <1>1, <1>2 DEF At
<1>4. Progress'
  BY <1>1, <1>2, <1>3 DEF InFrame, Progress, InState
<1> QED
  BY <1>1, <1>2, <1>4 DEF InFrame

LEMMA LoopTestInFrame ==
  ASSUME Types, InFrame, LoopTest
  PROVE  InFrame'
<1>1. /\ lpc = "test"
      /\ lpc' = (IF bytesProcessed < bytesInBuffer THEN "parse" ELSE "shift")
      /\ UNCHANGED <<mpc, asked, fault, heard, bytesProcessed, state, chunkLength>>
      /\ UnchangedBytes /\ bytesInBuffer' = bytesInBuffer
  BY DEF LoopTest, Step, ghostVars, UnchangedBytes
<1>2. Contents' /\ Base' = Base
  BY <1>1, ContentsKept DEF InFrame
<1>3. At' = At
  BY <1>1, <1>2 DEF At
<1>4. bytesProcessed \in Nat /\ bytesInBuffer \in Int /\ bytesProcessed <= bytesInBuffer
  BY DEF Types, InFrame, Progress
<1>5. bytesProcessed >= bytesInBuffer => Short(At, bytesInBuffer - bytesProcessed)
  BY <1>4, AnswerCells DEF Short
<1>6. Progress'
  BY <1>1, <1>2, <1>3, <1>4, <1>5 DEF InFrame, Progress, InState, Short
<1> QED
  BY <1>1, <1>2, <1>6 DEF InFrame

(* The descriptor and the data of the answer.                              *)
LEMMA ReadDescriptorInFrame ==
  ASSUME Types, InFrame, ReadDescriptor
  PROVE  InFrame'
<1>1. PICK at \in DoneSeen :
         /\ chunkLength' = receiveBuffer[at]
         /\ \/ /\ receiveBuffer[at + 1] \in {0, 1}
               /\ Step("descriptor", "enter")
               /\ next' = IF receiveBuffer[at + 1] = 0 THEN "SingleResponse"
                                                       ELSE "MultiResponse"
               /\ \E from \in {at, bytesProcessed} : bytesProcessed' = from + DescriptorSize
            \/ receiveBuffer[at + 1] \notin {0, 1} /\ Step("descriptor", "own")
         /\ UnchangedBytes /\ UNCHANGED <<heard, state>>
  BY DEF ReadDescriptor
<1>2. lpc = "descriptor" /\ UNCHANGED <<mpc, asked, fault>>
  BY <1>1 DEF Step, ghostVars
<1>3. /\ at = bytesProcessed /\ At = 2 /\ bytesInBuffer - bytesProcessed >= 2
      /\ bytesProcessed \in Nat /\ bytesInBuffer \in Int /\ Base \in Nat
  BY <1>2, AnswerCells DEF InFrame, Progress, DoneSeen, Types, Base, Uncounted
<1>4. /\ bytesProcessed \in 0..(bytesInBuffer - 1) /\ bytesProcessed + 1 \in 0..(bytesInBuffer - 1)
      /\ Base + bytesProcessed + 1 = 3 /\ Base + (bytesProcessed + 1) + 1 = 4
  BY <1>3 DEF At
<1>5. receiveBuffer[at] = AnswerSize - 4 /\ receiveBuffer[at + 1] = 0
  BY <1>2, <1>3, <1>4, AnswerCells DEF InFrame, Contents, Holds
<1>6. /\ lpc' = "enter" /\ next' = "SingleResponse" /\ chunkLength' = AnswerSize - 4
      /\ bytesProcessed' = bytesProcessed + 2 /\ bytesInBuffer' = bytesInBuffer
  BY <1>1, <1>3, <1>5 DEF Step, UnchangedBytes
<1>7. Contents' /\ Base' = Base
  BY <1>1, <1>2, <1>6, ContentsKept DEF InFrame
<1>8. At' = 4
  BY <1>3, <1>6, <1>7 DEF At
<1>9. Progress'
  BY <1>1, <1>2, <1>3, <1>6, <1>7, <1>8, AnswerCells DEF InFrame, Progress, InState
<1> QED
  BY <1>2, <1>6, <1>7, <1>9 DEF InFrame

LEMMA TakeChunkInFrame ==
  ASSUME Types, InFrame, TakeChunk
  PROVE  InFrame'
<1>1. PICK at \in DoneSeen :
         /\ heard' = Heard(at)
         /\ \E from \in {at, bytesProcessed} : bytesProcessed' = from + chunkLength
         /\ \/ next = "SingleResponse" /\ Step("chunk", "enter") /\ next' = "Sync"
            \/ next = "MultiResponse" /\ (Step("chunk", "test") \/ Step("chunk", "own"))
         /\ UnchangedBytes /\ UNCHANGED <<state, chunkLength>>
  BY DEF TakeChunk
<1>2. lpc = "chunk" /\ UNCHANGED <<mpc, asked, fault>>
  BY <1>1 DEF Step, ghostVars
<1>3. /\ at = bytesProcessed /\ At = 4 /\ bytesInBuffer - bytesProcessed >= AnswerSize - 4
      /\ bytesProcessed \in Nat /\ bytesInBuffer \in Int /\ Base \in Nat
      /\ next = "SingleResponse" /\ chunkLength = AnswerSize - 4
  BY <1>2, AnswerCells DEF InFrame, Progress, InState, DoneSeen, Types, Base, Uncounted
<1>4. /\ lpc' = "enter" /\ next' = "Sync"
      /\ bytesProcessed' = bytesProcessed + (AnswerSize - 4) /\ bytesInBuffer' = bytesInBuffer
  BY <1>1, <1>3 DEF Step, UnchangedBytes
<1>5. Contents' /\ Base' = Base
  BY <1>1, <1>2, <1>4, ContentsKept DEF InFrame
<1>6. ASSUME NEW i \in 1..(AnswerSize - 4)
      PROVE  receiveBuffer[at + i - 1] = AnswerData[i]
  <2>1. at + i - 1 \in 0..(bytesInBuffer - 1) /\ Base + (at + i - 1) + 1 = 4 + i
    BY <1>3, AnswerCells DEF At
  <2>2. receiveBuffer[at + i - 1] = Answer[Base + (at + i - 1) + 1]
    BY <1>2, <2>1 DEF InFrame, Contents, Holds
  <2> QED
    BY <2>1, <2>2, AnswerCells
<1>7. Chunk(at) = AnswerData
  <2>1. Chunk(at) = [i \in 1..(AnswerSize - 4) |-> AnswerData[i]]
    BY <1>3, <1>6, Zenon DEF Chunk
  <2>2. AnswerData = [i \in 1..(AnswerSize - 4) |-> AnswerData[i]]
    BY AnswerCells, FramesAssumption
  <2> QED
    BY <2>1, <2>2
<1>8. heard' = "answer"
  BY <1>1, <1>7 DEF Heard
<1>9. At' = AnswerSize
  BY <1>3, <1>4, <1>5, AnswerCells DEF At
<1>10. Progress'
  BY <1>1, <1>2, <1>3, <1>4, <1>5, <1>8, <1>9, AnswerCells DEF InFrame, Progress, InState
<1> QED
  BY <1>2, <1>4, <1>5, <1>10 DEF InFrame

(* The reads of handleDataReady: what is taken off the wire is put in the  *)
(* array behind what is there, and all of it fits.                         *)
LEMMA TakenAndLeft ==
  ASSUME NEW s \in Seq(Nat), NEW k \in Nat, NEW m \in Nat,
         m = (IF k <= Len(s) THEN k ELSE Len(s))
  PROVE  /\ Len(SubSeq(s, 1, m)) = m
         /\ \A i \in 1..m : SubSeq(s, 1, m)[i] = s[i]
         /\ Len(SubSeq(s, k + 1, Len(s))) = Len(s) - m
         /\ \A i \in 1..(Len(s) - m) : SubSeq(s, k + 1, Len(s))[i] = s[m + i]
<1>1. Len(s) \in Nat /\ m <= Len(s) /\ m <= k
  OBVIOUS
<1>2. Len(SubSeq(s, 1, m)) = m /\ \A i \in 1..m : SubSeq(s, 1, m)[i] = s[i]
  BY <1>1
<1>3. CASE k <= Len(s)
  <2>1. m = k
    BY <1>3
  <2> QED
    BY <1>1, <1>2, <1>3, <2>1
<1>4. CASE k > Len(s)
  <2>1. m = Len(s) /\ SubSeq(s, k + 1, Len(s)) = <<>>
    BY <1>1, <1>4
  <2>2. Len(SubSeq(s, k + 1, Len(s))) = 0
    BY <2>1
  <2> QED
    <3>1. Len(s) - m = 0 /\ 1..0 = {}
      BY <1>1, <2>1
    <3> QED
      BY <1>2, <2>2, <3>1
<1>5. k <= Len(s) \/ k > Len(s)
  BY <1>1
<1> QED
  BY <1>3, <1>4, <1>5, Zenon

LEMMA HandleDataReadyInFrame ==
  ASSUME Types, InFrame, NEW k \in ReadSizes, HandleDataReady(k)
  PROVE  InFrame'
<1> DEFINE m == IF k <= Len(wire) THEN k ELSE Len(wire)
<1>1. /\ k \in Nat /\ k > 0 /\ Len(wire) \in Nat /\ Len(wire) > 0 /\ wire \in Seq(Nat)
      /\ bytesInBuffer \in Int /\ bytesProcessed \in Nat /\ AnswerSize \in Nat
  <2>1. wire # <<>> /\ wire \in Seq(Nat)
    BY DEF HandleDataReady, Types
  <2>2. Len(wire) \in Nat /\ Len(wire) > 0
    BY <2>1
  <2> QED
    BY <2>1, <2>2, WireAssumption, AnswerCells DEF Types
<1>2. /\ lpc = "idle" /\ lpc' = "copy" /\ Look
      /\ UNCHANGED <<mpc, asked, fault, heard, receiveBuffer, bytesInBuffer, bytesProcessed,
                     state, chunkLength>>
      /\ data' = SubSeq(wire, 1, Lesser(Lesser(k, Len(wire)), BufferSize - bytesInBuffer))
      /\ wire' = SubSeq(wire, k + 1, Len(wire))
  BY DEF HandleDataReady, Step, ghostVars, countVars
<1>3. m \in Nat /\ m > 0 /\ m <= Len(wire) /\ m <= k
  BY <1>1
<1>4. /\ Base = AnswerSize - Len(wire) - bytesInBuffer /\ Base \in Nat
      /\ bytesProcessed = 0 /\ bytesInBuffer >= 0
  BY <1>1, <1>2 DEF InFrame, Progress, Base, Uncounted
<1>5. Lesser(Lesser(k, Len(wire)), BufferSize - bytesInBuffer) = m
  BY <1>1, <1>3, <1>4, AnswerCells, AnswerAssumption, SizeAssumption DEF Lesser, AnswerSize
<1> HIDE DEF m
<1>6. data' = SubSeq(wire, 1, m)
  BY <1>2, <1>5
<1>7. /\ Len(data') = m /\ Len(wire') = Len(wire) - m
      /\ \A i \in 1..m : data'[i] = wire[i]
      /\ \A i \in 1..(Len(wire) - m) : wire'[i] = wire[m + i]
  <2>1. m = (IF k <= Len(wire) THEN k ELSE Len(wire))
    BY DEF m
  <2>2. /\ Len(SubSeq(wire, 1, m)) = m
        /\ \A i \in 1..m : SubSeq(wire, 1, m)[i] = wire[i]
        /\ Len(SubSeq(wire, k + 1, Len(wire))) = Len(wire) - m
        /\ \A i \in 1..(Len(wire) - m) :
             SubSeq(wire, k + 1, Len(wire))[i] = wire[m + i]
    BY <1>1, <1>3, <2>1, TakenAndLeft
  <2> QED
    BY <1>2, <1>6, <2>2, Zenon
<1>8. Base' = Base /\ At' = At
  <2>1. Uncounted' = m /\ bytesInBuffer' = bytesInBuffer /\ bytesProcessed' = bytesProcessed
    BY <1>2, <1>7 DEF Uncounted
  <2>2. Base' = AnswerSize - (Len(wire) - m) - m - bytesInBuffer
    BY <1>7, <2>1 DEF Base, AnswerSize
  <2>3. Base' = Base
    BY <1>1, <1>3, <1>4, <2>2
  <2> QED
    BY <2>1, <2>3 DEF At
<1>9. Progress'
  BY <1>2, <1>3, <1>4, <1>7, <1>8 DEF InFrame, Progress, InState, Look
<1>10. \A i \in 1..Len(wire) : wire[i] = Answer[AnswerSize - Len(wire) + i]
  BY DEF InFrame, Contents
<1>11. \A i \in 1..Len(wire') : wire'[i] = Answer[AnswerSize - Len(wire') + i]
  <2> TAKE i \in 1..Len(wire')
  <2>1. /\ wire'[i] = wire[m + i] /\ m + i \in 1..Len(wire)
        /\ AnswerSize - Len(wire) + (m + i) = AnswerSize - Len(wire') + i
    BY <1>1, <1>3, <1>7
  <2> QED
    BY <2>1, <1>10
<1>12. \A i \in 1..Len(data') : data'[i] = Answer[Base + bytesInBuffer + i]
  <2> TAKE i \in 1..Len(data')
  <2>1. /\ data'[i] = wire[i] /\ i \in 1..Len(wire)
        /\ AnswerSize - Len(wire) + i = Base + bytesInBuffer + i
    BY <1>1, <1>3, <1>4, <1>7
  <2> QED
    BY <2>1, <1>10
<1>13. Holds(bytesInBuffer, Base)
  BY <1>2 DEF InFrame, Contents
<1>14. Holds(bytesInBuffer, Base)'
  BY <1>2, <1>8, <1>13 DEF Holds
<1>15. Contents'
  BY <1>2, <1>8, <1>11, <1>12, <1>14 DEF Contents
<1> QED
  BY <1>2, <1>9, <1>15 DEF InFrame

LEMMA CopyDataInFrame ==
  ASSUME Types, InFrame, CopyData
  PROVE  InFrame'
<1>1. PICK at \in InSeen :
        /\ InArray(at, Len(data)) /\ Used(at)
        /\ receiveBuffer' = [i \in Cells |-> IF i \in at..(at + Len(data) - 1)
                                             THEN data[i - at + 1] ELSE receiveBuffer[i]]
  BY DEF CopyData
<1>2. /\ lpc = "copy" /\ lpc' = "count"
      /\ UNCHANGED <<mpc, asked, fault, wire, heard, bytesInBuffer, bytesProcessed,
                     state, chunkLength, data>>
  BY DEF CopyData, Step, ghostVars, countVars
<1>3. /\ at = bytesInBuffer /\ bytesProcessed = 0 /\ Len(data) \in Nat /\ Len(data) > 0
      /\ bytesInBuffer \in Nat /\ Base \in Nat /\ seen' = [seen EXCEPT !.inBuffer = at]
      /\ seen \in [inBuffer : Int, done : Nat]
      /\ bytesInBuffer + Len(data) <= BufferSize
  <2>1. /\ at = bytesInBuffer /\ bytesProcessed = 0 /\ Len(data) > 0
        /\ Base >= 0 /\ bytesProcessed <= bytesInBuffer
    BY <1>1, <1>2 DEF InFrame, Progress, InSeen
  <2>2. /\ Len(data) \in Nat /\ Len(wire) \in Nat /\ bytesInBuffer \in Int
        /\ seen \in [inBuffer : Int, done : Nat]
    BY DEF Types
  <2>3. Base \in Int
    BY <2>2, AnswerCells DEF Base, Uncounted
  <2>4. bytesInBuffer + Len(data) <= BufferSize
    BY <1>1, <2>1, <2>2 DEF InArray
  <2> QED
    BY <1>1, <2>1, <2>2, <2>3, <2>4 DEF Used
<1>4. Base' = Base /\ At' = At /\ seen'.inBuffer = bytesInBuffer
  BY <1>2, <1>3 DEF Base, Uncounted, At
<1>5. Progress'
  BY <1>2, <1>3, <1>4 DEF InFrame, Progress, InState
<1>6. /\ Holds(bytesInBuffer, Base)
      /\ \A i \in 1..Len(data) : data[i] = Answer[Base + bytesInBuffer + i]
  BY <1>2 DEF InFrame, Contents
<1>7. ASSUME NEW i \in 0..(bytesInBuffer + Len(data) - 1)
      PROVE  receiveBuffer'[i] = Answer[Base + i + 1]
  <2>1. i \in Cells
    BY <1>3, SizeAssumption DEF Cells
  <2>2. CASE i < bytesInBuffer
    <3>1. i \in 0..(bytesInBuffer - 1) /\ i \notin at..(at + Len(data) - 1)
      BY <1>3, <2>2
    <3> QED
      BY <1>1, <1>6, <2>1, <3>1 DEF Holds
  <2>3. CASE i >= bytesInBuffer
    <3>1. /\ i \in at..(at + Len(data) - 1) /\ i - at + 1 \in 1..Len(data)
          /\ Base + bytesInBuffer + (i - at + 1) = Base + i + 1
      BY <1>3, <2>3
    <3>2. receiveBuffer'[i] = data[i - at + 1]
      BY <1>1, <2>1, <3>1
    <3> QED
      BY <1>6, <3>1, <3>2
  <2> QED
    BY <1>3, <2>2, <2>3
<1>8. Holds(bytesInBuffer, Base)' /\ Holds(bytesInBuffer + Len(data), Base)'
  BY <1>2, <1>3, <1>4, <1>7 DEF Holds
<1>9. Contents'
  BY <1>2, <1>4, <1>6, <1>8 DEF InFrame, Contents
<1> QED
  BY <1>2, <1>5, <1>9 DEF InFrame

LEMMA CountDataInFrame ==
  ASSUME Types, InFrame, CountData
  PROVE  InFrame'
<1>1. /\ lpc = "count" /\ lpc' = "parse"
      /\ UNCHANGED <<mpc, asked, fault, wire, heard, receiveBuffer, bytesProcessed,
                     state, chunkLength>>
  BY DEF CountData, Step, ghostVars
<1>2. /\ bytesInBuffer' = bytesInBuffer + Len(data) /\ bytesProcessed = 0
      /\ Len(data) \in Nat /\ Len(data) > 0 /\ Len(wire) \in Nat
      /\ bytesInBuffer \in Nat /\ Base \in Nat
      /\ Base = AnswerSize - Len(wire) - Len(data) - bytesInBuffer
  <2>1. /\ bytesInBuffer' = bytesInBuffer + Len(data) /\ bytesProcessed = 0
        /\ Len(data) > 0 /\ Base >= 0 /\ bytesProcessed <= bytesInBuffer
    BY <1>1 DEF CountData, InFrame, Progress, InSeen
  <2>2. Len(data) \in Nat /\ Len(wire) \in Nat /\ bytesInBuffer \in Int
    BY DEF Types
  <2>3. Base = AnswerSize - Len(wire) - Len(data) - bytesInBuffer
    BY <1>1 DEF Base, Uncounted
  <2> QED
    BY <2>1, <2>2, <2>3, AnswerCells
<1>3. Base' = Base /\ At' = At
  BY <1>1, <1>2, AnswerCells DEF Base, Uncounted, At
<1>4. Progress'
  BY <1>1, <1>2, <1>3 DEF InFrame, Progress, InState
<1>5. Holds(bytesInBuffer + Len(data), Base)
  BY <1>1 DEF InFrame, Contents
<1>6. Contents'
  BY <1>1, <1>2, <1>3, <1>5 DEF InFrame, Contents, Holds
<1> QED
  BY <1>1, <1>4, <1>6 DEF InFrame

(* The removal.                                                            *)
LEMMA MeasureShiftInFrame ==
  ASSUME Types, InFrame, MeasureShift
  PROVE  InFrame'
<1>1. /\ lpc = "shift" /\ UnchangedBytes /\ bytesInBuffer' = bytesInBuffer
      /\ UNCHANGED <<mpc, asked, fault, heard, bytesProcessed, state, chunkLength>>
      /\ \/ bytesProcessed <= 0 /\ lpc' = "idle"
         \/ /\ bytesProcessed > 0 /\ lpc' = "move" /\ Look
            /\ n' = Lesser(bytesProcessed, bytesInBuffer)
  BY DEF MeasureShift, Step, ghostVars, UnchangedBytes
<1>2. Contents' /\ Base' = Base
  BY <1>1, ContentsKept DEF InFrame
<1>3. /\ bytesProcessed \in Nat /\ bytesInBuffer \in Int /\ bytesProcessed <= bytesInBuffer
      /\ Lesser(bytesProcessed, bytesInBuffer) = bytesProcessed
  BY <1>1 DEF InFrame, Progress, Types, Lesser
<1>4. At' = At
  BY <1>1, <1>2 DEF At
<1>5. Progress'
  BY <1>1, <1>2, <1>3, <1>4 DEF InFrame, Progress, InState, Short, Look
<1> QED
  BY <1>1, <1>2, <1>5 DEF InFrame

LEMMA MoveBytesInFrame ==
  ASSUME Types, InFrame, MoveBytes
  PROVE  InFrame'
<1>1. PICK b \in InSeen :
        /\ InArray(n, b - n) /\ Used(b)
        /\ receiveBuffer' = [i \in Cells |-> IF i < b - n THEN receiveBuffer[i + n]
                                             ELSE receiveBuffer[i]]
  BY DEF MoveBytes
<1>2. /\ lpc = "move" /\ lpc' = "removed"
      /\ UNCHANGED <<mpc, asked, fault, wire, heard, bytesInBuffer, bytesProcessed,
                     state, chunkLength, n>>
  BY DEF MoveBytes, Step, ghostVars, countVars
<1>3. /\ b = bytesInBuffer /\ n = bytesProcessed /\ n \in Nat /\ n > 0
      /\ bytesInBuffer \in Nat /\ n <= bytesInBuffer /\ Base \in Nat
      /\ seen' = [seen EXCEPT !.inBuffer = b] /\ seen \in [inBuffer : Int, done : Nat]
      /\ Short(At, bytesInBuffer - bytesProcessed)
  <2>1. /\ b = bytesInBuffer /\ n = bytesProcessed /\ n > 0
        /\ Base >= 0 /\ bytesProcessed <= bytesInBuffer
        /\ Short(At, bytesInBuffer - bytesProcessed)
    BY <1>1, <1>2 DEF InFrame, Progress, InSeen
  <2>2. /\ Len(wire) \in Nat /\ bytesInBuffer \in Int /\ bytesProcessed \in Nat
        /\ seen \in [inBuffer : Int, done : Nat]
    BY DEF Types
  <2>3. Base = AnswerSize - Len(wire) - bytesInBuffer
    BY <1>2, <2>2, AnswerCells DEF Base, Uncounted
  <2>4. seen' = [seen EXCEPT !.inBuffer = b]
    BY <1>1 DEF Used
  <2>5. AnswerSize \in Nat
    BY AnswerCells
  <2>6. Base \in Nat /\ n \in Nat /\ bytesInBuffer \in Nat
    BY <2>1, <2>2, <2>3, <2>5
  <2> QED
    BY <2>1, <2>2, <2>4, <2>6
<1>4. Base' = Base /\ At' = At /\ seen'.inBuffer = bytesInBuffer
  BY <1>2, <1>3 DEF Base, Uncounted, At
<1>5. Progress'
  BY <1>2, <1>3, <1>4 DEF InFrame, Progress, InState, Short
<1>6. Holds(bytesInBuffer, Base) /\ bytesInBuffer <= BufferSize
  <2>1. Holds(bytesInBuffer, Base)
    BY <1>2 DEF InFrame, Contents
  <2>2. /\ Base = AnswerSize - Len(wire) - 0 - bytesInBuffer /\ Len(wire) \in Nat
        /\ AnswerSize \in Nat /\ AnswerSize <= BufferSize /\ BufferSize \in Nat
    <3>1. AnswerSize \in Nat /\ AnswerSize <= BufferSize /\ BufferSize \in Nat
      BY AnswerCells, AnswerAssumption, SizeAssumption DEF AnswerSize
    <3>2. Base = AnswerSize - Len(wire) - 0 - bytesInBuffer /\ Len(wire) \in Nat
      BY <1>2 DEF Base, Uncounted, Types
    <3> QED
      BY <3>1, <3>2
  <2> QED
    BY <1>3, <2>1, <2>2
<1>7. ASSUME NEW i \in 0..(bytesInBuffer - n - 1)
      PROVE  receiveBuffer'[i] = Answer[At + i + 1]
  <2>1. /\ i \in Cells /\ i < b - n /\ i + n \in 0..(bytesInBuffer - 1)
        /\ Base + (i + n) + 1 = At + i + 1
    BY <1>3, <1>6, SizeAssumption DEF Cells, At
  <2>2. receiveBuffer'[i] = receiveBuffer[i + n]
    BY <1>1, <2>1
  <2> QED
    BY <1>6, <2>1, <2>2 DEF Holds
<1>8. Holds(bytesInBuffer - n, At)'
  BY <1>2, <1>3, <1>4, <1>7 DEF Holds
<1>9. Contents'
  BY <1>2, <1>8 DEF InFrame, Contents
<1> QED
  BY <1>2, <1>5, <1>9 DEF InFrame

LEMMA CountRemovedInFrame ==
  ASSUME Types, InFrame, CountRemoved
  PROVE  InFrame'
<1>1. /\ lpc = "removed" /\ lpc' = "idle" /\ bytesProcessed' = 0
      /\ UNCHANGED <<mpc, asked, fault, wire, heard, receiveBuffer, state, chunkLength>>
  BY DEF CountRemoved, Step, ghostVars
<1>2. /\ bytesInBuffer' = bytesInBuffer - n /\ n = bytesProcessed /\ n \in Nat
      /\ bytesInBuffer \in Nat /\ n <= bytesInBuffer /\ Base \in Nat /\ Len(wire) \in Nat
      /\ Short(At, bytesInBuffer - bytesProcessed)
  BY <1>1, AnswerCells, SMT DEF CountRemoved, Types, InFrame, Progress, InSeen, Base, Uncounted
<1>3. Base' = At /\ At' = At /\ At \in Nat
  BY <1>1, <1>2, AnswerCells DEF Base, Uncounted, At
<1>4. Progress'
  BY <1>1, <1>2, <1>3 DEF InFrame, Progress, InState, Short
<1>5. Holds(bytesInBuffer - n, At)
  BY <1>1 DEF InFrame, Contents
<1>6. Contents'
  BY <1>1, <1>2, <1>3, <1>5 DEF InFrame, Contents, Holds
<1> QED
  BY <1>1, <1>4, <1>6 DEF InFrame

(* The steps that cannot be taken within the answer.                       *)
LEMMA NothingOutsideInFrame ==
  ASSUME Types, InFrame
  PROVE  ~OwnReset /\ ~OutOfArray
<1>1. ~OwnReset
  BY DEF OwnReset, Step, InFrame
<1>2. /\ Len(wire) \in Nat /\ Len(data) \in Nat /\ bytesInBuffer \in Int
      /\ bytesProcessed \in Nat /\ AnswerSize \in Nat /\ AnswerSize > 4
      /\ AnswerSize <= BufferSize /\ BufferSize \in Nat
      /\ Base >= 0 /\ Base = AnswerSize - Len(wire) - Uncounted - bytesInBuffer
      /\ bytesProcessed <= bytesInBuffer
  BY AnswerCells, AnswerAssumption, SizeAssumption
  DEF Types, InFrame, Progress, Base, AnswerSize
<1>3. CASE lpc = "copy"
  <2>1. InSeen = {bytesInBuffer} /\ bytesProcessed = 0
    BY <1>3 DEF InFrame, Progress, InSeen
  <2>2. InArray(bytesInBuffer, Len(data))
    BY <1>2, <1>3, <2>1 DEF InArray, Uncounted
  <2> QED
    BY <1>1, <1>3, <2>1, <2>2 DEF OutOfArray
<1>4. CASE lpc \in {"descriptor", "chunk"}
  <2>1. /\ DoneSeen = {bytesProcessed} /\ bytesInBuffer <= BufferSize
        /\ lpc = "descriptor" => bytesInBuffer - bytesProcessed >= 2
        /\ lpc = "chunk" => /\ bytesInBuffer - bytesProcessed >= AnswerSize - 4
                            /\ chunkLength = AnswerSize - 4
    BY <1>2, <1>4 DEF InFrame, Progress, InState, DoneSeen, Uncounted
  <2>2. /\ lpc = "descriptor" => InArray(bytesProcessed, DescriptorSize)
        /\ lpc = "chunk" => InArray(bytesProcessed, chunkLength)
    BY <1>2, <2>1 DEF InArray
  <2> QED
    BY <1>1, <1>4, <2>1, <2>2 DEF OutOfArray
<1>5. CASE lpc = "move"
  <2>1. InSeen = {bytesInBuffer} /\ n = bytesProcessed
    BY <1>5 DEF InFrame, Progress, InSeen
  <2>2. InArray(n, bytesInBuffer - n)
    BY <1>2, <1>5, <2>1 DEF InArray, Uncounted
  <2> QED
    BY <1>1, <1>5, <2>1, <2>2 DEF OutOfArray
<1> QED
  BY <1>1, <1>3, <1>4, <1>5 DEF OutOfArray

LEMMA LidarThreadInFrame ==
  ASSUME Types, InFrame, LidarThread
  PROVE  InFrame'
<1>1. CASE DataArrives
  BY <1>1, HandleDataReadyInFrame DEF DataArrives
<1>2. CASE CopyData \/ CountData
  BY <1>2, CopyDataInFrame, CountDataInFrame
<1>3. CASE Parse
  BY <1>3, SeekInFrame, SeekSucceedsInFrame, SeekFailsInFrame, AwaitInFrame,
     ReadDescriptorInFrame, TakeChunkInFrame, EnterStateInFrame, LoopTestInFrame,
     NothingOutsideInFrame DEF Parse
<1>4. CASE Remove
  BY <1>4, MeasureShiftInFrame, MoveBytesInFrame, CountRemovedInFrame DEF Remove
<1> QED
  BY <1>1, <1>2, <1>3, <1>4 DEF LidarThread

(* From the reset to the answer.                                           *)
LEMMA OnlyOutsideInFrame ==
  ASSUME InFrame, Reset
  PROVE  ZeroProcessed
BY DEF InFrame, Reset, ZeroInBuffer, Clear, StartSyncIndex, StartSyncState, SendCommand,
       Statement

LEMMA ResetBegins ==
  ASSUME IdleSound, ZeroProcessed
  PROVE  quiet' => Clean'
BY DEF IdleSound, ZeroProcessed, Statement, Clean

LEMMA ResetGoesOn ==
  ASSUME Clean, Reset, ~ZeroProcessed
  PROVE  Clean'
BY DEF Reset, ZeroInBuffer, Clear, StartSyncIndex, StartSyncState, SendCommand,
       Statement, Clean, countVars, ghostVars

LEMMA NothingWhileClean == Clean => ~LidarThread /\ ~Fault
BY DEF Clean, LidarThread, Parse, Remove, DataArrives, HandleDataReady, CopyData, CountData,
       SyncState, StartFlagState, Seek, SeekSucceeds, SeekFails, LengthModeAndTypeState,
       ResponseState, Await, ReadDescriptor, TakeChunk, EnterState, OwnReset, LoopTest,
       MeasureShift, MoveBytes, CountRemoved, Step, Fault, OutOfArray

LEMMA AnswerBegins ==
  ASSUME Types, Clean, Reply, quiet'
  PROVE  InFrame'
<1>1. /\ mpc' = "out" /\ mpc = "out" /\ asked' = FALSE /\ fault' = fault /\ heard' = heard
      /\ bytesInBuffer' = bytesInBuffer /\ bytesProcessed' = bytesProcessed
      /\ state' = state /\ lpc' = lpc /\ wire' = wire \o Answer
  BY DEF Reply, countVars
<1>2. /\ lpc = "idle" /\ wire = <<>> /\ heard = "nothing" /\ ~fault
      /\ bytesProcessed = 0 /\ bytesInBuffer = 0 /\ state = "Sync"
  BY <1>1 DEF Clean
<1>3. wire' = Answer
  BY <1>1, <1>2, FramesAssumption
<1>4. Base' = 0 /\ At' = 0
  <2>1. Uncounted' = 0 /\ Len(wire') = AnswerSize
    BY <1>1, <1>2, <1>3 DEF Uncounted, AnswerSize
  <2>2. AnswerSize' = AnswerSize
    BY DEF AnswerSize
  <2>3. Base' = AnswerSize - AnswerSize - 0 - 0
    BY <1>1, <1>2, <2>1, <2>2 DEF Base
  <2> QED
    BY <1>1, <1>2, <2>3, AnswerCells DEF At
<1>5. Progress'
  BY <1>1, <1>2, <1>4, AnswerCells DEF Progress, InState, Short
<1>6. Contents'
  BY <1>1, <1>2, <1>3, <1>4, AnswerCells DEF Contents, Holds, AnswerSize
<1> QED
  BY <1>1, <1>2, <1>5, <1>6 DEF InFrame

LEMMA AnsweredKept ==
  ASSUME IInv, Answered, [Next]_vars
  PROVE  Answered'
<1>0. Types /\ IdleSound
  BY DEF IInv
<1>1. CASE LidarThread
  <2>1. quiet' = quiet
    BY <1>1 DEF LidarThread, Parse, Remove, DataArrives, HandleDataReady, CopyData, CountData,
       SyncState, StartFlagState, Seek, SeekSucceeds, SeekFails, LengthModeAndTypeState,
       ResponseState, Await, ReadDescriptor, TakeChunk, EnterState, OwnReset, LoopTest,
       MeasureShift, MoveBytes, CountRemoved, Step, ghostVars
  <2> QED
    BY <1>0, <1>1, <2>1, LidarThreadInFrame, NothingWhileClean DEF Answered
<1>2. CASE Fault
  <2>1. quiet' = quiet /\ OutOfArray
    BY <1>2 DEF Fault, ghostVars
  <2> QED
    BY <1>0, <1>2, <2>1, NothingOutsideInFrame, NothingWhileClean DEF Answered
<1>3. CASE ZeroProcessed
  BY <1>0, <1>3, ResetBegins DEF Answered
<1>4. CASE Reset /\ ~ZeroProcessed
  <2>1. quiet' = quiet
    BY <1>4 DEF Reset, ZeroInBuffer, Clear, StartSyncIndex, StartSyncState, SendCommand,
                ghostVars
  <2> QED
    BY <1>4, <2>1, OnlyOutsideInFrame, ResetGoesOn DEF Answered
<1>5. CASE Reply
  <2>1. quiet' => quiet
    BY <1>5 DEF Reply
  <2>2. ~InFrame
    BY <1>5 DEF Reply, InFrame
  <2> QED
    BY <1>0, <1>5, <2>1, <2>2, AnswerBegins DEF Answered
<1>6. CASE UNCHANGED vars
  BY <1>6 DEF vars, ghostVars, countVars, localVars, Answered, Clean, InFrame, Progress,
              Contents, Holds, At, Base, Uncounted, InState, Short
<1> QED
  BY <1>1, <1>2, <1>3, <1>4, <1>5, <1>6 DEF Next

LEMMA AlwaysAnswered == Spec => [](IInv /\ Answered)
<1>1. Init => Answered
  BY DEF Init, Answered
<1>2. IInv /\ Answered /\ [Next]_vars => Answered'
  BY AnsweredKept
<1> QED
  BY <1>1, <1>2, AlwaysIInv, PTL DEF Spec

(* A reset that met an idle Lidar thread and nothing under way leaves      *)
(* nothing of earlier streams behind: no read boundary and no reading of a *)
(* counter makes the parser hand on anything but the answer that follows   *)
(* (lidar.cpp:302-307 against 124-216), for every answer that fits.        *)
THEOREM OnlyAnswerAlwaysHeard == Spec => []OnlyAnswerHeard
<1>1. Answered => OnlyAnswerHeard
  BY DEF Answered, OnlyAnswerHeard, Clean, InFrame, Progress
<1> QED
  BY <1>1, AlwaysAnswered, PTL

(* Once that answer has been read and the parser has returned, it has been *)
(* handed on: cut into whatever reads, none of it is dropped or left       *)
(* behind (lidar.cpp:77, 124-216).                                         *)
THEOREM QuietResetAlwaysAnswered == Spec => []QuietResetAnswered
<1>1. ASSUME IInv, Answered, quiet, mpc = "out", ~asked, wire = <<>>, lpc = "idle"
      PROVE  heard = "answer"
  <2>1. InFrame
    BY <1>1 DEF Answered, Clean
  <2>2. /\ Base = AnswerSize - bytesInBuffer /\ bytesProcessed = 0
        /\ bytesInBuffer \in Int /\ At = Base /\ Base >= 0 /\ bytesInBuffer >= 0
    BY <1>1, <2>1, AnswerCells DEF IInv, Types, InFrame, Progress, Base, Uncounted, At
  <2>3. Short(At, bytesInBuffer) /\ InState(state, At)
    BY <1>1, <2>1 DEF InFrame, Progress
  <2>4. At = AnswerSize
    BY <2>2, <2>3, AnswerCells DEF Short, InState
  <2> QED
    BY <2>1, <2>4 DEF InFrame, Progress
<1>2. IInv /\ Answered => QuietResetAnswered
  BY <1>1 DEF QuietResetAnswered
<1> QED
  BY <1>2, AlwaysAnswered, PTL
====
