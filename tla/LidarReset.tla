---- MODULE LidarReset ----
(***************************************************************************)
(* reset() of class Lidar (lidar.cpp), called by the Monitor thread without*)
(* _recvBufferLock, against the Lidar thread, at the grain of the          *)
(* statements that read or write what the threads share: the array, its    *)
(* two counters and the state.  LidarFramer, which is coarser, has the     *)
(* bytes of the protocol; here a cell stands for one or more bytes of a    *)
(* frame, and a descriptor is two: length and mode (the type is known).    *)
(*                                                                         *)
(* Nothing orders the accesses of the two threads, so a counter read in an *)
(* earlier statement may be read again or be kept in a register (the build *)
(* may do either): seen holds the values read, InSeen and DoneSeen are     *)
(* what a later statement may use; Forget drops what none uses.  The copies*)
(* and the memset are one step each.  An access outside of the array, or a *)
(* memmove of a negative length, is a fault, after which the Lidar thread  *)
(* does nothing more.                                                      *)
(*                                                                         *)
(* Not in the code: wire (what the device has sent and is not read yet),   *)
(* asked (it has a command to answer), heard (what was handed on since the *)
(* last reset began), fault, quiet (that reset met an idle Lidar thread    *)
(* and nothing under way) and struck (a reset set the count to 0 in the    *)
(* middle of a removal, and none did since with the Lidar thread idle).    *)
(***************************************************************************)
EXTENDS Integers, Sequences

CONSTANTS BufferSize,   \* sizeof(_receiveBuffer)
          Scans,        \* what a scanning device may be sending, in cells
          Answer,       \* the frame that answers GetDeviceInfo
          AnswerData,   \* the chunk in it
          ReadSizes,    \* how many cells a dataReady signal may bring at most
          MaxWire       \* bound on the cells under way

ASSUME SizeAssumption == BufferSize \in Nat \ {0}
ASSUME FramesAssumption == Scans \subseteq Seq(Nat) /\ Answer \in Seq(Nat)
                             /\ AnswerData \in Seq(Nat)
ASSUME WireAssumption == MaxWire \in Nat /\ ReadSizes \subseteq Nat \ {0}

SYNC == 165
START_FLAG == 90
DescriptorSize == 2

(* The answer is what the parser expects of a single response, and fits.       *)
ASSUME AnswerAssumption ==
  /\ Answer = <<SYNC, START_FLAG, Len(AnswerData), 0>> \o AnswerData
  /\ AnswerData # <<>> /\ Len(Answer) <= BufferSize

VARIABLES wire, asked, heard, fault, quiet, struck,
          receiveBuffer, bytesInBuffer, bytesProcessed, state,
          chunkLength,
          lpc,          \* where the Lidar thread is
          seen,         \* the counters as it last read them
          data,         \* its argument of handleDataReady
          n,            \* a local: the byte found, the bytes to remove
          next,         \* the state its iteration leads to
          mpc           \* where reset() of the Monitor thread is, "out" outside

ghostVars == <<asked, quiet, struck>>
countVars == <<bytesInBuffer, bytesProcessed>>
localVars == <<seen, data, n, next>>
vars == <<wire, ghostVars, heard, fault, receiveBuffer, countVars, state, chunkLength,
          lpc, localVars, mpc>>

Cells == 0..(BufferSize - 1)
Empty == [i \in Cells |-> 0]
Unseen == [inBuffer |-> 0, done |-> 0]
None == -1

Init == /\ wire \in Scans
        /\ asked = FALSE /\ heard = "nothing"
        /\ fault = FALSE /\ quiet = FALSE /\ struck = FALSE
        /\ receiveBuffer = Empty
        /\ bytesInBuffer = 0 /\ bytesProcessed = 0
        /\ state = "Sync"
        /\ chunkLength = 0
        /\ lpc = "idle" /\ mpc = "out"
        /\ seen = Unseen /\ data = <<>> /\ n = 0 /\ next = "Sync"

Lesser(a, b) == IF a <= b THEN a ELSE b
InArray(at, length) == length = 0 \/ (length > 0 /\ at >= 0 /\ at + length <= BufferSize)
InSeen == {seen.inBuffer, bytesInBuffer}
DoneSeen == {seen.done, bytesProcessed}
Look == seen' = [inBuffer |-> bytesInBuffer, done |-> bytesProcessed]
Used(inBuffer) == seen' = [seen EXCEPT !.inBuffer = inBuffer]
Forget == seen' = Unseen /\ data' = <<>> /\ n' = 0 /\ next' = "Sync"

(* A step of the Lidar thread from one place to another.                       *)
Step(from, to) == /\ ~fault /\ lpc = from /\ lpc' = to
                  /\ UNCHANGED <<ghostVars, fault, mpc>>

------------------------------------------------------------------------------
(* handleDataReady: what fits, memcpy, the new count.                          *)
HandleDataReady(k) ==
  /\ Step("idle", "copy")
  /\ wire # <<>>
  /\ data' = SubSeq(wire, 1, Lesser(Lesser(k, Len(wire)), BufferSize - bytesInBuffer))
  /\ wire' = SubSeq(wire, k + 1, Len(wire))
  /\ Look
  /\ UNCHANGED <<heard, receiveBuffer, countVars, state, chunkLength, n, next>>

CopyData ==
  /\ Step("copy", "count")
  /\ \E at \in InSeen :
       /\ InArray(at, Len(data))
       /\ Used(at)
       /\ receiveBuffer' = [i \in Cells |-> IF i \in at..(at + Len(data) - 1)
                                            THEN data[i - at + 1] ELSE receiveBuffer[i]]
  /\ UNCHANGED <<wire, heard, countVars, state, chunkLength, data, n, next>>

CountData ==
  /\ Step("count", "parse")
  /\ \E b \in InSeen : bytesInBuffer' = b + Len(data)
  /\ Forget
  /\ UNCHANGED <<wire, heard, receiveBuffer, bytesProcessed, state, chunkLength>>

------------------------------------------------------------------------------
(* processReadBuffer, by state.                                                *)
UnchangedBytes == UNCHANGED <<wire, receiveBuffer, bytesInBuffer>>

(* seekToByte: the loop, then what follows it.                                 *)
Found(b) == {x \in bytesProcessed..(bytesInBuffer - 1) :
               /\ receiveBuffer[x] = b
               /\ \A y \in bytesProcessed..(x - 1) : receiveBuffer[y] # b}

Seek(from, b, to) ==
  /\ state = from
  /\ Step("parse", "seek")
  /\ n' \in Found(b) \/ (Found(b) = {} /\ n' = None)
  /\ next' = to
  /\ Look
  /\ UnchangedBytes /\ UNCHANGED <<heard, bytesProcessed, state, chunkLength, data>>

SyncState == Seek("Sync", SYNC, "StartFlag")
StartFlagState == Seek("StartFlag", START_FLAG, "LengthModeAndType")

SeekSucceeds ==
  /\ Step("seek", "enter")
  /\ \E inBuffer \in InSeen : n # None /\ n < inBuffer
  /\ bytesProcessed' = n + 1
  /\ seen' = Unseen /\ n' = 0
  /\ UnchangedBytes /\ UNCHANGED <<heard, state, chunkLength, data, next>>

SeekFails ==
  /\ Step("seek", "shift")
  /\ \E inBuffer \in InSeen : n = None \/ n >= inBuffer
  /\ bytesProcessed' = 0
  /\ state' = "Sync"
  /\ Forget
  /\ UnchangedBytes /\ UNCHANGED <<heard, chunkLength>>

(* A branch that needs more bytes than there are leaves the loop; next keeps   *)
(* which branch it is.                                                         *)
Await(length, place) ==
  /\ \/ bytesInBuffer - bytesProcessed < length /\ Step("parse", "shift") /\ Forget
     \/ /\ bytesInBuffer - bytesProcessed >= length /\ Step("parse", place)
        /\ Look /\ next' = state /\ UNCHANGED <<data, n>>
  /\ UnchangedBytes /\ UNCHANGED <<heard, bytesProcessed, state, chunkLength>>

LengthModeAndTypeState == state = "LengthModeAndType" /\ Await(DescriptorSize, "descriptor")
ResponseState == state \in {"SingleResponse", "MultiResponse"} /\ Await(chunkLength, "chunk")

(* The descriptor: modes 0 and 1 are entered, any other is reset by the Lidar  *)
(* thread itself.                                                              *)
ReadDescriptor ==
  \E at \in DoneSeen :
    /\ InArray(at, DescriptorSize)
    /\ chunkLength' = receiveBuffer[at]
    /\ \/ /\ receiveBuffer[at + 1] \in {0, 1}
          /\ Step("descriptor", "enter")
          /\ next' = IF receiveBuffer[at + 1] = 0 THEN "SingleResponse" ELSE "MultiResponse"
          /\ seen' = Unseen /\ UNCHANGED <<data, n>>
          /\ \E from \in {at, bytesProcessed} : bytesProcessed' = from + DescriptorSize
       \/ /\ receiveBuffer[at + 1] \notin {0, 1}
          /\ Step("descriptor", "own")
          /\ Forget /\ UNCHANGED bytesProcessed
    /\ UnchangedBytes /\ UNCHANGED <<heard, state>>

Chunk(at) == [i \in 1..chunkLength |-> receiveBuffer[at + i - 1]]
Heard(at) == IF Chunk(at) = AnswerData THEN "answer" ELSE "other"

(* handleResponse, and what becomes of the response.  Whether a multiple one   *)
(* is of a type that can be created is left open; if not, reset follows.       *)
TakeChunk ==
  \E at \in DoneSeen :
    /\ InArray(at, chunkLength)
    /\ heard' = Heard(at)
    /\ \E from \in {at, bytesProcessed} : bytesProcessed' = from + chunkLength
    /\ \/ /\ next = "SingleResponse" /\ Step("chunk", "enter")
          /\ next' = "Sync" /\ seen' = Unseen /\ UNCHANGED <<data, n>>
       \/ /\ next = "MultiResponse" /\ Forget
          /\ Step("chunk", "test") \/ Step("chunk", "own")
    /\ UnchangedBytes /\ UNCHANGED <<state, chunkLength>>

(* _state = ..., once the branch has completed its state.                      *)
EnterState ==
  /\ Step("enter", "test")
  /\ state' = next
  /\ Forget
  /\ UnchangedBytes /\ UNCHANGED <<heard, bytesProcessed, chunkLength>>

(* reset() by the Lidar thread.                                                *)
OwnReset ==
  /\ Step("own", "test")
  /\ receiveBuffer' = Empty
  /\ bytesInBuffer' = 0 /\ bytesProcessed' = 0
  /\ state' = "Sync"
  /\ UNCHANGED <<wire, heard, chunkLength, localVars>>

LoopTest ==
  /\ Step("test", IF bytesProcessed < bytesInBuffer THEN "parse" ELSE "shift")
  /\ UnchangedBytes /\ UNCHANGED <<heard, bytesProcessed, state, chunkLength, localVars>>

------------------------------------------------------------------------------
MeasureUnclipped == \* removing bytes unchecked
  /\ \/ bytesProcessed <= 0 /\ Step("shift", "idle") /\ Forget
     \/ /\ bytesProcessed > 0 /\ Step("shift", "move")
        /\ n' = bytesProcessed
        /\ Look /\ UNCHANGED <<data, next>>
  /\ UnchangedBytes /\ UNCHANGED <<heard, bytesProcessed, state, chunkLength>>

(* removeBytesFromReceiveBuffer: bytesToRemove, memmove, the new count.        *)
MeasureShift ==
  /\ \/ bytesProcessed <= 0 /\ Step("shift", "idle") /\ Forget
     \/ /\ bytesProcessed > 0 /\ Step("shift", "move")
        /\ n' = Lesser(bytesProcessed, bytesInBuffer)
        /\ Look /\ UNCHANGED <<data, next>>
  /\ UnchangedBytes /\ UNCHANGED <<heard, bytesProcessed, state, chunkLength>>

MoveBytes ==
  /\ Step("move", "removed")
  /\ \E b \in InSeen :
       /\ InArray(n, b - n)
       /\ Used(b)
       /\ receiveBuffer' = [i \in Cells |-> IF i < b - n THEN receiveBuffer[i + n]
                                            ELSE receiveBuffer[i]]
  /\ UNCHANGED <<wire, heard, countVars, state, chunkLength, data, n, next>>

CountRemoved ==
  /\ Step("removed", "idle")
  /\ \E b \in InSeen : bytesInBuffer' = b - n
  /\ bytesProcessed' = 0
  /\ Forget
  /\ UNCHANGED <<wire, heard, receiveBuffer, state, chunkLength>>

(* What the next statement may access is not in the array.                     *)
OutOfArray ==
  \/ lpc = "copy" /\ \E at \in InSeen : ~InArray(at, Len(data))
  \/ lpc = "descriptor" /\ \E at \in DoneSeen : ~InArray(at, DescriptorSize)
  \/ lpc = "chunk" /\ \E at \in DoneSeen : ~InArray(at, chunkLength)
  \/ lpc = "move" /\ \E b \in InSeen : ~InArray(n, b - n)

Fault == /\ ~fault /\ OutOfArray
         /\ fault' = TRUE
         /\ UNCHANGED <<wire, ghostVars, heard, receiveBuffer, countVars, state, chunkLength,
                        lpc, localVars, mpc>>

Parse == \/ SyncState \/ StartFlagState \/ SeekSucceeds \/ SeekFails
         \/ LengthModeAndTypeState \/ ReadDescriptor \/ ResponseState \/ TakeChunk
         \/ EnterState \/ OwnReset \/ LoopTest
Remove == MeasureShift \/ MoveBytes \/ CountRemoved
DataArrives == \E k \in ReadSizes : HandleDataReady(k)
LidarThread == DataArrives \/ CopyData \/ CountData \/ Parse \/ Remove

------------------------------------------------------------------------------
(* reset() by the Monitor thread, statement by statement.                      *)
Statement(from, to) ==
  /\ mpc = from /\ mpc' = to
  /\ UNCHANGED <<wire, fault, chunkLength, lpc, localVars>>

ZeroProcessed ==
  /\ Statement("out", "count")
  /\ bytesProcessed' = 0
  /\ heard' = "nothing"
  /\ quiet' = (lpc = "idle" /\ wire = <<>>)
  /\ UNCHANGED <<asked, struck, receiveBuffer, bytesInBuffer, state>>

KeepInBuffer == \* a reset of the index alone
  /\ Statement("count", "clear")
  /\ UNCHANGED <<ghostVars, heard, receiveBuffer, countVars, state>>

ZeroInBuffer ==
  /\ Statement("count", "clear")
  /\ bytesInBuffer' = 0
  /\ struck' = (lpc \in {"move", "removed"} \/ (struck /\ lpc # "idle"))
  /\ UNCHANGED <<asked, quiet, heard, receiveBuffer, bytesProcessed, state>>

Clear ==
  /\ Statement("clear", "index")
  /\ receiveBuffer' = Empty
  /\ UNCHANGED <<ghostVars, heard, countVars, state>>

StartSyncIndex ==
  /\ Statement("index", "state")
  /\ bytesProcessed' = 0
  /\ UNCHANGED <<ghostVars, heard, receiveBuffer, bytesInBuffer, state>>

KeepState == \* a reset that leaves the state
  /\ Statement("state", "send")
  /\ UNCHANGED <<ghostVars, heard, receiveBuffer, countVars, state>>

StartSyncState ==
  /\ Statement("state", "send")
  /\ state' = "Sync"
  /\ UNCHANGED <<ghostVars, heard, receiveBuffer, countVars>>

SendCommand ==
  /\ Statement("send", "out")
  /\ asked' = TRUE
  /\ UNCHANGED <<quiet, struck, heard, receiveBuffer, countVars, state>>

CommandAlone == \* getDeviceInfo without a reset
  /\ Statement("out", "out")
  /\ asked' = TRUE
  /\ UNCHANGED <<quiet, struck, heard, receiveBuffer, countVars, state>>

Reset == \/ ZeroProcessed \/ ZeroInBuffer \/ Clear
         \/ StartSyncIndex \/ StartSyncState \/ SendCommand

(* The device answers a command, or does not. *)
Reply ==
  /\ asked /\ Len(wire) + Len(Answer) <= MaxWire
  /\ wire' = wire \o Answer
  /\ asked' = FALSE
  /\ quiet' = (quiet /\ mpc = "out")
  /\ UNCHANGED <<struck, heard, fault, receiveBuffer, countVars, state, chunkLength, lpc,
                 localVars, mpc>>

Next == LidarThread \/ Fault \/ Reset \/ Reply

(***************************************************************************)
(* Both threads are scheduled.  The Monitor thread tries again and again:  *)
(* while there are clients and no maps it begins an exchange at every tick *)
(* of its timer, and an exchange resets up to 20 times.                    *)
(***************************************************************************)
Spec == Init /\ [][Next]_vars /\ WF_vars(LidarThread) /\ WF_vars(Reset)

------------------------------------------------------------------------------
(* Of all the ways a reset may cut into the Lidar thread only one leads to     *)
(* memory that is not the array's: the count set to 0 between the statements   *)
(* of a removal.  Whatever else it meets, in particular an index beyond the    *)
(* count, is caught by the check at lidar.cpp:371, and the next reset that     *)
(* meets an idle thread mends the count.                                       *)
OnlyRemovalFaults == ~struck => ~fault /\ bytesInBuffer \in 0..BufferSize

(* However a reset met the Lidar thread, and whatever nonsense that made it    *)
(* parse (a multiple response of length 0 repeats for ever, lidar.cpp:208),    *)
(* as long as resets go on its loop returns.                                   *)
ParserFreed == []<>(lpc = "idle" \/ fault)

(* A reset that meets an idle thread leaves nothing behind of what earlier     *)
(* ones did: nothing but the answer is handed on after it...                   *)
OnlyAnswerHeard == quiet /\ ~fault => heard # "other"

(* ... and the answer is, when it has been read (lidar.cpp:77).                *)
QuietResetAnswered ==
  quiet /\ mpc = "out" /\ ~asked /\ wire = <<>> /\ lpc = "idle" => heard = "answer"
====
