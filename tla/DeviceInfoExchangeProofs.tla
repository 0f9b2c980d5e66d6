---- MODULE DeviceInfoExchangeProofs ----
(***************************************************************************)
(* Proofs about DeviceInfoExchange, for every number of tries and of calls *)
(* and every value _responseWaiters may start with.  They are of Safety,   *)
(* Spec without its fairness, which is what LinkedExchange implements.     *)
(***************************************************************************)
EXTENDS DeviceInfoExchange, FiniteSetTheorems, TLAPS

(* Taking the first of a queue of numbers. *)
LEMMA TailOfQueue ==
  ASSUME NEW s \in Seq(Int), s # <<>>
  PROVE  /\ Tail(s) \in Seq(Int) /\ Len(Tail(s)) = Len(s) - 1
         /\ Head(s) \in Int /\ Head(s) = s[1] /\ 1 \in 1..Len(s)
         /\ \A i \in 1..Len(Tail(s)) : i + 1 \in 1..Len(s) /\ Tail(s)[i] = s[i + 1]
OBVIOUS

(* What is left when some are taken off the front of a queue, or off its end.  *)
LEMMA RestOfQueue ==
  ASSUME NEW s \in Seq(Int), NEW n \in 0..Len(s)
  PROVE  LET rest == SubSeq(s, n + 1, Len(s))
         IN  /\ rest \in Seq(Int) /\ Len(rest) = Len(s) - n
             /\ \A i \in 1..Len(rest) : i + n \in 1..Len(s) /\ rest[i] = s[i + n]
OBVIOUS

LEMMA StartOfQueue ==
  ASSUME NEW s \in Seq(Int), NEW n \in 0..Len(s)
  PROVE  LET start == SubSeq(s, 1, n)
         IN  /\ start \in Seq(Int) /\ Len(start) = n
             /\ \A i \in 1..n : i \in 1..Len(s) /\ start[i] = s[i]
OBVIOUS

(* Responses the Monitor thread has been, or is about to be, told of.      *)
Told == (IF mpc = "woken" THEN 1 ELSE 0) + (IF lpc = "wake" THEN 1 ELSE 0)

(* Why a woken waiter finds one: each of these is still in the queue.      *)
ToldAreQueued == Told <= Len(responseQueue)

TriesCounted == mpc \notin {"idle", "try", "start"} => tries > 0

IInv == TypeOK /\ TriesCounted /\ ToldAreQueued

LEMMA InitIInv == Init => IInv
<1> SUFFICES ASSUME Init PROVE IInv
  OBVIOUS
<1>1. TypeOK
  BY TriesAssumption, WaitersAssumption DEF Init, TypeOK, NoCommand
<1>2. TriesCounted /\ ToldAreQueued
  BY DEF Init, TriesCounted, ToldAreQueued, Told
<1> QED
  BY <1>1, <1>2 DEF IInv

LEMMA MonitorThreadIInv ==
  ASSUME IInv, MonitorThread
  PROVE  IInv'
<1> USE TriesAssumption DEF IInv, TypeOK, TriesCounted, MonitorThread, lidarVars, linkVars
<1>1. CASE GiveUp
  BY <1>1 DEF GiveUp, ToldAreQueued, Told
<1>2. CASE ResetParser
  <2>1. fromDevice' \in Seq(Int)
    BY <1>2, RestOfQueue DEF ResetParser
  <2> QED
    BY <1>2, <2>1 DEF ResetParser, ToldAreQueued, Told
<1>3. CASE SendCommand
  BY <1>3 DEF SendCommand, ToldAreQueued, Told
<1>4. CASE TryGetResponse
  BY <1>4 DEF TryGetResponse, ToldAreQueued, Told
<1>5. CASE Wait
  BY <1>5 DEF Wait, ToldAreQueued, Told
<1>6. CASE Timeout
  BY <1>6 DEF Timeout, ToldAreQueued, Told
<1>7. CASE TakeFirst
  <2>1. responseQueue # <<>>
    BY <1>7 DEF TakeFirst, ToldAreQueued, Told
  <2>2. /\ responseQueue' \in Seq(Int)
        /\ Len(responseQueue') = Len(responseQueue) - 1
    BY <1>7, <2>1, TailOfQueue DEF TakeFirst
  <2> QED
    BY <1>7, <2>1, <2>2 DEF TakeFirst, ToldAreQueued, Told
<1>8. CASE SendStartScan
  BY <1>8 DEF SendStartScan, StartScan, ToldAreQueued, Told
<1> QED
  BY <1>1, <1>2, <1>3, <1>4, <1>5, <1>6, <1>7, <1>8

LEMMA LidarThreadIInv ==
  ASSUME IInv, LidarThread
  PROVE  IInv'
<1> USE DEF IInv, TypeOK, TriesCounted, monitorVars, linkVars
<1>1. CASE ParseResponse
  <2>1. PICK n \in 1..Len(fromDevice) :
          /\ fromDevice' = SubSeq(fromDevice, n + 1, Len(fromDevice))
          /\ \/ lpc' = "append" /\ parsed' = fromDevice[n]
             \/ UNCHANGED <<lpc, parsed>>
    BY <1>1 DEF ParseResponse
  <2>2. fromDevice' \in Seq(Int) /\ fromDevice[n] \in Int
    BY <2>1, RestOfQueue
  <2> QED
    BY <1>1, <2>1, <2>2 DEF ParseResponse, ToldAreQueued, Told
<1>2. CASE AppendResponse
  <2>1. /\ responseQueue' \in Seq(Int)
        /\ Len(responseQueue') = Len(responseQueue) + 1
    BY <1>2 DEF AppendResponse
  <2> QED
    BY <1>2, <2>1 DEF AppendResponse, ToldAreQueued, Told
<1>3. CASE WakeAll
  BY <1>3 DEF WakeAll, ToldAreQueued, Told
<1> QED
  BY <1>1, <1>2, <1>3 DEF LidarThread

LEMMA LinkIInv ==
  ASSUME IInv, Link
  PROVE  IInv'
<1> USE DEF IInv, TypeOK, TriesCounted, monitorVars, lidarVars, Link
<1>1. CASE WriteCommand
  <2>1. toDevice' \in Seq(Int)
    <3>1. Append(toDevice, sendBuffer) \in Seq(Int)
      OBVIOUS
    <3> QED
      BY <1>1, <3>1 DEF WriteCommand
  <2> QED
    BY <1>1, <2>1 DEF WriteCommand, NoCommand, ToldAreQueued, Told
<1>2. CASE Answer
  <2>1. toDevice' \in Seq(Int)
    BY <1>2, TailOfQueue DEF Answer
  <2>2. Append(fromDevice, Head(toDevice)) \in Seq(Int)
    BY <1>2 DEF Answer
  <2>3. fromDevice' \in Seq(Int)
    BY <1>2, <2>2 DEF Answer
  <2> QED
    BY <1>2, <2>1, <2>3 DEF Answer, ToldAreQueued, Told
<1>3. CASE ClosePort
  <2>1. toDevice' \in Seq(Int)
    BY <1>3, StartOfQueue DEF ClosePort
  <2> QED
    BY <1>3, <2>1 DEF ClosePort, ToldAreQueued, Told
<1> QED
  BY <1>1, <1>2, <1>3

LEMMA NextIInv == IInv /\ [Next]_vars => IInv'
<1> SUFFICES ASSUME IInv, [Next]_vars PROVE IInv'
  OBVIOUS
<1>1. CASE HandleTimerExpired /\ UNCHANGED lidarVars
  BY <1>1, TriesAssumption
  DEF HandleTimerExpired, IInv, TypeOK, TriesCounted, ToldAreQueued, Told, lidarVars, linkVars
<1>2. CASE UNCHANGED vars
  BY <1>2 DEF vars, monitorVars, lidarVars, linkVars, IInv, TypeOK, TriesCounted,
              ToldAreQueued, Told
<1> QED
  BY <1>1, <1>2, MonitorThreadIInv, LidarThreadIInv, LinkIInv DEF Next

LEMMA AlwaysIInv == Safety => []IInv
BY InitIInv, NextIInv, PTL DEF Safety

(* Every variable of the exchange keeps its type, and a for loop its range.   *)
THEOREM TypeCorrect == Safety => []TypeOK
<1>1. IInv => TypeOK
  BY DEF IInv
<1> QED
  BY <1>1, AlwaysIInv, PTL

(* Whatever is late, lost or left over: a woken waiter finds a response.      *)
THEOREM WokenAlwaysHasResponse == Safety => []WokenHasResponse
<1>1. IInv => WokenHasResponse
  BY DEF IInv, TypeOK, ToldAreQueued, Told, WokenHasResponse
<1> QED
  BY <1>1, AlwaysIInv, PTL

------------------------------------------------------------------------------
(* How many commands for the device information are in a queue, which may hold *)
(* commands to scan as well: the number of their places.                       *)
CommandsIn(s) == {i \in 1..Len(s) : s[i] # StartScan}

LEMMA CountType ==
  ASSUME NEW s \in Seq(Int)
  PROVE  /\ IsFiniteSet(CommandsIn(s)) /\ Cardinality(CommandsIn(s)) \in Nat
         /\ Cardinality(CommandsIn(s)) = 0 => \A i \in 1..Len(s) : s[i] = StartScan
<1>1. IsFiniteSet(1..Len(s)) /\ CommandsIn(s) \in SUBSET (1..Len(s))
  BY FS_Interval DEF CommandsIn
<1>2. IsFiniteSet(CommandsIn(s))
  BY <1>1, FS_Subset
<1>3. Cardinality(CommandsIn(s)) = 0 => CommandsIn(s) = {}
  BY <1>2, FS_EmptySet
<1>4. CommandsIn(s) = {} => \A i \in 1..Len(s) : s[i] = StartScan
  BY DEF CommandsIn
<1> QED
  BY <1>2, <1>3, <1>4, FS_CardinalityType

LEMMA CountAppend ==
  ASSUME NEW s \in Seq(Int), NEW x \in Int
  PROVE  Cardinality(CommandsIn(Append(s, x))) =
           Cardinality(CommandsIn(s)) + (IF x = StartScan THEN 0 ELSE 1)
<1> DEFINE new == Len(s) + 1
<1>1. new \notin CommandsIn(s)
  BY DEF CommandsIn
<1>2. CASE x = StartScan
  <2>1. CommandsIn(Append(s, x)) = CommandsIn(s)
    BY <1>2 DEF CommandsIn
  <2> QED
    BY <1>2, <2>1, CountType
<1>3. CASE x # StartScan
  <2>1. CommandsIn(Append(s, x)) = CommandsIn(s) \cup {new}
    BY <1>3 DEF CommandsIn
  <2> QED
    BY <1>1, <1>3, <2>1, CountType, FS_AddElement
<1> QED
  BY <1>2, <1>3

LEMMA CountStart ==
  ASSUME NEW s \in Seq(Int), NEW n \in 0..Len(s)
  PROVE  /\ Cardinality(CommandsIn(SubSeq(s, 1, n))) <= Cardinality(CommandsIn(s))
         /\ Cardinality(CommandsIn(SubSeq(s, 1, n))) \in Nat
<1>1. CommandsIn(SubSeq(s, 1, n)) \in SUBSET CommandsIn(s)
  BY StartOfQueue DEF CommandsIn
<1> QED
  BY <1>1, CountType, StartOfQueue, FS_Subset

LEMMA CountTail ==
  ASSUME NEW s \in Seq(Int), s # <<>>
  PROVE  Cardinality(CommandsIn(s)) =
           Cardinality(CommandsIn(Tail(s))) + (IF Head(s) = StartScan THEN 0 ELSE 1)
<1> DEFINE rest == CommandsIn(s) \ {1}
           behind == CommandsIn(Tail(s))
           f == [i \in rest |-> i - 1]
<1>0. /\ Tail(s) \in Seq(Int) /\ Len(Tail(s)) = Len(s) - 1 /\ Head(s) = s[1]
      /\ \A i \in 1..(Len(s) - 1) : Tail(s)[i] = s[i + 1]
      /\ Len(s) \in Nat \ {0}
  OBVIOUS
<1>1. f \in [rest -> behind]
  BY <1>0 DEF CommandsIn
<1>2. \A a, b \in rest : f[a] = f[b] => a = b
  BY <1>0 DEF CommandsIn
<1>3. \A t \in behind : t + 1 \in rest /\ f[t + 1] = t
  BY <1>0 DEF CommandsIn
<1>4. f \in Bijection(rest, behind)
  <2> HIDE DEF f, rest, behind
  <2> QED
    BY <1>1, <1>2, <1>3 DEF Bijection, Injection, Surjection, IsInjective
<1>5. IsFiniteSet(rest) /\ Cardinality(rest) =
        IF 1 \in CommandsIn(s) THEN Cardinality(CommandsIn(s)) - 1
                               ELSE Cardinality(CommandsIn(s))
  BY CountType, FS_RemoveElement
<1>6. Cardinality(behind) = Cardinality(rest)
  <2>1. ExistsBijection(rest, behind)
    BY <1>4 DEF ExistsBijection
  <2> QED
    BY <1>5, <2>1, FS_Bijection
<1>7. 1 \in CommandsIn(s) <=> Head(s) # StartScan
  BY <1>0 DEF CommandsIn
<1> QED
  BY <1>0, <1>5, <1>6, <1>7, CountType

------------------------------------------------------------------------------
(* The commands sent, and their answers, that the Monitor thread has not taken *)
(* yet, from the slot to the queue.                                            *)
UnderWay == Len(responseQueue) + (IF lpc = "append" THEN 1 ELSE 0) + Len(fromDevice)
            + Cardinality(CommandsIn(toDevice))
            + (IF sendBuffer \in {NoCommand, StartScan} THEN 0 ELSE 1)

(* Each of them is the current command or belongs to a wait that timed out...  *)
EachOnce == UnderWay <= timeouts + Current

(* ... and is the last one if none has timed out.                              *)
OfLast ==
  timeouts = 0 =>
    /\ \A i \in 1..Len(responseQueue) : responseQueue[i] = commands
    /\ lpc = "append" => parsed = commands
    /\ \A i \in 1..Len(fromDevice) : fromDevice[i] = commands
    /\ \A i \in 1..Len(toDevice) : toDevice[i] \in {commands, StartScan}
    /\ sendBuffer \in {commands, StartScan, NoCommand}

Pipeline == EachOnce /\ OfLast

(* What the count of an exchange is made of.                                   *)
LEMMA UnderWayType ==
  ASSUME TypeOK
  PROVE  /\ Len(responseQueue) \in Nat /\ Len(fromDevice) \in Nat
         /\ Cardinality(CommandsIn(toDevice)) \in Nat
         /\ timeouts \in Nat /\ Current \in {0, 1} /\ UnderWay \in Nat
<1>1. /\ Len(responseQueue) \in Nat /\ Len(fromDevice) \in Nat
      /\ Cardinality(CommandsIn(toDevice)) \in Nat
      /\ timeouts \in Nat /\ Current \in {0, 1}
  BY CountType DEF TypeOK, Current
<1> QED
  BY <1>1 DEF UnderWay

LEMMA InitPipeline == Init => Pipeline
<1> SUFFICES ASSUME Init PROVE Pipeline
  OBVIOUS
<1>1. CommandsIn(<<>>) = {}
  BY DEF CommandsIn
<1>2. Cardinality(CommandsIn(toDevice)) = 0
  BY <1>1, FS_EmptySet DEF Init
<1> QED
  BY <1>2 DEF Init, Pipeline, EachOnce, UnderWay, Current, OfLast, NoCommand

LEMMA MonitorPipeline ==
  ASSUME IInv, Pipeline, MonitorThread
  PROVE  Pipeline'
<1>0. /\ TypeOK /\ TriesCounted /\ ToldAreQueued /\ EachOnce /\ OfLast
      /\ UNCHANGED <<lpc, parsed>>
  BY DEF IInv, Pipeline, MonitorThread, lidarVars
<1> USE UnderWayType, <1>0
<1>1. CASE GiveUp \/ TryGetResponse \/ Wait
  <2>1. EachOnce'
    BY <1>1 DEF GiveUp, TryGetResponse, Wait, EachOnce, UnderWay, Current, linkVars
  <2>2. OfLast'
    BY <1>1 DEF GiveUp, TryGetResponse, Wait, OfLast, linkVars
  <2> QED
    BY <2>1, <2>2 DEF Pipeline
<1>2. CASE ResetParser
  <2>1. PICK n \in 0..Len(fromDevice) : fromDevice' = SubSeq(fromDevice, n + 1, Len(fromDevice))
    BY <1>2 DEF ResetParser
  <2>2. /\ Len(fromDevice') <= Len(fromDevice) /\ Len(fromDevice') \in Nat
        /\ \A i \in 1..Len(fromDevice') :
             i + n \in 1..Len(fromDevice) /\ fromDevice'[i] = fromDevice[i + n]
    BY <2>1, RestOfQueue DEF TypeOK
  <2>3. /\ Current = 0 /\ Current' = 0
        /\ UNCHANGED <<commands, timeouts, responseQueue, sendBuffer, toDevice>>
    BY <1>2 DEF ResetParser, Current
  <2>4. EachOnce'
    BY <2>2, <2>3 DEF EachOnce, UnderWay
  <2>5. OfLast'
    BY <2>2, <2>3 DEF OfLast
  <2> QED
    BY <2>4, <2>5 DEF Pipeline
<1>3. CASE SendCommand
  <2>1. /\ Current = 0 /\ Current' = 1 /\ commands' = commands + 1 /\ sendBuffer' = commands + 1
        /\ UNCHANGED <<timeouts, responseQueue, toDevice, fromDevice>>
    BY <1>3 DEF SendCommand, Current, linkVars
  <2>2. EachOnce'
    BY <2>1 DEF EachOnce, UnderWay
  <2>3. ASSUME timeouts = 0
        PROVE  /\ Len(responseQueue) = 0 /\ lpc # "append" /\ Len(fromDevice) = 0
               /\ \A i \in 1..Len(toDevice) : toDevice[i] = StartScan
    <3>1. /\ Cardinality(CommandsIn(toDevice)) = 0
          /\ Len(responseQueue) = 0 /\ lpc # "append" /\ Len(fromDevice) = 0
      BY <2>1, <2>3 DEF EachOnce, UnderWay
    <3> QED
      BY <3>1, CountType DEF TypeOK
  <2>4. OfLast'
    BY <2>1, <2>3 DEF OfLast
  <2> QED
    BY <2>2, <2>4 DEF Pipeline
<1>4. CASE Timeout
  BY <1>4 DEF Timeout, Pipeline, EachOnce, OfLast, UnderWay, Current, linkVars
<1>5. CASE TakeFirst
  <2>1. responseQueue # <<>>
    BY <1>5 DEF TakeFirst, ToldAreQueued, Told, TypeOK
  <2>2. /\ Len(responseQueue') = Len(responseQueue) - 1
        /\ \A i \in 1..Len(responseQueue') : responseQueue'[i] = responseQueue[i + 1]
    <3>1. responseQueue' = Tail(responseQueue)
      BY <1>5, <2>1 DEF TakeFirst
    <3> QED
      BY <2>1, <3>1, TailOfQueue DEF TypeOK
  <2>3. /\ Current = 1 /\ Current' = 0
        /\ UNCHANGED <<timeouts, commands, sendBuffer, toDevice, fromDevice>>
    BY <1>5, <2>1 DEF TakeFirst, Current, linkVars
  <2>4. EachOnce'
    BY <2>2, <2>3 DEF EachOnce, UnderWay
  <2>5. OfLast'
    BY <2>2, <2>3 DEF OfLast
  <2> QED
    BY <2>4, <2>5 DEF Pipeline
<1>6. CASE SendStartScan
  BY <1>6 DEF SendStartScan, Pipeline, EachOnce, OfLast, UnderWay, Current, linkVars
<1> QED
  BY <1>1, <1>2, <1>3, <1>4, <1>5, <1>6 DEF MonitorThread

LEMMA LidarPipeline ==
  ASSUME IInv, Pipeline, LidarThread
  PROVE  Pipeline'
<1>0. TypeOK /\ EachOnce /\ OfLast
  BY DEF IInv, Pipeline
<1> USE UnderWayType, <1>0 DEF monitorVars, linkVars
<1>1. CASE ParseResponse
  <2>1. PICK n \in 1..Len(fromDevice) :
          /\ fromDevice' = SubSeq(fromDevice, n + 1, Len(fromDevice))
          /\ \/ lpc' = "append" /\ parsed' = fromDevice[n]
             \/ UNCHANGED <<lpc, parsed>>
    BY <1>1 DEF ParseResponse
  <2>2. /\ Len(fromDevice') <= Len(fromDevice) - 1 /\ Len(fromDevice') \in Nat
        /\ \A i \in 1..Len(fromDevice') :
             i + n \in 1..Len(fromDevice) /\ fromDevice'[i] = fromDevice[i + n]
    BY <2>1, RestOfQueue DEF TypeOK
  <2>3. lpc = "idle" /\ UNCHANGED <<monitorVars, responseQueue, sendBuffer, toDevice>>
    BY <1>1 DEF ParseResponse
  <2>4. EachOnce'
    <3>1. /\ Len(fromDevice') + (IF lpc' = "append" THEN 1 ELSE 0)
                <= Len(fromDevice) + (IF lpc = "append" THEN 1 ELSE 0)
          /\ Len(fromDevice) \in Nat
      <4>1. CASE lpc' = "append"
        BY <2>2, <2>3, <4>1
      <4>2. CASE lpc' # "append"
        BY <2>2, <2>3, <4>2
      <4> QED
        BY <4>1, <4>2
    <3>2. UnderWay' <= UnderWay
      BY <2>2, <2>3, <3>1 DEF UnderWay
    <3>3. UnderWay' \in Nat /\ Current' = Current /\ timeouts' = timeouts
      BY <2>2, <2>3 DEF UnderWay, Current
    <3> QED
      BY <3>2, <3>3 DEF EachOnce
  <2>5. OfLast'
    BY <2>1, <2>2, <2>3 DEF OfLast
  <2> QED
    BY <2>4, <2>5 DEF Pipeline
<1>2. CASE AppendResponse
  <2>1. /\ Len(responseQueue') = Len(responseQueue) + 1
        /\ \A i \in 1..Len(responseQueue') : responseQueue'[i] =
             IF i = Len(responseQueue) + 1 THEN parsed ELSE responseQueue[i]
    BY <1>2 DEF AppendResponse, TypeOK
  <2>2. EachOnce'
    BY <1>2, <2>1 DEF AppendResponse, EachOnce, UnderWay, Current
  <2>3. OfLast'
    BY <1>2, <2>1 DEF AppendResponse, OfLast
  <2> QED
    BY <2>2, <2>3 DEF Pipeline
<1>3. CASE WakeAll
  BY <1>3 DEF WakeAll, Pipeline, EachOnce, OfLast, UnderWay, Current
<1> QED
  BY <1>1, <1>2, <1>3 DEF LidarThread

LEMMA LinkPipeline ==
  ASSUME IInv, Pipeline, Link
  PROVE  Pipeline'
<1>0. /\ TypeOK /\ EachOnce /\ OfLast
      /\ UNCHANGED <<monitorVars, lidarVars, responseQueue>>
  BY DEF IInv, Pipeline, Link
<1> USE UnderWayType, <1>0 DEF monitorVars, lidarVars
<1>1. CASE WriteCommand
  <2>1. /\ sendBuffer' = NoCommand /\ fromDevice' = fromDevice /\ sendBuffer # NoCommand
        /\ toDevice' = Append(toDevice, sendBuffer) \/ toDevice' = toDevice
    BY <1>1 DEF WriteCommand
  <2>2. Cardinality(CommandsIn(Append(toDevice, sendBuffer))) =
          Cardinality(CommandsIn(toDevice)) + (IF sendBuffer = StartScan THEN 0 ELSE 1)
    BY CountAppend DEF TypeOK
  <2>3. EachOnce'
    <3>1. /\ Cardinality(CommandsIn(toDevice')) <=
               Cardinality(CommandsIn(toDevice)) + (IF sendBuffer = StartScan THEN 0 ELSE 1)
          /\ Cardinality(CommandsIn(toDevice')) \in Nat
      <4>1. CASE toDevice' = Append(toDevice, sendBuffer)
        BY <2>2, <4>1
      <4>2. CASE toDevice' = toDevice
        BY <4>2
      <4> QED
        BY <2>1, <4>1, <4>2
    <3> QED
      BY <2>1, <3>1 DEF EachOnce, UnderWay, Current
  <2>4. \A i \in 1..Len(toDevice') : toDevice'[i] = sendBuffer \/
          \E j \in 1..Len(toDevice) : toDevice'[i] = toDevice[j]
    BY <2>1 DEF TypeOK
  <2>5. OfLast'
    BY <2>1, <2>4 DEF OfLast
  <2> QED
    BY <2>3, <2>5 DEF Pipeline
<1>2. CASE Answer
  <2>1. /\ toDevice # <<>> /\ toDevice' = Tail(toDevice) /\ sendBuffer' = sendBuffer
        /\ \/ Head(toDevice) # StartScan /\ fromDevice' = Append(fromDevice, Head(toDevice))
           \/ fromDevice' = fromDevice
    BY <1>2 DEF Answer
  <2>2. /\ Cardinality(CommandsIn(toDevice)) = Cardinality(CommandsIn(toDevice'))
                                + (IF Head(toDevice) = StartScan THEN 0 ELSE 1)
        /\ Cardinality(CommandsIn(toDevice')) \in Nat
    BY <2>1, CountTail, CountType, TailOfQueue DEF TypeOK
  <2>3. /\ Head(toDevice) = toDevice[1] /\ 1 \in 1..Len(toDevice)
        /\ \A i \in 1..Len(toDevice') : \E j \in 1..Len(toDevice) : toDevice'[i] = toDevice[j]
    BY <2>1 DEF TypeOK
  <2>4. CASE Head(toDevice) # StartScan /\ fromDevice' = Append(fromDevice, Head(toDevice))
    <3>1. Len(fromDevice') = Len(fromDevice) + 1
      BY <2>1, <2>3, <2>4 DEF TypeOK
    <3>2. \A i \in 1..Len(fromDevice') : fromDevice'[i] =
            IF i = Len(fromDevice) + 1 THEN Head(toDevice) ELSE fromDevice[i]
      BY <2>1, <2>3, <2>4 DEF TypeOK
    <3>3. Cardinality(CommandsIn(toDevice)) = Cardinality(CommandsIn(toDevice')) + 1
      BY <2>2, <2>4
    <3>4. /\ Len(responseQueue') = Len(responseQueue) /\ timeouts' = timeouts
          /\ lpc' = lpc /\ sendBuffer' = sendBuffer /\ Current' = Current
      BY <2>1 DEF Current
    <3>5. EachOnce'
      <4> DEFINE others == Len(responseQueue) + (IF lpc = "append" THEN 1 ELSE 0)
                 slot == IF sendBuffer \in {NoCommand, StartScan} THEN 0 ELSE 1
                 sent == Cardinality(CommandsIn(toDevice))
      <4>1. /\ others \in Nat /\ others' = others /\ slot \in Nat /\ slot' = slot
            /\ sent \in Nat /\ sent' \in Nat /\ sent = sent' + 1 /\ Len(fromDevice) \in Nat
        BY <2>2, <3>3, <3>4
      <4>2. /\ UnderWay = others + Len(fromDevice) + sent + slot
            /\ UnderWay' = others' + Len(fromDevice') + sent' + slot'
        BY DEF UnderWay
      <4> HIDE DEF others, slot, sent, monitorVars, lidarVars
      <4>3. UnderWay' = UnderWay
        BY <3>1, <4>1, <4>2
      <4> QED
        BY <3>4, <4>3 DEF EachOnce
    <3>6. OfLast'
      BY <2>1, <2>3, <2>4, <3>1, <3>2 DEF OfLast
    <3> QED
      BY <3>5, <3>6 DEF Pipeline
  <2>5. CASE fromDevice' = fromDevice
    <3>1. EachOnce'
      BY <2>1, <2>2, <2>5 DEF EachOnce, UnderWay, Current
    <3>2. OfLast'
      BY <2>1, <2>3, <2>5 DEF OfLast
    <3> QED
      BY <3>1, <3>2 DEF Pipeline
  <2> QED
    BY <2>1, <2>4, <2>5
<1>3. CASE ClosePort
  <2>1. PICK n \in 0..Len(toDevice) : toDevice' = SubSeq(toDevice, 1, n)
    BY <1>3 DEF ClosePort
  <2>2. UNCHANGED <<sendBuffer, fromDevice>>
    BY <1>3 DEF ClosePort
  <2>3. EachOnce'
    <3>1. /\ Cardinality(CommandsIn(toDevice')) <= Cardinality(CommandsIn(toDevice))
          /\ Cardinality(CommandsIn(toDevice')) \in Nat
      BY <2>1, CountStart DEF TypeOK
    <3>2. UnderWay' <= UnderWay /\ UnderWay' \in Nat
      BY <2>2, <3>1 DEF UnderWay
    <3>3. Current' = Current /\ timeouts' = timeouts
      BY DEF Current
    <3> QED
      BY <3>2, <3>3 DEF EachOnce
  <2>4. OfLast'
    BY <2>1, <2>2, StartOfQueue DEF TypeOK, OfLast
  <2> QED
    BY <2>3, <2>4 DEF Pipeline
<1> QED
  BY <1>1, <1>2, <1>3 DEF Link

LEMMA AlwaysPipeline == Safety => []Pipeline
<1>1. IInv /\ Pipeline /\ [Next]_vars => Pipeline'
  <2> SUFFICES ASSUME IInv, Pipeline, [Next]_vars PROVE Pipeline'
    OBVIOUS
  <2>1. CASE (HandleTimerExpired /\ UNCHANGED lidarVars) \/ UNCHANGED vars
    BY <2>1 DEF HandleTimerExpired, vars, monitorVars, lidarVars, linkVars, Pipeline,
                EachOnce, OfLast, UnderWay, Current
  <2> QED
    BY <2>1, MonitorPipeline, LidarPipeline, LinkPipeline DEF Next
<1> QED
  BY InitPipeline, <1>1, AlwaysIInv, PTL DEF Safety

(* The queue holds one response at most for every wait that timed out, besides *)
(* the one being waited for (lidar.cpp:224-238).                               *)
THEOREM BacklogAlwaysBounded == Safety => []BacklogBounded
<1>1. IInv /\ Pipeline => BacklogBounded
  BY UnderWayType DEF IInv, Pipeline, EachOnce, UnderWay, BacklogBounded
<1> QED
  BY <1>1, AlwaysIInv, AlwaysPipeline, PTL

(* The unlocked queue is appended to and taken from at the same time only      *)
(* after a wait has timed out (lidar.cpp:173, 233).                            *)
THEOREM NeverRacesBeforeTimeout == Safety => []NoRaceBeforeTimeout
<1>1. IInv /\ Pipeline => NoRaceBeforeTimeout
  BY UnderWayType
  DEF IInv, ToldAreQueued, Told, Pipeline, EachOnce, UnderWay, Current, NoRaceBeforeTimeout
<1> QED
  BY <1>1, AlwaysIInv, AlwaysPipeline, PTL

(* Until a wait has timed out, a response answers the command sent for it      *)
(* (lidar.cpp:70-100, 218-238).                                                *)
THEOREM AlwaysFreshBeforeTimeout == Safety => FreshBeforeTimeout
<1>1. IInv /\ Pipeline =>
        (mpc = "woken" /\ timeouts = 0 => Head(responseQueue) = commands)
  BY DEF IInv, TypeOK, ToldAreQueued, Told, Pipeline, OfLast
<1>2. IInv /\ Pipeline =>
        [mpc = "woken" /\ mpc' = "start" /\ timeouts = 0 => Head(responseQueue) = commands]_vars
  BY <1>1
<1> QED
  BY <1>2, AlwaysIInv, AlwaysPipeline, PTL DEF Safety, FreshBeforeTimeout

(* From its own command on, what the Monitor thread may still find in the slot *)
(* is that command, never an earlier command to scan.                          *)
SlotIsOurs == mpc \in {"enter", "wait", "waiting", "woken", "start"} => sendBuffer # StartScan

LEMMA AlwaysSlotIsOurs == Safety => []SlotIsOurs
<1>1. Init => SlotIsOurs
  BY DEF Init, SlotIsOurs
<1>2. IInv /\ SlotIsOurs /\ [Next]_vars => SlotIsOurs'
  <2> SUFFICES ASSUME TypeOK, SlotIsOurs, [Next]_vars PROVE SlotIsOurs'
    BY DEF IInv
  <2> USE DEF SlotIsOurs, linkVars
  <2>1. CASE SendCommand
    BY <2>1 DEF SendCommand, StartScan, TypeOK
  <2>2. CASE (HandleTimerExpired /\ UNCHANGED lidarVars) \/ UNCHANGED vars
    BY <2>2 DEF HandleTimerExpired, vars, monitorVars
  <2>3. CASE MonitorThread /\ ~SendCommand
    BY <2>3 DEF MonitorThread, GiveUp, ResetParser, TryGetResponse, Wait, Timeout, TakeFirst,
                SendStartScan
  <2>4. CASE LidarThread
    BY <2>4 DEF LidarThread, ParseResponse, AppendResponse, WakeAll, monitorVars
  <2>5. CASE Link
    BY <2>5 DEF Link, WriteCommand, ClosePort, Answer, monitorVars, NoCommand, StartScan
  <2> QED
    BY <2>1, <2>2, <2>3, <2>4, <2>5 DEF Next, MonitorThread
<1> QED
  BY <1>1, <1>2, AlwaysIInv, PTL DEF Safety

(* StartScan replaces no command that is still in the slot until a wait has    *)
(* timed out (blockingserialthread.cpp:75-80, lidar.cpp:70-100).               *)
THEOREM ScanAlwaysFindsSlotFree == Safety => ScanFindsSlotFree
<1>1. IInv /\ Pipeline /\ SlotIsOurs =>
        (mpc = "start" /\ timeouts = 0 => sendBuffer = NoCommand)
  BY UnderWayType DEF IInv, Pipeline, EachOnce, UnderWay, Current, SlotIsOurs
<1>2. IInv /\ Pipeline /\ SlotIsOurs =>
        [mpc = "start" /\ mpc' = "idle" /\ timeouts = 0 => sendBuffer = NoCommand]_vars
  BY <1>1
<1> QED
  BY <1>2, AlwaysIInv, AlwaysPipeline, AlwaysSlotIsOurs, PTL DEF Safety, ScanFindsSlotFree
====
