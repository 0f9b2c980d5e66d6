---- MODULE AsynchInterfaceProofs ----
(* Proofs about AsynchInterface, for all sizes, delays and bounds. *)
EXTENDS AsynchInterface, TLAPS

(* While bytes wait, the last delivery is no longer ago than BufferMsecs at the *)
(* last read, and the timer shows how long ago that was.                        *)
Waiting == /\ recvBuffer # <<>> =>
                sinceDelivery + untilTimeout <= BufferMsecs + Interval
           /\ age <= sinceDelivery

IInv == TypeOK /\ Waiting /\ BufferBounded

USE ClockAssumption, BoundAssumption

LEMMA LongType == Long \in Nat /\ Long > BufferMsecs + Interval
  BY DEF Long

LEMMA LaterType == ASSUME NEW c \in 0..Long
                   PROVE  /\ Later(c) \in 0..Long
                          /\ Later(c) <= c + 1 /\ c <= Later(c)
  BY LongType DEF Later

LEMMA LaterMonotone == ASSUME NEW c \in 0..Long, NEW d \in 0..Long, c <= d
                       PROVE  Later(c) <= Later(d)
  BY LongType DEF Later

LEMMA NumbersType == ASSUME NEW first \in Nat, NEW count \in Nat, first > 0
                     PROVE  Numbers(first, count) \in Seq(Nat)
<1>1. \A i \in 1..count : first + i - 1 \in Nat
  OBVIOUS
<1>. QED  BY <1>1 DEF Numbers

LEMMA InitIInv == Init => IInv
  BY LongType DEF Init, IInv, TypeOK, Waiting, BufferBounded

LEMMA ReadIInv == ASSUME IInv, HandleReadyRead PROVE IInv'
<1>. DEFINE bytes == recvBuffer \o Numbers(Len(delivered) + Len(recvBuffer) + 1, unread)
<1>1. bytes \in Seq(Nat)
  <2>1. Len(delivered) + Len(recvBuffer) + 1 \in Nat /\ Len(delivered) + Len(recvBuffer) + 1 > 0
    BY DEF IInv, TypeOK
  <2>. QED  BY <2>1, NumbersType DEF IInv, TypeOK
<1>2. /\ unread' = 0 /\ untilTimeout' = Interval
      /\ UNCHANGED <<sent, toWrite, written>>
  BY DEF HandleReadyRead, writeVars
<1>3. CASE Due(bytes) /\ DeliverData(bytes)
  <2>1. /\ recvBuffer' = <<>> /\ delivered' = delivered \o bytes
        /\ sinceDelivery' = 0 /\ age' = 0
    BY <1>3 DEF DeliverData
  <2>2. delivered' \in Seq(Nat)
    BY <1>1, <2>1 DEF IInv, TypeOK
  <2>3. TypeOK'
    BY <1>2, <2>1, <2>2, LongType DEF IInv, TypeOK
  <2>. QED  BY <2>1, <2>3 DEF IInv, Waiting, BufferBounded
<1>4. CASE /\ ~Due(bytes)
           /\ recvBuffer' = bytes
           /\ UNCHANGED <<delivered, sinceDelivery, age>>
  <2>1. TypeOK'
    BY <1>1, <1>2, <1>4 DEF IInv, TypeOK
  <2>2. ~(sinceDelivery > BufferMsecs) /\ ~(Len(bytes) > BufferBytes)
    BY <1>4 DEF Due
  <2>3. sinceDelivery <= BufferMsecs
    BY <2>2, LongType DEF IInv, TypeOK
  <2>4. Len(bytes) <= BufferBytes
    BY <1>1, <2>2
  <2>5. age <= sinceDelivery
    BY DEF IInv, Waiting, TypeOK
  <2>. QED  BY <1>2, <1>4, <2>1, <2>3, <2>4, <2>5, LongType
            DEF IInv, TypeOK, Waiting, BufferBounded
<1>. QED  BY <1>3, <1>4 DEF HandleReadyRead

LEMMA TimeoutIInv == ASSUME IInv, HandleTimeout PROVE IInv'
<1>1. /\ untilTimeout' = Interval
      /\ UNCHANGED <<unread, sent, toWrite, written>>
  BY DEF HandleTimeout, portVars, writeVars
<1>2. CASE recvBuffer # <<>> /\ DeliverData(recvBuffer)
  <2>1. /\ recvBuffer' = <<>> /\ delivered' = delivered \o recvBuffer
        /\ sinceDelivery' = 0 /\ age' = 0
    BY <1>2 DEF DeliverData
  <2>2. TypeOK'
    BY <1>1, <2>1, LongType DEF IInv, TypeOK
  <2>. QED  BY <2>1, <2>2 DEF IInv, Waiting, BufferBounded
<1>3. CASE recvBuffer = <<>> /\ UNCHANGED bufferVars
  BY <1>1, <1>3 DEF bufferVars, IInv, TypeOK, Waiting, BufferBounded
<1>. QED  BY <1>2, <1>3 DEF HandleTimeout

LEMMA CommandIInv == ASSUME IInv, Send \/ HandleReadyWrite PROVE IInv'
<1>1. UNCHANGED <<unread, recvBuffer, delivered, sinceDelivery, age, untilTimeout>>
  BY DEF Send, HandleReadyWrite, portVars, bufferVars
<1>2. sent' \in 0..Commands /\ toWrite' \in Seq(Nat) /\ written' \in Seq(Nat)
  <2>1. CASE Send
    BY <2>1 DEF Send, IInv, TypeOK
  <2>2. CASE HandleReadyWrite
    <3>1. Head(toWrite) \in Nat /\ Tail(toWrite) \in Seq(Nat)
      BY <2>2 DEF HandleReadyWrite, IInv, TypeOK
    <3>. QED  BY <2>2, <3>1 DEF HandleReadyWrite, IInv, TypeOK
  <2>. QED  BY <2>1, <2>2
<1>. QED  BY <1>1, <1>2 DEF IInv, TypeOK, Waiting, BufferBounded

LEMMA ProduceIInv == ASSUME IInv, Produce PROVE IInv'
  BY DEF Produce, bufferVars, writeVars, IInv, TypeOK, Waiting, BufferBounded

LEMMA TickIInv == ASSUME IInv, Tick PROVE IInv'
<1>1. /\ untilTimeout > 0 /\ untilTimeout' = untilTimeout - 1
      /\ sinceDelivery' = Later(sinceDelivery)
      /\ UNCHANGED <<recvBuffer, delivered, unread, sent, toWrite, written>>
  BY DEF Tick, portVars, writeVars
<1>2. /\ sinceDelivery' \in 0..Long /\ sinceDelivery' <= sinceDelivery + 1
  BY <1>1, LaterType DEF IInv, TypeOK
<1>3. age' \in 0..Long
  BY LaterType, LongType DEF Tick, IInv, TypeOK
<1>4. age' <= sinceDelivery'
  BY LaterMonotone, LaterType DEF Tick, IInv, TypeOK, Waiting
<1>5. TypeOK'
  BY <1>1, <1>2, <1>3 DEF IInv, TypeOK
<1>6. Waiting'
  BY <1>1, <1>2, <1>4, LongType DEF IInv, TypeOK, Waiting
<1>. QED  BY <1>1, <1>5, <1>6 DEF IInv, BufferBounded

LEMMA NextIInv == IInv /\ [Next]_vars => IInv'
<1>. SUFFICES ASSUME IInv, [Next]_vars PROVE IInv'
  OBVIOUS
<1>1. CASE UNCHANGED vars
  BY <1>1 DEF vars, portVars, bufferVars, writeVars, IInv, TypeOK, Waiting, BufferBounded
<1>. QED  BY <1>1, ReadIInv, TimeoutIInv, CommandIInv, ProduceIInv, TickIInv DEF Next, EventLoop

LEMMA AlwaysIInv == Spec => []IInv
  BY InitIInv, NextIInv, PTL DEF Spec

(* Every variable keeps its type (asynchinterface.cpp:7-94). *)
THEOREM TypeCorrect == Spec => []TypeOK
<1>1. IInv => TypeOK
  BY DEF IInv
<1>. QED  BY <1>1, AlwaysIInv, PTL

(* No byte waits for longer than both delays (asynchinterface.cpp:55, 62). *)
THEOREM AlwaysKeptBriefly == Spec => []KeptBriefly
<1>1. IInv => KeptBriefly
  BY LongType DEF IInv, TypeOK, Waiting, KeptBriefly
<1>. QED  BY <1>1, AlwaysIInv, PTL

(* The buffer holds no more than _bufferBytes (asynchinterface.cpp:52-61). *)
THEOREM AlwaysBufferBounded == Spec => []BufferBounded
<1>1. IInv => BufferBounded
  BY DEF IInv
<1>. QED  BY <1>1, AlwaysIInv, PTL

------------------------------------------------------------------------------
(* Bytes are numbered as they come: what was delivered is the first of them,   *)
(* and the buffer continues it.                                                *)
Numbered == /\ \A i \in 1..Len(delivered) : delivered[i] = i
            /\ \A i \in 1..Len(recvBuffer) : recvBuffer[i] = Len(delivered) + i

(* Bytes after those that are numbered already, wherever they are cut.         *)
LEMMA Continued ==
  ASSUME NEW n \in Nat, NEW s \in Seq(Nat), NEW t \in Seq(Nat),
         \A i \in 1..Len(s) : s[i] = n + i,
         \A i \in 1..Len(t) : t[i] = n + Len(s) + i
  PROVE  \A i \in 1..Len(s \o t) : (s \o t)[i] = n + i
<1>1. Len(s) \in Nat /\ Len(t) \in Nat /\ Len(s \o t) = Len(s) + Len(t)
  OBVIOUS
<1> TAKE i \in 1..Len(s \o t)
<1>2. CASE i \in 1..Len(s)
  BY <1>2
<1>3. CASE i \notin 1..Len(s)
  <2>1. i - Len(s) \in 1..Len(t)
    BY <1>1, <1>3
  <2>2. (s \o t)[i] = t[i - Len(s)]
    BY <1>1, <1>3
  <2> QED
    BY <1>1, <2>1, <2>2
<1> QED
  BY <1>2, <1>3

LEMMA DeliveredNumbered ==
  ASSUME TypeOK, NEW bytes \in Seq(Nat), DeliverData(bytes),
         \A i \in 1..Len(delivered) : delivered[i] = i,
         \A i \in 1..Len(bytes) : bytes[i] = Len(delivered) + i
  PROVE  Numbered'
<1>1. delivered' = delivered \o bytes /\ recvBuffer' = <<>>
  BY DEF DeliverData
<1>2. \A i \in 1..Len(delivered \o bytes) : (delivered \o bytes)[i] = 0 + i
  <2>1. /\ delivered \in Seq(Nat) /\ 0 \in Nat /\ Len(delivered) \in Nat
        /\ \A i \in 1..Len(delivered) : delivered[i] = 0 + i
        /\ \A i \in 1..Len(bytes) : bytes[i] = 0 + Len(delivered) + i
    BY DEF TypeOK
  <2>. QED  BY <2>1, Continued
<1>3. \A i \in 1..Len(delivered') : delivered'[i] = i
  BY <1>1, <1>2
<1>. QED  BY <1>1, <1>3 DEF Numbered

LEMMA NextNumbered == IInv /\ Numbered /\ [Next]_vars => Numbered'
<1>. SUFFICES ASSUME IInv, Numbered, [Next]_vars PROVE Numbered'
  OBVIOUS
<1>1. TypeOK
  BY DEF IInv
<1>2. CASE HandleReadyRead
  <2>. DEFINE n == Len(delivered)
              news == Numbers(n + Len(recvBuffer) + 1, unread)
              bytes == recvBuffer \o news
  <2>1. n \in Nat /\ Len(recvBuffer) \in Nat /\ unread \in Nat /\ recvBuffer \in Seq(Nat)
    BY <1>1 DEF TypeOK
  <2>2. news \in Seq(Nat)
    BY <2>1, NumbersType
  <2>3. \A i \in 1..Len(news) : news[i] = n + Len(recvBuffer) + i
    BY <2>1 DEF Numbers
  <2>4. \A i \in 1..Len(recvBuffer) : recvBuffer[i] = n + i
    BY DEF Numbered
  <2>. HIDE DEF news
  <2>5. bytes \in Seq(Nat) /\ \A i \in 1..Len(bytes) : bytes[i] = n + i
    BY <2>1, <2>2, <2>3, <2>4, Continued
  <2>. HIDE DEF bytes
  <2>6. CASE DeliverData(bytes)
    BY <1>1, <2>5, <2>6, DeliveredNumbered DEF Numbered
  <2>7. CASE recvBuffer' = bytes /\ delivered' = delivered
    BY <2>5, <2>7 DEF Numbered
  <2>. QED  BY <1>2, <2>6, <2>7 DEF HandleReadyRead, bytes, news
<1>3. CASE HandleTimeout
  <2>1. CASE DeliverData(recvBuffer)
    BY <1>1, <2>1, DeliveredNumbered DEF TypeOK, Numbered
  <2>2. CASE UNCHANGED bufferVars
    BY <2>2 DEF bufferVars, Numbered
  <2>. QED  BY <1>3, <2>1, <2>2 DEF HandleTimeout
<1>4. CASE UNCHANGED <<recvBuffer, delivered>>
  BY <1>4 DEF Numbered
<1>. QED  BY <1>2, <1>3, <1>4
          DEF Next, EventLoop, Send, HandleReadyWrite, Produce, Tick, bufferVars, vars

(* Lidar is given every byte once and in order, whatever the timer and the     *)
(* reads, for all sizes and delays (asynchinterface.cpp:33-73).                *)
THEOREM AlwaysDataInOrder == Spec => []DataInOrder
<1>1. Init => Numbered
  BY DEF Init, Numbered
<1>2. IInv /\ Numbered => DataInOrder
  <2>. SUFFICES ASSUME IInv, Numbered PROVE DataInOrder
    OBVIOUS
  <2>1. /\ delivered \in Seq(Nat) /\ recvBuffer \in Seq(Nat)
        /\ \A i \in 1..Len(delivered) : delivered[i] = 0 + i
        /\ \A i \in 1..Len(recvBuffer) : recvBuffer[i] = 0 + Len(delivered) + i
    BY DEF IInv, TypeOK, Numbered
  <2>2. \A i \in 1..Len(delivered \o recvBuffer) : (delivered \o recvBuffer)[i] = 0 + i
    BY <2>1, Continued
  <2>. QED  BY <2>1, <2>2 DEF DataInOrder
<1>. QED  BY <1>1, <1>2, NextNumbered, AlwaysIInv, PTL DEF Spec
====
