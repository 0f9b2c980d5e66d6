---- MODULE AsynchInterface ----
(***************************************************************************)
(* The event-driven alternative to BlockingInterface (asynchinterface.cpp, *)
(* serialinterface.cpp): bytes are collected and delivered to Lidar when   *)
(* they are many, when the last delivery is long ago, or when a timer that *)
(* every read starts again expires.                                        *)
(*                                                                         *)
(* Time is kept as three clocks that Tick moves.  The event loop serves a  *)
(* timer that is due before time goes on; reads may be late.  Bytes and    *)
(* commands are numbered in the order in which they come.                  *)
(***************************************************************************)
EXTENDS Naturals, Sequences

CONSTANTS BufferBytes,  \* _bufferBytes: 4096
          BufferMsecs,  \* _bufferMsecs: 5000
          Interval,     \* of the timer: 1000
          Total,        \* bound: bytes the device sends
          Commands      \* bound: commands the Monitor thread sends

ASSUME ClockAssumption == BufferMsecs \in Nat /\ Interval \in Nat \ {0}
ASSUME BoundAssumption == BufferBytes \in Nat /\ Total \in Nat /\ Commands \in Nat

VARIABLES unread,       \* bytes waiting in _serialPort
          recvBuffer,   \* _recvBuffer
          delivered,    \* the bytes of all dataReady signals
          sinceDelivery,\* now - _lastDeliveryMsecs
          untilTimeout, \* what is left of the timer's interval
          age,          \* time since the first byte of recvBuffer was read
          sent, toWrite, written    \* commands: sent, in readyWrite signals, on the port

portVars == <<unread>>
bufferVars == <<recvBuffer, delivered, sinceDelivery, age>>
writeVars == <<sent, toWrite, written>>
vars == <<portVars, bufferVars, untilTimeout, writeVars>>

(* No clock needs to tell more than this from less. *)
Long == BufferMsecs + Interval + 1
Later(clock) == IF clock < Long THEN clock + 1 ELSE clock

Numbers(first, count) == [i \in 1..count |-> first + i - 1]

(* _lastDeliveryMsecs starts as 0, long ago; the thread's start starts the timer. *)
Init == /\ unread = 0
        /\ recvBuffer = <<>> /\ delivered = <<>>
        /\ sinceDelivery = Long /\ age = 0
        /\ untilTimeout = Interval
        /\ sent = 0 /\ toWrite = <<>> /\ written = <<>>

------------------------------------------------------------------------------
(* Mutant: what was delivered stays in the buffer. *)
DeliverAndKeep(bytes) == /\ sinceDelivery' = 0
                         /\ delivered' = delivered \o bytes
                         /\ recvBuffer' = bytes
                         /\ age' = 0

DeliverData(bytes) == /\ sinceDelivery' = 0
                      /\ delivered' = delivered \o bytes
                      /\ recvBuffer' = <<>>
                      /\ age' = 0

(* Mutant: only the size of the buffer counts. *)
DueBySize(bytes) == Len(bytes) > BufferBytes

Due(bytes) == sinceDelivery > BufferMsecs \/ Len(bytes) > BufferBytes

HandleReadyRead ==
  /\ unread > 0
  /\ unread' = 0
  /\ LET bytes == recvBuffer \o Numbers(Len(delivered) + Len(recvBuffer) + 1, unread)
     IN \/ Due(bytes) /\ DeliverData(bytes)
        \/ /\ ~Due(bytes)
           /\ recvBuffer' = bytes
           /\ UNCHANGED <<delivered, sinceDelivery, age>>
  /\ untilTimeout' = Interval
  /\ UNCHANGED writeVars

(* Mutant: the timer runs on without a delivery. *)
HandleTimeoutOnly == /\ untilTimeout = 0
                     /\ untilTimeout' = Interval
                     /\ UNCHANGED <<portVars, bufferVars, writeVars>>

HandleTimeout == /\ untilTimeout = 0
                 /\ \/ recvBuffer # <<>> /\ DeliverData(recvBuffer)
                    \/ recvBuffer = <<>> /\ UNCHANGED bufferVars
                 /\ untilTimeout' = Interval
                 /\ UNCHANGED <<portVars, writeVars>>

(* send, in the Monitor thread: a signal for each command. *)
Send == /\ sent < Commands
        /\ sent' = sent + 1
        /\ toWrite' = Append(toWrite, sent + 1)
        /\ UNCHANGED <<written, portVars, bufferVars, untilTimeout>>

HandleReadyWrite == /\ toWrite # <<>>
                    /\ written' = Append(written, Head(toWrite))
                    /\ toWrite' = Tail(toWrite)
                    /\ UNCHANGED <<sent, portVars, bufferVars, untilTimeout>>

(* The device, external. *)
Produce == /\ Len(delivered) + Len(recvBuffer) + unread < Total
           /\ unread' = unread + 1
           /\ UNCHANGED <<bufferVars, untilTimeout, writeVars>>

Tick == /\ untilTimeout > 0
        /\ untilTimeout' = untilTimeout - 1
        /\ sinceDelivery' = Later(sinceDelivery)
        /\ age' = IF recvBuffer = <<>> THEN 0 ELSE Later(age)
        /\ UNCHANGED <<recvBuffer, delivered, portVars, writeVars>>

EventLoop == HandleReadyRead \/ HandleTimeout \/ HandleReadyWrite

Next == EventLoop \/ Send \/ Produce \/ Tick

Spec == Init /\ [][Next]_vars

(* Time passes, and the event loop serves what is posted to it. *)
FairSpec == /\ Spec /\ WF_vars(Tick) /\ WF_vars(HandleTimeout)
            /\ SF_vars(HandleReadyRead)

------------------------------------------------------------------------------
TypeOK == /\ unread \in Nat /\ sent \in 0..Commands
          /\ recvBuffer \in Seq(Nat) /\ delivered \in Seq(Nat)
          /\ sinceDelivery \in 0..Long /\ age \in 0..Long
          /\ untilTimeout \in 0..Interval
          /\ toWrite \in Seq(Nat) /\ written \in Seq(Nat)

(* However reads and timer meet, no byte waits in _recvBuffer for longer than  *)
(* the two delays together: a read that comes in time to restart the timer for *)
(* ever finds the last delivery too old (asynchinterface.cpp:55, 62).          *)
KeptBriefly == recvBuffer # <<>> => age <= BufferMsecs + Interval

(* Between two handlers the buffer holds no more than _bufferBytes             *)
(* (asynchinterface.cpp:52-61).                                                *)
BufferBounded == Len(recvBuffer) <= BufferBytes

(* Lidar is given every byte once and in order, whichever of the two handlers  *)
(* delivers it (asynchinterface.cpp:33-39).                                    *)
DataInOrder == \A i \in 1..(Len(delivered) + Len(recvBuffer)) :
                 (delivered \o recvBuffer)[i] = i

(* Every byte is delivered in the end, though no further byte comes            *)
(* (asynchinterface.cpp:65-73).                                                *)
AllDelivered == \A n \in 1..Total :
  Len(delivered) + Len(recvBuffer) + unread >= n ~> Len(delivered) >= n
====
