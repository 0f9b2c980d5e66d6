---- MODULE DeviceInfoExchange ----
(***************************************************************************)
(* Lidar::getDeviceInfo: the Monitor thread resets the parser, sends the   *)
(* command and waits up to 5 s for an answer, up to 20 times, and starts   *)
(* the scan when an answer comes.  The Lidar thread parses answers, puts   *)
(* them in _responseQueue when somebody is (or ever was) waiting, and      *)
(* wakes the waiters.  The queue is under no lock, the condition variable  *)
(* is waited on with a mutex of the waiter's own, a timed-out answer stays *)
(* in the queue when it comes late, and _responseWaiters is never set to 0 *)
(* nor counted down.                                                       *)
(*                                                                         *)
(* Commands for the device information are numbered as they are sent, and  *)
(* an answer is the number of its command.  The serial thread, the wire    *)
(* and the device are one actor here: it may lose commands and answers but *)
(* does not repeat or reorder them.  LinkedExchange puts SerialLink in its *)
(* place.  A lost answer stays in fromDevice until a later one is heard.   *)
(***************************************************************************)
EXTENDS Integers, Sequences

CONSTANTS MaxTries,         \* tries of getDeviceInfo: 20
          MaxExchanges,     \* bound on the calls of getDeviceInfo
          InitialWaiters    \* values _responseWaiters may have uninitialised

ASSUME TriesAssumption == MaxTries \in Nat /\ MaxExchanges \in Nat
ASSUME WaitersAssumption == InitialWaiters \subseteq Int

NoCommand == 0
StartScan == -1             \* the command that has no number

VARIABLES
  mpc,              \* the Monitor thread: "idle", "try", "send", "enter", "wait"
                    \* (about to), "waiting", "woken", "start"
  tries,            \* tries left
  exchanges,        \* calls of getDeviceInfo so far
  commands,         \* commands for the device information sent so far
  timeouts,         \* waits that ended without an answer so far
  responseWaiters, responseQueue,
  lpc,              \* the Lidar thread: "idle", "append", "wake"
  parsed,           \* the response it is appending
  sendBuffer,       \* the slot of the serial thread
  toDevice, fromDevice

monitorVars == <<mpc, tries, exchanges, commands, timeouts, responseWaiters>>
lidarVars == <<lpc, parsed>>
linkVars == <<toDevice, fromDevice>>
vars == <<monitorVars, lidarVars, responseQueue, sendBuffer, linkVars>>

Init == /\ mpc = "idle" /\ tries = 0 /\ exchanges = 0 /\ commands = 0 /\ timeouts = 0
        /\ responseWaiters \in InitialWaiters
        /\ responseQueue = <<>>
        /\ lpc = "idle" /\ parsed = NoCommand
        /\ sendBuffer = NoCommand
        /\ toDevice = <<>> /\ fromDevice = <<>>

------------------------------------------------------------------------------
(* The Monitor thread. *)

(* handleTimerExpired: an open device, clients, and no scan for 10 seconds.    *)
HandleTimerExpired ==
  /\ mpc = "idle" /\ exchanges < MaxExchanges
  /\ mpc' = "try" /\ tries' = MaxTries /\ exchanges' = exchanges + 1
  /\ UNCHANGED <<commands, timeouts, responseWaiters, responseQueue, sendBuffer, linkVars>>

(* The for loop is over: getDeviceInfo returns false. *)
GiveUp ==
  /\ mpc = "try" /\ tries = 0
  /\ mpc' = "idle"
  /\ UNCHANGED <<tries, exchanges, commands, timeouts, responseWaiters, responseQueue,
                 sendBuffer, linkVars>>

(* stopMotor(), reset(): what the parser had of an answer is thrown away.      *)
ResetParser ==
  /\ mpc = "try" /\ tries > 0
  /\ mpc' = "send"
  /\ \E n \in 0..Len(fromDevice) : fromDevice' = SubSeq(fromDevice, n + 1, Len(fromDevice))
  /\ UNCHANGED <<tries, exchanges, commands, timeouts, responseWaiters, responseQueue,
                 sendBuffer, toDevice>>

(* sendCommand: a command still in the slot is overwritten. *)
SendCommand ==
  /\ mpc = "send"
  /\ mpc' = "enter"
  /\ commands' = commands + 1
  /\ sendBuffer' = commands + 1
  /\ UNCHANGED <<tries, exchanges, timeouts, responseWaiters, responseQueue, linkVars>>

TryGetResponse ==
  /\ mpc = "enter"
  /\ mpc' = "wait"
  /\ responseWaiters' = responseWaiters + 1
  /\ UNCHANGED <<tries, exchanges, commands, timeouts, responseQueue, sendBuffer, linkVars>>

(* _queueEvent.wait begins; a wakeAll before this is lost. *)
Wait ==
  /\ mpc = "wait"
  /\ mpc' = "waiting"
  /\ UNCHANGED <<tries, exchanges, commands, timeouts, responseWaiters, responseQueue,
                 sendBuffer, linkVars>>

(* Mutant: the wait has no time limit. *)
WaitForEver == mpc = "waiting" /\ mpc' = "waiting" /\ UNCHANGED vars

(* wait returns false: the next try. *)
Timeout ==
  /\ mpc = "waiting"
  /\ mpc' = "try" /\ tries' = tries - 1
  /\ timeouts' = timeouts + 1
  /\ UNCHANGED <<exchanges, commands, responseWaiters, responseQueue, sendBuffer, linkVars>>

(* Mutant: the first response is looked at and stays in the queue. *)
LookAtFirst ==
  /\ mpc = "woken"
  /\ mpc' = IF responseQueue # <<>> THEN "start" ELSE "try"
  /\ UNCHANGED <<tries, exchanges, commands, timeouts, responseWaiters, responseQueue,
                 sendBuffer, linkVars>>

(* wait returns true: take the first response; without one, the next try.      *)
TakeFirst ==
  /\ mpc = "woken"
  /\ IF responseQueue # <<>>
     THEN mpc' = "start" /\ responseQueue' = Tail(responseQueue) /\ UNCHANGED tries
     ELSE mpc' = "try" /\ tries' = tries - 1 /\ UNCHANGED responseQueue
  /\ UNCHANGED <<exchanges, commands, timeouts, responseWaiters, sendBuffer, linkVars>>

(* startMotor(), startScan(). *)
SendStartScan ==
  /\ mpc = "start"
  /\ mpc' = "idle"
  /\ sendBuffer' = StartScan
  /\ UNCHANGED <<tries, exchanges, commands, timeouts, responseWaiters, responseQueue, linkVars>>

MonitorThread ==
  /\ \/ GiveUp \/ ResetParser \/ SendCommand \/ TryGetResponse \/ Wait
     \/ Timeout \/ TakeFirst \/ SendStartScan
  /\ UNCHANGED lidarVars

------------------------------------------------------------------------------
(* The Lidar thread: processReadBuffer in state SingleResponse. *)

(* An answer is complete; those before it were lost on their way.              *)
ParseResponse ==
  /\ lpc = "idle"
  /\ \E n \in 1..Len(fromDevice) :
       /\ fromDevice' = SubSeq(fromDevice, n + 1, Len(fromDevice))
       /\ IF responseWaiters > 0
          THEN lpc' = "append" /\ parsed' = fromDevice[n]
          ELSE UNCHANGED <<lpc, parsed>>    \* delete response
  /\ UNCHANGED <<monitorVars, responseQueue, sendBuffer, toDevice>>

(* Mutant: the waiters are woken and the response is not queued. *)
ForgetResponse ==
  /\ lpc = "append"
  /\ lpc' = "wake"
  /\ UNCHANGED <<monitorVars, responseQueue, parsed, sendBuffer, linkVars>>

AppendResponse ==
  /\ lpc = "append"
  /\ responseQueue' = Append(responseQueue, parsed)
  /\ lpc' = "wake"
  /\ UNCHANGED <<monitorVars, parsed, sendBuffer, linkVars>>

WakeAll ==
  /\ lpc = "wake"
  /\ mpc' = IF mpc = "waiting" THEN "woken" ELSE mpc
  /\ lpc' = "idle"
  /\ UNCHANGED <<tries, exchanges, commands, timeouts, responseWaiters, responseQueue,
                 parsed, sendBuffer, linkVars>>

LidarThread == ParseResponse \/ AppendResponse \/ WakeAll

------------------------------------------------------------------------------
(* The serial thread, the wire and the device. *)

(* Mutant: the slot is not cleared. *)
WriteCommandAgain ==
  /\ sendBuffer # NoCommand /\ Len(toDevice) < 3
  /\ toDevice' = Append(toDevice, sendBuffer)
  /\ UNCHANGED <<sendBuffer, fromDevice>>

WriteCommand ==
  /\ sendBuffer # NoCommand
  /\ \/ toDevice' = Append(toDevice, sendBuffer)
     \/ toDevice' = toDevice                \* the port is gone
  /\ sendBuffer' = NoCommand
  /\ UNCHANGED fromDevice

(* The port is closed: what is written and not transmitted is lost.            *)
ClosePort ==
  /\ \E n \in 0..Len(toDevice) : toDevice' = SubSeq(toDevice, 1, n)
  /\ UNCHANGED <<sendBuffer, fromDevice>>

(* The device answers a command for its information, or does not. *)
Answer ==
  /\ toDevice # <<>>
  /\ toDevice' = Tail(toDevice)
  /\ \/ Head(toDevice) # StartScan /\ fromDevice' = Append(fromDevice, Head(toDevice))
     \/ UNCHANGED fromDevice
  /\ UNCHANGED sendBuffer

Link == /\ WriteCommand \/ ClosePort \/ Answer
        /\ UNCHANGED <<monitorVars, lidarVars, responseQueue>>

Next == (HandleTimerExpired /\ UNCHANGED lidarVars) \/ MonitorThread \/ LidarThread \/ Link

(* The threads are scheduled, and a timed wait ends.  The device owes nothing. *)
Safety == Init /\ [][Next]_vars
Spec == Safety /\ WF_vars(MonitorThread) /\ WF_vars(LidarThread)

------------------------------------------------------------------------------
(* Every variable has its type. *)
TypeOK == /\ mpc \in {"idle", "try", "send", "enter", "wait", "waiting", "woken", "start"}
          /\ tries \in 0..MaxTries
          /\ exchanges \in 0..MaxExchanges
          /\ commands \in Nat /\ timeouts \in Nat
          /\ responseWaiters \in Int
          /\ responseQueue \in Seq(Int)
          /\ lpc \in {"idle", "append", "wake"}
          /\ parsed \in Int /\ sendBuffer \in Int
          /\ toDevice \in Seq(Int) /\ fromDevice \in Seq(Int)

(* A waiter that was woken finds a response, though the queue and the condition*)
(* variable share no lock: the only step between wakeAll and takeFirst that    *)
(* could take it is its own (lidar.cpp:173-174, 229-234).                      *)
WokenHasResponse == mpc = "woken" => responseQueue # <<>>

(* The Monitor thread takes from the unlocked queue while the Lidar thread is  *)
(* appending to it - a data race on a QList - only after some wait has timed   *)
(* out: until then one answer at most is under way (lidar.cpp:173, 233).       *)
NoRaceBeforeTimeout == mpc = "woken" /\ lpc = "append" => timeouts > 0

(* A command not answered yet, in a wait that is not over. *)
Current == IF mpc \in {"enter", "wait", "waiting", "woken"} THEN 1 ELSE 0

(* The queue is never emptied of late answers, but holds at most one for every *)
(* wait that timed out, besides the one being waited for (lidar.cpp:224-238).  *)
BacklogBounded == Len(responseQueue) <= timeouts + Current

(* Until a wait has timed out, the response taken answers the command that was *)
(* sent for it; afterwards it may answer an earlier one.                       *)
FreshBeforeTimeout ==
  [][mpc = "woken" /\ mpc' = "start" /\ timeouts = 0 => Head(responseQueue) = commands]_vars

(* StartScan does not replace a command in the one-command slot: the answer it *)
(* follows shows that the slot was emptied, again until a wait has timed out.  *)
(* Afterwards it may replace a GetDeviceInfo that was never written            *)
(* (blockingserialthread.cpp:75-80, lidar.cpp:70-100).                         *)
ScanFindsSlotFree ==
  [][mpc = "start" /\ mpc' = "idle" /\ timeouts = 0 => sendBuffer = NoCommand]_vars

(* getDeviceInfo returns: the Monitor thread, which also serves the server's   *)
(* events, does not stay in it for ever even if the device never answers.      *)
ExchangeEnds == (mpc # "idle") ~> (mpc = "idle")
====
