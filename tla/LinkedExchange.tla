---- MODULE LinkedExchange ----
(***************************************************************************)
(* getDeviceInfo over the serial port: DeviceInfoExchange with SerialLink  *)
(* in the place of its serial thread, wire and device.  Every step is one  *)
(* of SerialLink's, of the exchange's, or of both at once; what is added   *)
(* is the route of a command and of its answer, and where the Monitor      *)
(* thread makes its motor calls, which use the port.                       *)
(*                                                                         *)
(* SerialLink numbers all commands as they are sent, the exchange only     *)
(* those for the device information: meaning says which of them a sent     *)
(* command is.  An answer is one piece of data.  The data of a scan is     *)
(* left out.                                                               *)
(***************************************************************************)
EXTENDS SerialLink

CONSTANTS MaxTries, MaxExchanges, InitialWaiters    \* as in DeviceInfoExchange

ASSUME TriesAssumption == MaxTries \in Nat /\ MaxExchanges \in Nat
ASSUME WaitersAssumption == InitialWaiters \subseteq Int

VARIABLES
  mpc, tries, exchanges, commands, timeouts, responseWaiters,   \* as in
  responseQueue, lpc, parsed,                                   \* DeviceInfoExchange
  meaning,          \* what each command sent is: its number there, or StartScan
  answers,          \* of each piece of data, the command it answers
  taken,            \* commands received that the device has dealt with
  heard,            \* the last answer Lidar has parsed or thrown away
  motorCalled       \* the motor call due before the next step has been made

waitVars == <<mpc, tries, exchanges, commands, timeouts, responseWaiters, responseQueue>>
parserVars == <<lpc, parsed>>
routeVars == <<meaning, answers, taken, heard>>
linkedVars == <<vars, waitVars, parserVars, routeVars, motorCalled>>

(* The exchange as it sees the link: the slot, the commands on their way to    *)
(* the device, and its answers that Lidar has not come to, the lost ones too.  *)
Slot == IF sendBuffer = NoCommand THEN NoCommand ELSE meaning[sendBuffer]
Written == received \o outgoing
ToDevice == [i \in 1..(Len(Written) - taken) |-> meaning[Written[taken + i]]]
FromDevice == [i \in 1..(produced - heard) |-> answers[heard + i]]

Exchange == INSTANCE DeviceInfoExchange
            WITH sendBuffer <- Slot, toDevice <- ToDevice, fromDevice <- FromDevice

LinkedInit == /\ Init
              /\ mpc = "idle" /\ tries = 0 /\ exchanges = 0 /\ commands = 0 /\ timeouts = 0
              /\ responseWaiters \in InitialWaiters /\ responseQueue = <<>>
              /\ lpc = "idle" /\ parsed = NoCommand
              /\ meaning = <<>> /\ answers = <<>> /\ taken = 0 /\ heard = 0
              /\ motorCalled = FALSE

------------------------------------------------------------------------------
(* The Monitor thread. *)

(* What a step of it leaves alone. *)
elsewhere == <<deviceVars, portVars, runVars, events, interfaceVars, parserVars>>

LinkedLidarStart ==
  LidarStart /\ UNCHANGED <<elsewhere, waitVars, routeVars, motorCalled>>

LinkedTimerExpired ==
  /\ BeginExchange /\ UNCHANGED <<elsewhere, routeVars, motorCalled>>
  /\ Exchange!HandleTimerExpired

(* A tick without clients: stopMotor, whether or not the device is open. *)
StopForNobody ==
  /\ mpc = "idle" /\ monitor = "idle"
  /\ MotorCall
  /\ UNCHANGED <<elsewhere, waitVars, routeVars, motorCalled>>

(* stopMotor of a try, startMotor before startScan and the one within it, after*)
(* its command is sent.                                                        *)
CallMotor ==
  /\ \/ mpc = "try" /\ tries > 0
     \/ mpc = "start"
     \/ mpc = "idle" /\ monitor = "exchange"
  /\ ~motorCalled /\ motorCalled' = TRUE
  /\ MotorCall
  /\ UNCHANGED <<elsewhere, waitVars, routeVars>>

LinkedGiveUp ==
  /\ EndExchange /\ UNCHANGED <<elsewhere, routeVars, motorCalled>>
  /\ Exchange!GiveUp

StartScanReturns ==
  /\ mpc = "idle"
  /\ EndExchange
  /\ motorCalled /\ motorCalled' = FALSE
  /\ UNCHANGED <<elsewhere, waitVars, routeVars>>

(* The first piece of s that Lidar has not come to. *)
NextPiece(s, p) == /\ Carries(s, p)
                   /\ \A q \in (heard + 1)..(p - 1) : ~Carries(s, q)

(* reset(): an answer that has arrived in part is lost. *)
LinkedReset ==
  /\ mpc = "try" /\ tries > 0 /\ motorCalled
  /\ mpc' = "send" /\ motorCalled' = FALSE
  /\ \/ UNCHANGED heard
     \/ \E p \in (heard + 1)..produced : NextPiece(Signals, p) /\ heard' = p
  /\ UNCHANGED <<elsewhere, monitorVars, sendBuffer, crashed, tries, exchanges, commands,
                 timeouts, responseWaiters, responseQueue, meaning, answers, taken>>

SendDeviceInfo ==
  /\ mpc = "send" /\ mpc' = "enter"
  /\ Send
  /\ commands' = commands + 1
  /\ meaning' = Append(meaning, commands + 1)
  /\ UNCHANGED <<elsewhere, tries, exchanges, timeouts, responseWaiters, responseQueue,
                 answers, taken, heard, motorCalled>>

LinkedSendStartScan ==
  /\ mpc = "start" /\ mpc' = "idle"
  /\ motorCalled /\ motorCalled' = FALSE
  /\ Send
  /\ meaning' = Append(meaning, Exchange!StartScan)
  /\ UNCHANGED <<elsewhere, tries, exchanges, commands, timeouts, responseWaiters,
                 responseQueue, answers, taken, heard>>

(* Entering the wait, waiting and taking a response do not touch the link.     *)
LinkedWait ==
  /\ UNCHANGED <<vars, parserVars, routeVars, motorCalled>>
  /\ Exchange!TryGetResponse \/ Exchange!Wait \/ Exchange!Timeout \/ Exchange!TakeFirst

LinkedMonitorThread ==
  \/ LinkedLidarStart \/ LinkedTimerExpired \/ StopForNobody \/ CallMotor \/ LinkedGiveUp
  \/ StartScanReturns \/ LinkedReset \/ SendDeviceInfo \/ LinkedSendStartScan \/ LinkedWait

------------------------------------------------------------------------------
(* The Lidar thread. *)

(* An answer is complete. *)
LinkedParse ==
  /\ lpc = "idle"
  /\ \E p \in (heard + 1)..produced :
       /\ NextPiece(toLidar, p)
       /\ heard' = p
       /\ IF responseWaiters > 0
          THEN lpc' = "append" /\ parsed' = answers[p]
          ELSE UNCHANGED parserVars
  /\ UNCHANGED <<vars, waitVars, meaning, answers, taken, motorCalled>>

LinkedWake ==
  /\ UNCHANGED <<vars, routeVars, motorCalled>>
  /\ Exchange!AppendResponse \/ Exchange!WakeAll

LinkedLidarThread == LinkedParse \/ LinkedWake

------------------------------------------------------------------------------
(* The serial thread, the interface's thread and the device. *)

LinkedSerialThreads ==
  /\ SerialThread \/ InterfaceThread
  /\ UNCHANGED <<waitVars, parserVars, routeVars, motorCalled>>

(* The device deals with the next command it has received: it answers one for  *)
(* its information, or does not.                                               *)
TakeCommand ==
  /\ taken < Len(received)
  /\ taken' = taken + 1
  /\ LET command == meaning[received[taken + 1]]
     IN  \/ /\ command # Exchange!StartScan
            /\ Produce
            /\ answers' = Append(answers, command)
         \/ UNCHANGED <<deviceVars, portVars, answers>>
  /\ UNCHANGED <<meaning, heard>>

LinkedDevice ==
  /\ \/ (Unplug \/ Plug) /\ UNCHANGED routeVars
     \/ TakeCommand
  /\ UNCHANGED <<runVars, sendBuffer, events, interfaceVars, monitorVars, crashed,
                 waitVars, parserVars, motorCalled>>

LinkedNext == ~crashed /\ (\/ LinkedMonitorThread \/ LinkedLidarThread
                           \/ LinkedSerialThreads \/ LinkedDevice)

LinkedSpec == LinkedInit /\ [][LinkedNext]_linkedVars

------------------------------------------------------------------------------
(* What SerialLink does to commands and answers is what the exchange allows    *)
(* its link: it may lose them, when the port closes or another command takes   *)
(* the slot, but does not repeat one or swap two, though three threads and the *)
(* device hand them on - so what is shown of the exchange holds over the       *)
(* serial port (lidar.cpp:70-100, blockingserialthread.cpp:23-80).             *)
ImplementsExchange == Exchange!Safety
====
