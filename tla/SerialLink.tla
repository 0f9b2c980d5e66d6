---- MODULE SerialLink ----
(***************************************************************************)
(* The serial port of the daemon: BlockingSerialThread (the run loop that  *)
(* opens, reads and writes the port), BlockingInterface (which receives    *)
(* that thread's signals in a thread of its own and passes them to Lidar)  *)
(* and the calls the Monitor thread makes into both.                       *)
(*                                                                         *)
(* run() is one action per stretch between two blocking calls: the top of  *)
(* the loop, open(), waitForReadyRead with readAll, and the write.  The    *)
(* device may be unplugged and plugged in again at any time.  The port     *)
(* itself (QSerialPort, the kernel) is external and modelled from its use. *)
(***************************************************************************)
EXTENDS Integers, Sequences

CONSTANTS MaxUnplugs,   \* bound on how often the device is unplugged
          MaxData,      \* bound on the pieces of data the device sends
          MaxCommands   \* bound on the commands the Monitor thread sends

ASSUME BoundsAssumption == MaxUnplugs \in Nat /\ MaxData \in Nat /\ MaxCommands \in Nat

NoCommand == 0          \* an empty _sendBuffer; commands are 1, 2, ... as sent

VARIABLES
  plugged, unplugs,     \* the device, and how often it was unplugged
  produced, incoming,   \* data sent by the device, and what the port holds of it
  port,                 \* _serialPort: "wild" (never set), "null", "opening", "open"
  usable,               \* the open port still has its device
  portError,            \* _serialPort->error() is one that closes the port
  outgoing, received,   \* written but not yet transmitted; what reached the device
  wasOpen, sendBuffer,  \* _wasOpen, _sendBuffer
  rpc,                  \* where run() is
  events,               \* signals queued from the serial thread to the interface's
  deviceOpen,           \* _deviceOpen
  connected, toLidar,   \* Lidar::start has connected; what Lidar has been sent
  monitor, sent,        \* the Monitor thread, and how many commands it has sent
  crashed               \* a null or wild port was dereferenced

portVars == <<port, usable, portError, outgoing, received, incoming>>
runVars == <<wasOpen, rpc>>
deviceVars == <<plugged, unplugs, produced>>
interfaceVars == <<deviceOpen, toLidar>>
monitorVars == <<connected, monitor, sent>>
vars == <<deviceVars, portVars, runVars, sendBuffer, events, interfaceVars,
          monitorVars, crashed>>

Notice == [kind : {"opened", "closed"}, data : {<<>>}]
Signal == Notice \cup [kind : {"data"}, data : Seq(Nat)]
Opened == [kind |-> "opened", data |-> <<>>]
Closed == [kind |-> "closed", data |-> <<>>]
Data(d) == [kind |-> "data", data |-> d]

Init == /\ plugged \in BOOLEAN
        /\ unplugs = 0 /\ produced = 0
        /\ incoming = <<>> /\ outgoing = <<>> /\ received = <<>>
        /\ port \in {"wild", "null"}    \* the constructor leaves it unset
        /\ usable = FALSE /\ portError = FALSE
        /\ wasOpen = FALSE /\ rpc = "check"
        /\ sendBuffer = NoCommand
        /\ events = <<>> /\ deviceOpen = FALSE
        /\ connected = FALSE /\ toLidar = <<>>
        /\ monitor = "idle" /\ sent = 0
        /\ crashed = FALSE

------------------------------------------------------------------------------
(* The serial thread. *)

(* Mutant: _wasOpen is not cleared when the closing is announced. *)
CheckClosedOnly ==
  /\ rpc = "check" /\ port = "null"
  /\ events' = IF wasOpen THEN Append(events, Closed) ELSE events
  /\ port' = "opening"
  /\ rpc' = "open"
  /\ UNCHANGED <<wasOpen, usable, portError, outgoing, received, incoming, sendBuffer, crashed>>

(* Top of the loop, with no port: say so if there was one, and begin to open. *)
CheckClosed ==
  /\ rpc = "check" /\ port = "null"
  /\ events' = IF wasOpen THEN Append(events, Closed) ELSE events
  /\ wasOpen' = FALSE
  /\ port' = "opening"
  /\ rpc' = "open"
  /\ UNCHANGED <<usable, portError, outgoing, received, incoming, sendBuffer, crashed>>

(* Top of the loop, with a pointer that was never set. *)
CheckWild ==
  /\ rpc = "check" /\ port = "wild"
  /\ crashed' = TRUE
  /\ UNCHANGED <<portVars, runVars, sendBuffer, events>>

(* initializeSerialPort: open() succeeds when the device is there. *)
OpenPort ==
  /\ rpc = "open"
  /\ \/ /\ plugged
        /\ port' = "open" /\ usable' = TRUE
        /\ events' = IF wasOpen THEN events ELSE Append(events, Opened)
        /\ wasOpen' = TRUE
        /\ rpc' = "read"
     \/ /\ ~plugged                 \* sleep(10); continue
        /\ port' = "null"
        /\ rpc' = "check"
        /\ UNCHANGED <<usable, events, wasOpen>>
  /\ portError' = FALSE
  /\ UNCHANGED <<outgoing, received, incoming, sendBuffer, crashed>>

(* Mutant: errors of the port are not looked at. *)
CheckOpenNoErrors ==
  /\ rpc = "check" /\ port = "open"
  /\ rpc' = "read"
  /\ UNCHANGED <<portVars, wasOpen, sendBuffer, events, crashed>>

(* Mutant: TimeoutError, which a read without data leaves, closes the port too. *)
CheckOpenTimeouts ==
  /\ rpc = "check" /\ port = "open"
  /\ \/ /\ portError \/ incoming = <<>>
        /\ port' = "null" /\ usable' = FALSE
        /\ outgoing' = <<>> /\ incoming' = <<>>
        /\ UNCHANGED rpc
     \/ /\ ~portError
        /\ rpc' = "read"
        /\ UNCHANGED <<port, usable, outgoing, incoming>>
  /\ UNCHANGED <<portError, received, wasOpen, sendBuffer, events, crashed>>

(* Top of the loop with an open port: close one in error, else go on to read. *)
CheckOpen ==
  /\ rpc = "check" /\ port = "open"
  /\ \/ /\ portError
        /\ port' = "null" /\ usable' = FALSE
        /\ outgoing' = <<>> /\ incoming' = <<>>
        /\ UNCHANGED rpc
     \/ /\ ~portError
        /\ rpc' = "read"
        /\ UNCHANGED <<port, usable, outgoing, incoming>>
  /\ UNCHANGED <<portError, received, wasOpen, sendBuffer, events, crashed>>

(* waitForReadyRead(1000), in which the port also transmits, and readAll. *)
ReadPort ==
  /\ rpc = "read"
  /\ \/ /\ usable
        /\ received' = received \o outgoing
        /\ outgoing' = <<>>
        /\ events' = IF incoming = <<>> THEN events ELSE Append(events, Data(incoming))
        /\ incoming' = <<>>
        /\ UNCHANGED portError
     \/ /\ ~usable
        /\ portError' = TRUE
        /\ UNCHANGED <<received, outgoing, events, incoming>>
  /\ rpc' = "write"
  /\ UNCHANGED <<port, usable, wasOpen, sendBuffer, crashed>>

(* Mutant: _sendBuffer is not cleared. *)
WritePortAgain ==
  /\ rpc = "write"
  /\ outgoing' = IF sendBuffer = NoCommand THEN outgoing ELSE Append(outgoing, sendBuffer)
  /\ Len(outgoing') <= MaxCommands
  /\ rpc' = "check"
  /\ UNCHANGED <<port, usable, portError, received, incoming, sendBuffer, wasOpen, events, crashed>>

(* Under _sendBufferLock: hand _sendBuffer to the port; its answer is ignored. *)
WritePort ==
  /\ rpc = "write"
  /\ outgoing' = IF sendBuffer = NoCommand THEN outgoing ELSE Append(outgoing, sendBuffer)
  /\ sendBuffer' = NoCommand
  /\ rpc' = "check"
  /\ UNCHANGED <<port, usable, portError, received, incoming, wasOpen, events, crashed>>

SerialThread ==
  /\ CheckClosed \/ CheckWild \/ CheckOpen \/ OpenPort \/ ReadPort \/ WritePort
  /\ UNCHANGED <<deviceVars, interfaceVars, monitorVars>>

------------------------------------------------------------------------------
(* The interface's thread takes the signals in their order. *)

(* Mutant: Lidar is connected twice. *)
EmitTwice(s) == toLidar' = IF connected THEN toLidar \o <<s, s>> ELSE toLidar

Emit(s) == toLidar' = IF connected THEN Append(toLidar, s) ELSE toLidar

(* Mutant: _deviceOpen stays set. *)
IgnorePortClosed == Head(events) = Closed /\ UNCHANGED <<deviceOpen, toLidar>>

HandlePortOpened == Head(events) = Opened /\ deviceOpen' = TRUE /\ Emit(Opened)
HandlePortClosed == Head(events) = Closed /\ deviceOpen' = FALSE /\ UNCHANGED toLidar
HandleReadyRead == /\ Head(events).kind = "data"
                   /\ Emit(Head(events))
                   /\ UNCHANGED deviceOpen

InterfaceThread ==
  /\ events # <<>>
  /\ events' = Tail(events)
  /\ HandlePortOpened \/ HandlePortClosed \/ HandleReadyRead
  /\ UNCHANGED <<deviceVars, portVars, runVars, sendBuffer, monitorVars, crashed>>

------------------------------------------------------------------------------
(* The Monitor thread. *)

(* Lidar::start connects after the interface's threads have been started. *)
LidarStart == /\ ~connected
              /\ connected' = TRUE
              /\ UNCHANGED <<monitor, sent, sendBuffer, crashed>>

(* handleTimerExpired with clients and an open device: getDeviceInfo, startScan. *)
BeginExchange == /\ connected /\ monitor = "idle" /\ deviceOpen
                 /\ monitor' = "exchange"
                 /\ UNCHANGED <<connected, sent, sendBuffer, crashed>>

EndExchange == /\ monitor = "exchange"
               /\ monitor' = "idle"
               /\ UNCHANGED <<connected, sent, sendBuffer, crashed>>

(* send(), which is a direct call of handleReadyWrite: the last command wins. *)
Send == /\ monitor = "exchange" /\ sent < MaxCommands
        /\ sent' = sent + 1
        /\ sendBuffer' = sent + 1
        /\ UNCHANGED <<connected, monitor, crashed>>

(* startMotor, stopMotor: from an exchange, or from a tick without clients,    *)
(* which does not ask whether the device is open.                              *)
MotorCall == /\ connected
             /\ crashed' = (port \in {"null", "wild"})
             /\ UNCHANGED <<connected, monitor, sent, sendBuffer>>

MonitorThread ==
  /\ LidarStart \/ BeginExchange \/ EndExchange \/ Send \/ MotorCall
  /\ UNCHANGED <<deviceVars, portVars, runVars, events, interfaceVars>>

------------------------------------------------------------------------------
(* The device, external. *)
Unplug == /\ plugged /\ unplugs < MaxUnplugs
          /\ plugged' = FALSE
          /\ unplugs' = unplugs + 1
          /\ usable' = FALSE
          /\ incoming' = <<>>
          /\ UNCHANGED <<produced, port, portError, outgoing, received>>

Plug == /\ ~plugged
        /\ plugged' = TRUE
        /\ UNCHANGED <<unplugs, produced, portVars>>

Produce == /\ usable /\ produced < MaxData
           /\ produced' = produced + 1
           /\ incoming' = Append(incoming, produced + 1)
           /\ UNCHANGED <<plugged, unplugs, port, usable, portError, outgoing, received>>

Device == /\ Unplug \/ Plug \/ Produce
          /\ UNCHANGED <<runVars, sendBuffer, events, interfaceVars, monitorVars, crashed>>

Next == ~crashed /\ (SerialThread \/ InterfaceThread \/ MonitorThread \/ Device)

(* Both threads of the interface are scheduled. *)
Spec == Init /\ [][Next]_vars /\ WF_vars(~crashed /\ SerialThread)
                              /\ WF_vars(~crashed /\ InterfaceThread)

------------------------------------------------------------------------------
(* Every variable has its type. *)
TypeOK == /\ plugged \in BOOLEAN /\ unplugs \in 0..MaxUnplugs
          /\ produced \in 0..MaxData
          /\ port \in {"wild", "null", "opening", "open"}
          /\ usable \in BOOLEAN /\ portError \in BOOLEAN
          /\ incoming \in Seq(Nat) /\ outgoing \in Seq(Nat) /\ received \in Seq(Nat)
          /\ wasOpen \in BOOLEAN /\ rpc \in {"check", "open", "read", "write"}
          /\ sendBuffer \in 0..sent
          /\ events \in Seq(Signal) /\ toLidar \in Seq(Signal)
          /\ deviceOpen \in BOOLEAN /\ connected \in BOOLEAN
          /\ monitor \in {"idle", "exchange"} /\ sent \in 0..MaxCommands
          /\ crashed \in BOOLEAN

(* The loop reads and writes only through an open port, though closing it, its *)
(* deletion and the next opening are spread over turns of the loop             *)
(* (blockingserialthread.cpp:44-52).                                           *)
RunHasPort == rpc \in {"read", "write"} => port = "open"

(* The Monitor thread's motor calls use _serialPort without a lock and without *)
(* looking at it.  Those of an exchange, which begins only if isDeviceOpen()   *)
(* says so, find an open port as long as the device is not unplugged, although *)
(* that flag is set from another thread, a queue behind what run() does        *)
(* (blockingserialthread.cpp:117-127, 44-50; monitorthread.cpp:47-54).  After  *)
(* an unplugging they may find none, which ends the program.                   *)
ExchangeFindsPort ==
  unplugs = 0 /\ (deviceOpen \/ monitor = "exchange") => port = "open"

(* The signals under way bracket the data into sessions: a session is opened   *)
(* only when none is open, data and the closing come only within one, and what *)
(* _deviceOpen will be once they are handled is what run() believes (_wasOpen).*)
(* Two flags in two threads, joined only by a queue (blockingserialthread.cpp: *)
(* 23-40, blockinginterface.cpp:30-41).                                        *)
OpenBefore(i) == IF i = 1 THEN deviceOpen ELSE events[i - 1].kind # "closed"
SessionsBracketed ==
  /\ \A i \in 1..Len(events) : events[i].kind = "opened" <=> ~OpenBefore(i)
  /\ wasOpen <=> OpenBefore(Len(events) + 1)

(* Lidar is handed data only while isDeviceOpen() is true, and is told that    *)
(* the port opened only when it was closed before.                             *)
DataInSession ==
  [][\A i \in DOMAIN toLidar' \ DOMAIN toLidar :
       toLidar'[i].kind = "opened" <=> ~deviceOpen]_vars

Increasing(s) == \A i, j \in 1..Len(s) : i < j => s[i] < s[j]

(* The one-command slot may lose a command (a later one overwrites it, or the  *)
(* port goes) but never repeats one or lets one overtake another.              *)
CommandsInOrder ==
  Increasing(received \o outgoing \o
             (IF sendBuffer = NoCommand THEN <<>> ELSE <<sendBuffer>>))

(* The data on its way: in signals handled and queued, and in the port.        *)
Signals == toLidar \o events \o <<Data(incoming)>>
InOrder(s) ==
  /\ \A i \in 1..Len(s) : Increasing(s[i].data)
  /\ \A i, j \in 1..Len(s) : i < j =>
       \A a \in 1..Len(s[i].data), b \in 1..Len(s[j].data) : s[i].data[a] < s[j].data[b]

(* Every piece before the last one is followed, somewhere, by the next.        *)
Carries(s, v) == \E i \in 1..Len(s) : \E a \in 1..Len(s[i].data) : s[i].data[a] = v
NoGap(s, last) == \A v \in 1..(last - 1) : Carries(s, v) => Carries(s, v + 1)

(* The data reaches Lidar in order and without repetition, however reading and *)
(* handling interleave; and while the device was never unplugged without a gap *)
(* from the first piece on that Lidar was connected for                        *)
(* (blockingserialthread.cpp:52-62, blockinginterface.cpp:25-28).              *)
DataInOrder == InOrder(Signals) /\ (unplugs = 0 => NoGap(Signals, produced))

(* The device comes and goes, but when it stays the daemon has it open, and    *)
(* when it stays away isDeviceOpen() ends up false - unless a motor call hits  *)
(* the missing port and ends the program first.                                *)
DeviceFollowed ==
  /\ <>[](plugged /\ ~crashed) => <>[](deviceOpen /\ usable)
  /\ <>[](~plugged /\ ~crashed) => <>[]~deviceOpen
====
