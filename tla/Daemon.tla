---- MODULE Daemon ----
(***************************************************************************)
(* The daemon's process from main() (main.cpp) to its end: LidarDaemon,    *)
(* which turns Unix signals into events (lidardaemon.cpp), the options, and*)
(* MonitorThread::stop (monitorthread.cpp:62-67) against the Monitor       *)
(* thread, whose exchange with the device is in MonitorServer and          *)
(* DeviceInfoExchange: here it only stops and starts the motor.            *)
(*                                                                         *)
(* Uninitialised in the code and therefore chosen at the start: wild (what *)
(* is in _deviceInterface before Lidar::start is not null) and resetHand   *)
(* (term.sa_flags has SA_RESETHAND: the second SIGTERM kills).             *)
(*                                                                         *)
(* Not in the code: sent (signals so far), overtaken (the Monitor thread   *)
(* was in an exchange as main stopped the motor, began one after it, or had*)
(* no device yet).  setMonitorThread is declared and defined nowhere, so   *)
(* _monitorThread of LidarDaemon is always null.                           *)
(*                                                                         *)
(* The specification and the motor have names of their own, so that a      *)
(* module may extend this one and MonitorServer.                           *)
(***************************************************************************)
EXTENDS Integers

CONSTANTS CommandLines, \* functions from some of the keys to values
          ConfFiles,    \* the same, or Missing
          Illegal,      \* a text that is not what its key needs
          Missing,      \* no file of the name
          MaxSignals    \* bound on the signals sent

ASSUME SignalsAssumption == MaxSignals \in Nat

VARIABLES commandLine, confFile, settings,
          pc,             \* where main is
          hupFd, termFd,  \* bytes in the socket pairs
          termHandled,    \* SIGTERM has its handler
          resetHand, wild, sent, overtaken,
          lidar,          \* _lidar of MonitorThread: null, new or started
          port,           \* _serialPort is not null
          quitNow,        \* the Monitor thread's loop is to end
          monitor,        \* where the Monitor thread is
          motorOn, ended

optionVars == <<commandLine, confFile, settings>>
signalVars == <<hupFd, termFd, termHandled, sent>>
garbageVars == <<resetHand, wild>>
threadVars == <<lidar, port, quitNow, monitor>>
daemonVars == <<optionVars, pc, signalVars, garbageVars, overtaken, threadVars, motorOn, ended>>

DaemonInit ==
  /\ commandLine \in CommandLines /\ confFile \in ConfFiles
  /\ settings = Missing
  /\ pc = "main"
  /\ hupFd = 0 /\ termFd = 0 /\ termHandled = FALSE /\ sent = 0
  /\ resetHand \in BOOLEAN /\ wild \in BOOLEAN
  /\ overtaken = FALSE
  /\ lidar = "null" /\ port = FALSE /\ quitNow = FALSE /\ monitor = "none"
  /\ motorOn \in BOOLEAN
  /\ ended = "no"

Alive == ended = "no"

------------------------------------------------------------------------------
(* The options: main.cpp:80-178.  A text that toInt refuses counts as 0 in the *)
(* file and ends the program on the command line.                              *)
Set(key) == key \in DOMAIN commandLine
InFile(key) == confFile # Missing /\ key \in DOMAIN confFile
FileText(key) == IF InFile(key) THEN confFile[key] ELSE ""
FileNumber(key) == IF InFile(key) /\ confFile[key] # Illegal THEN confFile[key] ELSE 0
FileAddress == IF InFile("pigs-address") THEN confFile["pigs-address"] ELSE Illegal

Allowed(key, range) == Set(key) => commandLine[key] # Illegal /\ commandLine[key] \in range

Accepted ==
  /\ Set("conf-file") => confFile # Missing
  /\ Set("serial-port") \/ FileText("serial-port") # ""
  /\ Set("pigs-address") => commandLine["pigs-address"] # Illegal
  /\ Set("listen-port") => commandLine["listen-port"] # Illegal
  /\ Allowed("motor-control-pin", 1..28)
  /\ Allowed("verbosity", 0..10)

Number(key) == IF Set(key) THEN commandLine[key] ELSE FileNumber(key)

(* listenPort is a quint16.  --log-file is parsed and its value not used.      *)
Settings ==
  [serialPort |-> IF Set("serial-port") THEN commandLine["serial-port"]
                  ELSE FileText("serial-port"),
   pigs       |-> IF Set("pigs-address") THEN commandLine["pigs-address"] ELSE FileAddress,
   listenPort |-> Number("listen-port") % 65536,
   motorPin   |-> Number("motor-control-pin"),
   verbosity  |-> Number("verbosity"),
   logFile    |-> IF confFile = Missing THEN "/tmp/lidar.log" ELSE FileText("log-file")]

------------------------------------------------------------------------------
(* main(), up to its event loop.                                               *)
Main(from, to) == /\ Alive /\ pc = from /\ pc' = to
                  /\ UNCHANGED <<commandLine, confFile, garbageVars, sent>>

InstallHandlers ==
  /\ Main("main", "handlers")
  /\ termHandled' = TRUE
  /\ UNCHANGED <<settings, hupFd, termFd, overtaken, threadVars, motorOn, ended>>

OpenSockets ==
  /\ \/ Main("handlers", "hup") \/ Main("hup", "sockets")
  /\ UNCHANGED <<settings, hupFd, termFd, termHandled, overtaken, threadVars, motorOn, ended>>

ProcessOptions ==
  /\ Main("sockets", "monitor")
  /\ IF Accepted THEN settings' = Settings /\ UNCHANGED ended
                 ELSE ended' = "refused" /\ UNCHANGED settings
  /\ UNCHANGED <<hupFd, termFd, termHandled, overtaken, threadVars, motorOn>>

NewMonitorThread ==
  /\ Main("monitor", "exec")
  /\ monitor' = "starting"
  /\ UNCHANGED <<settings, hupFd, termFd, termHandled, overtaken, lidar, port, quitNow,
                 motorOn, ended>>

(* The event loop: what the handlers of the signals have written is read.      *)
HandleSigHup ==
  /\ hupFd > 0 /\ Main("exec", "exec")
  /\ hupFd' = hupFd - 1
  /\ UNCHANGED <<settings, termFd, termHandled, overtaken, threadVars, motorOn, ended>>

QuitForMonitor == \* quitting only if there is a _monitorThread
  /\ termFd > 0 /\ Main("exec", "exec")
  /\ termFd' = termFd - 1
  /\ UNCHANGED <<settings, hupFd, termHandled, overtaken, threadVars, motorOn, ended>>

HandleSigTerm ==
  /\ termFd > 0 /\ Main("exec", "quit")
  /\ termFd' = termFd - 1
  /\ UNCHANGED <<settings, hupFd, termHandled, overtaken, threadVars, motorOn, ended>>

(* monitor->stop(): the thread's loop is told, then the motor is stopped; an   *)
(* interface or a port that is not there crashes the program.                  *)
QuitThread ==
  /\ Main("quit", "stop")
  /\ quitNow' = TRUE
  /\ UNCHANGED <<settings, hupFd, termFd, termHandled, overtaken, lidar, port, monitor,
                 motorOn, ended>>

NoInterface == lidar = "null" \/ (lidar = "new" /\ ~wild)
WildInterface == (lidar = "new" /\ wild) \/ (lidar = "started" /\ ~port)
InExchange == monitor \in {"exchange", "answered"}

StopUnstarted == \* _lidar == nullptr for _lidar != nullptr
  /\ Main("stop", "return")
  /\ overtaken' = (NoInterface \/ InExchange)
  /\ UNCHANGED <<settings, hupFd, termFd, termHandled, threadVars, motorOn, ended>>

LidarStop ==
  /\ Main("stop", "return")
  /\ overtaken' = (NoInterface \/ InExchange)
  /\ IF NoInterface THEN UNCHANGED <<motorOn, ended>>
     ELSE IF WildInterface THEN ended' = "crashed" /\ UNCHANGED motorOn
     ELSE motorOn' = FALSE /\ UNCHANGED ended
  /\ UNCHANGED <<settings, hupFd, termFd, termHandled, threadVars>>

Return ==
  /\ Main("return", "returned")
  /\ ended' = "returned"
  /\ UNCHANGED <<settings, hupFd, termFd, termHandled, overtaken, threadVars, motorOn>>

MainThread == \/ InstallHandlers \/ OpenSockets \/ ProcessOptions \/ NewMonitorThread
              \/ HandleSigHup \/ HandleSigTerm \/ QuitThread \/ LidarStop \/ Return

------------------------------------------------------------------------------
(* The Monitor thread: handleThreadStarted, then the passes of its event loop, *)
(* which looks at quitNow between two passes only.                             *)
Monitor(from, to) == /\ Alive /\ monitor = from /\ monitor' = to
                     /\ UNCHANGED <<optionVars, pc, signalVars, garbageVars, quitNow>>

NewLidar ==
  /\ lidar = "null" /\ Monitor("starting", "starting")
  /\ lidar' = "new"
  /\ UNCHANGED <<overtaken, port, motorOn, ended>>

LidarStart ==
  /\ lidar = "new" /\ Monitor("starting", "loop")
  /\ lidar' = "started"
  /\ UNCHANGED <<overtaken, port, motorOn, ended>>

EventLoop ==
  /\ Monitor("loop", IF quitNow THEN "finished" ELSE "pass")
  /\ UNCHANGED <<overtaken, lidar, port, motorOn, ended>>

MotorCall(on) ==
  /\ IF port THEN motorOn' = on /\ UNCHANGED ended ELSE ended' = "crashed" /\ UNCHANGED motorOn
  /\ UNCHANGED <<lidar, port>>

NothingDue ==
  /\ Monitor("pass", "loop")
  /\ UNCHANGED <<overtaken, lidar, port, motorOn, ended>>

StopForNobody ==
  /\ Monitor("pass", "loop")
  /\ MotorCall(FALSE)
  /\ UNCHANGED overtaken

(* getDeviceInfo, with its tries...                                            *)
TryDeviceInfo ==
  /\ \/ Monitor("pass", "exchange") \/ Monitor("exchange", "exchange")
  /\ MotorCall(FALSE)
  /\ overtaken' = (overtaken \/ pc \in {"return", "returned"})

Answered ==
  /\ Monitor("exchange", "answered")
  /\ UNCHANGED <<overtaken, lidar, port, motorOn, ended>>

GiveUp ==
  /\ Monitor("exchange", "loop")
  /\ UNCHANGED <<overtaken, lidar, port, motorOn, ended>>

(* ... and what follows an answer: startMotor, and startScan, which starts it  *)
(* again.                                                                      *)
StartScan ==
  /\ Monitor("answered", "loop")
  /\ MotorCall(TRUE)
  /\ UNCHANGED overtaken

MonitorThread == \/ NewLidar \/ LidarStart \/ EventLoop \/ NothingDue \/ StopForNobody
                 \/ TryDeviceInfo \/ Answered \/ GiveUp \/ StartScan

------------------------------------------------------------------------------
(* The serial thread has the port or has it not.                               *)
PortChanges ==
  /\ Alive /\ lidar = "started"
  /\ port' = ~port
  /\ UNCHANGED <<optionVars, pc, signalVars, garbageVars, overtaken, lidar, quitNow, monitor,
                 motorOn, ended>>

Sending == /\ Alive /\ sent < MaxSignals /\ sent' = sent + 1
           /\ UNCHANGED <<optionVars, pc, garbageVars, overtaken, threadVars, motorOn>>

(* A signal without handler ends the program; one whose socket pair is not     *)
(* there yet is written to descriptor 0 and lost.                              *)
SigHup ==
  /\ Sending
  /\ IF pc = "main" THEN ended' = "killed" /\ UNCHANGED hupFd
     ELSE hupFd' = (IF pc = "handlers" THEN 0 ELSE hupFd + 1) /\ UNCHANGED ended
  /\ UNCHANGED <<termFd, termHandled>>

SigTerm ==
  /\ Sending
  /\ IF ~termHandled THEN ended' = "killed" /\ UNCHANGED <<termFd, termHandled>>
     ELSE /\ termFd' = (IF pc \in {"handlers", "hup"} THEN 0 ELSE termFd + 1)
          /\ termHandled' = ~resetHand
          /\ UNCHANGED ended
  /\ UNCHANGED hupFd

DaemonNext == MainThread \/ MonitorThread \/ PortChanges \/ SigHup \/ SigTerm

(* The main thread is scheduled; nothing here needs the Monitor thread to be.  *)
DaemonSpec == DaemonInit /\ [][DaemonNext]_daemonVars /\ WF_daemonVars(MainThread)

------------------------------------------------------------------------------
(* A SIGTERM that reached its socket pair ends the program, whatever the main  *)
(* thread was at, although the handler finds no _monitorThread to stop, and    *)
(* although the Monitor thread may be in an exchange of 20 tries.              *)
TermEndsProgram == (termFd > 0) ~> ~Alive

(* A program that returns from main leaves the motor off, unless the Monitor   *)
(* thread was in an exchange as main stopped it, began one after it, or had no *)
(* device yet (monitorthread.cpp:62-67 against 45-60).                         *)
MotorOffAtExit == ended = "returned" /\ ~overtaken => ~motorOn

(* The help of --log-file (main.cpp:71-73): "Log file for output".             *)
LogFileGiven == settings # Missing /\ Set("log-file") =>
                  settings.logFile = commandLine["log-file"]
====
