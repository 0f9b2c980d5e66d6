---- MODULE MonitorServer ----
(***************************************************************************)
(* The Monitor thread with the objects that live in it: MonitorThread (the *)
(* timer that starts and stops the scan), LidarServer (which counts its    *)
(* clients from the signals of their threads) and the ClientThread objects *)
(* with their sockets.  All handlers run in the Monitor thread's event     *)
(* loop, so none runs while getDeviceInfo waits; signals of other threads  *)
(* are posted to the loop and handled in their order.  A client's thread   *)
(* runs nothing but an event loop of its own.                              *)
(*                                                                         *)
(* A socket is created with its ClientThread as parent, so moveToThread    *)
(* leaves it in the Monitor thread.  Maps are numbered; DeviceInfoExchange *)
(* and SerialLink have the detail of getDeviceInfo, with its retries, and  *)
(* of the device; here an exchange succeeds or fails at some time.         *)
(***************************************************************************)
EXTENDS Integers, Sequences, FiniteSets

CONSTANTS Clients,      \* the connections that are ever made
          MaxMaps       \* bound on the maps published

ASSUME BoundAssumption == MaxMaps \in Nat /\ IsFiniteSet(Clients)

VARIABLES
  mpc,                  \* Monitor: "idle" (its loop) or "exchange" (getDeviceInfo)
  posted,               \* events posted to the Monitor thread's loop
  clientCount,          \* LidarServer::_clientCount
  thread,               \* of a client: "none", "starting", "running", "ended", "deleted"
  quitting,             \* clients whose thread was told to quit
  socket,               \* of a client: "none", "refused", "open", "lost", "closed"
  received,             \* maps written to a client
  motor,                \* the motor
  deviceOpen,           \* isDeviceOpen()
  published, overdue    \* maps published; none in the last 10 seconds

clientVars == <<thread, quitting, socket, received>>
deviceVars == <<motor, deviceOpen, published, overdue>>
vars == <<mpc, posted, clientCount, clientVars, deviceVars>>

Event(kind, what) == [kind |-> kind, what |-> what]
Post(kind, what) == posted' = Append(posted, Event(kind, what))

Pending(kind) == {i \in DOMAIN posted : posted[i].kind = kind}

Init == /\ mpc = "idle"
        /\ posted = <<>> /\ clientCount = 0
        /\ thread = [c \in Clients |-> "none"] /\ quitting = {}
        /\ socket = [c \in Clients |-> "none"]
        /\ received = [c \in Clients |-> <<>>]
        /\ motor = FALSE /\ deviceOpen = FALSE
        /\ published = 0 /\ overdue = TRUE      \* no scan completed yet

Handled == published - Cardinality(Pending("map"))

------------------------------------------------------------------------------
(* LidarServer and ClientThread, in the loop of the Monitor thread. *)

(* incomingConnection.  If setSocketDescriptor fails the thread is started all *)
(* the same, and nothing will ever end it.                                     *)
IncomingConnection(c) ==
  /\ mpc = "idle" /\ thread[c] = "none"
  /\ thread' = [thread EXCEPT ![c] = "starting"]
  /\ \E outcome \in {"open", "refused"} : socket' = [socket EXCEPT ![c] = outcome]
  /\ UNCHANGED <<mpc, posted, clientCount, quitting, received, deviceVars>>

(* Mutant: the loss is noticed and no signal connected to it. *)
NoticeQuietly(c) ==
  /\ mpc = "idle" /\ socket[c] = "lost"
  /\ socket' = [socket EXCEPT ![c] = "closed"]
  /\ UNCHANGED <<mpc, posted, clientCount, thread, quitting, received, deviceVars>>

(* The loop notices that the peer is gone: disconnected, queued to its thread  *)
(* object.                                                                     *)
NoticeDisconnect(c) ==
  /\ mpc = "idle" /\ socket[c] = "lost"
  /\ socket' = [socket EXCEPT ![c] = "closed"]
  /\ Post("closed", c)
  /\ UNCHANGED <<mpc, clientCount, thread, quitting, received, deviceVars>>

(* Mutant: every client that finishes is uncounted at its closing as well. *)
UncountAtClosing(e) == /\ e.kind = "closed"
                       /\ quitting' = quitting \cup {e.what}
                       /\ clientCount' = clientCount - 1
                       /\ UNCHANGED <<thread, socket, received>>

HandleClientStarted(e) == /\ e.kind = "started"
                          /\ clientCount' = clientCount + 1
                          /\ UNCHANGED clientVars

HandleClientFinished(e) == /\ e.kind = "finished"
                           /\ clientCount' = clientCount - 1
                           /\ UNCHANGED clientVars

HandleSocketClosed(e) == /\ e.kind = "closed"
                         /\ quitting' = quitting \cup {e.what}
                         /\ UNCHANGED <<clientCount, thread, socket, received>>

(* Mutant: only a client that has been counted is sent the map. *)
SendToRunning(e) ==
  /\ e.kind = "map"
  /\ received' = [c \in Clients |-> IF thread[c] = "running" /\ socket[c] \in {"open", "lost"}
                                    THEN Append(received[c], e.what) ELSE received[c]]
  /\ UNCHANGED <<clientCount, thread, quitting, socket>>

(* Mutant: a map waits for somebody to be counted. *)
SendToCounted(e) ==
  /\ e.kind = "map" /\ clientCount > 0
  /\ received' = [c \in Clients |-> IF socket[c] \in {"open", "lost"}
                                    THEN Append(received[c], e.what) ELSE received[c]]
  /\ UNCHANGED <<clientCount, thread, quitting, socket>>

(* handleScanReady, rangeMapReady and handleRangeMap: direct calls. *)
HandleScanReady(e) ==
  /\ e.kind = "map"
  /\ received' = [c \in Clients |-> IF socket[c] \in {"open", "lost"}
                                    THEN Append(received[c], e.what) ELSE received[c]]
  /\ UNCHANGED <<clientCount, thread, quitting, socket>>

(* deleteLater of a ClientThread posts its deletion. *)
Delete(e) == /\ e.kind = "delete"
             /\ thread' = [thread EXCEPT ![e.what] = "deleted"]
             /\ UNCHANGED <<clientCount, quitting, socket, received>>

HandlePosted ==
  /\ mpc = "idle" /\ posted # <<>>
  /\ LET e == Head(posted) IN
     \/ /\ \/ HandleClientStarted(e) \/ HandleClientFinished(e) \/ HandleSocketClosed(e)
           \/ HandleScanReady(e) \/ Delete(e)
        /\ posted' = Tail(posted)
     \/ /\ e.kind = "deleteLater"
        /\ posted' = Append(Tail(posted), Event("delete", e.what))
        /\ UNCHANGED <<clientCount, clientVars>>
  /\ UNCHANGED <<mpc, deviceVars>>

------------------------------------------------------------------------------
(* handleTimerExpired. *)

(* Mutants: a single client is not enough; nobody stops the motor. *)
BeginForSeveral ==
  /\ mpc = "idle" /\ deviceOpen /\ overdue /\ clientCount > 1
  /\ mpc' = "exchange"
  /\ motor' = FALSE
  /\ UNCHANGED <<posted, clientCount, clientVars, deviceOpen, published, overdue>>
StopForOne ==
  /\ mpc = "idle" /\ clientCount < 0
  /\ motor' = FALSE
  /\ UNCHANGED <<mpc, posted, clientCount, clientVars, deviceOpen,
                 published, overdue>>

(* The first try of getDeviceInfo stops the motor, as does every other. *)
BeginExchange ==
  /\ mpc = "idle" /\ deviceOpen /\ overdue /\ clientCount > 0
  /\ mpc' = "exchange"
  /\ motor' = FALSE
  /\ UNCHANGED <<posted, clientCount, clientVars, deviceOpen, published, overdue>>

StopMotor ==
  /\ mpc = "idle" /\ ~(deviceOpen /\ overdue /\ clientCount > 0) /\ clientCount < 1
  /\ motor' = FALSE
  /\ UNCHANGED <<mpc, posted, clientCount, clientVars, deviceOpen,
                 published, overdue>>

(* No try brings an answer: the call returns false after the last one.         *)
NoAnswer ==
  /\ mpc = "exchange"
  /\ mpc' = "idle"
  /\ UNCHANGED <<posted, clientCount, clientVars, deviceVars>>

(* An answer: start the motor and send the command to scan (DeviceInfoExchange). *)
DeviceAnswers ==
  /\ mpc = "exchange"
  /\ mpc' = "idle"
  /\ motor' = TRUE
  /\ UNCHANGED <<posted, clientCount, clientVars, deviceOpen, published, overdue>>

GetDeviceInfo == NoAnswer \/ DeviceAnswers

------------------------------------------------------------------------------
(* The threads of the clients. *)

(* Mutant: the thread asks to be deleted when it starts. *)
StartAndDelete(c) ==
  /\ thread[c] = "starting"
  /\ thread' = [thread EXCEPT ![c] = "running"]
  /\ posted' = posted \o <<Event("started", c), Event("deleteLater", c)>>
  /\ UNCHANGED <<mpc, clientCount, quitting, socket, received, deviceVars>>

ThreadStarts(c) ==
  /\ thread[c] = "starting"
  /\ thread' = [thread EXCEPT ![c] = "running"]
  /\ Post("started", c)
  /\ UNCHANGED <<mpc, clientCount, quitting, socket, received, deviceVars>>

(* quit() ends the event loop; finished is connected first to deleteLater.     *)
ThreadEnds(c) ==
  /\ thread[c] = "running" /\ c \in quitting
  /\ thread' = [thread EXCEPT ![c] = "ended"]
  /\ posted' = posted \o <<Event("deleteLater", c), Event("finished", c)>>
  /\ UNCHANGED <<mpc, clientCount, quitting, socket, received, deviceVars>>

------------------------------------------------------------------------------
(* The Lidar thread and the device. *)

(* emitScanComplete, queued to the server.  The device may scan from a former  *)
(* run of the daemon, data may be under way when it is unplugged or its motor  *)
(* stopped, so this can happen at any time.                                    *)
EmitScanComplete ==
  /\ published < MaxMaps
  /\ published' = published + 1
  /\ overdue' = FALSE
  /\ Post("map", published + 1)
  /\ UNCHANGED <<mpc, clientCount, clientVars, motor, deviceOpen>>

TenSecondsPass == /\ ~overdue /\ overdue' = TRUE
                  /\ UNCHANGED <<motor, deviceOpen, published>>

DeviceOpens == /\ ~deviceOpen /\ deviceOpen' = TRUE
               /\ UNCHANGED <<motor, published, overdue>>

DeviceCloses == /\ deviceOpen
                /\ deviceOpen' = FALSE
                /\ UNCHANGED <<motor, published, overdue>>

PeerLeaves(c) ==
  /\ socket[c] = "open"
  /\ socket' = [socket EXCEPT ![c] = "lost"]
  /\ UNCHANGED <<mpc, posted, clientCount, thread, quitting, received, deviceVars>>

Device == /\ TenSecondsPass \/ DeviceOpens \/ DeviceCloses
          /\ UNCHANGED <<mpc, posted, clientCount, clientVars>>

Next == \/ \E c \in Clients : IncomingConnection(c) \/ NoticeDisconnect(c) \/ PeerLeaves(c)
                              \/ ThreadStarts(c) \/ ThreadEnds(c)
        \/ HandlePosted \/ BeginExchange \/ StopMotor \/ GetDeviceInfo
        \/ EmitScanComplete \/ Device

(***************************************************************************)
(* Between two exchanges, which take a bounded time, the loop handles what *)
(* was posted, what the sockets notify and the timer, each in its turn:    *)
(* strong fairness, since an exchange disables all of them.  Clients, the  *)
(* device and its answers owe nothing.                                     *)
(***************************************************************************)
Spec == /\ Init /\ [][Next]_vars
        /\ SF_vars(HandlePosted) /\ SF_vars(BeginExchange) /\ SF_vars(StopMotor)
        /\ WF_vars(GetDeviceInfo)
        /\ \A c \in Clients : /\ SF_vars(NoticeDisconnect(c))
                              /\ WF_vars(ThreadStarts(c)) /\ WF_vars(ThreadEnds(c))

------------------------------------------------------------------------------
Events == [kind : {"started", "finished", "closed", "deleteLater", "delete"}, what : Clients]
            \cup [kind : {"map"}, what : Nat]

(* Every variable has its type. *)
TypeOK == /\ mpc \in {"idle", "exchange"}
          /\ posted \in Seq(Events) /\ clientCount \in Int
          /\ thread \in [Clients -> {"none", "starting", "running", "ended", "deleted"}]
          /\ quitting \subseteq Clients
          /\ socket \in [Clients -> {"none", "refused", "open", "lost", "closed"}]
          /\ received \in [Clients -> Seq(Nat)]
          /\ motor \in BOOLEAN /\ deviceOpen \in BOOLEAN
          /\ published \in 0..MaxMaps /\ overdue \in BOOLEAN

(* The count lags behind the threads by exactly the signals not handled yet,   *)
(* refused clients, whose threads never end, included, and never becomes       *)
(* negative, though it is kept from queued signals (lidarserver.cpp:13-36).    *)
CountMatches ==
  /\ clientCount >= 0
  /\ clientCount = Cardinality({c \in Clients : thread[c] = "running"})
                     - Cardinality(Pending("started")) + Cardinality(Pending("finished"))

(* A ClientThread object is deleted only when its thread has ended: Qt aborts  *)
(* the program if one is deleted that runs (lidarserver.cpp:18).               *)
DeletedAfterEnd ==
  [][\A c \in Clients : thread[c] # "deleted" /\ thread'[c] = "deleted" =>
       thread[c] = "ended"]_vars

(* The server implements MapFeed, first in safety: whatever the threads of the *)
(* clients do and however long the loop was blocked, a client that is connected*)
(* has been sent every map the server handled since it came, in order, also    *)
(* those from before its thread ran (lidarserver.cpp:16, 23).                  *)
Feed == INSTANCE MapFeed WITH
  completed <- published,
  handed <- Handled,
  here <- {c \in Clients : socket[c] = "open"},
  got <- [c \in Clients |-> IF socket[c] = "open" THEN received[c] ELSE <<>>]
FeedsClients == Feed!Safety

(* ... and every map is handed out at last, although an exchange with the      *)
(* device keeps the loop from it again and again (monitorthread.cpp:50).       *)
FeedsOn == Feed!Progress

(* When no client's thread is left, and none comes, the motor ends up stopped: *)
(* also when the last client left during getDeviceInfo, whose answer starts it *)
(* (monitorthread.cpp:47-59).                                                  *)
IdleStopsMotor ==
  <>[](\A c \in Clients : thread[c] \in {"none", "ended", "deleted"}) => <>[]~motor

(* While a client's thread runs and the device is open, either maps come or    *)
(* the Monitor thread tries to start the scan, over and over.                  *)
ClientsServed ==
  <>[](deviceOpen /\ \E c \in Clients : thread[c] = "running")
    => []<>(~overdue \/ mpc = "exchange")

(* The thread of a client that leaves ends and is deleted, provided the socket *)
(* was accepted (clientthread.cpp:36-38, 43-47).                               *)
LeaversDeleted ==
  \A c \in Clients : (socket[c] = "lost") ~> (thread[c] = "deleted")
====
