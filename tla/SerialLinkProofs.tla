---- MODULE SerialLinkProofs ----
(***************************************************************************)
(* Proofs about SerialLink, for every number of unpluggings, pieces of     *)
(* data and commands, and at the end that LinkedExchange, of which it is a *)
(* part, implements DeviceInfoExchange.                                    *)
(***************************************************************************)
EXTENDS LinkedExchange, TLAPS

(* Where run() is and what it holds: it reads and writes only in a session. *)
RunState ==
  /\ rpc = "open" => ~wasOpen
  /\ rpc \in {"read", "write"} => wasOpen
  /\ rpc = "check" /\ port = "open" => wasOpen
  /\ RunHasPort

IInv == TypeOK /\ RunState /\ SessionsBracketed

LEMMA InitIInv == Init => IInv
<1> SUFFICES ASSUME Init PROVE IInv
  OBVIOUS
<1>1. TypeOK
  <2>1. /\ unplugs \in 0..MaxUnplugs /\ produced \in 0..MaxData /\ sent \in 0..MaxCommands
        /\ sendBuffer \in 0..sent
    BY BoundsAssumption DEF Init, NoCommand
  <2>2. /\ incoming \in Seq(Nat) /\ outgoing \in Seq(Nat) /\ received \in Seq(Nat)
        /\ events \in Seq(Signal) /\ toLidar \in Seq(Signal)
    BY DEF Init
  <2>3. /\ plugged \in BOOLEAN /\ usable \in BOOLEAN /\ portError \in BOOLEAN
        /\ wasOpen \in BOOLEAN /\ deviceOpen \in BOOLEAN /\ connected \in BOOLEAN
        /\ crashed \in BOOLEAN
    BY DEF Init
  <2>4. /\ port \in {"wild", "null", "opening", "open"}
        /\ rpc \in {"check", "open", "read", "write"}
        /\ monitor \in {"idle", "exchange"}
    BY DEF Init
  <2> QED
    BY <2>1, <2>2, <2>3, <2>4 DEF TypeOK
<1>2. RunState
  BY DEF Init, RunState, RunHasPort
<1>3. SessionsBracketed
  BY DEF Init, SessionsBracketed, OpenBefore
<1> QED
  BY <1>1, <1>2, <1>3 DEF IInv

LEMMA SignalTypes == Opened \in Signal /\ Closed \in Signal
                     /\ \A d \in Seq(Nat) : Data(d) \in Signal
BY DEF Opened, Closed, Data, Signal, Notice

(* Every step keeps the types. *)
LEMMA SerialThreadTypeOK ==
  ASSUME TypeOK, SerialThread
  PROVE  TypeOK'
<1> USE DEF TypeOK, deviceVars, interfaceVars, monitorVars
<1>1. CASE CheckClosed
  <2>1. events' \in Seq(Signal)
    BY <1>1, SignalTypes DEF CheckClosed
  <2> QED
    BY <1>1, <2>1 DEF CheckClosed, SerialThread
<1>2. CASE CheckWild
  BY <1>2 DEF CheckWild, SerialThread, portVars, runVars
<1>3. CASE CheckOpen
  <2>1. /\ outgoing' \in Seq(Nat) /\ incoming' \in Seq(Nat)
        /\ port' \in {"wild", "null", "opening", "open"}
        /\ rpc' \in {"check", "open", "read", "write"}
    <3>1. CASE UNCHANGED rpc /\ port' = "null" /\ outgoing' = <<>> /\ incoming' = <<>>
      BY <3>1
    <3>2. CASE rpc' = "read" /\ UNCHANGED <<port, usable, outgoing, incoming>>
      BY <3>2
    <3> QED
      BY <1>3, <3>1, <3>2 DEF CheckOpen
  <2>2. usable' \in BOOLEAN
    BY <1>3 DEF CheckOpen
  <2> QED
    BY <1>3, <2>1, <2>2 DEF CheckOpen, SerialThread
<1>4. CASE OpenPort
  <2>1. events' \in {events, Append(events, Opened)}
    BY <1>4 DEF OpenPort
  <2>2. events' \in Seq(Signal)
    <3>1. Append(events, Opened) \in Seq(Signal)
      BY SignalTypes
    <3> QED
      BY <2>1, <3>1
  <2>3. /\ port' \in {"wild", "null", "opening", "open"}
        /\ rpc' \in {"check", "open", "read", "write"}
    BY <1>4 DEF OpenPort
  <2>4. usable' \in BOOLEAN /\ wasOpen' \in BOOLEAN /\ portError' \in BOOLEAN
    BY <1>4 DEF OpenPort
  <2> QED
    BY <1>4, <2>2, <2>3, <2>4 DEF OpenPort, SerialThread
<1>5. CASE ReadPort
  <2>1. /\ events' \in {events, Append(events, Data(incoming))}
        /\ received' \in {received, received \o outgoing}
        /\ outgoing' \in {outgoing, <<>>}
        /\ incoming' \in {incoming, <<>>}
    BY <1>5 DEF ReadPort
  <2>2. /\ events' \in Seq(Signal) /\ received' \in Seq(Nat)
        /\ outgoing' \in Seq(Nat) /\ incoming' \in Seq(Nat)
    <3>1. /\ Append(events, Data(incoming)) \in Seq(Signal)
          /\ received \o outgoing \in Seq(Nat) /\ <<>> \in Seq(Nat)
      BY SignalTypes
    <3> QED
      BY <2>1, <3>1
  <2>3. portError' \in BOOLEAN
    BY <1>5 DEF ReadPort
  <2> QED
    BY <1>5, <2>2, <2>3 DEF ReadPort, SerialThread
<1>6. CASE WritePort
  BY <1>6, BoundsAssumption DEF WritePort, SerialThread, NoCommand
<1> QED
  BY <1>1, <1>2, <1>3, <1>4, <1>5, <1>6 DEF SerialThread

LEMMA InterfaceThreadTypeOK ==
  ASSUME TypeOK, InterfaceThread
  PROVE  TypeOK'
<1> USE DEF TypeOK, InterfaceThread
<1>1. Head(events) \in Signal /\ events' \in Seq(Signal)
  OBVIOUS
<1>2. toLidar' \in {toLidar, Append(toLidar, Opened), Append(toLidar, Head(events))}
  BY DEF HandlePortOpened, HandlePortClosed, HandleReadyRead, Emit
<1>3. toLidar' \in Seq(Signal)
  <2>1. Append(toLidar, Opened) \in Seq(Signal) /\ Append(toLidar, Head(events)) \in Seq(Signal)
    BY <1>1, SignalTypes
  <2> QED
    BY <1>2, <2>1
<1>4. deviceOpen' \in BOOLEAN
  BY DEF HandlePortOpened, HandlePortClosed, HandleReadyRead
<1> QED
  BY <1>1, <1>3, <1>4 DEF deviceVars, portVars, runVars, monitorVars

LEMMA MonitorThreadTypeOK ==
  ASSUME TypeOK, MonitorThread
  PROVE  TypeOK'
<1> USE DEF TypeOK
<1>1. sent' \in 0..MaxCommands /\ sendBuffer' \in 0..sent'
  BY BoundsAssumption
  DEF MonitorThread, LidarStart, BeginExchange, EndExchange, Send, MotorCall
<1>2. connected' \in BOOLEAN /\ monitor' \in {"idle", "exchange"}
  BY DEF MonitorThread, LidarStart, BeginExchange, EndExchange, Send, MotorCall
<1>3. crashed' \in BOOLEAN
  <2>1. CASE MotorCall
    BY <2>1 DEF MotorCall
  <2>2. CASE crashed' = crashed
    BY <2>2
  <2> QED
    BY <2>1, <2>2 DEF MonitorThread, LidarStart, BeginExchange, EndExchange, Send
<1> QED
  BY <1>1, <1>2, <1>3 DEF MonitorThread, deviceVars, portVars, runVars, interfaceVars

LEMMA DeviceTypeOK ==
  ASSUME TypeOK, Device
  PROVE  TypeOK'
<1> USE DEF TypeOK
<1>1. CASE Unplug
  <2>1. unplugs' \in 0..MaxUnplugs /\ incoming' \in Seq(Nat)
    BY <1>1, BoundsAssumption DEF Unplug
  <2>2. plugged' \in BOOLEAN /\ usable' \in BOOLEAN
    BY <1>1 DEF Unplug
  <2> QED
    BY <1>1, <2>1, <2>2 DEF Unplug, Device, runVars, interfaceVars, monitorVars
<1>2. CASE Plug
  BY <1>2 DEF Plug, Device, portVars, runVars, interfaceVars, monitorVars
<1>3. CASE Produce
  BY <1>3, BoundsAssumption DEF Produce, Device, runVars, interfaceVars, monitorVars
<1> QED
  BY <1>1, <1>2, <1>3 DEF Device

LEMMA NextTypeOK == TypeOK /\ [Next]_vars => TypeOK'
<1> SUFFICES ASSUME TypeOK, [Next]_vars PROVE TypeOK'
  OBVIOUS
<1>1. CASE UNCHANGED vars
  BY <1>1 DEF TypeOK, vars, deviceVars, portVars, runVars, interfaceVars, monitorVars
<1> QED
  BY <1>1, SerialThreadTypeOK, InterfaceThreadTypeOK, MonitorThreadTypeOK, DeviceTypeOK
  DEF Next

------------------------------------------------------------------------------
(* A signal put at the end keeps the sessions bracketed, if it opens one just  *)
(* when none is open and the flag run() keeps is what the signal says.         *)
LEMMA AppendBracketed ==
  ASSUME TypeOK, SessionsBracketed, NEW s \in Signal, deviceOpen' = deviceOpen,
         events' = Append(events, s), s.kind = "opened" <=> ~wasOpen,
         wasOpen' <=> s.kind # "closed"
  PROVE  SessionsBracketed'
<1> DEFINE n == Len(events)
<1>1. /\ n \in Nat /\ Len(events') = n + 1 /\ events'[n + 1] = s
      /\ \A i \in 1..n : events'[i] = events[i]
  BY DEF TypeOK
<1>2. \A i \in 1..(n + 1) : OpenBefore(i)' <=> OpenBefore(i)
  BY <1>1 DEF OpenBefore
<1>3. ASSUME NEW i \in 1..(n + 1)
      PROVE  events'[i].kind = "opened" <=> ~OpenBefore(i)'
  <2>1. CASE i = n + 1
    BY <1>1, <1>2, <2>1 DEF SessionsBracketed
  <2>2. CASE i \in 1..n
    BY <1>1, <1>2, <2>2 DEF SessionsBracketed
  <2> QED
    BY <1>1, <2>1, <2>2
<1>4. wasOpen' <=> OpenBefore(Len(events) + 1)'
  BY <1>1 DEF OpenBefore
<1> QED
  BY <1>1, <1>3, <1>4 DEF SessionsBracketed

(* A signal taken from the front does too: _deviceOpen becomes what it says.   *)
LEMMA TailBracketed ==
  ASSUME TypeOK, SessionsBracketed, events # <<>>, events' = Tail(events),
         wasOpen' = wasOpen, deviceOpen' <=> events[1].kind # "closed"
  PROVE  SessionsBracketed'
<1> DEFINE n == Len(events)
<1>1. /\ n \in Nat /\ n >= 1 /\ Len(events') = n - 1
      /\ \A i \in 1..(n - 1) : events'[i] = events[i + 1]
  BY DEF TypeOK
<1>2. \A i \in 1..n : OpenBefore(i)' <=> OpenBefore(i + 1)
  BY <1>1 DEF OpenBefore
<1>3. \A i \in 1..(n - 1) : events'[i].kind = "opened" <=> ~OpenBefore(i)'
  BY <1>1, <1>2 DEF SessionsBracketed
<1>4. wasOpen' <=> OpenBefore(Len(events) + 1)'
  <2>1. CASE n = 1
    BY <1>1, <2>1 DEF SessionsBracketed, OpenBefore
  <2>2. CASE n > 1
    <3>1. events'[n - 1] = events[n]
      BY <1>1, <2>2
    <3> QED
      BY <1>1, <2>2, <3>1 DEF SessionsBracketed, OpenBefore
  <2> QED
    BY <1>1, <2>1, <2>2
<1> QED
  BY <1>1, <1>3, <1>4 DEF SessionsBracketed

(* Nothing else touches the flags and the queue. *)
LEMMA SameBracketed ==
  ASSUME SessionsBracketed, UNCHANGED <<events, deviceOpen, wasOpen>>
  PROVE  SessionsBracketed'
BY DEF SessionsBracketed, OpenBefore

LEMMA SerialThreadIInv ==
  ASSUME IInv, SerialThread
  PROVE  RunState' /\ SessionsBracketed'
<1> USE DEF IInv
<1>0. deviceOpen' = deviceOpen
  BY DEF SerialThread, interfaceVars
<1>1. CASE CheckClosed
  <2>1. RunState'
    BY <1>1 DEF CheckClosed, RunState, RunHasPort
  <2>2. CASE wasOpen
    <3>1. events' = Append(events, Closed) /\ wasOpen' = FALSE
      BY <1>1, <2>2 DEF CheckClosed
    <3> QED
      BY <1>0, <2>1, <2>2, <3>1, AppendBracketed, SignalTypes DEF Closed
  <2>3. CASE ~wasOpen
    <3>1. UNCHANGED <<events, wasOpen>>
      BY <1>1, <2>3 DEF CheckClosed, TypeOK
    <3> QED
      BY <1>0, <2>1, <3>1, SameBracketed
  <2> QED
    BY <2>2, <2>3
<1>2. CASE OpenPort
  <2>0. ~wasOpen
    BY <1>2 DEF OpenPort, RunState, RunHasPort
  <2>1. CASE plugged
    <3>1. /\ events' = Append(events, Opened) /\ wasOpen' = TRUE
          /\ port' = "open" /\ rpc' = "read"
      BY <1>2, <2>0, <2>1 DEF OpenPort
    <3> QED
      BY <1>0, <2>0, <3>1, AppendBracketed, SignalTypes DEF Opened, RunState, RunHasPort
  <2>2. CASE ~plugged
    <3>1. UNCHANGED <<events, wasOpen>> /\ port' = "null" /\ rpc' = "check"
      BY <1>2, <2>2 DEF OpenPort
    <3> QED
      BY <1>0, <3>1, SameBracketed DEF RunState, RunHasPort
  <2> QED
    BY <2>1, <2>2
<1>3. CASE ReadPort
  <2>0. wasOpen /\ wasOpen' = wasOpen /\ rpc' = "write" /\ port' = "open"
    BY <1>3 DEF ReadPort, RunState, RunHasPort
  <2>1. CASE events' = Append(events, Data(incoming))
    <3>1. /\ Data(incoming) \in Signal /\ Data(incoming).kind = "data"
      BY SignalTypes DEF TypeOK, Data
    <3> QED
      BY <1>0, <2>0, <2>1, <3>1, AppendBracketed DEF RunState, RunHasPort
  <2>2. CASE events' = events
    BY <1>0, <2>0, <2>2, SameBracketed DEF RunState, RunHasPort
  <2> QED
    BY <1>3, <2>1, <2>2 DEF ReadPort
<1>4. CASE CheckWild
  BY <1>0, <1>4, SameBracketed DEF CheckWild, RunState, RunHasPort, portVars, runVars
<1>5. CASE CheckOpen
  <2>1. RunState'
    BY <1>5 DEF CheckOpen, RunState, RunHasPort
  <2> QED
    BY <1>0, <1>5, <2>1, SameBracketed DEF CheckOpen
<1>6. CASE WritePort
  <2>1. RunState'
    BY <1>6 DEF WritePort, RunState, RunHasPort
  <2> QED
    BY <1>0, <1>6, <2>1, SameBracketed DEF WritePort
<1> QED
  BY <1>1, <1>2, <1>3, <1>4, <1>5, <1>6 DEF SerialThread

LEMMA InterfaceThreadIInv ==
  ASSUME IInv, InterfaceThread
  PROVE  RunState' /\ SessionsBracketed'
<1>1. Len(events) >= 1 /\ Head(events) = events[1] /\ 1 \in 1..Len(events)
  BY DEF IInv, TypeOK, InterfaceThread
<1>2. deviceOpen' <=> events[1].kind # "closed"
  <2>1. CASE HandlePortOpened
    BY <1>1, <2>1 DEF HandlePortOpened, Opened
  <2>2. CASE HandlePortClosed
    BY <1>1, <2>2 DEF HandlePortClosed, Closed
  <2>3. CASE HandleReadyRead
    <3>1. events[1].kind = "data" /\ deviceOpen' = deviceOpen
      BY <1>1, <2>3 DEF HandleReadyRead
    <3>2. deviceOpen
      BY <1>1, <3>1 DEF IInv, SessionsBracketed, OpenBefore
    <3> QED
      BY <3>1, <3>2
  <2> QED
    BY <2>1, <2>2, <2>3 DEF InterfaceThread
<1>3. events' = Tail(events) /\ UNCHANGED <<wasOpen, rpc, port>>
  BY DEF InterfaceThread, runVars, portVars
<1> QED
  BY <1>2, <1>3, TailBracketed DEF IInv, InterfaceThread, RunState, RunHasPort

LEMMA NextIInv == IInv /\ [Next]_vars => IInv'
<1> SUFFICES ASSUME IInv, [Next]_vars PROVE IInv'
  OBVIOUS
<1>1. TypeOK'
  BY NextTypeOK DEF IInv
<1>2. CASE SerialThread
  BY <1>1, <1>2, SerialThreadIInv DEF IInv
<1>3. CASE InterfaceThread
  BY <1>1, <1>3, InterfaceThreadIInv DEF IInv
<1>4. CASE MonitorThread
  BY <1>1, <1>4, SameBracketed
  DEF IInv, MonitorThread, runVars, portVars, interfaceVars, RunState, RunHasPort
<1>5. CASE Device
  <2>1. UNCHANGED <<events, deviceOpen, wasOpen, rpc, port>>
    BY <1>5 DEF Device, Unplug, Plug, Produce, runVars, portVars, interfaceVars
  <2> QED
    BY <1>1, <2>1, SameBracketed DEF IInv, RunState, RunHasPort
<1>6. CASE UNCHANGED vars
  BY <1>1, <1>6, SameBracketed DEF IInv, vars, runVars, portVars, interfaceVars, RunState, RunHasPort
<1> QED
  BY <1>2, <1>3, <1>4, <1>5, <1>6 DEF Next

LEMMA AlwaysIInv == Spec => []IInv
BY InitIInv, NextIInv, PTL DEF Spec

(* Every variable of the serial link keeps its type. *)
THEOREM TypeCorrect == Spec => []TypeOK
<1>1. IInv => TypeOK
  BY DEF IInv
<1> QED
  BY <1>1, AlwaysIInv, PTL

(* However long the queue between the two threads and however the device comes *)
(* and goes: the signals under way bracket the data into sessions, and         *)
(* _deviceOpen ends up as the _wasOpen of the serial thread.                   *)
THEOREM SessionsAlwaysBracketed == Spec => []SessionsBracketed
<1>1. IInv => SessionsBracketed
  BY DEF IInv
<1> QED
  BY <1>1, AlwaysIInv, PTL

(* Lidar gets data only inside a session and an opening only outside of one.   *)
THEOREM DataOnlyInSession == Spec => DataInSession
<1> DEFINE Step == \A i \in DOMAIN toLidar' \ DOMAIN toLidar :
                     toLidar'[i].kind = "opened" <=> ~deviceOpen
<1>1. IInv /\ [Next]_vars => [Step]_vars
  <2> SUFFICES ASSUME IInv, Next, NEW i \in DOMAIN toLidar' \ DOMAIN toLidar
               PROVE  toLidar'[i].kind = "opened" <=> ~deviceOpen
    OBVIOUS
  <2>1. InterfaceThread
    <3>1. toLidar' # toLidar
      OBVIOUS
    <3> QED
      BY <3>1 DEF Next, SerialThread, MonitorThread, Device, interfaceVars
  <2>2. Len(events) >= 1 /\ Head(events) = events[1] /\ 1 \in 1..Len(events)
    BY <2>1 DEF IInv, TypeOK, InterfaceThread
  <2>3. toLidar' = Append(toLidar, events[1])
    BY <2>1, <2>2 DEF InterfaceThread, HandlePortOpened, HandlePortClosed, HandleReadyRead, Emit
  <2>4. toLidar \in Seq(Signal) /\ events[1] \in Signal
    BY <2>2 DEF IInv, TypeOK
  <2>5. toLidar'[i] = events[1]
    BY <2>3, <2>4
  <2> QED
    BY <2>2, <2>5 DEF IInv, SessionsBracketed, OpenBefore
<1> QED
  BY <1>1, AlwaysIInv, PTL DEF Spec, DataInSession

(* run() never reads or writes through a port that is not open.               *)
THEOREM RunAlwaysHasPort == Spec => []RunHasPort
<1>1. IInv => RunHasPort
  BY DEF IInv, RunState
<1> QED
  BY <1>1, AlwaysIInv, PTL

------------------------------------------------------------------------------
(* The commands: what one sequence after another is in order means.            *)
LEMMA ConcatIncreasing ==
  ASSUME NEW s \in Seq(Nat), NEW t \in Seq(Nat)
  PROVE  Increasing(s \o t) <=>
           /\ Increasing(s) /\ Increasing(t)
           /\ \A i \in 1..Len(s), j \in 1..Len(t) : s[i] < t[j]
<1> DEFINE m == Len(s)
<1>1. /\ m \in Nat /\ Len(t) \in Nat /\ Len(s \o t) = m + Len(t)
      /\ \A i \in 1..m : (s \o t)[i] = s[i]
      /\ \A j \in 1..Len(t) : (s \o t)[m + j] = t[j]
      /\ \A i \in 1..(m + Len(t)) : i \in 1..m \/ (i - m \in 1..Len(t) /\ i = m + (i - m))
      /\ \A j \in 1..Len(t) : m + j \in 1..(m + Len(t))
      /\ \A i \in 1..m : i \in 1..(m + Len(t))
  OBVIOUS
<1> HIDE DEF m
<1>2. ASSUME Increasing(s \o t)
      PROVE  /\ Increasing(s) /\ Increasing(t)
             /\ \A i \in 1..m, j \in 1..Len(t) : s[i] < t[j]
  <2>1. \A i, j \in 1..(m + Len(t)) : i < j => (s \o t)[i] < (s \o t)[j]
    BY <1>1, <1>2 DEF Increasing
  <2>2. \A i, j \in 1..m : i < j => s[i] < s[j]
    BY <1>1, <2>1
  <2>3. \A i, j \in 1..Len(t) : i < j => t[i] < t[j]
    <3>1. \A i, j \in 1..Len(t) : i < j => m + i < m + j
      BY <1>1
    <3> QED
      BY <1>1, <2>1, <3>1
  <2>4. \A i \in 1..m, j \in 1..Len(t) : s[i] < t[j]
    <3>1. \A i \in 1..m, j \in 1..Len(t) : i < m + j
      BY <1>1
    <3> QED
      BY <1>1, <2>1, <3>1
  <2> QED
    BY <2>2, <2>3, <2>4 DEF Increasing, m
<1>3. ASSUME Increasing(s), Increasing(t), \A i \in 1..m, j \in 1..Len(t) : s[i] < t[j]
      PROVE  Increasing(s \o t)
  <2> SUFFICES ASSUME NEW i \in 1..(m + Len(t)), NEW j \in 1..(m + Len(t)), i < j
               PROVE  (s \o t)[i] < (s \o t)[j]
    BY <1>1 DEF Increasing
  <2>1. CASE i \in 1..m /\ j \in 1..m
    BY <1>1, <1>3, <2>1 DEF Increasing, m
  <2>2. CASE i \in 1..m /\ j - m \in 1..Len(t)
    BY <1>1, <1>3, <2>2
  <2>3. CASE i - m \in 1..Len(t) /\ j - m \in 1..Len(t)
    <3>1. (s \o t)[i] = t[i - m] /\ (s \o t)[j] = t[j - m] /\ i - m < j - m
      BY <1>1, <2>3
    <3> QED
      BY <1>3, <2>3, <3>1 DEF Increasing
  <2>4. i \in 1..m \/ (j - m \in 1..Len(t))
    BY <1>1
  <2> QED
    BY <1>1, <2>1, <2>2, <2>3, <2>4
<1> QED
  BY <1>2, <1>3 DEF m

(* What is on the device, what is on its way to it, and what waits in the slot, *)
(* each in order, each after the last, and no command that was not sent.       *)
CommandFlow ==
  /\ Increasing(received) /\ Increasing(outgoing)
  /\ \A i \in 1..Len(received), j \in 1..Len(outgoing) : received[i] < outgoing[j]
  /\ \A i \in 1..Len(received) :
       received[i] <= sent /\ (sendBuffer # NoCommand => received[i] < sendBuffer)
  /\ \A i \in 1..Len(outgoing) :
       outgoing[i] <= sent /\ (sendBuffer # NoCommand => outgoing[i] < sendBuffer)

LEMMA NextCommandFlow == TypeOK /\ CommandFlow /\ [Next]_vars => CommandFlow'
<1> SUFFICES ASSUME TypeOK, CommandFlow, [Next]_vars PROVE CommandFlow'
  OBVIOUS
<1>1. CASE UNCHANGED <<received, outgoing, sendBuffer, sent>>
  BY <1>1 DEF CommandFlow
<1>2. CASE CheckOpen /\ SerialThread
  <2>1. received' = received /\ sendBuffer' = sendBuffer /\ sent' = sent
    BY <1>2 DEF CheckOpen, SerialThread, monitorVars
  <2>2. outgoing' = outgoing \/ outgoing' = <<>>
    BY <1>2 DEF CheckOpen
  <2> QED
    BY <2>1, <2>2 DEF CommandFlow, Increasing
<1>3. CASE ReadPort /\ SerialThread
  <2>1. sendBuffer' = sendBuffer /\ sent' = sent
    BY <1>3 DEF ReadPort, SerialThread, monitorVars
  <2>2. CASE usable
    <3>1. received' = received \o outgoing /\ outgoing' = <<>>
      BY <1>3, <2>2 DEF ReadPort
    <3>2. Increasing(received') /\ Increasing(outgoing')
      <4>1. Increasing(<<>>)
        BY DEF Increasing
      <4> QED
        BY <3>1, <4>1, ConcatIncreasing DEF TypeOK, CommandFlow
    <3>3. \A i \in 1..Len(received') : received'[i] <= sent /\
            (sendBuffer # NoCommand => received'[i] < sendBuffer)
      <4>1. \A i \in 1..Len(received') :
              \/ i \in 1..Len(received) /\ received'[i] = received[i]
              \/ i - Len(received) \in 1..Len(outgoing)
                 /\ received'[i] = outgoing[i - Len(received)]
        BY <3>1 DEF TypeOK
      <4> QED
        BY <4>1 DEF CommandFlow
    <3> QED
      BY <2>1, <3>1, <3>2, <3>3 DEF CommandFlow
  <2>3. CASE ~usable
    BY <1>3, <2>1, <2>3 DEF ReadPort, CommandFlow
  <2> QED
    BY <2>2, <2>3
<1>4. CASE WritePort /\ SerialThread
  <2>1. received' = received /\ sendBuffer' = NoCommand /\ sent' = sent
    BY <1>4 DEF WritePort, SerialThread, monitorVars
  <2>2. CASE sendBuffer = NoCommand
    BY <1>4, <2>1, <2>2 DEF WritePort, CommandFlow
  <2>3. CASE sendBuffer # NoCommand
    <3>1. outgoing' = Append(outgoing, sendBuffer)
      BY <1>4, <2>3 DEF WritePort
    <3>2. /\ Len(outgoing') = Len(outgoing) + 1
          /\ \A i \in 1..Len(outgoing') : outgoing'[i] =
               IF i = Len(outgoing) + 1 THEN sendBuffer ELSE outgoing[i]
      BY <3>1 DEF TypeOK
    <3>3. Len(outgoing) \in Nat /\ sendBuffer <= sent
      BY DEF TypeOK
    <3>4. Increasing(outgoing')
      BY <2>3, <3>2, <3>3 DEF CommandFlow, Increasing
    <3>5. \A i \in 1..Len(outgoing') : outgoing'[i] <= sent
      BY <3>2, <3>3 DEF CommandFlow
    <3>6. \A i \in 1..Len(received), j \in 1..Len(outgoing') : received[i] < outgoing'[j]
      BY <2>3, <3>2, <3>3 DEF CommandFlow
    <3> QED
      BY <2>1, <3>4, <3>5, <3>6 DEF CommandFlow
  <2> QED
    BY <2>2, <2>3
<1>5. CASE Send /\ MonitorThread
  <2>1. /\ UNCHANGED <<received, outgoing>> /\ sent' = sent + 1 /\ sendBuffer' = sent + 1
    BY <1>5 DEF Send, MonitorThread, portVars
  <2> QED
    BY <2>1 DEF TypeOK, CommandFlow
<1> QED
  <2>1. CASE SerialThread
    BY <1>1, <1>2, <1>3, <1>4, <2>1
    DEF SerialThread, CheckClosed, CheckWild, OpenPort, portVars, monitorVars
  <2>2. CASE InterfaceThread
    BY <1>1, <2>2 DEF InterfaceThread, portVars, monitorVars
  <2>3. CASE MonitorThread
    BY <1>1, <1>5, <2>3
    DEF MonitorThread, LidarStart, BeginExchange, EndExchange, MotorCall, portVars
  <2>4. CASE Device
    BY <1>1, <2>4 DEF Device, Unplug, Plug, Produce, portVars, monitorVars
  <2> QED
    BY <1>1, <2>1, <2>2, <2>3, <2>4 DEF Next, vars, portVars, monitorVars

(* Whatever is overwritten in the slot or lost with the port: no command       *)
(* reaches the device twice or before an earlier one (blockingserialthread.cpp:*)
(* 63-80).                                                                     *)
THEOREM CommandsAlwaysInOrder == Spec => []CommandsInOrder
<1>1. Init => CommandFlow
  BY DEF Init, CommandFlow, Increasing
<1>2. IInv /\ CommandFlow => CommandsInOrder
  <2> SUFFICES ASSUME IInv, CommandFlow PROVE CommandsInOrder
    OBVIOUS
  <2> DEFINE slot == IF sendBuffer = NoCommand THEN <<>> ELSE <<sendBuffer>>
             written == received \o outgoing
  <2>1. slot \in Seq(Nat) /\ Increasing(slot) /\ written \in Seq(Nat)
    BY DEF IInv, TypeOK, Increasing
  <2>2. Increasing(written)
    BY ConcatIncreasing DEF IInv, TypeOK, CommandFlow
  <2>3. \A i \in 1..Len(written), j \in 1..Len(slot) : written[i] < slot[j]
    <3>1. \A i \in 1..Len(written) :
            \/ i \in 1..Len(received) /\ written[i] = received[i]
            \/ i - Len(received) \in 1..Len(outgoing)
               /\ written[i] = outgoing[i - Len(received)]
      BY DEF IInv, TypeOK
    <3>2. \A j \in 1..Len(slot) : sendBuffer # NoCommand /\ slot[j] = sendBuffer
      OBVIOUS
    <3> QED
      BY <3>1, <3>2 DEF CommandFlow
  <2> HIDE DEF slot, written
  <2>4. Increasing(written \o slot)
    BY <2>1, <2>2, <2>3, ConcatIncreasing
  <2> QED
    BY <2>4 DEF CommandsInOrder, slot, written
<1>3. IInv /\ CommandFlow /\ [Next]_vars => CommandFlow'
  BY NextCommandFlow DEF IInv
<1> QED
  BY <1>1, <1>2, <1>3, AlwaysIInv, PTL DEF Spec

------------------------------------------------------------------------------
(* The data: C holds blocks of B, in their order, and empty ones besides.      *)
Holds(s, i) == s[i].data # <<>>
Embedded(C, B, f) ==
  /\ \A i \in 1..Len(C) : Holds(C, i) => f[i] \in 1..Len(B) /\ C[i].data = B[f[i]].data
  /\ \A i, j \in 1..Len(C) : i < j /\ Holds(C, i) /\ Holds(C, j) => f[i] < f[j]

LEMMA DataType == ASSUME NEW s \in Signal PROVE s.data \in Seq(Nat)
<1>1. CASE s \in Notice
  <2>1. s.data = <<>>
    BY <1>1 DEF Notice
  <2> QED
    BY <2>1
<1>2. CASE s \in [kind : {"data"}, data : Seq(Nat)]
  BY <1>2
<1> QED
  BY <1>1, <1>2 DEF Signal

LEMMA EmbeddedOrder ==
  ASSUME NEW B \in Seq(Signal), NEW C \in Seq(Signal), NEW f, Embedded(C, B, f), InOrder(B)
  PROVE  InOrder(C) /\ \A v : Carries(C, v) => Carries(B, v)
<1>1. \A i \in 1..Len(C) : \A a \in 1..Len(C[i].data) : Holds(C, i)
  <2> SUFFICES ASSUME NEW i \in 1..Len(C), NEW a \in 1..Len(C[i].data) PROVE C[i].data # <<>>
    BY DEF Holds
  <2>1. C[i].data \in Seq(Nat)
    BY DataType
  <2> QED
    BY <2>1
<1>2. \A i \in 1..Len(C) : Increasing(C[i].data)
  <2> TAKE i \in 1..Len(C)
  <2>1. CASE Holds(C, i)
    BY <2>1 DEF Embedded, InOrder
  <2>2. CASE ~Holds(C, i)
    BY <2>2 DEF Holds, Increasing
  <2> QED
    BY <2>1, <2>2
<1>3. ASSUME NEW i \in 1..Len(C), NEW j \in 1..Len(C), i < j,
             NEW a \in 1..Len(C[i].data), NEW b \in 1..Len(C[j].data)
      PROVE  C[i].data[a] < C[j].data[b]
  <2>1. /\ f[i] \in 1..Len(B) /\ f[j] \in 1..Len(B) /\ f[i] < f[j]
        /\ C[i].data = B[f[i]].data /\ C[j].data = B[f[j]].data
    BY <1>1, <1>3 DEF Embedded
  <2> QED
    BY <2>1 DEF InOrder
<1>4. ASSUME NEW v, Carries(C, v)
      PROVE  Carries(B, v)
  <2>1. PICK i \in 1..Len(C) : \E a \in 1..Len(C[i].data) : C[i].data[a] = v
    BY <1>4 DEF Carries
  <2>2. f[i] \in 1..Len(B) /\ C[i].data = B[f[i]].data
    BY <1>1, <2>1 DEF Embedded
  <2> QED
    BY <2>1, <2>2 DEF Carries
<1> QED
  BY <1>2, <1>3, <1>4 DEF InOrder

(* Nothing of B is missing in C.                                               *)
LEMMA CoveredData ==
  ASSUME NEW B \in Seq(Signal), NEW C \in Seq(Signal),
         \A i \in 1..Len(B) : Holds(B, i) => \E j \in 1..Len(C) : C[j].data = B[i].data
  PROVE  \A v : Carries(B, v) => Carries(C, v)
<1> SUFFICES ASSUME NEW v, Carries(B, v) PROVE Carries(C, v)
  OBVIOUS
<1>1. PICK i \in 1..Len(B) : \E a \in 1..Len(B[i].data) : B[i].data[a] = v
  BY DEF Carries
<1>2. Holds(B, i)
  <2>1. B[i].data \in Seq(Nat)
    BY DataType
  <2> QED
    BY <1>1, <2>1 DEF Holds
<1>3. PICK j \in 1..Len(C) : C[j].data = B[i].data
  BY <1>2
<1> QED
  BY <1>1, <1>3 DEF Carries

(* What signals handled, queued and not yet made are together, place by place. *)
LEMMA Places ==
  ASSUME NEW s \in Seq(Signal), NEW t \in Seq(Signal), NEW d \in Seq(Nat)
  PROVE  /\ s \o t \o <<Data(d)>> \in Seq(Signal)
         /\ Len(s) \in Nat /\ Len(t) \in Nat
         /\ Len(s \o t \o <<Data(d)>>) = Len(s) + Len(t) + 1
         /\ \A i \in 1..(Len(s) + Len(t) + 1) : (s \o t \o <<Data(d)>>)[i] =
              IF i <= Len(s) THEN s[i]
              ELSE IF i <= Len(s) + Len(t) THEN t[i - Len(s)] ELSE Data(d)
<1> DEFINE m == Len(s)
           n == Len(t)
           all == s \o t \o <<Data(d)>>
<1>1. Data(d) \in Signal
  BY SignalTypes
<1> HIDE DEF Data
<1>2. /\ all \in Seq(Signal) /\ m \in Nat /\ n \in Nat /\ Len(all) = m + n + 1
      /\ \A i \in 1..m : all[i] = s[i]
      /\ \A i \in 1..n : all[m + i] = t[i]
      /\ all[m + n + 1] = Data(d)
  BY <1>1
<1> HIDE DEF m, n, all
<1>3. ASSUME NEW i \in 1..(m + n + 1)
      PROVE  all[i] = IF i <= m THEN s[i] ELSE IF i <= m + n THEN t[i - m] ELSE Data(d)
  <2>1. CASE i <= m
    BY <1>2, <2>1
  <2>2. CASE i > m /\ i <= m + n
    <3>1. i - m \in 1..n /\ m + (i - m) = i
      BY <1>2, <2>2
    <3> QED
      BY <1>2, <2>2, <3>1
  <2>3. CASE i > m + n
    BY <1>2, <2>3
  <2> QED
    BY <1>2, <2>1, <2>2, <2>3
<1> QED
  BY <1>2, <1>3 DEF m, n, all

(* As long as the device was never unplugged the port has it and is in no      *)
(* error; Lidar has been sent something only if it is connected.               *)
PortKept ==
  /\ unplugs = 0 => ~portError /\ (port = "open" => usable)
  /\ toLidar # <<>> => connected

DataFlow ==
  /\ PortKept /\ DataInOrder
  /\ \A v : Carries(Signals, v) => v <= produced

LEMMA NextPortKept == IInv /\ PortKept /\ [Next]_vars => PortKept'
<1> SUFFICES ASSUME IInv, PortKept, [Next]_vars PROVE PortKept'
  OBVIOUS
<1> USE DEF PortKept
<1>1. CASE SerialThread
  <2>1. UNCHANGED <<unplugs, toLidar, connected>>
    BY <1>1 DEF SerialThread, deviceVars, interfaceVars, monitorVars
  <2> QED
    BY <1>1, <2>1 DEF SerialThread, CheckClosed, CheckWild, CheckOpen, OpenPort, ReadPort,
                      WritePort, IInv, RunState, RunHasPort, portVars
<1>2. CASE InterfaceThread
  BY <1>2 DEF InterfaceThread, HandlePortOpened, HandlePortClosed, HandleReadyRead, Emit,
              deviceVars, portVars, monitorVars
<1>3. CASE MonitorThread
  BY <1>3 DEF MonitorThread, LidarStart, BeginExchange, EndExchange, Send, MotorCall,
              deviceVars, portVars, interfaceVars
<1>4. CASE Device
  <2>1. CASE Unplug
    BY <1>4, <2>1 DEF Device, Unplug, interfaceVars, monitorVars, IInv, TypeOK
  <2>2. CASE Plug \/ Produce
    BY <1>4, <2>2 DEF Device, Plug, Produce, portVars, interfaceVars, monitorVars
  <2> QED
    BY <1>4, <2>1, <2>2 DEF Device
<1> QED
  BY <1>1, <1>2, <1>3, <1>4 DEF Next, vars, deviceVars, portVars, interfaceVars, monitorVars

(* A step that leaves out signals, or adds empty ones, keeps the data in order,*)
(* and without a gap if what it leaves out is before all the rest.             *)
LEMMA EmbeddedFlow ==
  ASSUME Signals \in Seq(Signal), Signals' \in Seq(Signal), produced \in Nat,
         DataFlow, PortKept', produced' = produced,
         NEW f, Embedded(Signals', Signals, f),
         unplugs' = 0 =>
           /\ unplugs = 0
           /\ \A v, w : Carries(Signals, v) /\ ~Carries(Signals', v) /\ Carries(Signals', w)
                          => v # w + 1
  PROVE  DataFlow'
<1>1. InOrder(Signals') /\ \A v : Carries(Signals', v) => Carries(Signals, v)
  BY EmbeddedOrder DEF DataFlow, DataInOrder
<1>2. ASSUME unplugs' = 0
      PROVE  NoGap(Signals', produced)
  <2> SUFFICES ASSUME NEW v \in 1..(produced - 1), Carries(Signals', v)
               PROVE  Carries(Signals', v + 1)
    BY DEF NoGap
  <2>1. Carries(Signals, v + 1)
    BY <1>1, <1>2 DEF DataFlow, DataInOrder, NoGap
  <2> QED
    BY <1>2, <2>1
<1>3. \A v : Carries(Signals', v) => v <= produced
  BY <1>1 DEF DataFlow
<1> QED
  BY <1>1, <1>2, <1>3 DEF DataFlow, DataInOrder

(* Where the signals under way are in Signals, before and after a step.        *)
SignalsAt(s, d) ==
  /\ s \in Seq(Signal) /\ Len(toLidar) \in Nat /\ Len(events) \in Nat
  /\ Len(s) = Len(toLidar) + Len(events) + 1
  /\ \A i \in 1..(Len(toLidar) + Len(events) + 1) : s[i] =
       IF i <= Len(toLidar) THEN toLidar[i]
       ELSE IF i <= Len(toLidar) + Len(events) THEN events[i - Len(toLidar)] ELSE Data(d)

LEMMA SignalPlaces ==
  ASSUME toLidar \in Seq(Signal), events \in Seq(Signal), incoming \in Seq(Nat),
         incoming' \in Seq(Nat), UNCHANGED <<toLidar, events>>
  PROVE  SignalsAt(Signals, incoming) /\ SignalsAt(Signals', incoming')
<1>1. SignalsAt(toLidar \o events \o <<Data(incoming)>>, incoming)
  BY Places, Zenon DEF SignalsAt
<1>2. SignalsAt(toLidar \o events \o <<Data(incoming')>>, incoming')
  BY Places, Zenon DEF SignalsAt
<1>3. Signals' = toLidar \o events \o <<Data(incoming')>>
  <2>1. Data(incoming)' = Data(incoming')
    BY DEF Data
  <2> QED
    BY <2>1 DEF Signals
<1> QED
  BY <1>1, <1>2, <1>3 DEF Signals

(* The port may lose what it holds, as the device goes.                        *)
LEMMA LoseData ==
  ASSUME TypeOK, DataFlow, PortKept', UNCHANGED <<toLidar, events, produced>>,
         incoming' = incoming \/ (incoming' = <<>> /\ unplugs' # 0),
         unplugs' = 0 => unplugs = 0
  PROVE  DataFlow'
<1>1. /\ toLidar \in Seq(Signal) /\ events \in Seq(Signal) /\ incoming \in Seq(Nat)
      /\ incoming' \in Seq(Nat) /\ produced \in Nat
  <2>1. incoming \in Seq(Nat) /\ <<>> \in Seq(Nat)
    BY DEF TypeOK
  <2>2. incoming' \in Seq(Nat)
    BY <2>1
  <2> QED
    BY <2>1, <2>2 DEF TypeOK
<1> DEFINE n == Len(toLidar) + Len(events) + 1
           f == [i \in 1..n |-> i]
<1>2. /\ Signals \in Seq(Signal) /\ Signals' \in Seq(Signal) /\ n \in Nat
      /\ Len(Signals) = n /\ Len(Signals') = n
      /\ \A i \in 1..n : Signals'[i] = Signals[i] \/ Signals'[i] = Data(incoming')
      /\ incoming' = incoming => \A i \in 1..n : Signals'[i] = Signals[i]
  <2>1. SignalsAt(Signals, incoming) /\ SignalsAt(Signals', incoming')
    BY <1>1, SignalPlaces
  <2> HIDE DEF Signals
  <2>2. ASSUME NEW i \in 1..n
        PROVE  /\ Signals'[i] = Signals[i] \/ Signals'[i] = Data(incoming')
               /\ incoming' = incoming => Signals'[i] = Signals[i]
    BY <2>1, <2>2 DEF SignalsAt
  <2> QED
    BY <2>1, <2>2 DEF SignalsAt
<1>3. Embedded(Signals', Signals, f)
  BY <1>2 DEF Embedded, Holds, Data
<1>4. unplugs' = 0 => \A v : Carries(Signals, v) => Carries(Signals', v)
  BY <1>2, CoveredData
<1> QED
  BY <1>1, <1>2, <1>3, <1>4, EmbeddedFlow

(* A notice, or what the port holds, is put at the end of the queue.           *)
LEMMA QueueSignal ==
  ASSUME TypeOK, DataFlow, PortKept', UNCHANGED <<toLidar, produced, unplugs>>,
         NEW s \in Signal, events' = Append(events, s),
         \/ s.data = <<>> /\ incoming' = incoming
         \/ s.data = incoming /\ incoming' = <<>>
  PROVE  DataFlow'
<1>1. /\ toLidar \in Seq(Signal) /\ events \in Seq(Signal) /\ incoming \in Seq(Nat)
      /\ incoming' \in Seq(Nat) /\ produced \in Nat /\ events' \in Seq(Signal)
  <2>1. incoming \in Seq(Nat) /\ <<>> \in Seq(Nat)
    BY DEF TypeOK
  <2>2. incoming' \in Seq(Nat)
    BY <2>1
  <2>3. events' \in Seq(Signal)
    BY DEF TypeOK
  <2> QED
    BY <2>1, <2>2, <2>3 DEF TypeOK
<1> DEFINE n == Len(toLidar) + Len(events)
           f == [i \in 1..(n + 2) |-> IF i <= n THEN i ELSE n + 1]
<1>2. /\ Signals \in Seq(Signal) /\ Signals' \in Seq(Signal) /\ n \in Nat
      /\ Len(Signals) = n + 1 /\ Len(Signals') = n + 2
      /\ \A i \in 1..n : Signals'[i] = Signals[i]
      /\ Signals[n + 1] = Data(incoming)
      /\ Signals'[n + 1] = s /\ Signals'[n + 2] = Data(incoming')
  <2>1. /\ Len(events') = Len(events) + 1 /\ events'[Len(events) + 1] = s
        /\ \A i \in 1..Len(events) : events'[i] = events[i]
    BY <1>1
  <2> QED
    BY <1>1, <2>1, Places DEF Signals
<1> HIDE DEF n
<1>3. Data(incoming).data = incoming /\ Data(incoming').data = incoming'
  BY DEF Data
<1>4. Embedded(Signals', Signals, f)
  <2>1. \A i \in 1..(n + 2) : i \in 1..n \/ i = n + 1 \/ i = n + 2
    BY <1>2
  <2>2. ~(Holds(Signals', n + 1) /\ Holds(Signals', n + 2))
    BY <1>2, <1>3 DEF Holds
  <2>3. ASSUME NEW i \in 1..(n + 2), Holds(Signals', i)
        PROVE  f[i] \in 1..(n + 1) /\ Signals'[i].data = Signals[f[i]].data
    BY <1>2, <1>3, <2>1, <2>3 DEF Holds
  <2>4. ASSUME NEW i \in 1..(n + 2), NEW j \in 1..(n + 2), i < j,
               Holds(Signals', i), Holds(Signals', j)
        PROVE  f[i] < f[j]
    BY <1>2, <2>1, <2>2, <2>4
  <2> HIDE DEF f
  <2> QED
    BY <1>2, <2>3, <2>4 DEF Embedded
<1>5. \A v : Carries(Signals, v) => Carries(Signals', v)
  <2>1. ASSUME NEW i \in 1..(n + 1)
        PROVE  \E j \in 1..(n + 2) : Signals'[j].data = Signals[i].data
    <3>1. CASE i \in 1..n
      BY <1>2, <3>1
    <3>2. CASE i = n + 1
      BY <1>2, <1>3, <3>2
    <3> QED
      BY <1>2, <3>1, <3>2
  <2> QED
    BY <1>2, <2>1, CoveredData
<1> QED
  BY <1>1, <1>2, <1>4, <1>5, EmbeddedFlow DEF DataFlow

(* The first of the queue is passed on, which changes nothing...               *)
LEMMA PassedPlaces ==
  ASSUME NEW S, NEW s \in Seq(S), NEW t \in Seq(S), t # <<>>
  PROVE  Append(s, Head(t)) \o Tail(t) = s \o t
<1>1. \A i \in 1..(Len(s) + Len(t)) : (Append(s, Head(t)) \o Tail(t))[i] = (s \o t)[i]
  <2> TAKE i \in 1..(Len(s) + Len(t))
  <2>1. CASE i <= Len(s) + 1
    BY <2>1
  <2>2. CASE i > Len(s) + 1
    BY <2>2
  <2> QED
    BY <2>1, <2>2
<1>2. /\ Append(s, Head(t)) \o Tail(t) \in Seq(S) /\ s \o t \in Seq(S)
      /\ Len(Append(s, Head(t)) \o Tail(t)) = Len(s) + Len(t)
      /\ Len(s \o t) = Len(s) + Len(t)
  OBVIOUS
<1> QED
  BY <1>1, <1>2

LEMMA PassSignal ==
  ASSUME TypeOK, DataFlow, PortKept', UNCHANGED <<produced, unplugs, incoming>>,
         events # <<>>, events' = Tail(events), toLidar' = Append(toLidar, Head(events))
  PROVE  DataFlow'
<1>1. toLidar' \o events' = toLidar \o events
  BY PassedPlaces DEF TypeOK
<1>2. Signals' = Signals
  BY <1>1 DEF Signals, Data
<1> QED
  BY <1>2 DEF DataFlow, DataInOrder

(* ... or left out: it carries no data, or nothing has been passed on before.  *)
LEMMA DroppedPlaces ==
  ASSUME NEW S, NEW s \in Seq(S), NEW t \in Seq(S), t # <<>>, NEW d \in S
  PROVE  LET all == s \o t \o <<d>>
             rest == s \o Tail(t) \o <<d>>
         IN /\ all \in Seq(S) /\ rest \in Seq(S)
            /\ Len(rest) \in Nat /\ Len(all) = Len(rest) + 1
            /\ Len(s) \in Nat /\ Len(s) < Len(all)
            /\ all[Len(s) + 1] = Head(t)
            /\ \A i \in 1..Len(s) : rest[i] = all[i]
            /\ \A i \in (Len(s) + 1)..Len(rest) : rest[i] = all[i + 1]
OBVIOUS

LEMMA DropSignal ==
  ASSUME TypeOK, DataFlow, PortKept', UNCHANGED <<produced, unplugs, incoming, toLidar>>,
         events # <<>>, events' = Tail(events),
         Head(events).data = <<>> \/ toLidar = <<>>
  PROVE  DataFlow'
<1> DEFINE m == Len(toLidar)
           n == Len(Signals')
           f == [i \in 1..n |-> IF i <= m THEN i ELSE i + 1]
<1>1. /\ Signals \in Seq(Signal) /\ Signals' \in Seq(Signal)
      /\ n \in Nat /\ Len(Signals) = n + 1 /\ m \in Nat /\ m <= n
      /\ Signals[m + 1] = Head(events)
      /\ \A i \in 1..m : Signals'[i] = Signals[i]
      /\ \A i \in (m + 1)..n : Signals'[i] = Signals[i + 1]
  <2>1. /\ toLidar \in Seq(Signal) /\ events \in Seq(Signal) /\ Data(incoming) \in Signal
        /\ Signals' = toLidar \o Tail(events) \o <<Data(incoming)>>
    BY SignalTypes DEF TypeOK, Signals, Data
  <2> QED
    BY <2>1, DroppedPlaces DEF Signals
<1>2. /\ \A i \in 1..m : f[i] = i
      /\ \A i \in (m + 1)..n : f[i] = i + 1
      /\ \A i \in 1..n : i \in 1..m \/ i \in (m + 1)..n
  BY <1>1
<1>3. produced \in Nat
  BY DEF TypeOK
<1> HIDE DEF f, m, n
<1>4. Embedded(Signals', Signals, f)
  <2>1. \A i \in 1..n : f[i] \in 1..(n + 1) /\ Signals'[i] = Signals[f[i]]
    BY <1>1, <1>2
  <2>2. \A i, j \in 1..n : i < j => f[i] < f[j]
    BY <1>1, <1>2
  <2> QED
    BY <1>1, <2>1, <2>2 DEF Embedded, n
<1>5. ASSUME NEW v, NEW w, Carries(Signals, v), ~Carries(Signals', v), Carries(Signals', w)
      PROVE  v # w + 1
  <2>1. PICK i \in 1..(n + 1) : \E a \in 1..Len(Signals[i].data) : Signals[i].data[a] = v
    BY <1>1, <1>5 DEF Carries
  <2>2. PICK j \in 1..n : \E b \in 1..Len(Signals'[j].data) : Signals'[j].data[b] = w
    BY <1>1, <1>5 DEF Carries, n
  <2>3. i = m + 1
    <3>1. ASSUME NEW k \in 1..n
          PROVE  Signals'[k] # Signals[i]
      BY <1>5, <2>1 DEF Carries, n
    <3>2. i \notin 1..m
      BY <1>1, <3>1
    <3>3. i \notin (m + 2)..(n + 1)
      <4>1. ASSUME i \in (m + 2)..(n + 1)
            PROVE  i - 1 \in 1..n /\ i - 1 \in (m + 1)..n /\ (i - 1) + 1 = i
        BY <1>1, <4>1
      <4> QED
        BY <1>1, <3>1, <4>1
    <3> QED
      BY <1>1, <3>2, <3>3
  <2>4. toLidar = <<>>
    <3>1. Len(Signals[i].data) # 0
      BY <2>1
    <3> QED
      BY <1>1, <2>3, <3>1
  <2>5. m = 0 /\ i = 1 /\ j + 1 \in 1..(n + 1) /\ 1 < j + 1 /\ Signals'[j] = Signals[j + 1]
    BY <1>1, <2>3, <2>4 DEF m
  <2>6. PICK a \in 1..Len(Signals[1].data), b \in 1..Len(Signals[j + 1].data) :
          Signals[1].data[a] = v /\ Signals[j + 1].data[b] = w
    BY <2>1, <2>2, <2>5
  <2>7. v < w
    BY <1>1, <2>5, <2>6 DEF DataFlow, DataInOrder, InOrder
  <2>8. v \in Nat /\ w \in Nat
    <3>1. Signals[1] \in Signal /\ Signals[j + 1] \in Signal
      BY <1>1, <2>5
    <3>2. Signals[1].data \in Seq(Nat) /\ Signals[j + 1].data \in Seq(Nat)
      BY <3>1, DataType
    <3>3. \A s \in Seq(Nat) : \A k \in 1..Len(s) : s[k] \in Nat
      OBVIOUS
    <3> QED
      BY <2>6, <3>2, <3>3
  <2> QED
    BY <2>7, <2>8
<1> QED
  BY <1>1, <1>3, <1>4, <1>5, EmbeddedFlow DEF DataFlow

(* The device sends the next piece.                                            *)
LEMMA ProducePiece ==
  ASSUME TypeOK, DataFlow, PortKept', UNCHANGED <<toLidar, events, unplugs>>,
         produced' = produced + 1, incoming' = Append(incoming, produced + 1)
  PROVE  DataFlow'
<1> DEFINE n == Len(toLidar) + Len(events)
           new == produced + 1
<1>1. /\ toLidar \in Seq(Signal) /\ events \in Seq(Signal) /\ incoming \in Seq(Nat)
      /\ incoming' \in Seq(Nat) /\ produced \in Nat
  BY DEF TypeOK
<1>2. /\ Signals \in Seq(Signal) /\ Signals' \in Seq(Signal) /\ n \in Nat
      /\ Len(Signals) = n + 1 /\ Len(Signals') = n + 1
      /\ \A i \in 1..n : Signals'[i] = Signals[i]
      /\ Signals[n + 1] = Data(incoming) /\ Signals'[n + 1] = Data(incoming')
  <2>0. SignalsAt(Signals, incoming) /\ SignalsAt(Signals', incoming')
    BY <1>1, SignalPlaces
  <2>1. /\ Signals \in Seq(Signal) /\ n \in Nat /\ Len(Signals) = n + 1
        /\ \A i \in 1..(n + 1) : Signals[i] =
             IF i <= Len(toLidar) THEN toLidar[i]
             ELSE IF i <= n THEN events[i - Len(toLidar)] ELSE Data(incoming)
    BY <2>0 DEF SignalsAt
  <2>2. /\ Signals' \in Seq(Signal) /\ Len(Signals') = n + 1
        /\ \A i \in 1..(n + 1) : Signals'[i] =
             IF i <= Len(toLidar) THEN toLidar[i]
             ELSE IF i <= n THEN events[i - Len(toLidar)] ELSE Data(incoming')
    BY <2>0 DEF SignalsAt
  <2>3. Len(toLidar) \in Nat /\ Len(events) \in Nat
    BY <1>1
  <2>4. \A i \in 1..n : Signals'[i] = Signals[i]
    <3> TAKE i \in 1..n
    <3>1. CASE i <= Len(toLidar)
      BY <2>1, <2>2, <2>3, <3>1
    <3>2. CASE i > Len(toLidar)
      BY <2>1, <2>2, <2>3, <3>2
    <3> QED
      BY <2>3, <3>1, <3>2
  <2>5. Signals[n + 1] = Data(incoming) /\ Signals'[n + 1] = Data(incoming')
    BY <2>1, <2>2, <2>3
  <2> QED
    BY <2>1, <2>2, <2>4, <2>5
<1>3. /\ Signals[n + 1].data = incoming /\ Signals'[n + 1].data = incoming'
      /\ Len(incoming) \in Nat /\ Len(incoming') = Len(incoming) + 1
      /\ \A a \in 1..Len(incoming) : incoming'[a] = incoming[a]
      /\ incoming'[Len(incoming) + 1] = new
  BY <1>1, <1>2 DEF Data
<1> HIDE DEF n
<1>4. /\ \A i \in 1..(n + 1) : i \in 1..n \/ i = n + 1
      /\ \A a \in 1..Len(incoming') : a \in 1..Len(incoming) \/ a = Len(incoming) + 1
      /\ n + 1 \in 1..(n + 1) /\ Len(incoming) + 1 \in 1..Len(incoming')
      /\ \A i \in 1..n : i \in 1..(n + 1)
      /\ \A a \in 1..Len(incoming) : a \in 1..Len(incoming')
  BY <1>2, <1>3
<1>5. \A i \in 1..(n + 1) : \A a \in 1..Len(Signals[i].data) : Signals[i].data[a] < new
  <2> SUFFICES ASSUME NEW i \in 1..(n + 1), NEW a \in 1..Len(Signals[i].data)
               PROVE  Signals[i].data[a] < new
    OBVIOUS
  <2>1. Signals[i].data \in Seq(Nat)
    BY <1>2, DataType
  <2>2. Signals[i].data[a] <= produced
    BY <1>2 DEF DataFlow, Carries
  <2> QED
    BY <1>1, <2>1, <2>2
<1>6. \A i \in 1..(n + 1) : \A a \in 1..Len(Signals'[i].data) :
        \/ a \in 1..Len(Signals[i].data) /\ Signals'[i].data[a] = Signals[i].data[a]
        \/ i = n + 1 /\ a = Len(incoming) + 1 /\ Signals'[i].data[a] = new
  <2> SUFFICES ASSUME NEW i \in 1..(n + 1), NEW a \in 1..Len(Signals'[i].data)
               PROVE  \/ a \in 1..Len(Signals[i].data) /\ Signals'[i].data[a] = Signals[i].data[a]
                      \/ i = n + 1 /\ a = Len(incoming) + 1 /\ Signals'[i].data[a] = new
    OBVIOUS
  <2>1. CASE i \in 1..n
    BY <1>2, <2>1
  <2>2. CASE i = n + 1
    BY <1>2, <1>3, <1>4, <2>2
  <2> QED
    BY <1>4, <2>1, <2>2
<1>7. InOrder(Signals')
  <2>1. ASSUME NEW i \in 1..(n + 1)
        PROVE  Increasing(Signals'[i].data)
    <3> SUFFICES ASSUME NEW a \in 1..Len(Signals'[i].data), NEW b \in 1..Len(Signals'[i].data),
                        a < b
                 PROVE  Signals'[i].data[a] < Signals'[i].data[b]
      BY DEF Increasing
    <3>1. a \in 1..Len(Signals[i].data) /\ Signals'[i].data[a] = Signals[i].data[a]
      <4>1. CASE i = n + 1
        <5>1. a \in 1..Len(incoming') /\ b \in 1..Len(incoming')
          BY <1>3, <4>1
        <5>2. a \in 1..Len(incoming)
          BY <1>3, <5>1
        <5> QED
          BY <1>3, <4>1, <5>2
      <4> QED
        BY <1>6, <4>1
    <3>2. CASE b \in 1..Len(Signals[i].data) /\ Signals'[i].data[b] = Signals[i].data[b]
      BY <1>2, <3>1, <3>2 DEF DataFlow, DataInOrder, InOrder, Increasing
    <3>3. CASE Signals'[i].data[b] = new
      BY <1>5, <3>1, <3>3
    <3> QED
      BY <1>6, <3>2, <3>3
  <2>2. ASSUME NEW i \in 1..(n + 1), NEW j \in 1..(n + 1), i < j,
               NEW a \in 1..Len(Signals'[i].data), NEW b \in 1..Len(Signals'[j].data)
        PROVE  Signals'[i].data[a] < Signals'[j].data[b]
    <3>1. a \in 1..Len(Signals[i].data) /\ Signals'[i].data[a] = Signals[i].data[a]
      BY <1>2, <1>6, <2>2
    <3>2. CASE b \in 1..Len(Signals[j].data) /\ Signals'[j].data[b] = Signals[j].data[b]
      BY <1>2, <2>2, <3>1, <3>2 DEF DataFlow, DataInOrder, InOrder
    <3>3. CASE Signals'[j].data[b] = new
      BY <1>5, <3>1, <3>3
    <3> QED
      BY <1>6, <3>2, <3>3
  <2> QED
    BY <1>2, <2>1, <2>2 DEF InOrder
<1>8. \A v : Carries(Signals', v) => Carries(Signals, v) \/ v = new
  BY <1>2, <1>6 DEF Carries
<1>9. Carries(Signals', new)
  BY <1>2, <1>3, <1>4 DEF Carries
<1>10. ASSUME NEW v, Carries(Signals, v)
       PROVE  Carries(Signals', v)
  <2>1. PICK i \in 1..(n + 1) : \E a \in 1..Len(Signals[i].data) : Signals[i].data[a] = v
    BY <1>2, <1>10 DEF Carries
  <2>2. \E a \in 1..Len(Signals'[i].data) : Signals'[i].data[a] = v
    <3>1. CASE i \in 1..n
      BY <1>2, <2>1, <3>1
    <3>2. CASE i = n + 1
      BY <1>3, <1>4, <2>1, <3>2
    <3> QED
      BY <1>4, <3>1, <3>2
  <2> QED
    BY <1>2, <2>1, <2>2 DEF Carries
<1>11. ASSUME unplugs = 0
       PROVE  NoGap(Signals', new)
  <2> SUFFICES ASSUME NEW v \in 1..(new - 1), Carries(Signals', v)
               PROVE  Carries(Signals', v + 1)
    BY DEF NoGap
  <2>1. CASE v = produced
    BY <1>9, <2>1
  <2>2. CASE v # produced
    <3>1. v \in 1..(produced - 1) /\ v # new
      BY <1>1, <2>2
    <3>2. Carries(Signals, v + 1)
      BY <1>8, <1>11, <3>1 DEF DataFlow, DataInOrder, NoGap
    <3> QED
      BY <1>10, <3>2
  <2> QED
    BY <2>1, <2>2
<1>12. \A v : Carries(Signals', v) => v <= new
  <2> SUFFICES ASSUME NEW v, Carries(Signals, v) PROVE v <= new
    BY <1>1, <1>8
  <2>1. v <= produced
    BY DEF DataFlow
  <2>2. v \in Nat
    <3>1. PICK i \in 1..(n + 1) : \E a \in 1..Len(Signals[i].data) : Signals[i].data[a] = v
      BY <1>2 DEF Carries
    <3>2. Signals[i].data \in Seq(Nat)
      BY <1>2, DataType
    <3> QED
      BY <3>1, <3>2
  <2> QED
    BY <1>1, <2>1, <2>2
<1> QED
  BY <1>7, <1>11, <1>12 DEF DataFlow, DataInOrder

LEMMA SerialThreadDataFlow ==
  ASSUME IInv, DataFlow, PortKept', SerialThread
  PROVE  DataFlow'
<1>1. TypeOK /\ RunState /\ PortKept
  BY DEF IInv, DataFlow
<1>2. UNCHANGED <<toLidar, produced, unplugs>>
  BY DEF SerialThread, deviceVars, interfaceVars
<1>3. CASE UNCHANGED <<events, incoming>>
  BY <1>1, <1>2, <1>3, LoseData
<1>4. CASE CheckClosed
  <2>1. CASE events' = Append(events, Closed)
    BY <1>1, <1>2, <1>4, <2>1, QueueSignal, SignalTypes DEF CheckClosed, Closed
  <2> QED
    BY <1>3, <1>4, <2>1 DEF CheckClosed
<1>5. CASE CheckOpen
  <2>1. CASE portError /\ incoming' = <<>> /\ events' = events
    BY <1>1, <1>2, <2>1, LoseData DEF PortKept
  <2> QED
    BY <1>3, <1>5, <2>1 DEF CheckOpen
<1>6. CASE OpenPort
  <2>1. CASE events' = Append(events, Opened)
    BY <1>1, <1>2, <1>6, <2>1, QueueSignal, SignalTypes DEF OpenPort, Opened
  <2> QED
    BY <1>3, <1>6, <2>1 DEF OpenPort
<1>7. CASE ReadPort
  <2>1. CASE events' = Append(events, Data(incoming)) /\ incoming' = <<>>
    <3>1. Data(incoming) \in Signal /\ Data(incoming).data = incoming
      BY <1>1, SignalTypes DEF TypeOK, Data
    <3> QED
      BY <1>1, <1>2, <2>1, <3>1, QueueSignal
  <2> QED
    BY <1>3, <1>7, <2>1 DEF ReadPort
<1> QED
  BY <1>3, <1>4, <1>5, <1>6, <1>7 DEF SerialThread, CheckWild, WritePort, portVars

LEMMA NextDataFlow == IInv /\ DataFlow /\ [Next]_vars => DataFlow'
<1> SUFFICES ASSUME IInv, DataFlow, [Next]_vars PROVE DataFlow'
  OBVIOUS
<1>1. TypeOK /\ PortKept /\ PortKept'
  BY NextPortKept DEF IInv, DataFlow
<1>2. CASE SerialThread
  BY <1>1, <1>2, SerialThreadDataFlow
<1>3. CASE InterfaceThread
  <2>1. /\ events # <<>> /\ events' = Tail(events)
        /\ UNCHANGED <<produced, unplugs, incoming, connected>>
    BY <1>3 DEF InterfaceThread, deviceVars, portVars, monitorVars
  <2>2. CASE HandlePortClosed
    BY <1>1, <2>1, <2>2, DropSignal DEF HandlePortClosed, Closed
  <2>3. CASE Emit(Head(events))
    BY <1>1, <2>1, <2>3, PassSignal, DropSignal DEF Emit, PortKept
  <2> QED
    BY <1>3, <2>2, <2>3 DEF InterfaceThread, HandlePortOpened, HandleReadyRead
<1>4. CASE MonitorThread \/ UNCHANGED vars
  <2>1. UNCHANGED <<toLidar, events, produced, incoming, unplugs>>
    BY <1>4 DEF MonitorThread, vars, deviceVars, portVars, interfaceVars
  <2> QED
    BY <1>1, <2>1, LoseData
<1>5. CASE Device
  <2>1. UNCHANGED <<toLidar, events>>
    BY <1>5 DEF Device, interfaceVars
  <2>2. CASE Unplug
    <3>1. unplugs' # 0 /\ incoming' = <<>> /\ produced' = produced
      BY <1>1, <2>2 DEF Unplug, TypeOK
    <3> QED
      BY <1>1, <2>1, <3>1, LoseData
  <2>3. CASE Plug
    BY <1>1, <2>1, <2>3, LoseData DEF Plug, portVars
  <2>4. CASE Produce
    BY <1>1, <2>1, <2>4, ProducePiece DEF Produce
  <2> QED
    BY <1>5, <2>2, <2>3, <2>4 DEF Device
<1> QED
  BY <1>2, <1>3, <1>4, <1>5 DEF Next

(* Whatever the two threads' order, however long the queue between them and    *)
(* however often the device goes: what Lidar is handed is in order and nothing *)
(* twice; without an unplugging there is no gap (blockingserialthread.cpp:     *)
(* 52-62, blockinginterface.cpp:25-28).                                        *)
THEOREM DataAlwaysInOrder == Spec => []DataInOrder
<1>1. Init => DataFlow
  <2> SUFFICES ASSUME Init PROVE DataFlow
    OBVIOUS
  <2>1. Signals = <<Data(<<>>)>>
    BY DEF Init, Signals, Data
  <2>2. Len(Signals) = 1 /\ Signals[1].data = <<>>
    BY <2>1 DEF Data
  <2>3. \A v : ~Carries(Signals, v)
    BY <2>2 DEF Carries
  <2>4. InOrder(Signals)
    BY <2>2 DEF InOrder, Increasing
  <2> QED
    BY <2>3, <2>4 DEF Init, DataFlow, PortKept, DataInOrder, NoGap
<1>2. DataFlow => DataInOrder
  BY DEF DataFlow
<1> QED
  BY <1>1, <1>2, NextDataFlow, AlwaysIInv, PTL DEF Spec

------------------------------------------------------------------------------
(* As long as the device was never unplugged no session ends: neither run(),   *)
(* nor the queue, nor an exchange knows of an end.                             *)
SessionKept == unplugs = 0 =>
  /\ wasOpen => port = "open"
  /\ \A i \in 1..Len(events) : events[i].kind # "closed"
  /\ monitor = "exchange" => wasOpen

LEMMA OpenIsBelieved ==
  ASSUME IInv, SessionKept, unplugs = 0, deviceOpen
  PROVE  wasOpen
<1>1. Len(events) \in Nat
  BY DEF IInv, TypeOK
<1>2. Len(events) > 0 => events[Len(events)].kind # "closed"
  BY <1>1 DEF SessionKept
<1>3. Len(events) + 1 - 1 = Len(events)
  BY <1>1
<1>4. OpenBefore(Len(events) + 1)
  BY <1>1, <1>2, <1>3 DEF OpenBefore
<1> QED
  BY <1>4 DEF IInv, SessionsBracketed

LEMMA NextSessionKept ==
  IInv /\ PortKept /\ SessionKept /\ [Next]_vars => SessionKept'
<1> SUFFICES ASSUME IInv, PortKept, SessionKept, [Next]_vars, unplugs' = 0
             PROVE  /\ wasOpen' => port' = "open"
                    /\ \A i \in 1..Len(events') : events'[i].kind # "closed"
                    /\ monitor' = "exchange" => wasOpen'
  BY DEF SessionKept
<1>0. events \in Seq(Signal) /\ unplugs \in Nat /\ incoming \in Seq(Nat)
  BY BoundsAssumption DEF IInv, TypeOK
<1>1. CASE SerialThread
  <2>1. unplugs = 0 /\ monitor' = monitor
    BY <1>1 DEF SerialThread, deviceVars, monitorVars
  <2>2. /\ wasOpen => port = "open"
        /\ \A i \in 1..Len(events) : events[i].kind # "closed"
        /\ monitor = "exchange" => wasOpen
        /\ ~portError
    BY <2>1 DEF SessionKept, PortKept
  <2>3. CASE CheckClosed \/ CheckWild \/ CheckOpen \/ WritePort
    <3>1. UNCHANGED <<events, wasOpen>>
      BY <2>2, <2>3 DEF CheckClosed, CheckWild, CheckOpen, WritePort, runVars, IInv, TypeOK
    <3>2. wasOpen => port' = "open"
      BY <2>2, <2>3 DEF CheckClosed, CheckWild, CheckOpen, WritePort, portVars
    <3> QED
      BY <2>1, <2>2, <3>1, <3>2
  <2>4. CASE OpenPort
    <3>1. ~wasOpen
      BY <2>4 DEF OpenPort, IInv, RunState
    <3>2. CASE plugged
      <4>1. events' = Append(events, Opened) /\ wasOpen' = TRUE /\ port' = "open"
        BY <2>4, <3>1, <3>2 DEF OpenPort
      <4> QED
        BY <1>0, <2>2, <4>1, SignalTypes DEF Opened
    <3>3. CASE ~plugged
      BY <2>1, <2>2, <2>4, <3>1, <3>3 DEF OpenPort
    <3> QED
      BY <3>2, <3>3
  <2>5. CASE ReadPort
    <3>1. UNCHANGED <<port, wasOpen>>
      BY <2>5 DEF ReadPort
    <3>2. Data(incoming) \in Signal /\ Data(incoming).kind = "data"
      BY <1>0 DEF Data, Signal
    <3>3. events' = events \/ events' = Append(events, Data(incoming))
      BY <2>5 DEF ReadPort
    <3>4. \A i \in 1..Len(events') : events'[i].kind # "closed"
      BY <1>0, <2>2, <3>2, <3>3
    <3> QED
      BY <2>1, <2>2, <3>1, <3>4
  <2> QED
    BY <1>1, <2>3, <2>4, <2>5 DEF SerialThread
<1>2. CASE InterfaceThread
  <2>1. events' = Tail(events) /\ events # <<>>
        /\ UNCHANGED <<unplugs, wasOpen, port, monitor>>
    BY <1>2 DEF InterfaceThread, deviceVars, runVars, portVars, monitorVars
  <2>2. \A i \in 1..Len(events') : events'[i] = events[i + 1] /\ i + 1 \in 1..Len(events)
    BY <1>0, <2>1
  <2> QED
    BY <2>1, <2>2 DEF SessionKept
<1>3. CASE MonitorThread
  <2>1. UNCHANGED <<unplugs, events, wasOpen, port>>
    BY <1>3 DEF MonitorThread, deviceVars, runVars, portVars
  <2>2. monitor' = "exchange" => monitor = "exchange" \/ deviceOpen
    BY <1>3 DEF MonitorThread, LidarStart, BeginExchange, EndExchange, Send, MotorCall
  <2> QED
    BY <2>1, <2>2, OpenIsBelieved DEF SessionKept
<1>4. CASE Device
  <2>1. unplugs = 0
    BY <1>0, <1>4 DEF Device, Unplug, Plug, Produce
  <2>2. UNCHANGED <<events, wasOpen, port, monitor>>
    BY <1>4 DEF Device, Unplug, Plug, Produce, runVars, portVars, monitorVars
  <2> QED
    BY <2>1, <2>2 DEF SessionKept
<1>5. CASE UNCHANGED vars
  BY <1>5 DEF SessionKept, vars, deviceVars, runVars, portVars, monitorVars
<1> QED
  BY <1>1, <1>2, <1>3, <1>4, <1>5 DEF Next

(* Without an unplugging, for any number of data and commands and whatever the *)
(* order of the threads: the motor calls of an exchange never miss the port    *)
(* (blockingserialthread.cpp:117-127, monitorthread.cpp:47-54).                *)
THEOREM ExchangeAlwaysFindsPort == Spec => []ExchangeFindsPort
<1>1. Init => PortKept /\ SessionKept
  BY DEF Init, PortKept, SessionKept
<1>2. IInv /\ SessionKept => ExchangeFindsPort
  BY OpenIsBelieved DEF SessionKept, ExchangeFindsPort
<1> QED
  BY <1>1, <1>2, NextPortKept, NextSessionKept, AlwaysIInv, PTL DEF Spec

------------------------------------------------------------------------------
(* LinkedExchange: each of its steps is one of SerialLink's or leaves that     *)
(* alone, so all of the above holds of it as well.                             *)
LEMMA LinkedStep == [LinkedNext]_linkedVars => [Next]_vars
<1> SUFFICES ASSUME LinkedNext, ~(UNCHANGED vars) PROVE Next
  BY DEF linkedVars
<1> USE DEF elsewhere
<1>1. CASE LinkedMonitorThread
  <2>1. ~LinkedReset /\ ~LinkedWait
    BY DEF LinkedReset, LinkedWait, vars
  <2>2. MonitorThread
    BY <1>1, <2>1
    DEF LinkedMonitorThread, MonitorThread, LinkedLidarStart, LinkedTimerExpired, StopForNobody,
        CallMotor, LinkedGiveUp, StartScanReturns, SendDeviceInfo, LinkedSendStartScan
  <2> QED
    BY <2>2 DEF LinkedNext, Next
<1>2. CASE LinkedLidarThread
  BY <1>2 DEF LinkedLidarThread, LinkedParse, LinkedWake
<1>3. CASE LinkedSerialThreads
  BY <1>3 DEF LinkedSerialThreads, LinkedNext, Next
<1>4. CASE LinkedDevice
  BY <1>4 DEF LinkedDevice, TakeCommand, Device, LinkedNext, Next, vars
<1> QED
  BY <1>1, <1>2, <1>3, <1>4 DEF LinkedNext

(* What the serial thread does to the commands written: nothing, one more from *)
(* the slot, or those not transmitted are lost.                                *)
LEMMA SerialThreadWritten ==
  ASSUME TypeOK, SerialThread
  PROVE  /\ Written \in Seq(Nat) /\ Written' \in Seq(Nat)
         /\ Len(received) <= Len(received')
         /\ \/ Written' = Written /\ sendBuffer' = sendBuffer
            \/ /\ sendBuffer # NoCommand /\ sendBuffer' = NoCommand
               /\ Written' = Append(Written, sendBuffer)
            \/ sendBuffer' = sendBuffer /\ received' = received
               /\ Written' = SubSeq(Written, 1, Len(received))
<1>0. Written \in Seq(Nat) /\ Written' \in Seq(Nat)
  BY SerialThreadTypeOK DEF TypeOK, Written
<1>1. CASE UNCHANGED <<received, outgoing, sendBuffer>>
  BY <1>0, <1>1 DEF TypeOK, Written
<1>2. CASE CheckOpen
  <2>1. CASE outgoing' = <<>>
    <3>1. received' = received /\ sendBuffer' = sendBuffer
      BY <1>2 DEF CheckOpen
    <3>2. Written' = SubSeq(Written, 1, Len(received))
      BY <2>1, <3>1 DEF TypeOK, Written
    <3> QED
      BY <1>0, <3>1, <3>2 DEF TypeOK
  <2> QED
    BY <1>1, <1>2, <2>1 DEF CheckOpen
<1>3. CASE ReadPort
  <2>1. CASE received' = received \o outgoing /\ outgoing' = <<>>
    <3>1. Written' = Written /\ Len(received) <= Len(received')
      BY <2>1 DEF TypeOK, Written
    <3> QED
      BY <1>0, <1>3, <3>1 DEF ReadPort
  <2> QED
    BY <1>1, <1>3, <2>1 DEF ReadPort
<1>4. CASE WritePort
  <2>1. CASE sendBuffer # NoCommand
    <3>1. /\ received' = received /\ sendBuffer' = NoCommand
          /\ outgoing' = Append(outgoing, sendBuffer)
      BY <1>4, <2>1 DEF WritePort
    <3>2. Written' = Append(Written, sendBuffer)
      <4> DEFINE m == Len(received)
                 n == Len(outgoing)
      <4>1. /\ m \in Nat /\ n \in Nat /\ Len(Written) = m + n /\ Len(Written') = m + n + 1
            /\ Len(Append(Written, sendBuffer)) = m + n + 1 /\ sendBuffer \in Nat
        BY <3>1 DEF TypeOK, Written
      <4>2. \A i \in 1..(m + n + 1) : Written'[i] = Append(Written, sendBuffer)[i]
        BY <3>1, <4>1 DEF TypeOK, Written
      <4> QED
        BY <1>0, <4>1, <4>2
    <3> QED
      BY <1>0, <2>1, <3>1, <3>2 DEF TypeOK
  <2> QED
    BY <1>1, <1>4, <2>1 DEF WritePort
<1> QED
  BY <1>1, <1>2, <1>3, <1>4 DEF SerialThread, CheckClosed, CheckWild, OpenPort, portVars

(* Each command sent and each answer has its entry, and the device and Lidar   *)
(* have not come to one that is not there.                                     *)
RouteOK ==
  /\ meaning \in Seq(Int) /\ Len(meaning) = sent
  /\ \A c \in 1..sent : meaning[c] # NoCommand
  /\ \A i \in 1..Len(Written) : Written[i] \in 1..sent
  /\ answers \in Seq(Int) /\ Len(answers) = produced
  /\ taken \in 0..Len(received) /\ heard \in 0..produced
  /\ commands \in Nat

LEMMA NextRouteOK ==
  ASSUME TypeOK, RouteOK, [LinkedNext]_linkedVars
  PROVE  RouteOK'
<1> USE DEF elsewhere, NoCommand
<1>1. CASE UNCHANGED <<sent, received, outgoing, produced, meaning, answers, taken, commands>>
           /\ heard' \in 0..produced
  BY <1>1 DEF RouteOK, Written
<1>2. CASE LinkedMonitorThread
  <2>1. ASSUME NEW m \in Int, m # 0, meaning' = Append(meaning, m), sent' = sent + 1,
               UNCHANGED <<received, outgoing, produced, answers, taken, heard>>, commands' \in Nat
        PROVE  RouteOK'
    <3>0. /\ sent \in Nat /\ meaning \in Seq(Int) /\ Len(meaning) = sent
          /\ \A c \in 1..sent : meaning[c] # NoCommand
      BY DEF RouteOK, TypeOK
    <3>1. /\ meaning' \in Seq(Int) /\ Len(meaning') = sent'
          /\ \A c \in 1..sent' : meaning'[c] = IF c = sent + 1 THEN m ELSE meaning[c]
      BY <2>1, <3>0
    <3>2. \A c \in 1..sent' : meaning'[c] # NoCommand
      BY <2>1, <3>0, <3>1
    <3>3. /\ Written' = Written
          /\ \A i \in 1..Len(Written) : Written[i] \in 1..sent'
      <4>1. Written' = Written
        BY <2>1 DEF Written
      <4>2. \A n \in 1..sent : n \in 1..(sent + 1)
        BY <3>0
      <4> QED
        BY <2>1, <4>1, <4>2 DEF RouteOK
    <3> QED
      BY <2>1, <3>1, <3>2, <3>3 DEF RouteOK
  <2>2. CASE SendDeviceInfo
    BY <2>1, <2>2 DEF SendDeviceInfo, Send, RouteOK, portVars, deviceVars
  <2>3. CASE LinkedSendStartScan
    BY <2>1, <2>3 DEF LinkedSendStartScan, Send, RouteOK, portVars, deviceVars,
                      Exchange!StartScan
  <2>4. CASE LinkedReset
    BY <1>1, <2>4 DEF LinkedReset, RouteOK, portVars, deviceVars, monitorVars
  <2>5. CASE LinkedLidarStart \/ StopForNobody \/ CallMotor \/ StartScanReturns
    BY <1>1, <2>5 DEF LinkedLidarStart, StopForNobody, CallMotor, StartScanReturns, LidarStart,
                      MotorCall, EndExchange, RouteOK, portVars, deviceVars, waitVars, routeVars
  <2>6. CASE LinkedTimerExpired \/ LinkedGiveUp
    BY <1>1, <2>6 DEF LinkedTimerExpired, LinkedGiveUp, BeginExchange, EndExchange, RouteOK,
                      portVars, deviceVars, routeVars, Exchange!HandleTimerExpired,
                      Exchange!GiveUp
  <2>7. CASE LinkedWait
    BY <1>1, <2>7 DEF LinkedWait, RouteOK, vars, portVars, deviceVars, monitorVars, routeVars,
                      Exchange!TryGetResponse, Exchange!Wait, Exchange!Timeout,
                      Exchange!TakeFirst
  <2> QED
    BY <1>2, <2>2, <2>3, <2>4, <2>5, <2>6, <2>7 DEF LinkedMonitorThread
<1>3. CASE LinkedLidarThread
  <2>1. UNCHANGED vars /\ commands' = commands
    BY <1>3 DEF LinkedLidarThread, LinkedParse, LinkedWake, waitVars, Exchange!AppendResponse,
                Exchange!WakeAll, Exchange!monitorVars
  <2>2. UNCHANGED <<meaning, answers, taken>> /\ heard' \in 0..produced
    BY <1>3 DEF LinkedLidarThread, LinkedParse, LinkedWake, routeVars, RouteOK, TypeOK
  <2> QED
    BY <1>1, <2>1, <2>2 DEF vars, portVars, deviceVars, monitorVars
<1>4. CASE LinkedSerialThreads
  <2>1. UNCHANGED <<sent, produced, meaning, answers, taken, commands, heard>>
    BY <1>4 DEF LinkedSerialThreads, SerialThread, InterfaceThread, deviceVars, monitorVars,
                waitVars, routeVars
  <2>2. CASE InterfaceThread
    BY <1>1, <2>1, <2>2 DEF InterfaceThread, portVars, RouteOK
  <2>3. CASE SerialThread
    <3>1. taken \in 0..Len(received')
      BY <2>3, SerialThreadWritten, SerialThreadTypeOK DEF RouteOK, TypeOK
    <3>2. sendBuffer # NoCommand => sendBuffer \in 1..sent
      BY DEF TypeOK
    <3>3. \A i \in 1..Len(Written') : Written'[i] \in 1..sent
      <4>1. CASE Written' = Written
        BY <4>1 DEF RouteOK
      <4>2. CASE sendBuffer # NoCommand /\ Written' = Append(Written, sendBuffer)
        BY <2>3, <3>2, <4>2, SerialThreadWritten DEF RouteOK
      <4>3. CASE Written' = SubSeq(Written, 1, Len(received))
        <5>1. Len(received) \in 0..Len(Written)
          BY DEF TypeOK, Written
        <5> QED
          BY <2>3, <4>3, <5>1, SerialThreadWritten DEF RouteOK
      <4> QED
        BY <2>3, <4>1, <4>2, <4>3, SerialThreadWritten
    <3> QED
      BY <2>1, <3>1, <3>3 DEF RouteOK
  <2> QED
    BY <1>4, <2>2, <2>3 DEF LinkedSerialThreads
<1>5. CASE LinkedDevice
  <2>1. UNCHANGED <<sent, received, outgoing, meaning, heard, commands>>
    BY <1>5 DEF LinkedDevice, TakeCommand, Unplug, Plug, Produce, monitorVars, waitVars,
                routeVars, portVars
  <2>2. CASE UNCHANGED <<produced, answers>> /\ taken' \in {taken, taken + 1}
             /\ taken' <= Len(received)
    BY <2>1, <2>2 DEF RouteOK, TypeOK, Written
  <2>3. CASE TakeCommand /\ Produce /\ answers' = Append(answers, meaning[received[taken + 1]])
    <3>1. taken' = taken + 1 /\ taken < Len(received) /\ produced' = produced + 1
      BY <2>3 DEF TakeCommand, Produce
    <3>2. Written[taken + 1] = received[taken + 1] /\ taken + 1 \in 1..Len(Written)
      BY <3>1 DEF RouteOK, TypeOK, Written
    <3>3. meaning[received[taken + 1]] \in Int
      BY <3>2 DEF RouteOK
    <3>4. answers' \in Seq(Int) /\ Len(answers') = produced'
      BY <2>3, <3>1, <3>3 DEF RouteOK, TypeOK
    <3> QED
      BY <2>1, <3>1, <3>4 DEF RouteOK, TypeOK, Written
  <2> QED
    BY <1>5, <2>2, <2>3 DEF LinkedDevice, TakeCommand, Unplug, Plug, deviceVars, routeVars, RouteOK
<1>6. CASE UNCHANGED linkedVars
  BY <1>1, <1>6 DEF linkedVars, vars, portVars, deviceVars, monitorVars, waitVars, routeVars,
                    RouteOK
<1> QED
  BY <1>2, <1>3, <1>4, <1>5, <1>6 DEF LinkedNext

(* Nothing but these makes up what the exchange sees of the link.              *)
LEMMA SameView ==
  ASSUME UNCHANGED <<sendBuffer, received, outgoing, produced, routeVars>>
  PROVE  UNCHANGED <<Slot, ToDevice, FromDevice>>
BY DEF Slot, ToDevice, FromDevice, Written, routeVars

(* A function on 1..n is a sequence of length n.                               *)
LEMMA FunctionIsSequence ==
  ASSUME NEW n \in Nat, NEW f, DOMAIN f = 1..n, f = [i \in DOMAIN f |-> f[i]],
         \A i \in 1..n : f[i] \in Int
  PROVE  f \in Seq(Int) /\ Len(f) = n
<1>1. f \in [1..n -> Int]
  OBVIOUS
<1> QED
  BY <1>1

LEMMA ViewType ==
  ASSUME TypeOK, RouteOK
  PROVE  /\ Len(Written) - taken \in Nat /\ produced - heard \in Nat
         /\ \A i \in 1..(Len(Written) - taken) : meaning[Written[taken + i]] \in Int
         /\ \A i \in 1..(produced - heard) : answers[heard + i] \in Int
         /\ ToDevice \in Seq(Int) /\ Len(ToDevice) = Len(Written) - taken
         /\ FromDevice \in Seq(Int) /\ Len(FromDevice) = produced - heard
<1>1. /\ Len(Written) - taken \in Nat /\ produced - heard \in Nat
      /\ Len(Written) \in Nat /\ taken \in Nat /\ heard \in Nat
  BY DEF TypeOK, RouteOK, Written
<1>2. /\ \A i \in 1..(Len(Written) - taken) : meaning[Written[taken + i]] \in Int
      /\ \A i \in 1..(produced - heard) : answers[heard + i] \in Int
  BY <1>1 DEF RouteOK
<1>3. ToDevice \in Seq(Int) /\ Len(ToDevice) = Len(Written) - taken
  <2> DEFINE n == Len(Written) - taken
  <2>1. /\ DOMAIN ToDevice = 1..n /\ ToDevice = [i \in DOMAIN ToDevice |-> ToDevice[i]]
        /\ \A i \in 1..n : ToDevice[i] \in Int
    BY <1>2, Zenon DEF ToDevice
  <2> QED
    BY <1>1, <2>1, FunctionIsSequence, Zenon
<1>4. FromDevice \in Seq(Int) /\ Len(FromDevice) = produced - heard
  <2> DEFINE n == produced - heard
  <2>1. /\ DOMAIN FromDevice = 1..n /\ FromDevice = [i \in DOMAIN FromDevice |-> FromDevice[i]]
        /\ \A i \in 1..n : FromDevice[i] \in Int
    BY <1>2, Zenon DEF FromDevice
  <2> QED
    BY <1>1, <2>1, FunctionIsSequence, Zenon
<1> QED
  BY <1>1, <1>2, <1>3, <1>4

(* Sequences of the same length and elements are the same.                     *)
LEMMA SameSequence ==
  ASSUME NEW s \in Seq(Int), NEW t \in Seq(Int), Len(s) = Len(t),
         \A i \in 1..Len(s) : s[i] = t[i]
  PROVE  s = t
OBVIOUS

(* Lidar going on to piece p is the exchange dropping answers.                 *)
LEMMA HeardView ==
  ASSUME TypeOK, RouteOK, NEW p \in (heard + 1)..produced, heard' = p,
         UNCHANGED <<sendBuffer, received, outgoing, produced, meaning, answers, taken>>
  PROVE  /\ p - heard \in 1..Len(FromDevice) /\ FromDevice[p - heard] = answers[p]
         /\ FromDevice' = SubSeq(FromDevice, p - heard + 1, Len(FromDevice))
         /\ UNCHANGED <<Slot, ToDevice>>
<1> DEFINE n == p - heard
<1>1. n \in 1..Len(FromDevice) /\ heard \in Nat /\ produced \in Nat /\ heard + n = p
  BY ViewType DEF RouteOK, TypeOK
<1>2. FromDevice[n] = answers[p]
  <2>1. n \in 1..(produced - heard)
    BY <1>1, ViewType
  <2> HIDE DEF n
  <2>2. FromDevice[n] = answers[heard + n]
    BY <2>1 DEF FromDevice
  <2> QED
    BY <1>1, <2>2
<1>3. FromDevice' = SubSeq(FromDevice, n + 1, Len(FromDevice))
  <2> DEFINE rest == SubSeq(FromDevice, n + 1, Len(FromDevice))
  <2>1. /\ rest \in Seq(Int) /\ Len(rest) = produced - p
        /\ \A i \in 1..(produced - p) : rest[i] = FromDevice[n + i]
    BY <1>1, ViewType
  <2>2. ASSUME NEW i \in 1..(produced - p)
        PROVE  FromDevice[n + i] = answers[p + i]
    <3>1. n + i \in 1..(produced - heard) /\ heard + (n + i) = p + i
      BY <1>1, ViewType
    <3>2. FromDevice[n + i] = answers[heard + (n + i)]
      BY <3>1 DEF FromDevice
    <3> QED
      BY <3>1, <3>2
  <2>3. FromDevice' = [i \in 1..(produced - p) |-> answers[p + i]]
    BY DEF FromDevice
  <2>4. FromDevice' \in Seq(Int) /\ Len(FromDevice') = produced - p
    <3>1. produced - p \in Nat /\ \A i \in 1..(produced - p) : answers[p + i] \in Int
      BY <1>1 DEF RouteOK
    <3> QED
      BY <2>3, <3>1
  <2> HIDE DEF rest
  <2> QED
    BY <2>1, <2>2, <2>3, <2>4, SameSequence DEF rest
<1>4. UNCHANGED <<Slot, ToDevice>>
  BY DEF Slot, ToDevice, Written
<1> QED
  BY <1>1, <1>2, <1>3, <1>4

(* A command sent is in the slot, with its meaning; those before it are as they*)
(* were.                                                                       *)
LEMMA SentView ==
  ASSUME TypeOK, RouteOK, NEW m \in Int, meaning' = Append(meaning, m),
         sendBuffer' = sent + 1,
         UNCHANGED <<received, outgoing, produced, answers, taken, heard>>
  PROVE  Slot' = m /\ UNCHANGED <<ToDevice, FromDevice>>
<1>1. /\ meaning \in Seq(Int) /\ Len(meaning) = sent /\ sent \in Nat
  BY DEF RouteOK, TypeOK
<1>2. meaning'[sent + 1] = m /\ \A c \in 1..sent : meaning'[c] = meaning[c]
  BY <1>1
<1>3. Slot' = m
  BY <1>1, <1>2 DEF Slot, NoCommand
<1>4. Written' = Written
  BY DEF Written
<1>5. \A i \in 1..(Len(Written) - taken) : taken + i \in 1..Len(Written)
  BY ViewType DEF RouteOK, TypeOK
<1>6. ToDevice' = ToDevice
  BY <1>2, <1>4, <1>5 DEF ToDevice, RouteOK
<1>7. FromDevice' = FromDevice
  BY DEF FromDevice
<1> QED
  BY <1>3, <1>6, <1>7

(* What the serial thread does is the exchange's WriteCommand, its ClosePort,  *)
(* or nothing that it sees.                                                    *)
LEMMA SerialThreadSimulated ==
  ASSUME TypeOK, RouteOK, SerialThread,
         UNCHANGED <<waitVars, parserVars, routeVars>>
  PROVE  [Exchange!Next]_(Exchange!vars)
<1> DEFINE ahead == Len(Written) - taken
<1>0. UNCHANGED <<Exchange!monitorVars, Exchange!lidarVars, responseQueue>>
  BY DEF waitVars, parserVars, Exchange!monitorVars, Exchange!lidarVars
<1>1. FromDevice' = FromDevice
  BY DEF FromDevice, SerialThread, deviceVars, routeVars
<1>2. ToDevice' = [i \in 1..(Len(Written') - taken) |-> meaning[Written'[taken + i]]]
  BY DEF ToDevice, routeVars
<1>3. CASE Written' = Written /\ sendBuffer' = sendBuffer
  <2>1. Slot' = Slot /\ ToDevice' = ToDevice
    BY <1>3 DEF Slot, ToDevice, routeVars
  <2> QED
    BY <1>0, <1>1, <2>1 DEF Exchange!vars, Exchange!linkVars
<1>4. CASE /\ sendBuffer # NoCommand /\ sendBuffer' = NoCommand
           /\ Written' = Append(Written, sendBuffer)
  <2>1. /\ Slot = meaning[sendBuffer] /\ Slot # NoCommand /\ Slot \in Int
        /\ Slot' = NoCommand
    <3>1. sendBuffer \in 1..sent
      BY <1>4 DEF TypeOK, NoCommand
    <3> QED
      BY <1>4, <3>1 DEF Slot, RouteOK
  <2>2. ToDevice' = Append(ToDevice, Slot)
    <3>1. /\ ahead \in Nat /\ Len(Written') - taken = ahead + 1 /\ taken \in Nat
          /\ Len(Written) \in Nat /\ taken + ahead = Len(Written)
      BY <1>4, ViewType, SerialThreadWritten DEF RouteOK, TypeOK
    <3>0. /\ Written \in Seq(Nat) /\ sendBuffer \in Nat
          /\ \A i \in 1..ahead : ToDevice[i] = meaning[Written[taken + i]]
      BY SerialThreadWritten DEF TypeOK, ToDevice
    <3>5. /\ ToDevice \in Seq(Int) /\ Len(ToDevice) = ahead
          /\ \A i \in 1..ahead : ToDevice[i] \in Int
      BY ViewType
    <3> HIDE DEF ahead
    <3>2. Written'[taken + (ahead + 1)] = sendBuffer
      BY <1>4, <3>0, <3>1
    <3>3. \A i \in 1..ahead : taken + i \in 1..Len(Written)
                              /\ Written'[taken + i] = Written[taken + i]
      BY <1>4, <3>0, <3>1
    <3>4. /\ \A i \in 1..ahead : meaning[Written'[taken + i]] = ToDevice[i]
          /\ meaning[Written'[taken + (ahead + 1)]] = Slot
      BY <2>1, <3>0, <3>2, <3>3
    <3>6. /\ ToDevice' \in Seq(Int) /\ Len(ToDevice') = ahead + 1
          /\ \A i \in 1..ahead : ToDevice'[i] = ToDevice[i]
          /\ ToDevice'[ahead + 1] = Slot
      <4>1. \A i \in 1..(ahead + 1) : i \in 1..ahead \/ i = ahead + 1
        BY <3>1
      <4>2. \A i \in 1..(ahead + 1) : meaning[Written'[taken + i]] \in Int
        BY <2>1, <3>4, <3>5, <4>1
      <4>3. ToDevice' = [i \in 1..(ahead + 1) |-> meaning[Written'[taken + i]]]
        BY <1>2, <3>1
      <4>4. /\ DOMAIN ToDevice' = 1..(ahead + 1)
            /\ \A i \in 1..(ahead + 1) : ToDevice'[i] = meaning[Written'[taken + i]]
            /\ ToDevice' = [i \in DOMAIN ToDevice' |-> ToDevice'[i]]
        BY <4>3, Zenon
      <4>5. ToDevice' \in Seq(Int) /\ Len(ToDevice') = ahead + 1
        <5>1. ahead + 1 \in Nat /\ \A i \in 1..(ahead + 1) : ToDevice'[i] \in Int
          BY <3>1, <4>2, <4>4
        <5> QED
          BY <4>4, <5>1, FunctionIsSequence, Zenon
      <4>6. ahead + 1 \in 1..(ahead + 1) /\ \A i \in 1..ahead : i \in 1..(ahead + 1)
        BY <3>1
      <4> QED
        BY <3>4, <4>4, <4>5, <4>6
    <3> QED
      BY <2>1, <3>1, <3>5, <3>6, SameSequence
  <2>3. Exchange!WriteCommand
    BY <1>1, <2>1, <2>2 DEF Exchange!WriteCommand, Exchange!NoCommand, NoCommand
  <2> QED
    BY <1>0, <2>3 DEF Exchange!Next, Exchange!Link
<1>5. CASE sendBuffer' = sendBuffer /\ received' = received
           /\ Written' = SubSeq(Written, 1, Len(received))
  <2> DEFINE n == Len(received) - taken
  <2>1. /\ n \in Nat /\ Len(received) <= Len(Written) /\ Len(received) \in Nat
        /\ taken \in Nat /\ n <= ahead /\ ahead \in Nat
    BY ViewType DEF RouteOK, TypeOK, Written
  <2>2. /\ Len(Written') - taken = n
        /\ \A i \in 1..n : Written'[taken + i] = Written[taken + i]
    BY <1>5, <2>1, SerialThreadWritten
  <2>3. ToDevice' = SubSeq(ToDevice, 1, n)
    <3>1. /\ ToDevice \in Seq(Int) /\ Len(ToDevice) = ahead
          /\ \A i \in 1..n : ToDevice[i] = meaning[Written[taken + i]] /\ ToDevice[i] \in Int
      <4>1. \A i \in 1..n : i \in 1..ahead
        BY <2>1
      <4> QED
        BY <4>1, ViewType DEF ToDevice
    <3> HIDE DEF n, ahead
    <3>2. /\ SubSeq(ToDevice, 1, n) \in Seq(Int) /\ Len(SubSeq(ToDevice, 1, n)) = n
          /\ \A i \in 1..n : SubSeq(ToDevice, 1, n)[i] = ToDevice[i]
      BY <2>1, <3>1
    <3>3. /\ ToDevice' \in Seq(Int) /\ Len(ToDevice') = n
          /\ \A i \in 1..n : ToDevice'[i] = ToDevice[i]
      <4>1. \A i \in 1..n : meaning[Written'[taken + i]] = ToDevice[i] /\ ToDevice[i] \in Int
        BY <2>2, <3>1
      <4>2. ToDevice' = [i \in 1..n |-> meaning[Written'[taken + i]]]
        BY <1>2, <2>2
      <4>3. /\ DOMAIN ToDevice' = 1..n
            /\ \A i \in 1..n : ToDevice'[i] = meaning[Written'[taken + i]]
            /\ ToDevice' = [i \in DOMAIN ToDevice' |-> ToDevice'[i]]
        BY <4>2, Zenon
      <4>4. ToDevice' \in Seq(Int) /\ Len(ToDevice') = n
        BY <2>1, <4>1, <4>3, FunctionIsSequence
      <4> QED
        BY <4>1, <4>3, <4>4
    <3> QED
      BY <3>2, <3>3, SameSequence
  <2>4. Slot' = Slot
    BY <1>5 DEF Slot, routeVars
  <2>5. Exchange!ClosePort
    <3>1. n \in 0..Len(ToDevice)
      BY <2>1, ViewType
    <3> QED
      BY <1>1, <2>3, <2>4, <3>1 DEF Exchange!ClosePort
  <2> QED
    BY <1>0, <2>5 DEF Exchange!Next, Exchange!Link
<1> QED
  BY <1>3, <1>4, <1>5, SerialThreadWritten

(* What the Monitor thread does: a step of its own in the exchange, or nothing *)
(* the exchange sees.                                                          *)
LEMMA MonitorThreadSimulated ==
  ASSUME TypeOK, RouteOK, LinkedMonitorThread
  PROVE  [Exchange!Next]_(Exchange!vars)
<1> USE DEF elsewhere
<1>1. CASE LinkedLidarStart \/ StopForNobody \/ CallMotor \/ StartScanReturns
  <2>1. UNCHANGED <<waitVars, parserVars, routeVars, sendBuffer, received, outgoing, produced>>
    BY <1>1 DEF LinkedLidarStart, StopForNobody, CallMotor, StartScanReturns, LidarStart,
                MotorCall, EndExchange, portVars, deviceVars
  <2>2. UNCHANGED <<Slot, ToDevice, FromDevice>>
    BY <2>1, SameView
  <2> QED
    BY <2>1, <2>2 DEF Exchange!vars, Exchange!monitorVars, Exchange!lidarVars,
                      Exchange!linkVars, waitVars, parserVars
<1>2. CASE LinkedTimerExpired
  BY <1>2 DEF LinkedTimerExpired, Exchange!Next, Exchange!lidarVars, parserVars
<1>3. CASE LinkedGiveUp
  BY <1>3 DEF LinkedGiveUp, Exchange!Next, Exchange!MonitorThread, Exchange!lidarVars, parserVars
<1>4. CASE LinkedWait
  BY <1>4 DEF LinkedWait, Exchange!Next, Exchange!MonitorThread, Exchange!lidarVars, parserVars
<1>5. CASE LinkedReset
  <2>1. /\ mpc = "try" /\ tries > 0 /\ mpc' = "send"
        /\ UNCHANGED <<tries, exchanges, commands, timeouts, responseWaiters, responseQueue,
                       sendBuffer, received, outgoing, produced, meaning, answers, taken>>
        /\ UNCHANGED parserVars
    BY <1>5 DEF LinkedReset, portVars, deviceVars
  <2>2. /\ UNCHANGED <<Slot, ToDevice>>
        /\ \E n \in 0..Len(FromDevice) :
             FromDevice' = SubSeq(FromDevice, n + 1, Len(FromDevice))
    <3>1. CASE heard' = heard
      <4>1. UNCHANGED <<Slot, ToDevice, FromDevice>>
        BY <2>1, <3>1, SameView DEF routeVars
      <4>2. 0 \in 0..Len(FromDevice) /\ FromDevice = SubSeq(FromDevice, 0 + 1, Len(FromDevice))
        BY ViewType
      <4> QED
        BY <4>1, <4>2
    <3>2. CASE heard' # heard
      <4>1. PICK p \in (heard + 1)..produced : heard' = p
        BY <1>5, <3>2 DEF LinkedReset
      <4>2. /\ p - heard \in 1..Len(FromDevice)
            /\ FromDevice' = SubSeq(FromDevice, p - heard + 1, Len(FromDevice))
            /\ UNCHANGED <<Slot, ToDevice>>
        BY <2>1, <4>1, HeardView
      <4>3. p - heard \in 0..Len(FromDevice)
        BY <4>2, ViewType
      <4> QED
        BY <4>2, <4>3
    <3> QED
      BY <3>1, <3>2
  <2>3. Exchange!ResetParser
    BY <2>1, <2>2 DEF Exchange!ResetParser
  <2> QED
    BY <2>1, <2>3 DEF Exchange!Next, Exchange!MonitorThread, Exchange!lidarVars, parserVars
<1>6. CASE SendDeviceInfo
  <2>1. /\ mpc = "send" /\ mpc' = "enter" /\ commands' = commands + 1
        /\ UNCHANGED <<tries, exchanges, timeouts, responseWaiters, responseQueue>>
        /\ UNCHANGED parserVars
    BY <1>6 DEF SendDeviceInfo
  <2>2. Slot' = commands + 1 /\ UNCHANGED <<ToDevice, FromDevice>>
    <3>1. commands + 1 \in Int
      BY DEF RouteOK
    <3> QED
      BY <1>6, <3>1, SentView DEF SendDeviceInfo, Send, portVars, deviceVars
  <2>3. Exchange!SendCommand
    BY <2>1, <2>2 DEF Exchange!SendCommand, Exchange!linkVars
  <2> QED
    BY <2>1, <2>3 DEF Exchange!Next, Exchange!MonitorThread, Exchange!lidarVars, parserVars
<1>7. CASE LinkedSendStartScan
  <2>1. /\ mpc = "start" /\ mpc' = "idle"
        /\ UNCHANGED <<tries, exchanges, commands, timeouts, responseWaiters, responseQueue>>
        /\ UNCHANGED parserVars
    BY <1>7 DEF LinkedSendStartScan
  <2>2. Slot' = Exchange!StartScan /\ UNCHANGED <<ToDevice, FromDevice>>
    <3>1. Exchange!StartScan \in Int
      BY DEF Exchange!StartScan
    <3> QED
      BY <1>7, <3>1, SentView DEF LinkedSendStartScan, Send, portVars, deviceVars
  <2>3. Exchange!SendStartScan
    BY <2>1, <2>2 DEF Exchange!SendStartScan, Exchange!linkVars
  <2> QED
    BY <2>1, <2>3 DEF Exchange!Next, Exchange!MonitorThread, Exchange!lidarVars, parserVars
<1> QED
  BY <1>1, <1>2, <1>3, <1>4, <1>5, <1>6, <1>7 DEF LinkedMonitorThread

LEMMA LidarThreadSimulated ==
  ASSUME TypeOK, RouteOK, LinkedLidarThread
  PROVE  [Exchange!Next]_(Exchange!vars)
<1>1. CASE LinkedWake
  BY <1>1 DEF LinkedWake, Exchange!Next, Exchange!LidarThread
<1>2. CASE LinkedParse
  <2>1. PICK p \in (heard + 1)..produced :
          /\ heard' = p
          /\ IF responseWaiters > 0
             THEN lpc' = "append" /\ parsed' = answers[p]
             ELSE UNCHANGED parserVars
    BY <1>2 DEF LinkedParse
  <2>2. /\ lpc = "idle"
        /\ UNCHANGED <<waitVars, sendBuffer, received, outgoing, produced, meaning, answers,
                       taken>>
    BY <1>2 DEF LinkedParse, vars, portVars, deviceVars
  <2>3. /\ p - heard \in 1..Len(FromDevice) /\ FromDevice[p - heard] = answers[p]
        /\ FromDevice' = SubSeq(FromDevice, p - heard + 1, Len(FromDevice))
        /\ UNCHANGED <<Slot, ToDevice>>
    BY <2>1, <2>2, HeardView
  <2>4. Exchange!ParseResponse
    BY <2>1, <2>2, <2>3 DEF Exchange!ParseResponse, Exchange!monitorVars, waitVars, parserVars
  <2> QED
    BY <2>4 DEF Exchange!Next, Exchange!LidarThread
<1> QED
  BY <1>1, <1>2 DEF LinkedLidarThread

(* What the device does is the exchange's Answer, or nothing that it sees.     *)
LEMMA DeviceSimulated ==
  ASSUME TypeOK, RouteOK, LinkedDevice
  PROVE  [Exchange!Next]_(Exchange!vars)
<1>0. UNCHANGED <<Exchange!monitorVars, Exchange!lidarVars, responseQueue, sendBuffer>>
  BY DEF LinkedDevice, waitVars, parserVars, Exchange!monitorVars, Exchange!lidarVars
<1>1. CASE (Unplug \/ Plug) /\ UNCHANGED routeVars
  <2>1. UNCHANGED <<Slot, ToDevice, FromDevice>>
    BY <1>0, <1>1, SameView DEF Unplug, Plug, portVars
  <2> QED
    BY <1>0, <2>1 DEF Exchange!vars, Exchange!linkVars
<1>2. CASE TakeCommand
  <2> DEFINE command == meaning[received[taken + 1]]
             ahead == Len(Written) - taken
  <2>1. /\ taken < Len(received) /\ taken' = taken + 1
        /\ UNCHANGED <<received, outgoing, meaning, heard>>
        /\ \/ /\ command # Exchange!StartScan /\ produced' = produced + 1
              /\ answers' = Append(answers, command)
           \/ UNCHANGED <<produced, answers>>
    BY <1>2 DEF TakeCommand, Produce, portVars, deviceVars
  <2>2. Slot' = Slot /\ Written' = Written
    BY <1>0, <2>1 DEF Slot, Written
  <2>3. /\ taken \in Nat /\ ahead \in Nat /\ ahead >= 1 /\ Len(Written) - taken' = ahead - 1
        /\ ToDevice \in Seq(Int) /\ Len(ToDevice) = ahead
        /\ Written[taken + 1] = received[taken + 1]
        /\ heard \in Nat /\ produced \in Nat /\ produced - heard \in Nat
        /\ answers \in Seq(Int) /\ Len(answers) = produced
    <3>1. /\ taken \in Nat /\ received \in Seq(Nat) /\ outgoing \in Seq(Nat)
          /\ heard \in Nat /\ produced \in Nat /\ produced - heard \in Nat
          /\ answers \in Seq(Int) /\ Len(answers) = produced
      BY DEF RouteOK, TypeOK
    <3>2. /\ Len(received) <= Len(Written) /\ Written[taken + 1] = received[taken + 1]
          /\ Len(Written) \in Nat /\ Len(received) \in Nat
      BY <2>1, <3>1 DEF Written
    <3>3. /\ ahead \in Nat /\ ahead >= 1 /\ Len(Written) - taken' = ahead - 1
      BY <2>1, <3>1, <3>2
    <3>4. ToDevice \in Seq(Int) /\ Len(ToDevice) = ahead
      BY ViewType
    <3> QED
      BY <3>1, <3>2, <3>3, <3>4
  <2>4. /\ \A i \in 1..ahead : ToDevice[i] = meaning[Written[taken + i]] /\ ToDevice[i] \in Int
        /\ ToDevice' = [i \in 1..(ahead - 1) |-> meaning[Written[taken + 1 + i]]]
        /\ FromDevice' = [i \in 1..(produced' - heard) |-> answers'[heard + i]]
    BY <2>1, <2>2, <2>3, ViewType DEF ToDevice, FromDevice
  <2> HIDE DEF ahead
  <2>5. ToDevice # <<>> /\ Head(ToDevice) = command /\ command \in Int
    BY <2>3, <2>4
  <2>6. ToDevice' = Tail(ToDevice)
    <3>1. /\ Tail(ToDevice) \in Seq(Int) /\ Len(Tail(ToDevice)) = ahead - 1
          /\ \A i \in 1..(ahead - 1) : Tail(ToDevice)[i] = ToDevice[i + 1]
      BY <2>3, <2>5
    <3>2. \A i \in 1..(ahead - 1) : meaning[Written[taken + 1 + i]] = ToDevice[i + 1]
                                    /\ ToDevice[i + 1] \in Int
      <4> SUFFICES ASSUME NEW i \in 1..(ahead - 1)
                   PROVE  meaning[Written[taken + 1 + i]] = ToDevice[i + 1]
                          /\ ToDevice[i + 1] \in Int
        OBVIOUS
      <4>1. i + 1 \in 1..ahead /\ taken + (i + 1) = taken + 1 + i
        BY <2>3
      <4> QED
        BY <2>4, <4>1
    <3>3. /\ DOMAIN ToDevice' = 1..(ahead - 1)
          /\ \A i \in 1..(ahead - 1) : ToDevice'[i] = ToDevice[i + 1]
          /\ ToDevice' = [i \in DOMAIN ToDevice' |-> ToDevice'[i]]
      BY <2>4, <3>2, Zenon
    <3>4. ToDevice' \in Seq(Int) /\ Len(ToDevice') = ahead - 1
      <4>1. ahead - 1 \in Nat /\ \A i \in 1..(ahead - 1) : ToDevice'[i] \in Int
        <5>1. ahead - 1 \in Nat
          BY <2>3
        <5>2. \A i \in 1..(ahead - 1) : ToDevice'[i] \in Int
          BY <3>2, <3>3, Zenon
        <5> QED
          BY <5>1, <5>2
      <4> QED
        BY <3>3, <4>1, FunctionIsSequence, Zenon
    <3> QED
      BY <3>1, <3>3, <3>4, SameSequence
  <2>7. CASE UNCHANGED <<produced, answers>>
    <3>1. FromDevice' = FromDevice
      BY <2>1, <2>7 DEF FromDevice
    <3>2. Exchange!Answer
      BY <2>2, <2>5, <2>6, <3>1 DEF Exchange!Answer
    <3> QED
      BY <1>0, <3>2 DEF Exchange!Next, Exchange!Link
  <2>8. CASE /\ command # Exchange!StartScan /\ produced' = produced + 1
             /\ answers' = Append(answers, command)
    <3> DEFINE n == produced - heard
    <3>1. /\ n \in Nat /\ produced' - heard = n + 1 /\ heard + (n + 1) = produced + 1
          /\ \A i \in 1..n : heard + i \in 1..produced /\ i \in 1..(n + 1)
          /\ \A i \in 1..(n + 1) : i \in 1..n \/ i = n + 1
          /\ n + 1 \in 1..(n + 1)
      BY <2>3, <2>8
    <3>2. /\ FromDevice \in Seq(Int) /\ Len(FromDevice) = n
          /\ \A i \in 1..n : FromDevice[i] = answers[heard + i] /\ FromDevice[i] \in Int
      BY ViewType DEF FromDevice
    <3> HIDE DEF n, command
    <3>3. /\ \A i \in 1..n : answers'[heard + i] = FromDevice[i]
          /\ answers'[heard + (n + 1)] = command
      BY <2>3, <2>5, <2>8, <3>1, <3>2
    <3>4. FromDevice' = [i \in 1..(n + 1) |-> answers'[heard + i]]
      BY <2>4, <3>1
    <3>5. /\ DOMAIN FromDevice' = 1..(n + 1)
          /\ \A i \in 1..(n + 1) : FromDevice'[i] = answers'[heard + i]
          /\ FromDevice' = [i \in DOMAIN FromDevice' |-> FromDevice'[i]]
      BY <3>4, Zenon
    <3>6. \A i \in 1..n : FromDevice'[i] = FromDevice[i]
      BY <3>1, <3>3, <3>5
    <3>7. FromDevice'[n + 1] = command
      BY <3>1, <3>3, <3>5
    <3>8. FromDevice' \in Seq(Int) /\ Len(FromDevice') = n + 1
      <4>1. n + 1 \in Nat /\ \A i \in 1..(n + 1) : FromDevice'[i] \in Int
        BY <2>5, <3>1, <3>2, <3>6, <3>7
      <4> QED
        BY <3>5, <4>1, FunctionIsSequence, Zenon
    <3>9. FromDevice' = Append(FromDevice, command)
      BY <2>5, <3>1, <3>2, <3>6, <3>7, <3>8, SameSequence
    <3>10. Exchange!Answer
      BY <2>2, <2>5, <2>6, <2>8, <3>9 DEF Exchange!Answer
    <3> QED
      BY <1>0, <3>10 DEF Exchange!Next, Exchange!Link
  <2> QED
    BY <2>1, <2>7, <2>8
<1> QED
  BY <1>1, <1>2 DEF LinkedDevice

LEMMA LinkedSimulated ==
  TypeOK /\ RouteOK /\ [LinkedNext]_linkedVars => [Exchange!Next]_(Exchange!vars)
<1> SUFFICES ASSUME TypeOK, RouteOK, [LinkedNext]_linkedVars
             PROVE  [Exchange!Next]_(Exchange!vars)
  OBVIOUS
<1>1. ASSUME UNCHANGED <<waitVars, parserVars, routeVars, sendBuffer, received, outgoing,
                         produced>>
      PROVE  UNCHANGED Exchange!vars
  BY <1>1, SameView DEF Exchange!vars, Exchange!monitorVars, Exchange!lidarVars,
                        Exchange!linkVars, waitVars, parserVars
<1>2. CASE UNCHANGED linkedVars
  BY <1>1, <1>2 DEF linkedVars, vars, portVars, deviceVars
<1>3. CASE LinkedSerialThreads
  <2>1. CASE SerialThread
    BY <1>3, <2>1, SerialThreadSimulated DEF LinkedSerialThreads
  <2>2. CASE InterfaceThread
    BY <1>1, <1>3, <2>2 DEF LinkedSerialThreads, InterfaceThread, portVars, deviceVars
  <2> QED
    BY <1>3, <2>1, <2>2 DEF LinkedSerialThreads
<1> QED
  BY <1>2, <1>3, MonitorThreadSimulated, LidarThreadSimulated, DeviceSimulated DEF LinkedNext

(* Over the serial port as it is, getDeviceInfo is the exchange: every step of *)
(* the threads, the port and the device is one of DeviceInfoExchange or none,  *)
(* so its theorems hold of LinkedExchange (lidar.cpp:70-100,                   *)
(* blockingserialthread.cpp:23-80).                                            *)
THEOREM ImplementsExchangeSafely == LinkedSpec => ImplementsExchange
<1>1. LinkedInit => TypeOK /\ RouteOK /\ Exchange!Init
  <2> SUFFICES ASSUME LinkedInit PROVE TypeOK /\ RouteOK /\ Exchange!Init
    OBVIOUS
  <2>1. TypeOK
    BY InitIInv DEF LinkedInit, IInv
  <2>2. RouteOK
    BY DEF LinkedInit, Init, RouteOK, Written
  <2>3. Slot = NoCommand /\ ToDevice = <<>> /\ FromDevice = <<>>
    BY DEF LinkedInit, Init, Slot, ToDevice, FromDevice, Written
  <2> QED
    BY <2>1, <2>2, <2>3 DEF LinkedInit, Exchange!Init, Exchange!NoCommand, NoCommand
<1>2. TypeOK /\ [LinkedNext]_linkedVars => TypeOK'
  BY LinkedStep, NextTypeOK
<1>3. TypeOK /\ RouteOK /\ [LinkedNext]_linkedVars => RouteOK'
  BY NextRouteOK
<1> QED
  BY <1>1, <1>2, <1>3, LinkedSimulated, PTL
  DEF LinkedSpec, ImplementsExchange, Exchange!Safety
====
