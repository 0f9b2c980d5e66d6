---- MODULE MonitorThreadProofs ----
(***************************************************************************)
(* Proofs about the Monitor thread: about MonitorServer, for every finite  *)
(* number of clients and any number of maps, and about what surrounds it   *)
(* from main to the end of the process, Daemon, for all options and        *)
(* numbers of signals.                                                     *)
(***************************************************************************)
EXTENDS MonitorServer, Daemon, FiniteSetTheorems, TLAPS

(* The events of a kind that are behind place i of a queue.                *)
After(s, i, kind) == {j \in 1..Len(s) : j > i /\ s[j].kind = kind}
Behind(s, i, kind) == Cardinality(After(s, i, kind))

LEMMA AfterFinite ==
  ASSUME NEW s \in Seq(Events), NEW i \in Nat, NEW kind
  PROVE  IsFiniteSet(After(s, i, kind)) /\ Behind(s, i, kind) \in Nat
<1>1. IsFiniteSet(1..Len(s)) /\ After(s, i, kind) \in SUBSET (1..Len(s))
  BY FS_Interval DEF After
<1> QED
  BY <1>1, FS_Subset, FS_CardinalityType DEF Behind

(* Posting an event.                                                       *)
LEMMA BehindAppend ==
  ASSUME NEW s \in Seq(Events), NEW e \in Events, NEW kind,
         NEW i \in Nat, i <= Len(s)
  PROVE  Behind(Append(s, e), i, kind) = Behind(s, i, kind) + (IF e.kind = kind THEN 1 ELSE 0)
<1> DEFINE new == Len(s) + 1
<1>1. new \notin After(s, i, kind)
  BY DEF After
<1>2. CASE e.kind = kind
  <2>1. After(Append(s, e), i, kind) = After(s, i, kind) \cup {new}
    BY <1>2 DEF After
  <2> QED
    BY <1>1, <1>2, <2>1, AfterFinite, FS_AddElement DEF Behind
<1>3. CASE e.kind # kind
  <2>1. After(Append(s, e), i, kind) = After(s, i, kind)
    BY <1>3 DEF After
  <2> QED
    BY <1>3, <2>1, AfterFinite DEF Behind
<1> QED
  BY <1>2, <1>3

(* Taking the first event of the queue: the others move up.                *)
LEMMA BehindTail ==
  ASSUME NEW s \in Seq(Events), s # <<>>, NEW kind, NEW i \in Nat
  PROVE  Behind(Tail(s), i, kind) = Behind(s, i + 1, kind)
<1> DEFINE rest == After(s, i + 1, kind)
           moved == After(Tail(s), i, kind)
           f == [j \in rest |-> j - 1]
<1>0. /\ Tail(s) \in Seq(Events) /\ Len(Tail(s)) = Len(s) - 1
      /\ \A j \in 1..(Len(s) - 1) : Tail(s)[j] = s[j + 1]
      /\ Len(s) \in Nat \ {0}
  OBVIOUS
<1>1. f \in [rest -> moved]
  BY <1>0 DEF After
<1>2. \A a, b \in rest : f[a] = f[b] => a = b
  BY <1>0 DEF After
<1>3. \A t \in moved : t + 1 \in rest /\ f[t + 1] = t
  BY <1>0 DEF After
<1>4. f \in Bijection(rest, moved)
  <2> HIDE DEF f, rest, moved
  <2> QED
    BY <1>1, <1>2, <1>3 DEF Bijection, Injection, Surjection, IsInjective
<1>5. IsFiniteSet(rest)
  BY AfterFinite
<1>6. ExistsBijection(rest, moved)
  BY <1>4 DEF ExistsBijection
<1>7. Cardinality(moved) = Cardinality(rest)
  <2> HIDE DEF f, rest, moved
  <2> QED
    BY <1>5, <1>6, FS_Bijection
<1> QED
  BY <1>7 DEF Behind

(* ... and there is one less of its kind.                                  *)
LEMMA BehindFirst ==
  ASSUME NEW s \in Seq(Events), s # <<>>, NEW kind
  PROVE  Behind(s, 0, kind) = Behind(s, 1, kind) + (IF Head(s).kind = kind THEN 1 ELSE 0)
<1>0. Len(s) \in Nat \ {0} /\ Head(s) = s[1]
  OBVIOUS
<1>1. 1 \notin After(s, 1, kind)
  BY DEF After
<1>2. CASE Head(s).kind = kind
  <2>1. After(s, 0, kind) = After(s, 1, kind) \cup {1}
    BY <1>0, <1>2 DEF After
  <2> QED
    BY <1>1, <1>2, <2>1, AfterFinite, FS_AddElement DEF Behind
<1>3. CASE Head(s).kind # kind
  <2>1. After(s, 0, kind) = After(s, 1, kind)
    BY <1>0, <1>3 DEF After
  <2> QED
    BY <1>3, <2>1, AfterFinite DEF Behind
<1> QED
  BY <1>2, <1>3

LEMMA PendingBehind ==
  ASSUME TypeOK, NEW kind
  PROVE  Pending(kind) = After(posted, 0, kind)
BY DEF TypeOK, Pending, After

------------------------------------------------------------------------------
(* Every step keeps the types.                                             *)
LEMMA EventTypes ==
  /\ \A c \in Clients :
       \A kind \in {"started", "finished", "closed", "deleteLater", "delete"} :
         Event(kind, c) \in Events
  /\ \A n \in Nat : Event("map", n) \in Events
  /\ \A e \in Events : IF e.kind = "map" THEN e.what \in Nat ELSE e.what \in Clients
  /\ \A e \in Events : e = Event(e.kind, e.what)
BY DEF Event, Events

LEMMA PostedType ==
  ASSUME NEW s \in Seq(Events), NEW e \in Events
  PROVE  Append(s, e) \in Seq(Events)
OBVIOUS

LEMMA QueueType ==
  ASSUME NEW s \in Seq(Events), s # <<>>
  PROVE  /\ Head(s) \in Events /\ Tail(s) \in Seq(Events) /\ Head(s) = s[1]
         /\ Len(s) \in Nat \ {0} /\ Len(Tail(s)) = Len(s) - 1
         /\ \A j \in 1..(Len(s) - 1) : Tail(s)[j] = s[j + 1]
OBVIOUS

LEMMA InitTypeOK == Init => TypeOK
<1> SUFFICES ASSUME Init PROVE TypeOK
  OBVIOUS
<1>1. posted \in Seq(Events) /\ received \in [Clients -> Seq(Nat)]
  BY DEF Init
<1>2. published \in 0..MaxMaps /\ clientCount \in Int
  BY BoundAssumption DEF Init
<1>3. /\ thread \in [Clients -> {"none", "starting", "running", "ended", "deleted"}]
      /\ socket \in [Clients -> {"none", "refused", "open", "lost", "closed"}]
  BY DEF Init
<1>4. /\ mpc \in {"idle", "exchange"} /\ quitting \subseteq Clients
      /\ motor \in BOOLEAN /\ deviceOpen \in BOOLEAN /\ overdue \in BOOLEAN
  BY Zenon DEF Init
<1> QED
  BY <1>1, <1>2, <1>3, <1>4, Zenon DEF TypeOK

LEMMA ClientTypeOK ==
  ASSUME TypeOK, NEW c \in Clients,
         \/ IncomingConnection(c) \/ NoticeDisconnect(c) \/ PeerLeaves(c)
         \/ ThreadStarts(c) \/ ThreadEnds(c)
  PROVE  TypeOK'
<1> USE DEF TypeOK
<1>1. CASE IncomingConnection(c)
  <2>1. thread' = [thread EXCEPT ![c] = "starting"]
    BY <1>1 DEF IncomingConnection
  <2>2. PICK outcome \in {"open", "refused"} : socket' = [socket EXCEPT ![c] = outcome]
    BY <1>1 DEF IncomingConnection
  <2>3. UNCHANGED <<mpc, posted, clientCount, quitting, received, deviceVars>>
    BY <1>1 DEF IncomingConnection
  <2> QED
    BY <2>1, <2>2, <2>3 DEF deviceVars
<1>2. CASE NoticeDisconnect(c)
  <2>1. posted' \in Seq(Events)
    BY <1>2, EventTypes, PostedType DEF NoticeDisconnect, Post
  <2> QED
    BY <1>2, <2>1 DEF NoticeDisconnect, deviceVars
<1>3. CASE PeerLeaves(c)
  BY <1>3 DEF PeerLeaves, deviceVars
<1>4. CASE ThreadStarts(c)
  <2>1. posted' \in Seq(Events)
    BY <1>4, EventTypes, PostedType DEF ThreadStarts, Post
  <2> QED
    BY <1>4, <2>1 DEF ThreadStarts, deviceVars
<1>5. CASE ThreadEnds(c)
  <2>1. posted' = Append(Append(posted, Event("deleteLater", c)), Event("finished", c))
    BY <1>5 DEF ThreadEnds
  <2>2. posted' \in Seq(Events)
    BY <2>1, EventTypes, PostedType
  <2> QED
    BY <1>5, <2>2 DEF ThreadEnds, deviceVars
<1> QED
  BY <1>1, <1>2, <1>3, <1>4, <1>5

LEMMA PostedTypeOK ==
  ASSUME TypeOK, HandlePosted
  PROVE  TypeOK'
<1> DEFINE e == Head(posted)
<1>1. e \in Events /\ Tail(posted) \in Seq(Events) /\ UNCHANGED <<mpc, deviceVars>>
  BY QueueType DEF TypeOK, HandlePosted
<1>2. posted' \in Seq(Events)
  BY <1>1, EventTypes, PostedType DEF HandlePosted
<1>3. IF e.kind = "map" THEN e.what \in Nat ELSE e.what \in Clients
  BY <1>1, EventTypes
<1> HIDE DEF e
<1>4. CASE HandleClientStarted(e) \/ HandleClientFinished(e)
  BY <1>1, <1>2, <1>4
  DEF HandleClientStarted, HandleClientFinished, TypeOK, clientVars, deviceVars
<1>5. CASE HandleSocketClosed(e)
  BY <1>1, <1>2, <1>3, <1>5 DEF HandleSocketClosed, TypeOK, deviceVars
<1>6. CASE HandleScanReady(e)
  <2>1. received' = [c \in Clients |-> IF socket[c] \in {"open", "lost"}
                                       THEN Append(received[c], e.what) ELSE received[c]]
    BY <1>6 DEF HandleScanReady
  <2>2. received' \in [Clients -> Seq(Nat)]
    BY <1>3, <1>6, <2>1 DEF TypeOK, HandleScanReady
  <2> QED
    BY <1>1, <1>2, <1>6, <2>2 DEF HandleScanReady, TypeOK, deviceVars
<1>7. CASE Delete(e)
  BY <1>1, <1>2, <1>3, <1>7 DEF Delete, TypeOK, deviceVars
<1>8. CASE UNCHANGED <<clientCount, clientVars>>
  BY <1>1, <1>2, <1>8 DEF TypeOK, clientVars, deviceVars
<1> QED
  BY <1>4, <1>5, <1>6, <1>7, <1>8 DEF HandlePosted, e

LEMMA NextTypeOK == TypeOK /\ [Next]_vars => TypeOK'
<1> SUFFICES ASSUME TypeOK, [Next]_vars PROVE TypeOK'
  OBVIOUS
<1>1. CASE BeginExchange \/ StopMotor \/ GetDeviceInfo
  BY <1>1 DEF BeginExchange, StopMotor, GetDeviceInfo, NoAnswer, DeviceAnswers, TypeOK,
              clientVars, deviceVars
<1>2. CASE EmitScanComplete
  <2>1. published' \in 0..MaxMaps /\ published + 1 \in Nat
    BY <1>2, BoundAssumption DEF EmitScanComplete, TypeOK
  <2>2. posted' \in Seq(Events)
    BY <1>2, <2>1, EventTypes, PostedType DEF EmitScanComplete, Post, TypeOK
  <2> QED
    BY <1>2, <2>1, <2>2 DEF EmitScanComplete, TypeOK, clientVars
<1>3. CASE Device
  BY <1>3 DEF Device, TenSecondsPass, DeviceOpens, DeviceCloses, TypeOK, clientVars
<1>4. CASE UNCHANGED vars
  BY <1>4 DEF vars, clientVars, deviceVars, TypeOK
<1> QED
  BY <1>1, <1>2, <1>3, <1>4, ClientTypeOK, PostedTypeOK DEF Next

LEMMA AlwaysTypeOK == Spec => []TypeOK
BY InitTypeOK, NextTypeOK, PTL DEF Spec

(* Every variable keeps its type: only clients' events and maps are posted, and  *)
(* the sockets and threads stay in their states.                                 *)
THEOREM TypeCorrect == Spec => []TypeOK
BY AlwaysTypeOK

------------------------------------------------------------------------------
(* What the steps do to the queue, for the invariants about its events.    *)
Queued == {posted[i] : i \in 1..Len(posted)}

LEMMA QueuedAppend ==
  ASSUME TypeOK, NEW e \in Events, posted' = Append(posted, e)
  PROVE  Queued' = Queued \cup {e}
<1>1. Len(posted') = Len(posted) + 1 /\ Len(posted) \in Nat
  BY DEF TypeOK
<1>2. \A i \in 1..Len(posted) : posted'[i] = posted[i]
  BY DEF TypeOK
<1>3. posted'[Len(posted) + 1] = e
  BY DEF TypeOK
<1>4. 1..Len(posted') = (1..Len(posted)) \cup {Len(posted) + 1}
  BY <1>1
<1> QED
  BY <1>2, <1>3, <1>4, Zenon DEF Queued

LEMMA QueuedTail ==
  ASSUME TypeOK, posted # <<>>
  PROVE  /\ Head(posted) \in Queued
         /\ \A i \in 1..Len(Tail(posted)) : Tail(posted)[i] \in Queued
<1>1. Len(posted) \in Nat \ {0} /\ Len(Tail(posted)) = Len(posted) - 1
      /\ Head(posted) = posted[1]
      /\ \A j \in 1..(Len(posted) - 1) : Tail(posted)[j] = posted[j + 1]
  BY QueueType DEF TypeOK
<1>2. \A i \in 1..Len(Tail(posted)) :
        i + 1 \in 1..Len(posted) /\ Tail(posted)[i] = posted[i + 1]
  BY <1>1
<1>3. 1 \in 1..Len(posted)
  BY <1>1
<1> QED
  BY <1>1, <1>2, <1>3, Zenon DEF Queued

Leaving == {"deleteLater", "delete", "finished"}
Over == {"ended", "deleted"}

(* Whoever is to be deleted, or counted as finished, has ended.            *)
Ends == \A e \in Queued : e.kind \in Leaving => thread[e.what] \in Over

LEMMA EndsKept ==
  ASSUME TypeOK, Ends,
         \A c \in Clients : thread[c] \in Over => thread'[c] \in Over,
         \A e \in Queued' \ Queued : e.kind \in Leaving => thread'[e.what] \in Over
  PROVE  Ends'
<1>1. \A e \in Queued : e \in Events
  BY DEF Queued, TypeOK
<1>2. \A e \in Queued : e.kind \in Leaving => e.what \in Clients
  BY <1>1, EventTypes, Zenon DEF Leaving
<1> QED
  BY <1>2 DEF Ends

LEMMA HandlePostedQueue ==
  ASSUME TypeOK, HandlePosted
  PROVE  /\ Head(posted) \in Queued /\ Head(posted) \in Events
         /\ \A e \in Queued' \ Queued : /\ e.kind = "delete" /\ e.what = Head(posted).what
                                        /\ Head(posted).kind = "deleteLater"
<1>1. posted # <<>>
  BY DEF HandlePosted
<1>2. /\ Tail(posted) \in Seq(Events) /\ Head(posted) \in Queued /\ Head(posted) \in Events
      /\ \A i \in 1..Len(Tail(posted)) : Tail(posted)[i] \in Queued
  BY <1>1, QueueType, QueuedTail DEF TypeOK
<1>3. CASE posted' = Tail(posted)
  BY <1>2, <1>3 DEF Queued
<1>4. CASE /\ Head(posted).kind = "deleteLater"
           /\ posted' = Append(Tail(posted), Event("delete", Head(posted).what))
  <2> DEFINE d == Event("delete", Head(posted).what)
             t == Tail(posted)
  <2>1. d \in Events /\ d.kind = "delete" /\ d.what = Head(posted).what
    BY <1>2, <1>4, EventTypes DEF Event
  <2>2. \A i \in 1..Len(Append(t, d)) : Append(t, d)[i] = d \/ Append(t, d)[i] \in Queued
    <3> HIDE DEF d
    <3> QED
      BY <1>2, <2>1
  <2>3. \A e \in Queued' : e = d \/ e \in Queued
    <3> HIDE DEF d
    <3> SUFFICES ASSUME NEW e \in Queued' PROVE e = d \/ e \in Queued
      OBVIOUS
    <3>1. PICK i \in 1..Len(posted') : e = posted'[i]
      BY DEF Queued
    <3> QED
      BY <1>4, <2>2, <3>1, Zenon DEF d
  <2> QED
    BY <1>2, <1>4, <2>1, <2>3, Zenon
<1> QED
  BY <1>3, <1>4, Zenon DEF HandlePosted

LEMMA NextEnds == TypeOK /\ Ends /\ [Next]_vars => Ends'
<1> SUFFICES ASSUME TypeOK, Ends, [Next]_vars PROVE Ends'
  OBVIOUS
<1>1. ASSUME NEW c \in Clients, IncomingConnection(c) PROVE Ends'
  <2>1. UNCHANGED posted /\ thread[c] = "none"
        /\ thread' = [thread EXCEPT ![c] = "starting"]
    BY <1>1 DEF IncomingConnection
  <2>2. Queued' = Queued
    BY <2>1 DEF Queued
  <2> QED
    BY <2>1, <2>2, EndsKept DEF TypeOK, Over
<1>2. ASSUME NEW c \in Clients, NoticeDisconnect(c) PROVE Ends'
  <2>1. UNCHANGED thread /\ posted' = Append(posted, Event("closed", c))
    BY <1>2 DEF NoticeDisconnect, Post
  <2>2. Queued' = Queued \cup {Event("closed", c)}
    BY <2>1, EventTypes, QueuedAppend, Zenon
  <2> QED
    BY <2>1, <2>2, EndsKept DEF Event, Leaving
<1>3. ASSUME NEW c \in Clients, ThreadStarts(c) PROVE Ends'
  <2>1. posted' = Append(posted, Event("started", c)) /\ thread[c] = "starting"
        /\ thread' = [thread EXCEPT ![c] = "running"]
    BY <1>3 DEF ThreadStarts, Post
  <2>2. Queued' = Queued \cup {Event("started", c)}
    BY <2>1, EventTypes, QueuedAppend, Zenon
  <2>3. \A b \in Clients : thread[b] \in Over => thread'[b] \in Over
    BY <2>1 DEF TypeOK, Over
  <2> QED
    BY <2>2, <2>3, EndsKept DEF Event, Leaving
<1>4. ASSUME NEW c \in Clients, ThreadEnds(c) PROVE Ends'
  <2>1. posted' = Append(Append(posted, Event("deleteLater", c)), Event("finished", c))
        /\ thread' = [thread EXCEPT ![c] = "ended"]
    BY <1>4 DEF ThreadEnds
  <2>2. \A e \in Queued' : e \in Queued \/ e.what = c
    <3> DEFINE a == Event("deleteLater", c)
               b == Event("finished", c)
    <3>1. a \in Events /\ b \in Events /\ a.what = c /\ b.what = c
      BY EventTypes DEF Event
    <3>2. posted' = Append(Append(posted, a), b)
      BY <2>1
    <3> HIDE DEF a, b
    <3>3. \A i \in 1..Len(posted') :
            posted'[i] \in {a, b} \/ (i \in 1..Len(posted) /\ posted'[i] = posted[i])
      BY <3>1, <3>2 DEF TypeOK
    <3>4. SUFFICES ASSUME NEW e \in Queued' PROVE e \in Queued \/ e.what = c
      OBVIOUS
    <3>5. PICK i \in 1..Len(posted') : e = posted'[i]
      BY DEF Queued
    <3> QED
      BY <3>1, <3>3, <3>5, Zenon DEF Queued
  <2>3. thread'[c] = "ended" /\ \A b \in Clients : thread[b] \in Over => thread'[b] \in Over
    BY <2>1 DEF TypeOK, Over
  <2>4. \A e \in Queued' \ Queued : e.kind \in Leaving => thread'[e.what] \in Over
    BY <2>2, <2>3 DEF Over
  <2> QED
    BY <2>3, <2>4, EndsKept
<1>5. CASE HandlePosted
  <2>1. \A e \in Queued' \ Queued : /\ e.kind = "delete" /\ e.what = Head(posted).what
                                    /\ Head(posted).kind = "deleteLater"
    BY <1>5, HandlePostedQueue
  <2>2. Head(posted).kind \in Leaving => Head(posted).what \in Clients
                                        /\ thread[Head(posted).what] \in Over
    BY <1>5, HandlePostedQueue, EventTypes, Zenon DEF Ends, Leaving
  <2>3. \/ UNCHANGED thread
        \/ thread' = [thread EXCEPT ![Head(posted).what] = "deleted"]
    BY <1>5 DEF HandlePosted, HandleClientStarted, HandleClientFinished, HandleSocketClosed,
                HandleScanReady, Delete, clientVars
  <2>4. \A c \in Clients : thread[c] \in Over => thread'[c] \in Over
    BY <2>3 DEF TypeOK, Over
  <2>5. \A e \in Queued' \ Queued : e.kind \in Leaving => thread'[e.what] \in Over
    BY <2>1, <2>2, <2>4 DEF Leaving
  <2> QED
    BY <2>4, <2>5, EndsKept
<1>6. CASE EmitScanComplete
  <2>1. UNCHANGED thread /\ posted' = Append(posted, Event("map", published + 1))
    BY <1>6 DEF EmitScanComplete, Post, clientVars
  <2>2. Event("map", published + 1) \in Events
    BY EventTypes, BoundAssumption DEF TypeOK
  <2>3. Queued' = Queued \cup {Event("map", published + 1)}
    BY <2>1, <2>2, QueuedAppend, Zenon
  <2> QED
    BY <2>1, <2>3, EndsKept DEF Event, Leaving
<1>7. CASE UNCHANGED <<posted, thread>>
  BY <1>7 DEF Ends, Queued
<1> QED
  BY <1>1, <1>2, <1>3, <1>4, <1>5, <1>6, <1>7
  DEF Next, PeerLeaves, BeginExchange, StopMotor, GetDeviceInfo, NoAnswer, DeviceAnswers,
      Device, vars, clientVars

LEMMA AlwaysEnds == Spec => [](TypeOK /\ Ends)
<1>1. Init => Ends
  BY DEF Init, Ends, Queued
<1> QED
  BY <1>1, InitTypeOK, NextTypeOK, NextEnds, PTL DEF Spec

(* A ClientThread object is deleted only after its thread has ended, for   *)
(* any number of clients that come and go in any order (lidarserver.cpp:18). *)
THEOREM NeverDeletedRunning == Spec => DeletedAfterEnd
<1>1. TypeOK /\ Ends /\ [Next]_vars =>
        [\A c \in Clients : thread[c] # "deleted" /\ thread'[c] = "deleted" =>
           thread[c] = "ended"]_vars
  <2> SUFFICES ASSUME TypeOK, Ends, Next, NEW c \in Clients,
                      thread[c] # "deleted", thread'[c] = "deleted"
               PROVE  thread[c] = "ended"
    BY Zenon
  <2>1. CASE HandlePosted
    <3>1. \/ UNCHANGED thread
          \/ Head(posted).kind = "delete"
             /\ thread' = [thread EXCEPT ![Head(posted).what] = "deleted"]
      BY <2>1 DEF HandlePosted, HandleClientStarted, HandleClientFinished, HandleSocketClosed,
                  HandleScanReady, Delete, clientVars
    <3>2. c = Head(posted).what /\ Head(posted).kind = "delete"
      BY <3>1 DEF TypeOK
    <3>3. thread[c] \in Over
      BY <2>1, <3>2, HandlePostedQueue, Zenon DEF Ends, Leaving
    <3> QED
      BY <3>3 DEF Over
  <2>2. CASE \E b \in Clients : IncomingConnection(b) \/ ThreadStarts(b) \/ ThreadEnds(b)
    BY <2>2 DEF IncomingConnection, ThreadStarts, ThreadEnds, TypeOK
  <2>3. CASE UNCHANGED thread
    BY <2>3
  <2> QED
    BY <2>1, <2>2, <2>3
    DEF Next, NoticeDisconnect, PeerLeaves, BeginExchange, StopMotor, GetDeviceInfo, NoAnswer,
        DeviceAnswers, EmitScanComplete, Device, clientVars
<1> QED
  BY <1>1, AlwaysEnds, PTL DEF Spec, DeletedAfterEnd

------------------------------------------------------------------------------
(* A client announced as started, with threads in the states th, runs or has    *)
(* its end announced after that; each is announced once.                        *)
Begun(s, th) ==
  \A i \in 1..Len(s) : s[i].kind = "started" =>
    /\ th[s[i].what] \in {"running"} \cup Over
    /\ \/ th[s[i].what] = "running"
       \/ \E j \in 1..Len(s) : j > i /\ s[j].kind = "finished" /\ s[j].what = s[i].what
    /\ \A j \in 1..Len(s) : s[j].kind = "started" /\ s[j].what = s[i].what => j = i

LEMMA BegunAppend ==
  ASSUME NEW s \in Seq(Events), NEW th, Begun(s, th), NEW e \in Events,
         e.kind = "started" =>
           /\ th[e.what] = "running"
           /\ \A i \in 1..Len(s) : s[i].kind = "started" => s[i].what # e.what
  PROVE  Begun(Append(s, e), th)
<1> DEFINE t == Append(s, e)
           n == Len(s) + 1
<1>1. Len(s) \in Nat /\ Len(t) = n /\ t[n] = e /\ \A i \in 1..Len(s) : t[i] = s[i]
  OBVIOUS
<1> HIDE DEF t
<1>2. ASSUME NEW i \in 1..Len(t), t[i].kind = "started"
      PROVE  /\ th[t[i].what] \in {"running"} \cup Over
             /\ \/ th[t[i].what] = "running"
                \/ \E j \in 1..Len(t) : j > i /\ t[j].kind = "finished" /\ t[j].what = t[i].what
             /\ \A j \in 1..Len(t) : t[j].kind = "started" /\ t[j].what = t[i].what => j = i
  <2>1. CASE i = n
    BY <1>1, <1>2, <2>1
  <2>2. CASE i # n
    <3>1. i \in 1..Len(s) /\ t[i] = s[i]
      BY <1>1, <2>2
    <3>2. /\ th[s[i].what] \in {"running"} \cup Over
          /\ \/ th[s[i].what] = "running"
             \/ \E j \in 1..Len(s) : j > i /\ s[j].kind = "finished" /\ s[j].what = s[i].what
          /\ \A j \in 1..Len(s) : s[j].kind = "started" /\ s[j].what = s[i].what => j = i
      BY <1>2, <3>1, Zenon DEF Begun
    <3>3. \A j \in 1..Len(t) : t[j].kind = "started" /\ t[j].what = t[i].what => j = i
      BY <1>1, <1>2, <3>1, <3>2
    <3>4. \A j \in 1..Len(s) : j \in 1..Len(t)
      BY <1>1
    <3> QED
      BY <1>1, <3>1, <3>2, <3>3, <3>4, Zenon
  <2> QED
    BY <2>1, <2>2
<1> QED
  BY <1>2, Zenon DEF Begun, t

LEMMA BegunTail ==
  ASSUME NEW s \in Seq(Events), s # <<>>, NEW th, Begun(s, th)
  PROVE  Begun(Tail(s), th)
<1> DEFINE t == Tail(s)
<1>1. /\ Len(s) \in Nat \ {0} /\ Len(t) = Len(s) - 1
      /\ \A i \in 1..Len(t) : i + 1 \in 1..Len(s) /\ t[i] = s[i + 1]
  OBVIOUS
<1> HIDE DEF t
<1>2. ASSUME NEW i \in 1..Len(t), t[i].kind = "started"
      PROVE  /\ th[t[i].what] \in {"running"} \cup Over
             /\ \/ th[t[i].what] = "running"
                \/ \E j \in 1..Len(t) : j > i /\ t[j].kind = "finished" /\ t[j].what = t[i].what
             /\ \A j \in 1..Len(t) : t[j].kind = "started" /\ t[j].what = t[i].what => j = i
  <2>1. i + 1 \in 1..Len(s) /\ t[i] = s[i + 1]
    BY <1>1
  <2>2. /\ th[t[i].what] \in {"running"} \cup Over
        /\ \/ th[t[i].what] = "running"
           \/ \E j \in 1..Len(s) : j > i + 1 /\ s[j].kind = "finished" /\ s[j].what = t[i].what
        /\ \A j \in 1..Len(s) : s[j].kind = "started" /\ s[j].what = t[i].what => j = i + 1
    BY <1>2, <2>1, Zenon DEF Begun
  <2>3. ASSUME NEW j \in 1..Len(s), j > i + 1, s[j].kind = "finished", s[j].what = t[i].what
        PROVE  j - 1 \in 1..Len(t) /\ j - 1 > i /\ t[j - 1] = s[j]
    BY <1>1, <2>3
  <2>4. \A j \in 1..Len(t) : t[j].kind = "started" /\ t[j].what = t[i].what => j = i
    <3> SUFFICES ASSUME NEW j \in 1..Len(t), t[j].kind = "started", t[j].what = t[i].what
                 PROVE  j = i
      OBVIOUS
    <3>1. j + 1 \in 1..Len(s) /\ t[j] = s[j + 1]
      BY <1>1
    <3>2. j + 1 = i + 1
      BY <2>2, <3>1, Zenon
    <3> QED
      BY <3>2
  <2> QED
    BY <2>2, <2>3, <2>4, Zenon
<1> QED
  BY <1>2, Zenon DEF Begun, t

(* A thread changes of which no start is announced, or which had ended.         *)
LEMMA BegunThread ==
  ASSUME NEW s \in Seq(Events), NEW th, NEW new, Begun(s, th),
         \A c \in Clients : \/ new[c] = th[c]
                            \/ th[c] \in Over /\ new[c] \in Over
                            \/ th[c] \in {"none", "starting"}
  PROVE  Begun(s, new)
<1> SUFFICES ASSUME NEW i \in 1..Len(s), s[i].kind = "started"
             PROVE  /\ new[s[i].what] \in {"running"} \cup Over
                    /\ \/ new[s[i].what] = "running"
                       \/ \E j \in 1..Len(s) :
                            j > i /\ s[j].kind = "finished" /\ s[j].what = s[i].what
                    /\ \A j \in 1..Len(s) :
                         s[j].kind = "started" /\ s[j].what = s[i].what => j = i
  BY Zenon DEF Begun
<1> DEFINE c == s[i].what
           ends == \E j \in 1..Len(s) : j > i /\ s[j].kind = "finished" /\ s[j].what = c
<1>1. s[i] \in Events
  OBVIOUS
<1>2. c \in Clients
  BY <1>1, EventTypes
<1>3. /\ th[c] \in {"running"} \cup Over
      /\ th[c] = "running" \/ ends
      /\ \A j \in 1..Len(s) : s[j].kind = "started" /\ s[j].what = c => j = i
  BY Zenon DEF Begun
<1> HIDE DEF c, ends
<1>4. new[c] \in {"running"} \cup Over /\ (new[c] = "running" \/ ends)
  BY <1>2, <1>3 DEF Over
<1> QED
  BY <1>3, <1>4, Zenon DEF c, ends

(* The thread of a client ends, which is announced.                             *)
LEMMA BegunFinish ==
  ASSUME NEW s \in Seq(Events), NEW th, NEW new, NEW c \in Clients, Begun(s, th),
         new[c] \in Over, \A b \in Clients \ {c} : new[b] = th[b]
  PROVE  Begun(Append(s, Event("finished", c)), new)
<1> DEFINE e == Event("finished", c)
           t == Append(s, e)
           n == Len(s) + 1
<1>1. e \in Events /\ e.kind = "finished" /\ e.what = c
  BY EventTypes DEF Event
<1> HIDE DEF e
<1>2. Len(s) \in Nat /\ Len(t) = n /\ t[n] = e /\ \A i \in 1..Len(s) : t[i] = s[i]
  BY <1>1
<1> HIDE DEF t
<1>3. ASSUME NEW i \in 1..Len(t), t[i].kind = "started"
      PROVE  /\ new[t[i].what] \in {"running"} \cup Over
             /\ \/ new[t[i].what] = "running"
                \/ \E j \in 1..Len(t) : j > i /\ t[j].kind = "finished" /\ t[j].what = t[i].what
             /\ \A j \in 1..Len(t) : t[j].kind = "started" /\ t[j].what = t[i].what => j = i
  <2>1. i \in 1..Len(s) /\ t[i] = s[i] /\ n \in 1..Len(t) /\ n > i
    BY <1>1, <1>2, <1>3
  <2>2. s[i] \in Events /\ s[i].what \in Clients
    BY <1>3, <2>1, EventTypes
  <2>3. /\ th[s[i].what] \in {"running"} \cup Over
        /\ \/ th[s[i].what] = "running"
           \/ \E j \in 1..Len(s) : j > i /\ s[j].kind = "finished" /\ s[j].what = s[i].what
        /\ \A j \in 1..Len(s) : s[j].kind = "started" /\ s[j].what = s[i].what => j = i
    BY <1>3, <2>1, Zenon DEF Begun
  <2>4. \A j \in 1..Len(t) : t[j].kind = "started" /\ t[j].what = t[i].what => j = i
    BY <1>1, <1>2, <1>3, <2>1, <2>3
  <2>5. \A j \in 1..Len(s) : j \in 1..Len(t)
    BY <1>2
  <2>6. CASE s[i].what = c
    BY <1>1, <1>2, <2>1, <2>4, <2>6, Zenon
  <2>7. CASE s[i].what # c
    <3>1. new[s[i].what] = th[s[i].what]
      BY <2>2, <2>7
    <3>2. \/ new[t[i].what] = "running"
          \/ \E j \in 1..Len(t) : j > i /\ t[j].kind = "finished" /\ t[j].what = t[i].what
      BY <1>2, <2>1, <2>3, <2>5, <3>1, Zenon
    <3> QED
      BY <2>1, <2>3, <2>4, <3>1, <3>2, Zenon
  <2> QED
    BY <2>6, <2>7
<1> QED
  BY <1>3, Zenon DEF Begun, t, e

Begins == Begun(posted, thread)

(* What handling the first event does to the threads.                           *)
LEMMA HandlePostedThread ==
  ASSUME TypeOK, Ends, HandlePosted
  PROVE  /\ \A c \in Clients : \/ thread'[c] = thread[c]
                               \/ thread[c] \in Over /\ thread'[c] \in Over
         /\ Head(posted).kind # "delete" => thread' = thread
<1> DEFINE e == Head(posted)
<1>1. e \in Queued /\ e \in Events
  BY HandlePostedQueue
<1>2. UNCHANGED thread \/ (e.kind = "delete" /\ thread' = [thread EXCEPT ![e.what] = "deleted"])
  BY DEF HandlePosted, HandleClientStarted, HandleClientFinished, HandleSocketClosed,
         HandleScanReady, Delete, clientVars
<1>3. e.kind = "delete" => thread[e.what] \in Over
  BY <1>1, Zenon DEF Ends, Leaving
<1> HIDE DEF e
<1>4. \A c \in Clients : \/ thread'[c] = thread[c]
                         \/ thread[c] \in Over /\ thread'[c] \in Over
  BY <1>2, <1>3 DEF TypeOK, Over
<1> QED
  BY <1>2, <1>4 DEF e

(* ... and to the queue.                                                        *)
LEMMA HandlePostedTakes ==
  ASSUME TypeOK, HandlePosted
  PROVE  /\ posted # <<>> /\ Head(posted) \in Events /\ Tail(posted) \in Seq(Events)
         /\ \/ posted' = Tail(posted)
            \/ /\ Head(posted).kind = "deleteLater"
               /\ Event("delete", Head(posted).what) \in Events
               /\ posted' = Append(Tail(posted), Event("delete", Head(posted).what))
<1>1. posted # <<>>
  BY DEF HandlePosted
<1>2. Head(posted) \in Events /\ Tail(posted) \in Seq(Events)
  BY <1>1, QueueType DEF TypeOK
<1>3. Head(posted).kind = "deleteLater" => Event("delete", Head(posted).what) \in Events
  BY <1>2, EventTypes
<1>4. \/ posted' = Tail(posted)
      \/ /\ Head(posted).kind = "deleteLater"
         /\ posted' = Append(Tail(posted), Event("delete", Head(posted).what))
  BY Zenon DEF HandlePosted
<1> QED
  BY <1>1, <1>2, <1>3, <1>4

LEMMA NextBegins == TypeOK /\ Ends /\ Begins /\ [Next]_vars => Begins'
<1> SUFFICES ASSUME TypeOK, Ends, Begins, [Next]_vars PROVE Begins'
  OBVIOUS
<1>0. posted \in Seq(Events) /\ Begun(posted, thread)
  BY DEF TypeOK, Begins
<1>1. ASSUME NEW c \in Clients, IncomingConnection(c) PROVE Begins'
  <2>1. UNCHANGED posted /\ thread[c] = "none"
        /\ thread' = [thread EXCEPT ![c] = "starting"]
    BY <1>1 DEF IncomingConnection
  <2>2. \A b \in Clients : thread'[b] = thread[b] \/ thread[b] \in {"none", "starting"}
    BY <2>1 DEF TypeOK
  <2>3. Begun(posted, thread')
    BY <1>0, <2>2, BegunThread
  <2> QED
    BY <2>1, <2>3 DEF Begins
<1>2. ASSUME NEW c \in Clients, NoticeDisconnect(c) PROVE Begins'
  <2>1. UNCHANGED thread /\ posted' = Append(posted, Event("closed", c))
    BY <1>2 DEF NoticeDisconnect, Post
  <2>2. Event("closed", c) \in Events /\ Event("closed", c).kind # "started"
    BY EventTypes DEF Event
  <2>3. Begun(Append(posted, Event("closed", c)), thread)
    BY <1>0, <2>2, BegunAppend
  <2> QED
    BY <2>1, <2>3 DEF Begins
<1>3. ASSUME NEW c \in Clients, ThreadStarts(c) PROVE Begins'
  <2>1. posted' = Append(posted, Event("started", c)) /\ thread[c] = "starting"
        /\ thread' = [thread EXCEPT ![c] = "running"]
    BY <1>3 DEF ThreadStarts, Post
  <2>2. Event("started", c) \in Events /\ Event("started", c).what = c
    BY EventTypes DEF Event
  <2>3. \A b \in Clients : thread'[b] = thread[b] \/ thread[b] \in {"none", "starting"}
    BY <2>1 DEF TypeOK
  <2>4. Begun(posted, thread')
    BY <1>0, <2>3, BegunThread
  <2>5. \A i \in 1..Len(posted) : posted[i].kind = "started" => posted[i].what # c
    BY <1>0, <2>1 DEF Begun, Over
  <2>6. thread'[c] = "running"
    BY <2>1 DEF TypeOK
  <2>7. Begun(Append(posted, Event("started", c)), thread')
    BY <1>0, <2>2, <2>4, <2>5, <2>6, BegunAppend
  <2> QED
    BY <2>1, <2>7 DEF Begins
<1>4. ASSUME NEW c \in Clients, ThreadEnds(c) PROVE Begins'
  <2> DEFINE a == Append(posted, Event("deleteLater", c))
  <2>1. posted' = Append(a, Event("finished", c))
        /\ thread' = [thread EXCEPT ![c] = "ended"]
    BY <1>4 DEF ThreadEnds
  <2>2. Event("deleteLater", c) \in Events /\ Event("deleteLater", c).kind # "started"
    BY EventTypes DEF Event
  <2>3. a \in Seq(Events) /\ Begun(a, thread)
    BY <1>0, <2>2, BegunAppend, PostedType
  <2>4. thread'[c] \in Over /\ \A b \in Clients \ {c} : thread'[b] = thread[b]
    BY <2>1 DEF TypeOK, Over
  <2> HIDE DEF a
  <2>5. Begun(Append(a, Event("finished", c)), thread')
    BY <2>3, <2>4, BegunFinish
  <2> QED
    BY <2>1, <2>5 DEF Begins
<1>5. CASE HandlePosted
  <2> DEFINE t == Tail(posted)
             d == Event("delete", Head(posted).what)
  <2>1. Begun(t, thread) /\ t \in Seq(Events)
    BY <1>0, <1>5, HandlePostedTakes, BegunTail
  <2>2. \/ posted' = t
        \/ d \in Events /\ posted' = Append(t, d)
    BY <1>5, HandlePostedTakes
  <2>3. d.kind # "started"
    BY DEF Event
  <2> HIDE DEF t, d
  <2>4. Begun(posted', thread) /\ posted' \in Seq(Events)
    BY <2>1, <2>2, <2>3, BegunAppend, PostedType
  <2>5. \A c \in Clients : \/ thread'[c] = thread[c]
                           \/ thread[c] \in Over /\ thread'[c] \in Over
    BY <1>5, HandlePostedThread
  <2>6. Begun(posted', thread')
    BY <2>4, <2>5, BegunThread
  <2> QED
    BY <2>6 DEF Begins
<1>6. CASE EmitScanComplete
  <2> DEFINE e == Event("map", published + 1)
  <2>1. UNCHANGED thread /\ posted' = Append(posted, e)
    BY <1>6 DEF EmitScanComplete, Post, clientVars
  <2>2. e \in Events /\ e.kind # "started"
    <3>1. published + 1 \in Nat
      BY BoundAssumption DEF TypeOK
    <3> QED
      BY <3>1, EventTypes DEF Event
  <2> HIDE DEF e
  <2>3. Begun(Append(posted, e), thread)
    BY <1>0, <2>2, BegunAppend
  <2> QED
    BY <2>1, <2>3 DEF Begins
<1>7. CASE UNCHANGED <<posted, thread>>
  BY <1>7 DEF Begins
<1> QED
  BY <1>1, <1>2, <1>3, <1>4, <1>5, <1>6, <1>7
  DEF Next, PeerLeaves, BeginExchange, StopMotor, GetDeviceInfo, NoAnswer, DeviceAnswers,
      Device, vars, clientVars

Running == {c \in Clients : thread[c] = "running"}

(* The count that the signals handled so far make.                              *)
Counted == clientCount = Cardinality(Running) - Behind(posted, 0, "started")
                                              + Behind(posted, 0, "finished")

LEMMA RunningFinite == TypeOK => IsFiniteSet(Running) /\ Cardinality(Running) \in Nat
<1>1. Running \in SUBSET Clients
  BY DEF Running
<1> QED
  BY <1>1, BoundAssumption, FS_Subset, FS_CardinalityType

LEMMA BehindFromStart ==
  ASSUME NEW s \in Seq(Events), NEW e \in Events, NEW kind
  PROVE  Behind(Append(s, e), 0, kind) = Behind(s, 0, kind) + (IF e.kind = kind THEN 1 ELSE 0)
<1>1. 0 \in Nat /\ 0 <= Len(s)
  OBVIOUS
<1> QED
  BY <1>1, BehindAppend

LEMMA BehindTaken ==
  ASSUME NEW s \in Seq(Events), s # <<>>, NEW kind
  PROVE  Behind(Tail(s), 0, kind) = Behind(s, 0, kind) - (IF Head(s).kind = kind THEN 1 ELSE 0)
<1>1. Behind(Tail(s), 0, kind) = Behind(s, 0 + 1, kind)
  BY BehindTail
<1>2. Behind(s, 0, kind) \in Nat /\ Behind(s, 1, kind) \in Nat
  BY AfterFinite
<1> QED
  BY <1>1, <1>2, BehindFirst

LEMMA NextCounted == TypeOK /\ Ends /\ Counted /\ [Next]_vars => Counted'
<1> SUFFICES ASSUME TypeOK, Ends, Counted, [Next]_vars PROVE Counted'
  OBVIOUS
<1> DEFINE S == Behind(posted, 0, "started")
           F == Behind(posted, 0, "finished")
           R == Cardinality(Running)
<1>0. /\ posted \in Seq(Events) /\ clientCount \in Int
      /\ S \in Nat /\ F \in Nat /\ R \in Nat /\ IsFiniteSet(Running)
      /\ clientCount = R - S + F
  BY AfterFinite, RunningFinite DEF TypeOK, Counted
<1> HIDE DEF S, F, R
<1>1. ASSUME NEW c \in Clients, IncomingConnection(c) PROVE Counted'
  <2>1. UNCHANGED <<posted, clientCount>> /\ thread[c] = "none"
        /\ thread' = [thread EXCEPT ![c] = "starting"]
    BY <1>1 DEF IncomingConnection
  <2>2. Running' = Running
    BY <2>1 DEF Running, TypeOK
  <2> QED
    BY <2>1, <2>2 DEF Counted
<1>2. ASSUME NEW c \in Clients, NoticeDisconnect(c) PROVE Counted'
  <2>1. UNCHANGED <<clientCount, thread>> /\ posted' = Append(posted, Event("closed", c))
    BY <1>2 DEF NoticeDisconnect, Post
  <2>2. Event("closed", c) \in Events /\ Event("closed", c).kind = "closed"
    BY EventTypes DEF Event
  <2>3. Behind(posted', 0, "started") = S /\ Behind(posted', 0, "finished") = F
    BY <1>0, <2>1, <2>2, BehindFromStart DEF S, F
  <2>4. Running' = Running
    BY <2>1 DEF Running
  <2> QED
    BY <1>0, <2>1, <2>3, <2>4 DEF Counted, R
<1>3. ASSUME NEW c \in Clients, ThreadStarts(c) PROVE Counted'
  <2> DEFINE e == Event("started", c)
  <2>1. UNCHANGED clientCount /\ posted' = Append(posted, e) /\ thread[c] = "starting"
        /\ thread' = [thread EXCEPT ![c] = "running"]
    BY <1>3 DEF ThreadStarts, Post
  <2>2. e \in Events /\ e.kind = "started"
    BY EventTypes DEF Event
  <2> HIDE DEF e
  <2>3. Behind(posted', 0, "started") = S + 1 /\ Behind(posted', 0, "finished") = F
    BY <1>0, <2>1, <2>2, BehindFromStart DEF S, F
  <2>4. Running' = Running \cup {c} /\ c \notin Running
    BY <2>1 DEF Running, TypeOK
  <2>5. Cardinality(Running') = R + 1
    BY <1>0, <2>4, FS_AddElement DEF R
  <2> QED
    BY <1>0, <2>1, <2>3, <2>5 DEF Counted
<1>4. ASSUME NEW c \in Clients, ThreadEnds(c) PROVE Counted'
  <2> DEFINE d == Event("deleteLater", c)
             a == Append(posted, d)
             e == Event("finished", c)
  <2>1. UNCHANGED clientCount /\ posted' = Append(a, e) /\ thread[c] = "running"
        /\ thread' = [thread EXCEPT ![c] = "ended"]
    BY <1>4 DEF ThreadEnds
  <2>2. e \in Events /\ e.kind = "finished" /\ d \in Events /\ d.kind = "deleteLater"
    BY EventTypes DEF Event
  <2> HIDE DEF e, d
  <2>3. a \in Seq(Events) /\ Behind(a, 0, "started") = S /\ Behind(a, 0, "finished") = F
    <3>1. a \in Seq(Events)
      BY <1>0, <2>2, PostedType
    <3>2. Behind(a, 0, "started") = Behind(posted, 0, "started") + 0
      BY <1>0, <2>2, BehindFromStart
    <3>3. Behind(a, 0, "finished") = Behind(posted, 0, "finished") + 0
      BY <1>0, <2>2, BehindFromStart
    <3> HIDE DEF a
    <3> QED
      BY <1>0, <3>1, <3>2, <3>3 DEF S, F
  <2> HIDE DEF a
  <2>4. Behind(posted', 0, "started") = S /\ Behind(posted', 0, "finished") = F + 1
    BY <1>0, <2>1, <2>2, <2>3, BehindFromStart
  <2>5. Running' = Running \ {c} /\ c \in Running
    BY <2>1 DEF Running, TypeOK
  <2>6. Cardinality(Running') = R - 1
    BY <1>0, <2>5, FS_RemoveElement DEF R
  <2> QED
    BY <1>0, <2>1, <2>4, <2>6 DEF Counted
<1>5. CASE HandlePosted
  <2> DEFINE e == Head(posted)
             t == Tail(posted)
             d == Event("delete", e.what)
             started == IF e.kind = "started" THEN 1 ELSE 0
             finished == IF e.kind = "finished" THEN 1 ELSE 0
  <2>1. t \in Seq(Events) /\ Behind(t, 0, "started") = S - started
        /\ Behind(t, 0, "finished") = F - finished
    BY <1>0, <1>5, HandlePostedTakes, BehindTaken DEF S, F
  <2>2. \/ posted' = t
        \/ d \in Events /\ posted' = Append(t, d)
    BY <1>5, HandlePostedTakes
  <2>3. d.kind = "delete"
    BY DEF Event
  <2>4. clientCount' = clientCount + started - finished
    BY <1>0, <1>5 DEF HandlePosted, HandleClientStarted, HandleClientFinished,
                HandleSocketClosed, HandleScanReady, Delete, clientVars
  <2>5. Running' = Running
    BY <1>5, HandlePostedThread DEF Running, Over
  <2> HIDE DEF t, d, e
  <2>6. Behind(posted', 0, "started") = Behind(t, 0, "started")
        /\ Behind(posted', 0, "finished") = Behind(t, 0, "finished")
    <3>1. Behind(t, 0, "started") \in Nat /\ Behind(t, 0, "finished") \in Nat
      BY <2>1, AfterFinite
    <3>2. CASE posted' = t
      BY <3>2
    <3>3. CASE d \in Events /\ posted' = Append(t, d)
      <4>1. Behind(Append(t, d), 0, "started") = Behind(t, 0, "started") + 0
        BY <2>1, <2>3, <3>3, BehindFromStart
      <4>2. Behind(Append(t, d), 0, "finished") = Behind(t, 0, "finished") + 0
        BY <2>1, <2>3, <3>3, BehindFromStart
      <4> QED
        BY <3>1, <3>3, <4>1, <4>2
    <3> QED
      BY <2>2, <3>2, <3>3
  <2>7. started \in Int /\ finished \in Int
    OBVIOUS
  <2> HIDE DEF started, finished
  <2> QED
    BY <1>0, <2>1, <2>4, <2>5, <2>6, <2>7 DEF Counted, R
<1>6. CASE EmitScanComplete
  <2> DEFINE e == Event("map", published + 1)
  <2>1. UNCHANGED <<thread, clientCount>> /\ posted' = Append(posted, e)
    BY <1>6 DEF EmitScanComplete, Post, clientVars
  <2>2. e \in Events /\ e.kind = "map"
    <3>1. published + 1 \in Nat
      BY BoundAssumption DEF TypeOK
    <3> QED
      BY <3>1, EventTypes DEF Event
  <2> HIDE DEF e
  <2>3. Behind(posted', 0, "started") = S /\ Behind(posted', 0, "finished") = F
    BY <1>0, <2>1, <2>2, BehindFromStart DEF S, F
  <2>4. Running' = Running
    BY <2>1 DEF Running
  <2> QED
    BY <1>0, <2>1, <2>3, <2>4 DEF Counted, R
<1>7. CASE UNCHANGED <<posted, thread, clientCount>>
  BY <1>7 DEF Counted, Running
<1> QED
  BY <1>1, <1>2, <1>3, <1>4, <1>5, <1>6, <1>7
  DEF Next, PeerLeaves, BeginExchange, StopMotor, GetDeviceInfo, NoAnswer, DeviceAnswers,
      Device, vars, clientVars

(* The clients announced as started are fewer than those that run and those *)
(* announced as finished: the count is not negative.                         *)
LEMMA StartedBounded ==
  ASSUME TypeOK, Begins
  PROVE  Behind(posted, 0, "started") <= Cardinality(Running) + Behind(posted, 0, "finished")
<1> DEFINE S == After(posted, 0, "started")
           F == After(posted, 0, "finished")
           W == {posted[j].what : j \in F}
           g == [j \in F |-> posted[j].what]
           f == [i \in S |-> posted[i].what]
<1>1. posted \in Seq(Events) /\ IsFiniteSet(S) /\ IsFiniteSet(F)
  BY AfterFinite DEF TypeOK
<1>2. IsFiniteSet(W) /\ Cardinality(W) <= Cardinality(F)
  <2>1. g \in Surjection(F, W)
    BY DEF Surjection
  <2> HIDE DEF g, F, W
  <2> QED
    BY <1>1, <2>1, FS_Surjection
<1>3. IsFiniteSet(Running) /\ Cardinality(Running) \in Nat
  BY RunningFinite
<1>4. /\ IsFiniteSet(Running \cup W)
      /\ Cardinality(Running \cup W) <= Cardinality(Running) + Cardinality(F)
  <2>1. IsFiniteSet(Running \cap W)
    BY <1>3, FS_Intersection
  <2>2. Cardinality(Running \cap W) \in Nat /\ Cardinality(W) \in Nat
        /\ Cardinality(F) \in Nat
    BY <1>1, <1>2, <2>1, FS_CardinalityType
  <2> HIDE DEF F, W
  <2>3. /\ IsFiniteSet(Running \cup W)
        /\ Cardinality(Running \cup W) =
             Cardinality(Running) + Cardinality(W) - Cardinality(Running \cap W)
    BY <1>2, <1>3, FS_Union
  <2> QED
    BY <1>2, <1>3, <2>2, <2>3
<1>5. \A i \in S : /\ posted[i].what \in Running \cup W
                   /\ \A j \in S : posted[j].what = posted[i].what => j = i
  <2> SUFFICES ASSUME NEW i \in S
               PROVE  /\ posted[i].what \in Running \cup W
                      /\ \A j \in S : posted[j].what = posted[i].what => j = i
    OBVIOUS
  <2>1. i \in 1..Len(posted) /\ posted[i].kind = "started"
    BY DEF After
  <2>2. posted[i] \in Events
    BY <1>1, <2>1
  <2>3. posted[i].what \in Clients
    BY <2>1, <2>2, EventTypes
  <2>4. /\ \/ thread[posted[i].what] = "running"
           \/ \E j \in 1..Len(posted) : /\ j > i /\ posted[j].kind = "finished"
                                        /\ posted[j].what = posted[i].what
        /\ \A j \in 1..Len(posted) :
             posted[j].kind = "started" /\ posted[j].what = posted[i].what => j = i
    BY <2>1, Zenon DEF Begins, Begun
  <2>5. \A j \in 1..Len(posted) : posted[j].kind = "finished" => j \in F
    BY DEF After
  <2>6. posted[i].what \in Running \cup W
    BY <2>3, <2>4, <2>5, Zenon DEF Running
  <2>7. \A j \in S : j \in 1..Len(posted) /\ posted[j].kind = "started"
    BY DEF After
  <2> QED
    BY <2>4, <2>6, <2>7, Zenon
<1>6. f \in Injection(S, Running \cup W)
  <2>1. f \in [S -> Running \cup W]
    BY <1>5, Zenon
  <2>2. \A i, j \in S : f[i] = f[j] => i = j
    BY <1>5, Zenon
  <2> HIDE DEF f, S, W
  <2> QED
    BY <2>1, <2>2 DEF Injection, IsInjective
<1>7. Cardinality(S) <= Cardinality(Running \cup W)
  <2> HIDE DEF f, S, W
  <2> QED
    BY <1>4, <1>6, FS_Injection
<1>8. /\ Cardinality(S) \in Nat /\ Cardinality(F) \in Nat
      /\ Cardinality(Running \cup W) \in Nat
  BY <1>1, <1>4, FS_CardinalityType
<1> HIDE DEF S, F, W
<1> QED
  BY <1>3, <1>4, <1>7, <1>8 DEF Behind, S, F

LEMMA AlwaysCounted == Spec => [](TypeOK /\ Begins /\ Counted)
<1>1. Init => Ends /\ Begins
  BY DEF Init, Ends, Queued, Begins, Begun
<1>2. Init => Counted
  <2> SUFFICES ASSUME Init PROVE Counted
    OBVIOUS
  <2>1. \A kind : After(posted, 0, kind) = {}
    BY DEF Init, After
  <2>2. Running = {}
    BY DEF Init, Running
  <2>3. clientCount = 0 /\ Cardinality({}) = 0
    BY FS_EmptySet DEF Init
  <2>4. Behind(posted, 0, "started") = 0 /\ Behind(posted, 0, "finished") = 0
    BY <2>1, <2>3 DEF Behind
  <2> QED
    BY <2>2, <2>3, <2>4 DEF Counted
<1> QED
  BY <1>1, <1>2, InitTypeOK, NextTypeOK, NextEnds, NextBegins, NextCounted, PTL DEF Spec

(* However many clients come, are refused and leave, in whatever order their     *)
(* signals are handled: the count is that of the running threads but for the     *)
(* signals under way, and never negative (lidarserver.cpp:25-36).                *)
THEOREM CountAlwaysMatches == Spec => []CountMatches
<1>1. TypeOK /\ Begins /\ Counted => CountMatches
  <2> SUFFICES ASSUME TypeOK, Begins, Counted PROVE CountMatches
    OBVIOUS
  <2>1. /\ Behind(posted, 0, "started") = Cardinality(Pending("started"))
        /\ Behind(posted, 0, "finished") = Cardinality(Pending("finished"))
    BY PendingBehind DEF Behind
  <2>2. /\ Behind(posted, 0, "started") \in Nat /\ Behind(posted, 0, "finished") \in Nat
        /\ Cardinality(Running) \in Nat
    BY AfterFinite, RunningFinite DEF TypeOK
  <2>3. Behind(posted, 0, "started") <= Cardinality(Running) + Behind(posted, 0, "finished")
    BY StartedBounded
  <2>4. clientCount >= 0
    BY <2>2, <2>3 DEF Counted
  <2> QED
    BY <2>1, <2>4 DEF Counted, CountMatches, Running
<1> QED
  BY <1>1, AlwaysCounted, PTL

------------------------------------------------------------------------------
(* The maps of a queue are numbered in their order, up to n.                     *)
InOrder(s, n) == \A i \in 1..Len(s) : s[i].kind = "map" => s[i].what = n - Behind(s, i, "map")

LEMMA InOrderAppend ==
  ASSUME NEW s \in Seq(Events), NEW e \in Events, NEW n \in Nat, InOrder(s, n),
         NEW m \in Nat, m = n + (IF e.kind = "map" THEN 1 ELSE 0),
         e.kind = "map" => e.what = m
  PROVE  InOrder(Append(s, e), m)
<1> DEFINE t == Append(s, e)
<1> SUFFICES ASSUME NEW i \in 1..Len(t), t[i].kind = "map"
             PROVE  t[i].what = m - Behind(t, i, "map")
  BY Zenon DEF InOrder
<1>1. Len(s) \in Nat /\ Len(t) = Len(s) + 1 /\ t[Len(s) + 1] = e
      /\ \A j \in 1..Len(s) : t[j] = s[j]
  OBVIOUS
<1>2. CASE i = Len(s) + 1
  <2>1. After(t, i, "map") = {}
    BY <1>1, <1>2 DEF After
  <2>2. Behind(t, i, "map") = 0
    BY <2>1, FS_EmptySet DEF Behind
  <2> HIDE DEF t
  <2> QED
    BY <1>1, <1>2, <2>2
<1>3. CASE i # Len(s) + 1
  <2>1. i \in 1..Len(s) /\ i \in Nat /\ i <= Len(s)
    BY <1>1, <1>3
  <2>2. Behind(t, i, "map") = Behind(s, i, "map") + (IF e.kind = "map" THEN 1 ELSE 0)
    BY <2>1, BehindAppend
  <2>3. Behind(s, i, "map") \in Nat
    BY <2>1, AfterFinite
  <2>4. s[i].what = n - Behind(s, i, "map") /\ t[i] = s[i]
    BY <1>1, <2>1 DEF InOrder
  <2> HIDE DEF t
  <2> QED
    BY <2>2, <2>3, <2>4
<1> QED
  BY <1>2, <1>3

LEMMA InOrderTail ==
  ASSUME NEW s \in Seq(Events), s # <<>>, NEW n \in Nat, InOrder(s, n)
  PROVE  /\ InOrder(Tail(s), n)
         /\ Head(s).kind = "map" => Head(s).what = n - Behind(s, 0, "map") + 1
<1> DEFINE t == Tail(s)
<1>1. /\ Len(s) \in Nat \ {0} /\ Head(s) = s[1] /\ 1 \in 1..Len(s)
      /\ \A i \in 1..Len(t) : i \in Nat /\ i + 1 \in 1..Len(s) /\ t[i] = s[i + 1]
  OBVIOUS
<1>2. \A i \in 1..Len(t) : Behind(t, i, "map") = Behind(s, i + 1, "map")
  <2> SUFFICES ASSUME NEW i \in 1..Len(t) PROVE Behind(t, i, "map") = Behind(s, i + 1, "map")
    OBVIOUS
  <2>1. i \in Nat
    BY <1>1
  <2> QED
    BY <2>1, BehindTail
<1>3. InOrder(t, n)
  <2> HIDE DEF t
  <2> QED
    BY <1>1, <1>2, Zenon DEF InOrder
<1>4. Head(s).kind = "map" => Head(s).what = n - Behind(s, 1, "map")
  BY <1>1 DEF InOrder
<1>5. Behind(s, 0, "map") \in Nat /\ Behind(s, 1, "map") \in Nat
  BY AfterFinite
<1> QED
  BY <1>3, <1>4, <1>5, BehindFirst

MapsInOrder == InOrder(posted, published)

(* Who has not come yet has no socket and was sent nothing.                      *)
NothingBefore == \A c \in Clients : /\ thread[c] = "none" => socket[c] = "none"
                                    /\ socket[c] = "none" => received[c] = <<>>

LEMMA InOrderOther ==
  ASSUME NEW s \in Seq(Events), NEW e \in Events, e.kind # "map", NEW n \in Nat, InOrder(s, n)
  PROVE  /\ Append(s, e) \in Seq(Events) /\ InOrder(Append(s, e), n)
         /\ Behind(Append(s, e), 0, "map") = Behind(s, 0, "map")
<1>1. Behind(s, 0, "map") \in Nat
  BY AfterFinite
<1>2. Behind(Append(s, e), 0, "map") = Behind(s, 0, "map") + 0
  BY BehindFromStart
<1>3. n = n + (IF e.kind = "map" THEN 1 ELSE 0)
  OBVIOUS
<1>4. InOrder(Append(s, e), n)
  BY <1>3, InOrderAppend
<1> QED
  BY <1>1, <1>2, <1>4, PostedType

LEMMA HandledIs ==
  ASSUME TypeOK, TypeOK'
  PROVE  /\ Handled = published - Behind(posted, 0, "map")
         /\ Handled' = published' - Behind(posted', 0, "map")
<1>1. \A s \in Seq(Events) : {i \in DOMAIN s : s[i].kind = "map"} = After(s, 0, "map")
  BY DEF After
<1>2. posted \in Seq(Events) /\ posted' \in Seq(Events)
  BY DEF TypeOK
<1>3. Pending("map") = After(posted, 0, "map") /\ Pending("map")' = After(posted', 0, "map")
  BY <1>1, <1>2 DEF Pending
<1> QED
  BY <1>3 DEF Handled, Behind

(* What a step does to the maps that are posted: it posts one, hands out the     *)
(* first, or leaves them alone.                                                  *)
LEMMA NextMaps ==
  ASSUME TypeOK, MapsInOrder, [Next]_vars
  PROVE  /\ MapsInOrder'
         /\ \/ EmitScanComplete /\ Handled' = Handled
            \/ /\ HandlePosted /\ HandleScanReady(Head(posted)) /\ published' = published
               /\ Head(posted).what = Handled + 1 /\ Handled' = Handled + 1
               /\ Handled < published
            \/ UNCHANGED <<published, received, Handled>>
<1> DEFINE M == Behind(posted, 0, "map")
<1>0. /\ posted \in Seq(Events) /\ published \in Nat /\ M \in Nat
      /\ InOrder(posted, published)
      /\ Handled = published - M /\ Handled' = published' - Behind(posted', 0, "map")
  BY NextTypeOK, HandledIs, AfterFinite, BoundAssumption DEF TypeOK, MapsInOrder
<1>1. ASSUME NEW e \in Events, e.kind # "map", posted' = Append(posted, e),
             UNCHANGED <<published, received>>
      PROVE  MapsInOrder' /\ UNCHANGED <<published, received, Handled>>
  BY <1>0, <1>1, InOrderOther DEF MapsInOrder
<1>2. ASSUME NEW c \in Clients, NoticeDisconnect(c)
      PROVE  MapsInOrder' /\ UNCHANGED <<published, received, Handled>>
  <2>1. Event("closed", c) \in Events /\ Event("closed", c).kind # "map"
    BY EventTypes DEF Event
  <2> QED
    BY <1>1, <1>2, <2>1 DEF NoticeDisconnect, Post, deviceVars
<1>3. ASSUME NEW c \in Clients, ThreadStarts(c)
      PROVE  MapsInOrder' /\ UNCHANGED <<published, received, Handled>>
  <2>1. Event("started", c) \in Events /\ Event("started", c).kind # "map"
    BY EventTypes DEF Event
  <2> QED
    BY <1>1, <1>3, <2>1 DEF ThreadStarts, Post, deviceVars
<1>4. ASSUME NEW c \in Clients, ThreadEnds(c)
      PROVE  MapsInOrder' /\ UNCHANGED <<published, received, Handled>>
  <2> DEFINE d == Event("deleteLater", c)
             a == Append(posted, d)
             e == Event("finished", c)
  <2>1. UNCHANGED <<published, received>> /\ posted' = Append(a, e)
    BY <1>4 DEF ThreadEnds, deviceVars
  <2>2. e \in Events /\ e.kind # "map" /\ d \in Events /\ d.kind # "map"
    BY EventTypes DEF Event
  <2> HIDE DEF e, d
  <2>3. a \in Seq(Events) /\ InOrder(a, published) /\ Behind(a, 0, "map") = M
    BY <1>0, <2>2, InOrderOther
  <2> HIDE DEF a
  <2>4. InOrder(Append(a, e), published) /\ Behind(Append(a, e), 0, "map") = Behind(a, 0, "map")
    BY <1>0, <2>2, <2>3, InOrderOther
  <2> QED
    BY <1>0, <2>1, <2>3, <2>4 DEF MapsInOrder
<1>5. CASE HandlePosted
  <2> DEFINE e == Head(posted)
             t == Tail(posted)
             d == Event("delete", e.what)
             one == IF e.kind = "map" THEN 1 ELSE 0
  <2>1. /\ t \in Seq(Events) /\ InOrder(t, published)
        /\ Behind(t, 0, "map") = M - one /\ Behind(t, 0, "map") \in Nat
        /\ e.kind = "map" => e.what = published - M + 1
    BY <1>0, <1>5, HandlePostedTakes, BehindTaken, InOrderTail, AfterFinite
  <2>2. \/ posted' = t
        \/ d \in Events /\ posted' = Append(t, d)
    BY <1>5, HandlePostedTakes
  <2>3. d.kind # "map" /\ published' = published
    BY <1>5 DEF Event, HandlePosted, deviceVars
  <2>4. \/ HandleScanReady(e) /\ e.kind = "map"
        \/ UNCHANGED received /\ e.kind # "map"
    BY <1>5 DEF HandlePosted, HandleClientStarted, HandleClientFinished,
                HandleSocketClosed, HandleScanReady, Delete, clientVars
  <2> HIDE DEF t, d, e
  <2>5. InOrder(posted', published) /\ Behind(posted', 0, "map") = M - one
    <3>1. CASE posted' = t
      BY <2>1, <3>1
    <3>2. CASE d \in Events /\ posted' = Append(t, d)
      <4>1. InOrder(Append(t, d), published)
            /\ Behind(Append(t, d), 0, "map") = Behind(t, 0, "map")
        BY <1>0, <2>1, <2>3, <3>2, InOrderOther
      <4> QED
        BY <2>1, <3>2, <4>1
    <3> QED
      BY <2>2, <3>1, <3>2
  <2>6. MapsInOrder'
    BY <2>3, <2>5 DEF MapsInOrder
  <2>7. CASE e.kind = "map"
    <3>1. M - 1 \in Nat /\ Handled' = published - (M - 1)
      BY <1>0, <2>1, <2>3, <2>5, <2>7
    <3> QED
      BY <1>0, <1>5, <2>1, <2>3, <2>4, <2>6, <2>7, <3>1 DEF e
  <2>8. CASE e.kind # "map"
    BY <1>0, <2>3, <2>4, <2>5, <2>6, <2>8
  <2> QED
    BY <2>7, <2>8
<1>6. CASE EmitScanComplete
  <2> DEFINE e == Event("map", published + 1)
  <2>1. published' = published + 1 /\ posted' = Append(posted, e)
    BY <1>6 DEF EmitScanComplete, Post
  <2>2. e \in Events /\ e.kind = "map" /\ e.what = published + 1 /\ published + 1 \in Nat
    BY <1>0, EventTypes DEF Event
  <2> HIDE DEF e
  <2>3. InOrder(Append(posted, e), published + 1)
    <3>1. published + 1 = published + (IF e.kind = "map" THEN 1 ELSE 0)
      BY <2>2
    <3> QED
      BY <1>0, <2>2, <3>1, InOrderAppend
  <2>4. Behind(Append(posted, e), 0, "map") = M + 1
    BY <1>0, <2>2, BehindFromStart
  <2>5. Handled' = Handled
    BY <1>0, <2>1, <2>4
  <2> QED
    BY <1>6, <2>1, <2>3, <2>5 DEF MapsInOrder
<1>7. CASE UNCHANGED <<posted, published, received>>
  BY <1>0, <1>7 DEF MapsInOrder
<1> HIDE DEF M
<1> QED
  BY <1>2, <1>3, <1>4, <1>5, <1>6, <1>7
  DEF Next, IncomingConnection, PeerLeaves, BeginExchange, StopMotor, GetDeviceInfo, NoAnswer,
      DeviceAnswers, Device, TenSecondsPass, DeviceOpens, DeviceCloses, vars, clientVars,
      deviceVars

LEMMA NextNothingBefore == TypeOK /\ NothingBefore /\ [Next]_vars => NothingBefore'
<1> SUFFICES ASSUME TypeOK, NothingBefore, [Next]_vars PROVE NothingBefore'
  OBVIOUS
<1>1. ASSUME NEW c \in Clients, IncomingConnection(c) PROVE NothingBefore'
  <2>1. PICK outcome \in {"open", "refused"} : socket' = [socket EXCEPT ![c] = outcome]
    BY <1>1 DEF IncomingConnection
  <2>2. thread' = [thread EXCEPT ![c] = "starting"] /\ received' = received
    BY <1>1 DEF IncomingConnection
  <2> QED
    BY <2>1, <2>2 DEF NothingBefore, TypeOK
<1>2. ASSUME NEW c \in Clients, NoticeDisconnect(c) \/ PeerLeaves(c) PROVE NothingBefore'
  BY <1>2 DEF NoticeDisconnect, PeerLeaves, NothingBefore, TypeOK
<1>3. ASSUME NEW c \in Clients, ThreadStarts(c) \/ ThreadEnds(c) PROVE NothingBefore'
  BY <1>3 DEF ThreadStarts, ThreadEnds, NothingBefore, TypeOK
<1>4. CASE HandlePosted
  <2>1. socket' = socket
        /\ \/ received' = received
           \/ received' = [c \in Clients |-> IF socket[c] \in {"open", "lost"}
                                             THEN Append(received[c], Head(posted).what)
                                             ELSE received[c]]
    BY <1>4 DEF HandlePosted, HandleClientStarted, HandleClientFinished,
                HandleSocketClosed, HandleScanReady, Delete, clientVars
  <2>2. \A c \in Clients : socket[c] = "none" => received'[c] = received[c]
    BY <2>1 DEF TypeOK
  <2>3. \A c \in Clients : thread'[c] = "none" => thread[c] = "none"
    BY <1>4 DEF HandlePosted, HandleClientStarted, HandleClientFinished, TypeOK,
                HandleSocketClosed, HandleScanReady, Delete, clientVars
  <2> QED
    BY <2>1, <2>2, <2>3 DEF NothingBefore
<1>5. CASE UNCHANGED <<thread, socket, received>>
  BY <1>5 DEF NothingBefore
<1> QED
  BY <1>1, <1>2, <1>3, <1>4, <1>5
  DEF Next, BeginExchange, StopMotor, GetDeviceInfo, NoAnswer, DeviceAnswers,
      EmitScanComplete, Device, vars, clientVars

------------------------------------------------------------------------------
(* The refinement: who is here, and what they got.                               *)
Here == {c \in Clients : socket[c] = "open"}
Got == [c \in Clients |-> IF socket[c] = "open" THEN received[c] ELSE <<>>]

LEMMA FeedInit == Init => Feed!Init
<1> SUFFICES ASSUME Init PROVE Feed!Init
  OBVIOUS
<1>1. Pending("map") = {}
  BY DEF Init, Pending
<1>2. Handled = 0
  BY <1>1, FS_EmptySet DEF Handled, Init
<1>3. Here = {} /\ Got = [c \in Clients |-> <<>>]
  BY DEF Init, Here, Got
<1> QED
  BY <1>2, <1>3 DEF Init, Feed!Init, Here, Got

LEMMA FeedNext ==
  ASSUME TypeOK, MapsInOrder, NothingBefore, [Next]_vars
  PROVE  [Feed!Next]_(Feed!feedVars)
<1>1. CASE EmitScanComplete /\ Handled' = Handled
  <2>1. published < MaxMaps /\ published' = published + 1
        /\ UNCHANGED <<socket, received>> /\ Handled' = Handled
    BY <1>1 DEF EmitScanComplete, clientVars
  <2>2. Feed!Complete
    BY <2>1 DEF Feed!Complete
  <2> QED
    BY <2>2 DEF Feed!Next
<1>2. CASE /\ HandlePosted /\ HandleScanReady(Head(posted)) /\ published' = published
           /\ Head(posted).what = Handled + 1 /\ Handled' = Handled + 1
           /\ Handled < published
  <2>1. socket' = socket
        /\ received' = [c \in Clients |-> IF socket[c] \in {"open", "lost"}
                                          THEN Append(received[c], Handled + 1)
                                          ELSE received[c]]
    BY <1>2 DEF HandleScanReady
  <2>2. Here' = Here
    BY <2>1 DEF Here
  <2>3. Got' = [c \in Clients |-> IF c \in Here THEN Append(Got[c], Handled + 1) ELSE Got[c]]
    BY <2>1 DEF Here, Got
  <2>4. Feed!HandOut
    BY <1>2, <2>2, <2>3 DEF Feed!HandOut, Here, Got
  <2> QED
    BY <2>4 DEF Feed!Next
<1>3. CASE UNCHANGED <<published, received, Handled>>
  <2>1. ASSUME NEW c \in Clients, IncomingConnection(c), socket' = [socket EXCEPT ![c] = "open"]
        PROVE  Feed!Join(c)
    <3>1. socket[c] = "none" /\ received[c] = <<>>
      BY <2>1 DEF IncomingConnection, NothingBefore
    <3>2. c \notin Here /\ Here' = Here \cup {c}
      BY <2>1, <3>1 DEF Here, TypeOK
    <3>3. Got' = Got
      BY <1>3, <2>1, <3>1 DEF Got, TypeOK
    <3> QED
      BY <1>3, <3>2, <3>3 DEF Feed!Join, Here, Got
  <2>2. ASSUME NEW c \in Clients, PeerLeaves(c)
        PROVE  Feed!Leave(c)
    <3>1. socket[c] = "open" /\ socket' = [socket EXCEPT ![c] = "lost"]
      BY <2>2 DEF PeerLeaves
    <3>2. c \in Here /\ Here' = Here \ {c}
      BY <3>1 DEF Here, TypeOK
    <3>3. Got' = [Got EXCEPT ![c] = <<>>]
      BY <1>3, <3>1 DEF Got, TypeOK
    <3> QED
      BY <1>3, <3>2, <3>3 DEF Feed!Leave, Here, Got
  <2>3. CASE \A c \in Clients : socket'[c] = "open" <=> socket[c] = "open"
    <3>1. Here' = Here /\ Got' = Got
      BY <1>3, <2>3 DEF Here, Got
    <3> QED
      BY <1>3, <3>1 DEF Feed!feedVars, Here, Got
  <2>4. ASSUME NEW c \in Clients, IncomingConnection(c)
        PROVE  \/ socket' = [socket EXCEPT ![c] = "open"]
               \/ \A b \in Clients : socket'[b] = "open" <=> socket[b] = "open"
    <3>1. socket[c] = "none"
      BY <2>4 DEF IncomingConnection, NothingBefore
    <3> QED
      BY <2>4, <3>1 DEF IncomingConnection, TypeOK
  <2>5. ASSUME NEW c \in Clients, NoticeDisconnect(c)
        PROVE  \A b \in Clients : socket'[b] = "open" <=> socket[b] = "open"
    BY <2>5 DEF NoticeDisconnect, TypeOK
  <2>6. \/ \E c \in Clients : IncomingConnection(c) \/ NoticeDisconnect(c) \/ PeerLeaves(c)
        \/ UNCHANGED socket
    BY DEF Next, ThreadStarts, ThreadEnds, HandlePosted, HandleClientStarted,
       HandleClientFinished, HandleSocketClosed, HandleScanReady, Delete, BeginExchange,
       StopMotor, GetDeviceInfo, NoAnswer, DeviceAnswers, EmitScanComplete, Device, vars,
       clientVars
  <2>7. \/ \E c \in Clients : Feed!Join(c) \/ Feed!Leave(c)
        \/ \A c \in Clients : socket'[c] = "open" <=> socket[c] = "open"
    BY <2>1, <2>2, <2>4, <2>5, <2>6
  <2> QED
    BY <2>3, <2>7 DEF Feed!Next
<1> QED
  BY <1>1, <1>2, <1>3, NextMaps

(* Every step of the server is one of the feed or leaves it as it is: whatever  *)
(* the threads of the clients do, each client gets the maps handed out during   *)
(* its stay, each once and in order, for any number of clients and maps. That   *)
(* every map is handed out at last is left to the run.                          *)
THEOREM FeedsClientsSafely == Spec => FeedsClients
<1>1. Init => MapsInOrder /\ NothingBefore
  BY DEF Init, MapsInOrder, InOrder, NothingBefore
<1>2. TypeOK /\ MapsInOrder /\ [Next]_vars => MapsInOrder'
  BY NextMaps
<1>3. TypeOK /\ MapsInOrder /\ NothingBefore /\ [Next]_vars => [Feed!Next]_(Feed!feedVars)
  BY FeedNext
<1> QED
  BY <1>1, <1>2, <1>3, InitTypeOK, NextTypeOK, NextNothingBefore, FeedInit, PTL
     DEF Spec, FeedsClients, Feed!Safety
------------------------------------------------------------------------------
(* The process around the Monitor thread, from main to its end: Daemon, with    *)
(* variables of its own.                                                        *)

Stopped == pc \in {"return", "returned"}

(* Once main has stopped the motor, nobody who is not noted in overtaken   *)
(* has it running or is on the way to starting it.                         *)
DaemonInv ==
  /\ overtaken \in BOOLEAN
  /\ ended = "returned" => Stopped
  /\ Stopped /\ ~overtaken /\ ended # "crashed" => ~motorOn /\ ~InExchange

LEMMA InitDaemonInv == DaemonInit => DaemonInv
BY DEF DaemonInit, DaemonInv, Stopped

(* Before main stops the motor there is nothing to show: these steps lead  *)
(* to places before it, or end the program otherwise.                      *)
LEMMA BeforeStop ==
  ASSUME DaemonInv,
         NEW from \in {"main", "handlers", "hup", "sockets", "monitor", "exec", "quit"},
         NEW to \in {"handlers", "hup", "sockets", "monitor", "exec", "quit", "stop"},
         Main(from, to), overtaken' = overtaken, ended' # "returned"
  PROVE  DaemonInv'
BY DEF DaemonInv, Main, Stopped

LEMMA MainThreadInvariant ==
  ASSUME DaemonInv, MainThread
  PROVE  DaemonInv'
<1>1. CASE InstallHandlers
  BY <1>1, BeforeStop DEF InstallHandlers, Main, Alive
<1>2. CASE OpenSockets
  BY <1>2, BeforeStop DEF OpenSockets, Main, Alive
<1>3. CASE ProcessOptions
  BY <1>3, BeforeStop DEF ProcessOptions, Main, Alive
<1>4. CASE NewMonitorThread
  BY <1>4, BeforeStop DEF NewMonitorThread, Main, Alive
<1>5. CASE HandleSigHup
  BY <1>5, BeforeStop DEF HandleSigHup, Main, Alive
<1>6. CASE HandleSigTerm
  BY <1>6, BeforeStop DEF HandleSigTerm, Main, Alive
<1>7. CASE QuitThread
  BY <1>7, BeforeStop DEF QuitThread, Main, Alive
<1>8. CASE LidarStop
  <2>1. pc' = "return" /\ Alive /\ UNCHANGED monitor
    BY <1>8 DEF LidarStop, Main, threadVars
  <2>2. overtaken' = (NoInterface \/ InExchange)
    BY <1>8 DEF LidarStop
  <2>3. ended' # "returned"
    BY <1>8, <2>1 DEF LidarStop, Alive
  <2>4. ASSUME ~overtaken', ended' # "crashed"
        PROVE  ~motorOn' /\ ~InExchange'
    BY <1>8, <2>1, <2>2, <2>4 DEF LidarStop, InExchange
  <2>. QED BY <2>1, <2>2, <2>3, <2>4 DEF DaemonInv
<1>9. CASE Return
  <2>1. pc = "return" /\ pc' = "returned" /\ Alive
        /\ UNCHANGED <<overtaken, motorOn, monitor>>
    BY <1>9 DEF Return, Main, threadVars
  <2>. QED BY <2>1 DEF DaemonInv, Stopped, Alive, InExchange
<1>. QED
  BY <1>1, <1>2, <1>3, <1>4, <1>5, <1>6, <1>7, <1>8, <1>9 DEF MainThread

(* The Monitor thread reaches StartScan only through GetDeviceInfo.        *)
LEMMA MonitorThreadInvariant ==
  ASSUME DaemonInv, MonitorThread
  PROVE  DaemonInv'
<1>1. Alive /\ UNCHANGED pc /\ ended' # "returned"
  BY DEF MonitorThread, NewLidar, LidarStart, EventLoop,
         NothingDue, StopForNobody, TryDeviceInfo, Answered,
         GiveUp, StartScan, Monitor, MotorCall, Alive
<1>2. CASE \/ NewLidar \/ LidarStart \/ EventLoop
           \/ NothingDue \/ GiveUp
  <2>1. monitor' \notin {"exchange", "answered"} /\ UNCHANGED <<overtaken, motorOn, ended>>
    BY <1>2 DEF NewLidar, LidarStart, EventLoop, NothingDue,
                GiveUp, Monitor
  <2>. QED BY <1>1, <2>1 DEF DaemonInv, Stopped, InExchange
<1>3. CASE StopForNobody
  <2>1. monitor' = "loop" /\ overtaken' = overtaken
    BY <1>3 DEF StopForNobody, Monitor
  <2>2. ended' = "crashed" \/ motorOn' = FALSE
    BY <1>3 DEF StopForNobody, MotorCall
  <2>. QED BY <1>1, <2>1, <2>2 DEF DaemonInv, Stopped, InExchange, Alive
<1>4. CASE TryDeviceInfo
  BY <1>1, <1>4 DEF TryDeviceInfo, DaemonInv, Stopped
<1>5. CASE Answered \/ StartScan
  <2>1. InExchange /\ overtaken' = overtaken
    BY <1>5 DEF Answered, StartScan, Monitor, InExchange
  <2>2. ~Stopped \/ overtaken
    BY <1>1, <2>1 DEF DaemonInv, Alive
  <2>. QED BY <1>1, <2>1, <2>2 DEF DaemonInv, Stopped
<1>. QED
  BY <1>2, <1>3, <1>4, <1>5 DEF MonitorThread

LEMMA OthersInvariant ==
  ASSUME DaemonInv,
         PortChanges \/ SigHup \/ SigTerm \/ UNCHANGED daemonVars
  PROVE  DaemonInv'
<1>1. UNCHANGED <<pc, overtaken, motorOn, monitor>>
  BY DEF PortChanges, SigHup, SigTerm, Sending, daemonVars,
         threadVars
<1>2. ended' = ended \/ (Alive /\ ended' = "killed")
  BY DEF PortChanges, SigHup, SigTerm, Sending, daemonVars
<1>. QED BY <1>1, <1>2 DEF DaemonInv, Stopped, InExchange, Alive

LEMMA AlwaysDaemonInv == DaemonSpec => []DaemonInv
<1>1. DaemonInv /\ [DaemonNext]_(daemonVars) => DaemonInv'
  BY MainThreadInvariant, MonitorThreadInvariant, OthersInvariant DEF DaemonNext
<1>. QED BY InitDaemonInv, <1>1, PTL DEF DaemonSpec

(* For all command lines, configuration files, signals and changes of the  *)
(* port: a program that returns has its motor off, unless the Monitor      *)
(* thread overtook the stop (main.cpp:198, monitorthread.cpp:62-67).       *)
THEOREM ReturnsWithMotorOff == DaemonSpec => []MotorOffAtExit
<1>1. DaemonInv => MotorOffAtExit
  BY DEF DaemonInv, MotorOffAtExit
<1>. QED BY AlwaysDaemonInv, <1>1, PTL
====
