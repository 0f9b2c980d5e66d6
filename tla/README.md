# TLA+ models and proofs for the RPLidar daemon

The daemon reads an RPLidar over a serial port, keeps a map of ranges (one per
quarter degree) and sends the map to its TCP clients. It is a handful of Qt
objects in five kinds of threads. This directory models how these threads and
the device interact; TLC checks the models on small instances, and TLAPS proves
the main invariants for every value of the constants.

Run `tlc -config X.cfg MCModule` for a run of `PROJECT.json` and
`tlapm Module.tla` for the modules that end in `Proofs`.

## The system

| Part | Source | State | Operations |
|---|---|---|---|
| Serial thread | `blockingserialthread.cpp` | `_serialPort`, `_wasOpen`, `_sendBuffer` | `run()`: open, close on error, read, write; `handleReadyWrite` |
| Interface thread | `blockinginterface.cpp` | `_deviceOpen` | `handleReadyRead`, `handlePortOpened`, `handlePortClosed` |
| Lidar thread: framing | `lidar.cpp` | `_receiveBuffer`, `_bytesInBuffer`, `_bytesProcessed`, `_state`, `_chunkLength`, `_responseType` | `handleDataReady`, `processReadBuffer`, `reset` |
| Lidar thread: range map | `lidar.cpp` | `_vectors`, `_refreshTimes`, `_lastBearing`, `_lastTrimTime` | `processScanResponse`, `processExpressScanResponse`, `trimVectors` |
| Monitor thread: device | `lidar.cpp`, `monitorthread.cpp` | `_responseWaiters`, `_responseQueue` (shared with the Lidar thread) | `handleTimerExpired`, `getDeviceInfo`, `startScan` |
| Monitor thread: server | `lidarserver.cpp`, `clientthread.cpp` | `_clientCount`, client threads and sockets | `incomingConnection`, `handleClientStarted`, `handleClientFinished`, `handleScanReady`, `handleSocketClosed` |
| Threads of the clients | `clientthread.cpp` | an event loop | `started`, `quit`, `finished` |
| Interface thread, event-driven alternative | `asynchinterface.cpp` | `_recvBuffer`, `_lastDeliveryMsecs`, `_timer` | `handleReadyRead`, `handleTimeout`, `handleReadyWrite` |
| Conversions | `lidarresponse.cpp`, `cabin.cpp`, `rangemap.cpp` | | constructors, `serialize` |
| Main thread | `main.cpp`, `lidardaemon.cpp` | socket pairs, settings | signal handlers, options, `handleSigHup`, `handleSigTerm`, `MonitorThread::stop` |

How they interact:

    device <-> serial thread --queued--> interface thread --queued--> Lidar thread
                    ^  _sendBuffer                                      |      |
                    |  (direct call)                  _responseQueue,   |      | scanComplete
                    +------------- Monitor thread <-- wakeAll ----------+      | (queued)
                                     |  ^   <----------------------------------+
                        direct calls |  | started, finished (queued)
                                     v  |
                                 client threads and sockets

    signals -> socket pairs -> main thread --stop() (direct)--> Monitor thread's objects

A Qt signal is a direct call when sender and receiver live in the same thread
and is otherwise queued, in order, for the receiver's event loop. `send()` and
the motor calls are direct and run in the Monitor thread; so do `handleRangeMap`
and everything about client sockets (a socket has its `ClientThread` as parent,
so `moveToThread` leaves it where it is). Two pieces of state are shared without
a common lock: the parser's (reset by `getDeviceInfo`) and the response queue.
At its end the main thread calls `stop()` on the Monitor thread's objects, too.

What is hard here: resets between any two steps of the parser, reads that cut a
frame anywhere, a seek that gives handled bytes back, answers that come after
their wait has ended, a one-command slot, two `open` flags in two threads joined
by a queue, a device that comes and goes, uninitialised members, a Monitor
thread that blocks for up to 100 seconds, a client count kept from queued
signals, and a program that ends while its threads run. `PROJECT.json` lists each at its line under `hazards`.

## Modules

| Module | Models | Code |
|---|---|---|
| `ResponseStream` | what framing promises: responses in order, once, as sent, until bytes are thrown away | |
| `LidarFramer` | the parser, at the grain of its loop's iterations; implements `ResponseStream` | `lidar.cpp` 124-216, 302-307, 334-434 |
| `FramedStreams` | what it means that a stream of bytes encodes its frames, noise between them included; no buffer, no reads | |
| `LidarReset` | the parser against `reset()`, at the grain of statements | `lidar.cpp` 124-216, 302-307, 344-434 |
| `SerialLink` | serial thread, interface thread, motor calls, device | `blockingserialthread.cpp`, `blockinginterface.cpp` |
| `DeviceInfoExchange` | `getDeviceInfo` against the Lidar thread's queue | `lidar.cpp` 70-100, 165-183, 218-238 |
| `LinkedExchange` | both together: `getDeviceInfo` over the serial port; implements `DeviceInfoExchange` | as both, and `monitorthread.cpp` 45-60 |
| `ScanMap` | the range map and its publication | `lidar.cpp` 240-325 |
| `MapFeed` | what the server promises: each map to all clients connected as it is handed out, in order, once | |
| `MonitorServer` | the Monitor thread's event loop: timer, server, clients; implements `MapFeed` | `monitorthread.cpp`, `lidarserver.cpp`, `clientthread.cpp` |
| `AsynchInterface` | buffering by size and time, its timer, its writes | `asynchinterface.cpp` |
| `WireFormats` | a sample's way from the device's bytes to a client's doubles | `lidarresponse.cpp` 53-62, `cabin.cpp`, `rangemap.cpp` 32-53 |
| `Daemon` | the process: signals, options, the end of the program | `main.cpp`, `lidardaemon.cpp`, `monitorthread.cpp` 19-67, `lidar.cpp` 62-68 |

`MC...` modules give constants their values; `MCLidarFramer` also has the
operators that need `SequencesExt` or recursion. `...Proofs` modules hold the proofs.
Operators whose comment begins with "Mutant", or that are marked with a comment of
what they get wrong, are faulty variants of the operator that follows them; no specification uses them. They show that a property of a
run would notice that fault.

### LidarFramer

`receiveBuffer` is the valid part of `_receiveBuffer`, so its length is
`_bytesInBuffer`. `HandleDataReady` is `handleDataReady` up to the (direct) call
of `processReadBuffer`; then one action per iteration of its loop, by state, and
`RemoveBytesFromReceiveBuffer` for what follows the loop. `Reset` is the Monitor
thread's call, which takes no lock and may come between any of these. History
variables (`expected`, `disturbed`) hold what the bytes encode and whether
bytes were thrown away. A response is `delivered`
when it leaves the framing: to the response queue or to the map.

`Abstract` is the refinement mapping: `Response`, `expected` and `delivered` are
those of the framer, and the abstract `disturbed` holds where bytes were thrown
away or where the stream is `noisy` (noise between frames). It must: a seek that
fails sets `_bytesProcessed` to 0, so the frame before such noise stays in the
buffer and is handled again. What still holds of noisy streams is
`NothingInvented` and `NoFrameHidden`.

`FramedStreams` says what the streams of the constant `Streams` have to do with
the frames they are said to encode. `Places(s)` is a set of places of the stream
(how many bytes lie before, what is expected there, how many frames have ended)
that holds the beginning and, with a place, what the bytes make of it: the byte
sought, the length, mode and type, the chunk, which must be the next frame. In
noise a place may lead back to any earlier one, as a seek that fails does. TLC
checks `EncodingAssumption` for the streams of the run, whose places
`MCLidarFramer` computes.

The model's buffer is a sequence, so a reset falls between two iterations; what
happens inside one is the subject of the next module.

### LidarReset

The array, `_bytesInBuffer` and `_bytesProcessed` are variables, and the Lidar
thread makes one step per statement that touches them, as does `reset()` in the
Monitor thread. The two have no common lock, so the build may keep a counter in a
register or read it again: `seen` is what was read, and a later statement may use
it or the counter itself. A cell stands for the bytes that matter together (a
descriptor is two cells: length and mode). An access outside the array, or a
`memmove` of a negative length, is a `fault` and stops the Lidar thread.

TLC reaches the fault: a reset that sets `_bytesInBuffer` to 0 between
`lidar.cpp:371` and `372` makes the length of the `memmove` negative, and between
372 and 373 the count. `OnlyRemovalFaults` says that there is no other way:
whatever else a reset cuts into, the parser at worst parses nonsense, and
`QuietResetAnswered` and `OnlyAnswerHeard` say that the next reset that meets an
idle Lidar thread leaves nothing of it. `AnswerAssumption` says what the answer
is: the descriptor of a single response, its data, and not more than the array
holds. That of GetDeviceInfo is 7 + 20 bytes, the array 32786. `ParserFreed` adds that resets also end
the one loop that would not end by itself (a multiple response of length 0).

### SerialLink

`rpc` is where `run()` is between two blocking calls: `check` (top of the loop),
`open` (in `open()`), `read` (in `waitForReadyRead`), `write`. `port` is
`_serialPort`, which the constructor leaves unset (`wild` or `null`). `events`
is the queue of the interface's thread, `toLidar` all it has sent to Lidar.
`crashed` ends the behaviour when a motor call meets a port that is not there.
A command is a number; `sendBuffer` holds one.

### DeviceInfoExchange

`mpc` walks through `getDeviceInfo`: `try` (stopMotor, reset), `send`, `enter`
(count up), `wait` and `waiting` (before and in the wait, so that a wake-up can
be lost), `woken`, `start`. The Lidar thread parses an answer, appends it and
wakes in separate steps, so that an append may coincide with `takeFirst`. The
link is one lossy actor; it does not repeat or reorder. An answer lost on its way
stays in `fromDevice` until a later one is heard or the parser is reset, which is
when the Lidar thread could tell.

A StartScan is the same kind of thing to the slot as a GetDeviceInfo.
`ScanFindsSlotFree` says that it replaces none until a wait has timed out; after
that it may, when a late answer is taken while the next command is still in the
slot.

### LinkedExchange

`SerialLink` and the threads of `DeviceInfoExchange` in one state: each step is one
of the first, one of the second, or, where the Monitor thread sends or the device
answers, of both. The state of `DeviceInfoExchange` that belongs to its link is not
there; `Slot`, `ToDevice` and `FromDevice` compute it from the slot, the port and
the data that `SerialLink` keeps, and that is the refinement mapping. They need
what the ports do not carry: what each command sent means (`meaning`), which command
a piece of data answers (`answers`), and how far the device (`taken`) and Lidar
(`heard`) have come. `motorCalled` gives the motor calls, which may meet no port
and end the program, their places: before the reset of a try, before `startScan`
and in it, after its command.

### ScanMap

One action per response. A sample is an angle, a distance and whether quality,
check bit and start flag are wanted ones. The device turns one way by any step
below a turn; angles are integers in the device's unit. `_lastTrimTime` starts
with any of a set of values, since the constructor does not set it and nothing
else does.

### MonitorServer

`posted` is the queue of the Monitor thread's event loop; socket notifiers and
the timer are actions of their own that need the loop idle. In `exchange` the
thread is in `getDeviceInfo` and handles nothing. A refused socket
(`setSocketDescriptor` fails) has a thread that is started and counted, but no
signal that could end it. A try of `getDeviceInfo` without an answer is one
action that may repeat for ever or end the exchange, so the number of tries, and
how often the device opens and closes, need no bound. The clients are a finite
set, so that they can be counted.

`Feed` maps it to `MapFeed`: a map is completed when it is published, handed out
when its event leaves the queue, a client is connected from its socket's opening
until its loss is noticed. Threads, the queue and the exchanges disappear.

### AsynchInterface

Time is three clocks, all that the code compares: since the last delivery, until
the timer expires, and (for the property) since the first waiting byte was read.
Clocks stop counting where the code can no longer tell them apart, so time has
no bound. A due timer is served before time goes on, a read may be late.

The daemon cannot use this interface as it is: `MonitorThread` passes
`BlockingSerial` whatever it was asked for, and since `AsynchInterface` never
sets `_deviceOpen`, the timer handler would never start a scan.

### WireFormats

A sample goes through packing (the device), `ScanResponse`, the map, `serialize`
and a client, one action each; `Init` chooses the sample. Bytes are numbers up to
the decoder; in the serialised map a byte is named after the value it is part of,
so that a reader that is off by any number of bytes finds no value. A cabin is
replaced by another, to compare what is decoded from bytes they share. What the
five bytes mean is taken from the masks and shifts of `lidarprotocol.h`; bit 1 of
the first byte is what the decoder calls start flag.

### Daemon

`pc` is where `main()` is: handlers, socket pairs, options, `new MonitorThread`,
`exec()`, `stop()`, return. A signal without handler kills; one that comes after
its handler and before its socket pair is lost (`lidardaemon.cpp:43-49` install
the handlers first). `term.sa_flags` is not initialised, so the second SIGTERM
may kill; `_deviceInterface` is not either, so a stop between `new Lidar` and
`Lidar::start` may crash or do nothing. The Monitor thread looks at the loop's
exit flag between two passes only, so it may be in an exchange, or begin one,
after `stop()`: `overtaken` notes it, and only then may the motor be left on.

An option is a key with a value or `Illegal`, a text its conversion refuses. The
settings are computed as `main()` does: the command line over the file over the
defaults, with ranges checked for the command line only and the port cut to 16
bits.

## Runs

| Run | Question | Bounds |
|---|---|---|
| `framer` | Does the framer implement `ResponseStream`, never wait for what cannot fit, get nearer its end in each iteration, invent and hide nothing, with a reset at any step? | streams with all four creatable types, uncreatable ones, reserved modes, lengths beyond the mask and payloads that look like frames, with and without noise; buffer 16, reads up to 18, so that some overflow it; any cut into reads; one reset |
| `lidar_reset` | What can a reset between two statements break, and does the next one mend it? | a buffer of five cells, which the answer fills; two scans out of step, one that announces chunks of length 0 and one that announces chunks of two cells and puts a sync byte in them; reads of two and of five cells; any number of resets and answers |
| `serial_link` | Do sessions, data and commands keep their order? Does an exchange find the port? Does the daemon notice a device that stays or stays away? | two unplugs, two pieces of data, two commands |
| `device_info` | What can late answers, lost wake-ups, the unlocked queue and the one-command slot do? | see `MCDeviceInfoExchange.cfg`: several tries, two calls, waiter counts of both signs |
| `linked_exchange` | Is the serial port, with its threads, the link that `device_info` assumes? | two calls of up to two tries, three commands, three answers, one unplug; waiter counts 0 and negative |
| `scan_map` | Are ranges entered in range, cleared in time and published at most once a turn? | four angles in two vectors, angles up to half as much again, three turns, four time units, a trim time long past and one far ahead |
| `scan_map_turns` | Is a map published for each turn, as `README.md` line 5 of the repository has it? It is not (see findings). | as `scan_map` |
| `monitor_server` | Does it implement `MapFeed`; does the count match the threads; are only ended threads deleted; does the motor stop, are clients served, leavers cleaned up? | two clients, two maps; any number of tries, openings and closings |
| `asynch_interface` | Is every byte delivered, soon, once and in order? | a buffer of four bytes, seven bytes, delays of two ticks, one command |
| `wire_formats` | Does a client read what the device measured? | qualities, angles and distances at the edges of the decoder's conditions and of its bytes; four vectors of 90 degrees; cabins with bytes from {0, 1, 3, 254}, the shared one also 15 and 16 |
| `daemon` | Does a SIGTERM end the program, and is the motor off then? | three signals of either kind; four command lines and two files that are accepted or refused at different places; any garbage, any changes of the port |
| `options_log_file` | Is `--log-file` the log file? It is not (see findings). | as `daemon` |

The bounds are enough for the cases to meet: a second session, command, call,
turn or client is what order, staleness and counting need, and each run reaches
every action. Nothing in `lidar_reset` and `daemon` depends on the kind of
response or on more than a second signal, and the sizes are proved away.

### Findings

- `scan_map_turns`: a map is published only at a good sample below 10 degrees
  that follows one with a larger bearing (`lidar.cpp:284`). A turn without a
  good sample below 10 degrees completes none, while `README.md:5` says a blob
  is produced on completion of each scan.
- `options_log_file`: `main.cpp:71-73` offers `--log-file`, "Log file for
  output", and nothing reads its value; the log goes where the file says, or to
  the default (`main.cpp:34`, 98, 177). A file without the key makes it empty.

Without a run of its own: `README.md:8` has a sequence number of two bytes between
count and ranges. `rangemap.cpp:40` writes a time of eight bytes there, as the
comment at `rangemap.cpp:13` says, and that is what `wire_formats` reads.

## Fairness

- Threads are scheduled (weak fairness of each thread's steps): the code's
  threads are QThreads that block only in timed waits or event loops.
- `LidarFramer`: the device sends what it has to send, which is finite.
- `LidarReset`: the Lidar thread, and the Monitor thread's resets: while there are
  clients and no maps, each tick begins an exchange of up to 20 of them.
- `Daemon`: the main thread only. `TermEndsProgram` needs nothing of the Monitor
  thread, for which `stop()` does not wait.
- `SerialLink`: the serial and the interface thread; the device owes nothing.
  The liveness properties say "if the device stays".
- `DeviceInfoExchange`: the Monitor thread, whose wait is timed, and the Lidar
  thread. Neither the device nor the link owes an answer.
- `AsynchInterface`: time passes and the event loop serves a due timer; reads have
  strong fairness, since the loop serves its timers and notifiers in turn.
- `MonitorServer`: strong fairness of the event loop's handlers, since an
  exchange disables all of them for a bounded time and the loop serves posted
  events, socket notifiers and the timer in turn. Clients and device owe nothing.

## Proofs

Each proof module proves `Spec => []IInv` for an inductive invariant `IInv` from
`Init => IInv` and `IInv /\ [Next]_vars => IInv'`, with a lemma per action or
group of actions, and derives the theorems from it. A further invariant that
needs the first is proved on top of it in the same way. TLC checked the
invariants on the runs' instances before they were proved. Every invariant that
a run checks is proved, for every value of the constants that meets the
assumptions named here.

- `LidarFramerProofs` (assumes that a descriptor and the longest length fit
  in the buffer, as 5 <= 32786 and 0x3FFF <= 32786 do): `TypeCorrect`,
  `NeverWedged`, `LoopApproachesEnd`. Being wedged is a matter of `idle`; the
  invariant speaks of `shift` too, where the loop has been left because bytes
  were missing, and the shift keeps what was missing missing. The variant rests
  on `ReservedModesUnreachable`: the sign extension leaves modes 0, 1, -2, -1.
- The same module, for streams that encode their frames (`EncodingAssumption`):
  `NothingEverInvented` and `ImplementsSafely`, that each step of the framer is
  one of `ResponseStream` or leaves its variables. The invariant `InFrames`:
  until bytes are thrown away buffer and wire are the rest of one stream
  (`Carried`), the start of the buffer and the parser's index are at places of
  it (`Stands`), the parser expects there what the place says, and what has been
  handed on is what the place counts (`HandedOn`). A failed seek goes back to
  the start of the buffer, hence the place there; the seek of an empty buffer,
  after a reset between two iterations, needs `Unread`. What is proved is that
  buffer, reads, removals and resets make no difference to what an uninterrupted
  reading of the stream finds.
- `LidarResetProofs` (for all buffers, streams, answers and reads):
  `FaultsOnlyInRemoval`. The invariant bounds both the counters and the values
  last read at each place of the Lidar thread; a reset only lowers the counters,
  which keeps every bound but that of a removal, where the bytes to remove must
  not exceed the count. It also says that an idle thread has read nothing and
  not faulted, so that a reset that meets one restores the bounds.
- The same module, for an answer as `AnswerAssumption` has it:
  `OnlyAnswerAlwaysHeard` and `QuietResetAlwaysAnswered`. After a quiet reset
  `Answered` holds. Until the answer is sent nothing can happen (`Clean`). Then
  `Base` cells of it have been removed and `At` processed, wire, array and the
  argument of `handleDataReady` hold the rest of it in order (`Contents`), and
  `Progress` says at each statement which state goes with `At`, that the readings
  of the counters are not stale, and that the loop is left only where the next
  state lacks cells. When all has been read, that can only be at the end.
- `SerialLinkProofs` (for all bounds): `TypeCorrect`, `SessionsAlwaysBracketed`,
  `DataOnlyInSession`, `RunAlwaysHasPort`, `CommandsAlwaysInOrder`,
  `DataAlwaysInOrder`. The invariant adds to
  `SessionsBracketed` what `wasOpen` and `port` are at each place of `run()`;
  without it a `CheckClosed` after a `CheckOpen` could announce a closing twice.
  `ExchangeAlwaysFindsPort` adds that without an unplugging run() closes nothing
  (`SessionKept`) and that `wasOpen` holds where `deviceOpen` does (`OpenIsBelieved`).
  `CommandFlow` orders what is written, in the slot and yet to be sent;
  `PortKept` and `DataFlow` order the data handed to Lidar, in the queue and in
  the port, and leave no gap as long as the port is the same.
- The same module, for `LinkedExchange`: `ImplementsExchangeSafely`. Its steps are
  steps of `SerialLink` or leave that alone (`LinkedStep`), so the theorems above
  hold of it. `RouteOK` says that each command written has been sent and has a
  meaning, and each answer its command; then one lemma per thread shows which step
  of `DeviceInfoExchange` its step is: `SerialThreadSimulated` (`WriteCommand`,
  `ClosePort` or nothing), `DeviceSimulated` (`Answer` or nothing),
  `MonitorThreadSimulated` and `LidarThreadSimulated`.
- `DeviceInfoExchangeProofs` (for all numbers of tries and calls and all initial
  waiter counts): `TypeCorrect`, `WokenAlwaysHasResponse`,
  `BacklogAlwaysBounded`, `NeverRacesBeforeTimeout`, `AlwaysFreshBeforeTimeout`,
  `ScanAlwaysFindsSlotFree`. They are theorems of `Safety`, `Spec` without fairness,
  so that by `ImplementsExchangeSafely` they hold over the serial port, too.
  The queue is not empty while the Lidar thread is about to wake and the Monitor
  thread waits. An answer is in one place at a time (`EachOnce`), and until a wait
  times out all there is belongs to the last command (`OfLast`): this, and not a
  lock, keeps the threads apart. From the sending to the scan no older StartScan is
  in the slot (`SlotIsOurs`).
- `ScanMapProofs` (for all sizes, with angles below 720 degrees even after a
  cabin's offset): `TypeCorrect`, `NeverTwoPerTurn`, `PublishedAlwaysFresh`,
  `NeverTrimmedEarly`. Bearings within the turn
  of the last good sample only grow, so `published <= goodTurn <= turns`. What is
  not older than a range may live was so when it was trimmed last (`TrimmedThen`).
- `AsynchInterfaceProofs` (for all sizes and delays): `TypeCorrect`,
  `AlwaysKeptBriefly`, `AlwaysBufferBounded`, `AlwaysDataInOrder`. While bytes
  wait, the time since the last delivery and what is left of the timer add up to
  at most both delays: a read that restarts the timer found the last delivery
  recent enough. Bytes are numbered as they come, and delivered, buffered and
  unread ones follow each other (`Numbered`, `Continued`).
- `MonitorThreadProofs` (for any finite set of clients): `TypeCorrect`,
  `NeverDeletedRunning`, `CountAlwaysMatches`, `FeedsClientsSafely`. A thread's
  end is posted after its beginning and once (`Begins`, `Ends`), so the count is
  the number of threads whose beginning, and not end, has been handled
  (`Counted`). `FeedsClientsSafely` is the refinement of `MapFeed` step by step:
  the maps in the queue are the latest, in order (`MapsInOrder`).
- The same module for `Daemon` (all options and numbers of
  signals): `ReturnsWithMotorOff`, that `MotorOffAtExit` always holds. After the
  stop, nobody who is not noted in `overtaken` is in an exchange.
- `WireFormatsProofs` (assumes that the number of vectors is below the limit of
  the count, as 1440 < 2^16): `AlwaysDecodedAsMeasured`,
  `AlwaysClientReadsMeasured`, `AlwaysHalvesIndependent`. The first rests on
  `RoundTrip`, one lemma per packed field; the second on `Layout`, which finds
  the count and each double in the concatenation of the fields.

Model-checked only: liveness, with the liveness part of two refinements
(`NoFrameHidden` for `ResponseStream`, `FeedsOn` for `MapFeed`), since the prover
has neither fairness nor ENABLED; the two findings, which are violations; and that
the streams and the answer of the runs meet the assumptions.

## Not modelled

- `FileInterface`: a stub that sends and receives nothing.
- `LidarCommand`: the daemon sends only commands without payload, two constant
  bytes. The encoding of payloads (`lidarcommand.cpp:16-43`) computes a checksum
  it does not write and streams the payload with a length prefix, but nobody
  sends one.
- The fields of device info and sample rate, stored and read by nobody, and the
  responses' reading beyond a chunk that is shorter than its type needs.
- The motor calls of `SerialInterface` (one line each, unused by the daemon).
- `GenericTest` (returns at once), `TestThread`, `LidarVector`, `BearingAndRange`
  (unused), logging, GPIO, `--help` and the failures of `socketpair`.

## Plan

A theorem that lists what streams meet `EncodingAssumption` is open: descriptors
and chunks back to back, from the builders of `MCLidarFramer`. It takes induction
over the sequence of frames, which these provers do not have.
