---- MODULE MCLidarFramer ----
(***************************************************************************)
(* Streams for LidarFramer, put together from descriptors and payloads as  *)
(* the device does.  The buffer is 16 bytes and a length 3 bits, so that a *)
(* stream fills the buffer and wraps the length as the real ones could.    *)
(***************************************************************************)
EXTENDS FramedStreams, SequencesExt

(* A descriptor: sync, start flag, length, mode in the top bits, type. *)
Descriptor(len, mode, type) ==
  <<SYNC, START_FLAG, len, 0, 0, 64 * mode, type>>

Single(type, data) == Descriptor(Len(data), 0, type) \o data
Multi(type, chunks) == Descriptor(Len(chunks[1]), 1, type) \o FlattenSeq(chunks)
R(type, data) == [type |-> type, data |-> data]

Framed == <<SYNC, START_FLAG>>      \* a payload that looks like a frame
Info == Single(DevInfo, <<1, 2>>)
Health == Single(6, Framed)         \* DevHealth: not created

(* Frames back to back, the first after noise, payloads that look like frames. *)
CleanFrames == {
  [bytes |-> <<START_FLAG, SYNC, 7>> \o Info \o Single(SampleRate, <<3>> \o Framed),
   frames |-> <<R(DevInfo, <<1, 2>>), R(SampleRate, <<3>> \o Framed)>>],
  [bytes |-> Health \o Info \o Multi(Measurement, <<Framed, <<4, 5>>, <<6, 7>>>>),
   frames |-> <<R(DevInfo, <<1, 2>>), R(Measurement, Framed),
                R(Measurement, <<4, 5>>), R(Measurement, <<6, 7>>)>>],
  [bytes |-> Multi(MeasurementCapsuled, <<<<1, 2, 3, 4, 5, 6, 7>>, <<8, 9, 8, 9, 8, 9, 8>>>>),
   frames |-> <<R(MeasurementCapsuled, <<1, 2, 3, 4, 5, 6, 7>>),
                R(MeasurementCapsuled, <<8, 9, 8, 9, 8, 9, 8>>)>>],
  [bytes |-> Descriptor(26, 0, DevInfo) \o <<3, 4>> \o Descriptor(1, 3, DevInfo) \o Info,
   frames |-> <<R(DevInfo, <<3, 4>>), R(DevInfo, <<1, 2>>)>>],
  [bytes |-> Multi(6, <<<<1>>>>) \o Info \o Multi(DevInfo, <<<<2>>, <<3>>>>),
   frames |-> <<R(DevInfo, <<1, 2>>)>>] }

(* Noise after frames: without a sync byte, with one, and a false start. *)
NoisyFrames == {
  [bytes |-> Info \o <<7>> \o Single(SampleRate, <<3>>) \o <<SYNC, 8>> \o Info,
   frames |-> <<R(DevInfo, <<1, 2>>), R(SampleRate, <<3>>), R(DevInfo, <<1, 2>>)>>],
  [bytes |-> <<SYNC, 9>> \o Info \o <<9, START_FLAG>> \o Multi(Measurement, <<<<4>>, <<5>>>>),
   frames |-> <<R(DevInfo, <<1, 2>>), R(Measurement, <<4>>), R(Measurement, <<5>>)>>] }

WithNoise(streams, noise) ==
  {[bytes |-> s.bytes, frames |-> s.frames, noisy |-> noise] : s \in streams}
AllStreams == WithNoise(CleanFrames, FALSE) \cup WithNoise(NoisyFrames, TRUE)

(* The places of a stream: those that follow from the first one.               *)
Behinds(s, x) ==
  {Behind(x, q) : q \in {q \in (x.at + 1)..Len(s.bytes) :
                           /\ s.bytes[q] = Wanted(x)
                           /\ \A r \in (x.at + 1)..(q - 1) : s.bytes[r] # Wanted(x)}}
Agains(s, P, x) ==
  IF x.at < Len(s.bytes) /\ s.bytes[x.at + 1] # Wanted(x)
  THEN {Between(y.at, x.count) : y \in {y \in P : y.at <= x.at}} ELSE {}
AfterPlace(s, P, x) ==
  CASE x.state \in Seeking -> Behinds(s, x) \cup Agains(s, P, x)
    [] x.state = "LengthModeAndType" ->
         IF x.at + DescriptorSize <= Len(s.bytes) THEN {AfterDescriptor(s, x)} ELSE {}
    [] OTHER -> IF x.at + x.length <= Len(s.bytes) THEN {AfterChunk(s, x)} ELSE {}

RECURSIVE PlacesFrom(_, _)
PlacesFrom(s, P) ==
  LET Q == P \cup UNION {AfterPlace(s, P, x) : x \in P}
  IN IF Q = P THEN P ELSE PlacesFrom(s, Q)
PlacesByStream == [s \in AllStreams |-> PlacesFrom(s, {Between(0, 0)})]
StreamPlaces(s) == PlacesByStream[s]
====
