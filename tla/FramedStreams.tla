---- MODULE FramedStreams ----
(***************************************************************************)
(* What it means that the bytes of a stream encode its frames, without a   *)
(* buffer, reads or a loop: the protocol of lidarprotocol.h as the streams *)
(* of LidarFramer use it.                                                  *)
(*                                                                         *)
(* Places(s) are the places of s at which a state of the parser may begin: *)
(* how many bytes lie before it, what is expected there (of what length    *)
(* and type, in a chunk) and how many frames have ended, which is not      *)
(* counted where noise lets frames be read again.                          *)
(***************************************************************************)
EXTENDS LidarFramer

CONSTANT Places(_)

Place == [at : Nat, state : States, length : Nat, type : Byte, count : Nat]

Between(at, count) ==
  [at |-> at, state |-> "Sync", length |-> 0, type |-> 0, count |-> count]

Seeking == {"Sync", "StartFlag"}
Wanted(x) == IF x.state = "Sync" THEN SYNC ELSE START_FLAG
Behind(x, q) ==
  [x EXCEPT !.at = q, !.state = IF x.state = "Sync" THEN "StartFlag" ELSE "LengthModeAndType"]

(* The wanted byte is the next or, after noise, a later one.  Who stops in     *)
(* the noise may begin again at any earlier place.                             *)
SoughtAt(s, x) ==
  /\ \A q \in (x.at + 1)..Len(s.bytes) :
       /\ s.bytes[q] = Wanted(x)
       /\ \A r \in (x.at + 1)..(q - 1) : s.bytes[r] # Wanted(x)
       => Behind(x, q) \in Places(s)
  /\ x.at < Len(s.bytes) /\ s.bytes[x.at + 1] # Wanted(x) =>
       \A y \in Places(s) : y.at <= x.at => Between(y.at, x.count) \in Places(s)

(* Length, mode and type: one chunk, many chunks, or nothing that is read.     *)
AfterDescriptor(s, x) ==
  LET length == (s.bytes[x.at + 1] + 256 * s.bytes[x.at + 2]) % LengthLimit
      many == s.bytes[x.at + 4] >= 64
      end == x.at + DescriptorSize
  IN IF s.bytes[x.at + 4] < 128
     THEN [at |-> end, state |-> IF many THEN "MultiResponse" ELSE "SingleResponse",
           length |-> length, type |-> s.bytes[x.at + 5], count |-> x.count]
     ELSE Between(end, x.count)

(* A chunk is the next of the frames, if it is of a type that is handed on.    *)
Counted(x) == x.type \in (IF x.state = "SingleResponse" THEN Creatable ELSE ScanTypes)
ChunkOf(s, x) ==
  [type |-> x.type, data |-> SubSeq(s.bytes, x.at + 1, x.at + x.length)]
CountAfter(s, x) == IF Counted(x) /\ ~s.noisy THEN x.count + 1 ELSE x.count
AfterChunk(s, x) ==
  IF x.state = "MultiResponse" /\ x.type \in Creatable
  THEN [x EXCEPT !.at = x.at + x.length, !.count = CountAfter(s, x)]
  ELSE Between(x.at + x.length, CountAfter(s, x))
ChunkAt(s, x) ==
  /\ Counted(x) /\ ~s.noisy => /\ x.count < Len(s.frames)
                               /\ ChunkOf(s, x) = s.frames[x.count + 1]
  /\ Counted(x) /\ s.noisy => \E j \in 1..Len(s.frames) : ChunkOf(s, x) = s.frames[j]
  /\ AfterChunk(s, x) \in Places(s)

Encoded(s) ==
  /\ Places(s) \subseteq Place
  /\ Between(0, 0) \in Places(s)
  /\ \A x \in Places(s) :
       /\ x.state \in Seeking => SoughtAt(s, x)
       /\ x.state = "LengthModeAndType" /\ x.at + DescriptorSize <= Len(s.bytes)
            => AfterDescriptor(s, x) \in Places(s)
       /\ x.state \in {"SingleResponse", "MultiResponse"} /\ x.at + x.length <= Len(s.bytes)
            => ChunkAt(s, x)

ASSUME EncodingAssumption == \A s \in Streams : Encoded(s)
====
