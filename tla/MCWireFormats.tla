---- MODULE MCWireFormats ----
(* Samples and cabins at the boundaries of bytes, bits and degrees. *)
EXTENDS WireFormats

MCMeasured ==
  [quality : {10, 11, 63}, startFlag : {0, 1}, syncBit : {0, 1}, checkBit : {0, 1},
   angle : {0, 1, 127, 128, 5759, 5760, 23039, 23040, 32767},
   distance : {0, 40, 41, 255, 256, 65535}]

Edges == {0, 1, 3, 254}
MCCabins == {f \in [1..5 -> Edges \cup {16, 15}] : \A i \in 1..4 : f[i] \in Edges}
====
