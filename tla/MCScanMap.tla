---- MODULE MCScanMap ----
(* ScanMap with a _lastTrimTime long past, and one that is garbage far ahead. *)
EXTENDS ScanMap

MCInitialTrimTimes == {-5, 100}
====
