---- MODULE MCSerialLink ----
(* SerialLink on small bounds. *)
EXTENDS SerialLink
====
