---- MODULE MCAsynchInterface ----
(* One more byte than the buffer and its first, early delivery need.      *)
EXTENDS AsynchInterface
====
