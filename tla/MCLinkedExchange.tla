---- MODULE MCLinkedExchange ----
(* LinkedExchange with a _responseWaiters that was 0 or negative. *)
EXTENDS LinkedExchange

MCInitialWaiters == {-1, 0}
====
