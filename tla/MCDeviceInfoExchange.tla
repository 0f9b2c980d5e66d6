---- MODULE MCDeviceInfoExchange ----
(* DeviceInfoExchange with a _responseWaiters that was 0, negative or positive. *)
EXTENDS DeviceInfoExchange

MCInitialWaiters == {-1, 0, 7}
====
