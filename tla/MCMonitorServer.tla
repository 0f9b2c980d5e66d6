---- MODULE MCMonitorServer ----
(* MonitorServer for few clients and maps. *)
EXTENDS MonitorServer
====
