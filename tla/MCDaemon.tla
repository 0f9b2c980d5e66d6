---- MODULE MCDaemon ----
(* Daemon with a command line and a file for each way to set an option. *)
EXTENDS Daemon, TLC

Lines == { "serial-port" :> "ttyS0",
           "serial-port" :> "ttyS0" @@ "log-file" :> "own.log" @@ "listen-port" :> 65537,
           "conf-file" :> "own.conf" @@ "verbosity" :> 11 @@ "pigs-address" :> "host",
           "motor-control-pin" :> 28 @@ "verbosity" :> Illegal }
Files == { Missing,
           "serial-port" :> "ttyS1" @@ "listen-port" :> 5959 @@ "log-file" :> "file.log"
             @@ "verbosity" :> Illegal @@ "pigs-address" :> "raspi" }
====
