---- MODULE MapFeed ----
(***************************************************************************)
(* What the server promises to its clients, without threads, sockets or    *)
(* event queues: each completed map is handed out, in the order of their   *)
(* completion, to all clients that are connected at that moment, and so a  *)
(* client gets all maps handed out during its stay, each once, and no      *)
(* other.                                                                  *)
(***************************************************************************)
EXTENDS Naturals, Sequences

CONSTANTS Clients,      \* those who may connect
          MaxMaps       \* bound on the maps completed

VARIABLES completed,    \* how many maps have been completed
          handed,       \* how many have been handed out
          here,         \* the clients that are connected
          got           \* what a connected client has got since it came

feedVars == <<completed, handed, here, got>>

Init == /\ completed = 0 /\ handed = 0
        /\ here = {}
        /\ got = [c \in Clients |-> <<>>]

Complete == /\ completed < MaxMaps
            /\ completed' = completed + 1
            /\ UNCHANGED <<handed, here, got>>

HandOut == /\ handed < completed
           /\ handed' = handed + 1
           /\ got' = [c \in Clients |-> IF c \in here THEN Append(got[c], handed + 1)
                                                       ELSE got[c]]
           /\ UNCHANGED <<completed, here>>

Join(c) == /\ c \notin here
           /\ here' = here \cup {c}
           /\ UNCHANGED <<completed, handed, got>>

Leave(c) == /\ c \in here
            /\ here' = here \ {c}
            /\ got' = [got EXCEPT ![c] = <<>>]
            /\ UNCHANGED <<completed, handed>>

Next == Complete \/ HandOut \/ \E c \in Clients : Join(c) \/ Leave(c)

Safety == Init /\ [][Next]_feedVars

(* No map is left lying. *)
Progress == WF_feedVars(HandOut)

Spec == Safety /\ Progress
====
