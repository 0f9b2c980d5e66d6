---- MODULE ResponseStream ----
(***************************************************************************)
(* What the framing of the serial byte stream promises to the rest of the  *)
(* program, without bytes, buffers or states.                              *)
(*                                                                         *)
(* The device sends a stream that encodes the responses expected.  As long *)
(* as no received byte has been thrown away unread, the responses handed   *)
(* on are these, in their order, each once.  After bytes were thrown away  *)
(* (a full buffer, a reset) responses may be lost or be read from the      *)
(* middle of others, but what was handed on before stays as it was.  A     *)
(* stream with noise between its frames is disturbed from the start.       *)
(***************************************************************************)
EXTENDS Naturals, Sequences

CONSTANT Response       \* what a response may be

VARIABLES expected,     \* the responses the stream encodes
          delivered,    \* the responses handed on so far
          disturbed     \* noise, or received bytes thrown away unread

streamVars == <<expected, delivered, disturbed>>

Init == /\ expected \in Seq(Response)
        /\ delivered = <<>>
        /\ disturbed \in BOOLEAN

(* The next response of the stream is handed on. *)
Deliver == /\ ~disturbed
           /\ Len(delivered) < Len(expected)
           /\ delivered' = Append(delivered, expected[Len(delivered) + 1])
           /\ UNCHANGED <<expected, disturbed>>

(* Bytes are thrown away. *)
Disturb == /\ ~disturbed
           /\ disturbed' = TRUE
           /\ UNCHANGED <<expected, delivered>>

(* Afterwards what is handed on need not be what was sent. *)
Misread == /\ disturbed
           /\ Len(delivered') = Len(delivered) + 1
           /\ SubSeq(delivered', 1, Len(delivered)) = delivered
           /\ UNCHANGED <<expected, disturbed>>

Next == Deliver \/ Disturb \/ Misread

Safety == Init /\ [][Next]_streamVars

(* An undisturbed stream is handed on to its end. *)
Progress == WF_streamVars(Deliver)

Spec == Safety /\ Progress
====
