---- MODULE MCLidarReset ----
(***************************************************************************)
(* LidarReset with an array of five cells, an answer that fills it, and    *)
(* two scans out of step with the parser: a multiple response of chunks of *)
(* no cells, which repeats as long as a cell is left behind it, and one of *)
(* chunks of two cells, which hold a sync byte.                            *)
(***************************************************************************)
EXTENDS LidarReset

AnswerBytes == <<7>>
AnswerCells == <<SYNC, START_FLAG, 1, 0>> \o AnswerBytes
ScanStreams == { <<3, SYNC, START_FLAG, 0, 1, 3>>, <<SYNC, START_FLAG, 2, 1, SYNC, 3>> }
====
