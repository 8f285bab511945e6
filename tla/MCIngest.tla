------------------------------ MODULE MCIngest ------------------------------
(* Small instances of Ingest: the lap topic and one topic with one message  *)
(* per packet.                                                              *)
EXTENDS Ingest
CONSTANTS motion, lapTimes

TwoTopics == {motion, lapTimes}
=============================================================================
