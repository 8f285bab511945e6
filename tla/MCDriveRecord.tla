--------------------------- MODULE MCDriveRecord ----------------------------
(* A small instance of DriveRecord: a minute is two units, a sector takes     *)
(* less than one or more, and the rival is a lap ahead.                       *)
EXTENDS DriveRecord

SomeTimes == {1, 3}

RivalsDrive ==
    [done |-> <<[sectors |-> <<3, 3, 3>>, cut |-> {1}]>>, now |-> <<1>>, cut |-> {}]
=============================================================================
