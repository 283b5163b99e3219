--------------------------------- MODULE MCBleServer ---------------------------------
(* BleServer and its attributes, with a message that fits into one write and one that
   does not. *)
EXTENDS BleAttributes

CONSTANTS short, long

ShortAndLong == {short, long}
Lengths == [m \in {short, long} |-> IF m = short THEN 2 ELSE 4]
===================================================================================
