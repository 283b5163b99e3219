------------------------------- MODULE MCUartServer -------------------------------
(* UartServer with messages of up to three units, for TLC. *)
EXTENDS UartServer

ShortMessages == {[i \in 1..k |-> Unit("data", i)] : k \in 1..3}
===================================================================================
