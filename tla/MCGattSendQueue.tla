---------------------------- MODULE MCGattSendQueue ----------------------------
(* Model checking of GattSendQueue: a queue of two packets, that fills up  *)
(* and wraps, beside an event queue that fills up as well.                 *)
EXTENDS GattSendQueue

MCElem == 1 .. MaxPackets

=============================================================================
