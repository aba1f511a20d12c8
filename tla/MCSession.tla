------------------------------- MODULE MCSession -------------------------------
(* Model checking of Session: two connections, so that what one leaves     *)
(* behind meets the next, and an event queue that fills up.                *)
EXTENDS Session

=============================================================================
