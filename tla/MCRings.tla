--------------------------------- MODULE MCRings ---------------------------------
(* The two rings of the program, EventQueue and RingBuffer. They have no   *)
(* variable in common: the states of each are visited while the other is   *)
(* as it starts, not in all combinations.                                  *)
EXTENDS EventQueue, RingBuffer

(* Three events are enough to tell an order from any other. No symmetry:  *)
(* the run checks liveness.                                                *)
MCEvent == {"connected", "data", "custom"}

RingRests == RingInit /\ buffer = (CHOOSE pool \in [0 .. buffer_size - 1 -> Byte] : TRUE)

SchedMoves == SchedNext /\ RingRests /\ UNCHANGED ringVars
RingMoves == RingNext /\ SchedInit /\ UNCHANGED schedVars

ringsVars == <<schedVars, ringVars>>

RingsInit == SchedInit /\ RingInit

RingsSpec == /\ RingsInit
             /\ [][SchedMoves \/ RingMoves]_ringsVars
             /\ WF_ringsVars(Execute /\ RingRests /\ UNCHANGED ringVars)
===============================================================================
