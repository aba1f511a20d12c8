------------------------------ MODULE MCReassembly ------------------------------
(* Model checking of Reassembly with packets of ten bytes, the smallest    *)
(* the assumption allows: messages of one to four packets, the last of     *)
(* them full or not, and one that is longer than a frame may be.           *)
EXTENDS Reassembly

MCTotal == {5, 16, 20, 29, 31}

=============================================================================
