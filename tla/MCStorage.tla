------------------------------- MODULE MCStorage -------------------------------
(* Model checking of Storage: two identities, and enough power failures    *)
(* to interrupt a save, the save that follows it and a third one.          *)
EXTENDS Storage

=============================================================================
