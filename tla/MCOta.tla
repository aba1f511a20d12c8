-------------------------------- MODULE MCOta --------------------------------
(* Model checking of Ota: packets of two bytes, sectors of two packets and *)
(* a bank of two sectors; a file that ends with a sector, one that does    *)
(* not, and one that does not fit.                                         *)
EXTENDS Ota

CONSTANTS old, even, odd, long

FileLength == [f \in {old, even, odd, long} |->
                  CASE f = old -> 3 [] f = even -> 8 [] f = odd -> 7 [] f = long -> 9]

=============================================================================
