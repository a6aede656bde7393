------------------------------ MODULE MCStreamHub ------------------------------
(***************************************************************************)
(* StreamHub with model values; the bounds are in the .cfg files.          *)
(***************************************************************************)
EXTENDS StreamHub

=============================================================================
