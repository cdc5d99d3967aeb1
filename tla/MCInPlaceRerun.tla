--------------------------- MODULE MCInPlaceRerun ---------------------------
(* The patches of MCInPlaceApply, for a caller that runs them once more.     *)
EXTENDS MCInPlaceApply, InPlaceRerun

=============================================================================
