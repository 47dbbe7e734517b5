--------------------------- MODULE MCLncSession ---------------------------
(* LncSession; the bounds are in the configurations.                         *)
EXTENDS LncSession

=============================================================================
