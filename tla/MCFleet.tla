------------------------------ MODULE MCFleet ------------------------------
(* Fleet with three serial numbers, which are alike.                         *)
EXTENDS Fleet, TLC

CONSTANTS a, b, c
Alike == Permutations({a, b, c})

=============================================================================
