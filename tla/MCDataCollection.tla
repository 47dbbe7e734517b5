------------------------- MODULE MCDataCollection -------------------------
(* DataCollection with the central computer, which stores and queries, and   *)
(* oop_fleet, which only stores.  Lines have one field or two, as events     *)
(* have three or eight: a whole line of the one is part of the other.        *)
EXTENDS DataCollection

CONSTANTS cc, fleet

EventWidths == {1, 2}

=============================================================================
