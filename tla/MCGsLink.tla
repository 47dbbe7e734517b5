------------------------------ MODULE MCGsLink ------------------------------
(* GsLink with lengths of five bits instead of sixteen, and record sizes and *)
(* a limit in proportion: a response that exceeds the limit by one record is *)
(* still shorter than the largest length, and four records may exceed it.    *)
EXTENDS GsLink

CONSTANTS first, second

MCSizes == [LOG |-> {8}, EVENTS |-> {5, 9}]

=============================================================================
