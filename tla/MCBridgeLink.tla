---------------------------- MODULE MCBridgeLink ----------------------------
(* BridgeLink and, behind it, BridgeDownlink with the real CRC.  One payload *)
(* each way: the core's could be read as the beginning of a length, and the  *)
(* bridge's, behind the first bytes of its length, as a message and a length *)
(* that is too large.  The receive buffer holds a message and a third, and   *)
(* the kernel one message and the beginning of another that the core has not *)
(* read yet.                                                                 *)
EXTENDS BridgeDownlink, Crc16

MCDownPayloads == {<< 0, 1 >>}
MCUpPayloads == {<< 1, 9, 0, 0, 9, 9 >>}

(* What frames without damage are checked against, computed once. *)
Headed == {<< 0, Len(p) >> \o p : p \in MCDownPayloads}
KnownCrc == [s \in Headed |-> Protocol_Crc16(s)]
MCCrc(s) == IF s \in Headed THEN KnownCrc[s] ELSE Protocol_Crc16(s)

(* The hypotheses of the theorems about the downlink, so far as this         *)
(* instance goes: four messages are sent, so no more than three pieces       *)
(* follow one that was cut.                                                  *)
ASSUME DownlinkFits /\ CutsAreNoticed(SeqOf(Pieces, 3))

=============================================================================
