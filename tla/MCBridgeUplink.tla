--------------------------- MODULE MCBridgeUplink ---------------------------
(* BridgeUplink with the real CRC.  One payload is plain and one needs every *)
(* byte escaped; their frames take 6 and 9 raw bytes, in a buffer of 12.     *)
EXTENDS BridgeUplink, Crc16

MCPayloads == {<< 1 >>, << 126, 125 >>}

(* What frames without damage are checked against, computed once. *)
Headed == {<< 0, Len(p) >> \o p : p \in MCPayloads}
KnownCrc == [s \in Headed |-> Protocol_Crc16(s)]
MCCrc(s) == IF s \in Headed THEN KnownCrc[s] ELSE Protocol_Crc16(s)

(* START, ESCAPE and, as lengths, one the buffers admit and one they do not. *)
MCBadBytes == {126, 125, 4, 200}

(* As long as the payload buffer admits, too long for the raw buffer once it *)
(* is framed: 8 bytes of payload make 13 raw ones.                           *)
LongPayloads == {<< 1, 2, 3, 4, 5, 6, 7, 8 >>}

QuietLine == {<< >>}
NoisyLine == {<< >>, << 0 >>, << 125, 125 >>}

=============================================================================
