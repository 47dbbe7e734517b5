-------------------------- MODULE MCFrameTransfer --------------------------
(* FrameTransfer with the real CRC and small payloads chosen to need        *)
(* escaping in their data or, for << 158, 125 >>, in both bytes of the CRC; *)
(* the last two are too long for the decoder's or the encoder's buffer.     *)
EXTENDS FrameTransfer, Crc16

Special == {0, 93, 94, 125, 126}

MCPayloads ==
  {<< >>} \cup {<< a >> : a \in Special} \cup {<< 1, a >> : a \in Special}
    \cup {<< 126, 125 >>, << 158, 125 >>, << 94, 126, 126 >>,
          << 126, 125, 126, 125, 126 >>, << 126, 126, 126, 126, 126, 126, 126, 126 >>}

MCNoises == {<< >>, << 0 >>, << 5, 125, 125 >>}
MCTails  == {<< >>, << 126, 0 >>}

(* The check value of CRC-16/CCITT-FALSE. *)
ASSUME CheckValue == Protocol_Crc16(<< 49, 50, 51, 52, 53, 54, 55, 56, 57 >>) = 10673

=============================================================================
