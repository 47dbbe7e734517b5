------------------------------- MODULE Crc16 -------------------------------
(***************************************************************************)
(* CRC-16/CCITT-FALSE as common/protocol.c computes it, bit by bit: the    *)
(* checksum of every frame on the LNC's UART link.  A byte is a number in  *)
(* 0..255 and a CRC a number in 0..65535.                                  *)
(***************************************************************************)
EXTENDS Integers, Sequences

(* The 16-bit x ^ y. *)
Xor(x, y) ==
  LET low[n \in 0..16] ==   \* of the n low bits
        IF n = 0 THEN 0
        ELSE ((x \div 2^(n - 1) + y \div 2^(n - 1)) % 2) * 2^(n - 1) + low[n - 1]
  IN  low[16]

(* One pass of the inner loop: the polynomial is applied when the bit that   *)
(* is shifted out was set, and the result keeps 16 bits.                     *)
ShiftBit(crc) ==
  IF crc >= 32768 THEN Xor((2 * crc) % 65536, 4129) ELSE (2 * crc) % 65536

(* The loops hand the crc on from turn to turn, as the code's variable does:  *)
(* turn n begins with c.                                                     *)
UpdateByte(crc, data) ==
  LET from[bit \in 0..8, c \in 0..65535] ==
        IF bit = 8 THEN c ELSE from[bit + 1, ShiftBit(c)]
  IN  from[0, Xor(crc, 256 * data)]

crc16_update(crc, data) ==
  LET from[n \in 1..(Len(data) + 1), c \in 0..65535] ==
        IF n > Len(data) THEN c ELSE from[n + 1, UpdateByte(c, data[n])]
  IN  from[1, crc]

Protocol_Crc16(data) == crc16_update(65535, data)

=============================================================================
