------------------------------ MODULE TlvCodec ------------------------------
(***************************************************************************)
(* The TLV layer of common/protocol.c: a field is a tag byte, a length of  *)
(* two bytes, most significant first, and a value.  Lengths are uint16_t,  *)
(* and so is every sum of them: U16Max + 1 wraps to 0.  Base is the number *)
(* of values of a byte, 256, so that small instances keep the arithmetic.  *)
(***************************************************************************)
EXTENDS Integers, Sequences, SequencesExt

CONSTANT Base

ASSUME BaseAssumption == Base \in Nat /\ Base > 1

Byte == 0..(Base - 1)
U16  == 0..(Base * Base - 1)

uint16_t(n) == n % (Base * Base)

Protocol_PutU16(value) == << value \div Base, value % Base >>
Protocol_GetU16(hi, lo) == Base * hi + lo

(* The encoding of a field, when there is room for it. *)
Field(tag, value) == << tag >> \o Protocol_PutU16(Len(value)) \o value

Protocol_EncodeTLV(tag, value, outBufCap) ==
  IF outBufCap < uint16_t(3 + Len(value))
    THEN [res |-> "BUFFER_TOO_SMALL", written |-> 0, out |-> << >>]
    ELSE [res |-> "OK", written |-> uint16_t(3 + Len(value)), out |-> Field(tag, value)]

(* Faults: the value need not have arrived; one byte more than it takes has. *)
ArrivedHeader(inLen, valueLen) == TRUE
ArrivedMore(inLen, valueLen) == inLen > uint16_t(3 + valueLen)

Arrived(inLen, valueLen) == inLen >= uint16_t(3 + valueLen)

(* Fault: the header is not counted. *)
ConsumedValue(valueLen) == valueLen

Consumed(valueLen) == uint16_t(3 + valueLen)

(* Decoding at an offset of a buffer: outValue is where the value begins. *)
Protocol_DecodeTLV(buf, offset) ==
  LET inLen    == Len(buf) - offset
      valueLen == Protocol_GetU16(buf[offset + 2], buf[offset + 3])
  IN  IF inLen < 3 THEN [res |-> "INCOMPLETE"]
      ELSE IF ~Arrived(inLen, valueLen) THEN [res |-> "INCOMPLETE"]
      ELSE [res |-> "OK", tag |-> buf[offset + 1], value |-> offset + 3,
            valueLen |-> valueLen, consumed |-> Consumed(valueLen)]

=============================================================================
