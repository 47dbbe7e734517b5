----------------------------- MODULE FrameCodec -----------------------------
(***************************************************************************)
(* The frame envelope of common/protocol.c: Frame_Encode wraps a payload   *)
(* in START, a 16-bit length, the payload and a CRC, byte-stuffing         *)
(* everything after START; Frame_Decode finds the first frame of a raw     *)
(* buffer and undoes it.  Bytes are numbers in 0..255 and buffers are      *)
(* sequences of bytes, so an index of the code is a length here.           *)
(***************************************************************************)
EXTENDS Integers, Sequences, SequencesExt

CONSTANT Crc(_)      \* Protocol_Crc16, a function of a sequence of bytes

Byte == 0..255
U16  == 0..65535

START  == 126        \* PROTO_FRAME_START
ESCAPE == 125        \* PROTO_FRAME_ESCAPE

(* Definitions marked "Fault" are slips a programmer could make, each the    *)
(* faulty variant of the definition that follows it; only the mutation       *)
(* checks use them.                                                          *)

(* b ^ PROTO_FRAME_ESCAPE_XOR, which is 0x20: one bit of the byte flips. *)
EscapeXor(b) == IF (b \div 32) % 2 = 0 THEN b + 32 ELSE b - 32

Protocol_PutU16(value) == << value \div 256, value % 256 >>
(* Fault: little-endian. *)
GetU16Swapped(hi, lo) == 256 * lo + hi

Protocol_GetU16(hi, lo) == 256 * hi + lo

(* The de-stuffed contents of the frame of a payload: what follows START. *)
Body(payload) ==
  LET lenBytes == Protocol_PutU16(Len(payload))
  IN  lenBytes \o payload \o Protocol_PutU16(Crc(lenBytes \o payload))

-----------------------------------------------------------------------------
(* Frame_Encode *)

(* Faults: START left as it is; the escape byte escaped as well. *)
StuffEscapeOnly(b)  == IF b = ESCAPE THEN << ESCAPE, EscapeXor(b) >> ELSE << b >>
StuffEscapeTwice(b) ==
  IF b \in {START, ESCAPE} THEN << ESCAPE, ESCAPE, EscapeXor(b) >> ELSE << b >>

(* The raw bytes stuff_write_byte emits for one byte. *)
Stuff(b) == IF b \in {START, ESCAPE} THEN << ESCAPE, EscapeXor(b) >> ELSE << b >>

(* Those of a sequence of bytes. *)
Stuffed(bytes) == FlattenSeq([i \in DOMAIN bytes |-> Stuff(bytes[i])])

Frame(payload) == << START >> \o Stuffed(Body(payload))

(* Writing stops at the first byte that does not fit, so it fails exactly   *)
(* when the whole frame does not.                                           *)
Frame_Encode(payload, outBufCap) ==
  IF Len(Frame(payload)) > outBufCap
    THEN [res |-> "BUFFER_TOO_SMALL", framed |-> << >>]
    ELSE [res |-> "OK", framed |-> Frame(payload)]

-----------------------------------------------------------------------------
(* Frame_Decode *)

(* What has been de-stuffed: the bytes and, for each, how many raw bytes    *)
(* had been read after it.                                                  *)
Nothing == [bytes |-> << >>, ends |-> << >>, read |-> 0, escaped |-> FALSE]

(* One raw byte more; START has no special meaning here. *)
DestuffByte(d, b) ==
  IF b = ESCAPE /\ ~d.escaped
    THEN [d EXCEPT !.read = @ + 1, !.escaped = TRUE]
    ELSE [bytes   |-> Append(d.bytes, IF d.escaped THEN EscapeXor(b) ELSE b),
          ends    |-> Append(d.ends, d.read + 1),
          read    |-> d.read + 1,
          escaped |-> FALSE]

(* destuff_read_byte, applied for as long as raw bytes are left; a trailing *)
(* ESCAPE yields nothing.                                                   *)
Destuff(raw) ==
  LET after[n \in 0..Len(raw)] ==
        IF n = 0 THEN Nothing ELSE DestuffByte(after[n - 1], raw[n])
  IN  after[Len(raw)]

(* Fault: the checksum is read but not compared. *)
CrcIgnored(bytes, payloadLen) == TRUE

(* bytes are lenBytes, payload and crcBytes, de-stuffed. *)
CrcMatches(bytes, payloadLen) ==
  Crc(SubSeq(bytes, 1, payloadLen + 2))
    = Protocol_GetU16(bytes[payloadLen + 3], bytes[payloadLen + 4])

(* consumed is meaningful for OK and MALFORMED only, payload for OK only:   *)
(* the out-parameters the code sets.                                        *)
Frame_Decode(inBuf, outPayloadCap) ==
  LET startIdx   == SelectInSeq(inBuf, LAMBDA b : b = START)   \* 0 when there is none
      d          == Destuff(SubSeq(inBuf, startIdx + 1, Len(inBuf)))
      payloadLen == Protocol_GetU16(d.bytes[1], d.bytes[2])
      payload    == SubSeq(d.bytes, 3, payloadLen + 2)
      consumed   == startIdx + d.ends[payloadLen + 4]
      Result(res, p, n) == [res |-> res, payload |-> p, consumed |-> n]
  IN  IF startIdx = 0 \/ Len(d.bytes) < 2   THEN Result("INCOMPLETE", << >>, 0)
      ELSE IF payloadLen > outPayloadCap    THEN Result("BUFFER_TOO_SMALL", << >>, 0)
      ELSE IF Len(d.bytes) < payloadLen + 4 THEN Result("INCOMPLETE", << >>, 0)
      ELSE IF ~CrcMatches(d.bytes, payloadLen) THEN Result("MALFORMED", << >>, consumed)
      ELSE Result("OK", payload, consumed)

=============================================================================
