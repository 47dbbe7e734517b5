--------------------------- MODULE FrameTransfer ---------------------------
(***************************************************************************)
(* One frame from encoder to decoder, loop iteration by loop iteration:    *)
(* the LNC or the bridge runs Frame_Encode into its output buffer, the     *)
(* framed bytes arrive at the other end of the UART some at a time, behind *)
(* whatever noise the line already carried and followed by whatever is     *)
(* sent next, and the receiver runs Frame_Decode on all it has each time   *)
(* more arrives, as lnc_bridge/main.cpp does.  FrameCodec has the same two *)
(* functions as operators; StepsAgree says that the loops compute them.    *)
(***************************************************************************)
EXTENDS FrameCodec

CONSTANTS
  FramePayloads, \* the payloads that may be framed
  Noises,        \* what may precede the frame on the line: no START in it
  Tails,         \* what may follow it
  OutBufCap,     \* the encoder's buffer: 600 in the bridge
  OutPayloadCap  \* the decoder's payload buffer: 256 in the bridge

ASSUME PayloadsAssumption ==
  /\ \A p \in FramePayloads :
       /\ p \in Seq(Byte)
       /\ Len(p) \in U16
       /\ Crc(Protocol_PutU16(Len(p)) \o p) \in U16
  /\ \A n \in Noises : n \in Seq(Byte \ {START})
  /\ \A t \in Tails : t \in Seq(Byte)
  /\ OutBufCap \in Nat
  /\ OutPayloadCap \in Nat

VARIABLES
  pc,        \* "encode", then "arrive" and "scan"/"read" by turns, then "done"
  payload,   \* Frame_Encode's argument
  outBuf,    \* its outBuf, up to idx
  written,   \* how many bytes of Body it has written
  filled,    \* history: filled[k] is how much of outBuf the first k of them fill
  noise, tail,  \* what surrounds the frame on the line
  avail,     \* inLen: how many raw bytes have arrived
  idx,       \* Frame_Decode's startIdx, then its idx
  got,       \* the bytes it has de-stuffed: lenBytes, outPayload, crcBytes
  result     \* what the last call returned: res and outConsumed

encoder == << payload, outBuf, written, filled >>
decoder == << avail, idx, got >>
transfer == << pc, encoder, noise, tail, decoder, result >>

Line == noise \o outBuf \o tail     \* everything that is ever received

NoResult == [res |-> "NONE", consumed |-> 0]

TransferInit ==
  /\ pc = "encode"
  /\ payload \in FramePayloads
  /\ outBuf = << START >>
  /\ written = 0
  /\ filled = [k \in {0} |-> 1]
  /\ noise \in Noises
  /\ tail \in Tails
  /\ avail = 0 /\ idx = 0 /\ got = << >>
  /\ result = NoResult

(* One call of stuff_write_byte that finds room. *)
WriteByte ==
  /\ pc = "encode"
  /\ written < Len(Body(payload))
  /\ LET raw == Stuff(Body(payload)[written + 1])
     IN  /\ Len(outBuf) + Len(raw) <= OutBufCap
         /\ outBuf' = outBuf \o raw
         /\ filled' = [k \in 0..(written + 1) |->
                         IF k <= written THEN filled[k] ELSE Len(outBuf) + Len(raw)]
  /\ written' = written + 1
  /\ UNCHANGED << pc, payload, noise, tail, decoder, result >>

(* One that does not: Frame_Encode gives up and nothing is sent. *)
WriteFails ==
  /\ pc = "encode"
  /\ written < Len(Body(payload))
  /\ Len(outBuf) + Len(Stuff(Body(payload)[written + 1])) > OutBufCap
  /\ pc' = "done"
  /\ result' = [res |-> "ENCODE_TOO_SMALL", consumed |-> 0]
  /\ UNCHANGED << encoder, noise, tail, decoder >>

Encoded ==
  /\ pc = "encode"
  /\ written = Len(Body(payload))
  /\ pc' = "arrive"
  /\ UNCHANGED << encoder, noise, tail, decoder, result >>

(* Fault: one byte more is counted than was read. *)
ArriveOneMore ==
  /\ pc = "arrive"
  /\ \E n \in (avail + 1)..Len(Line) : avail' = n + 1
  /\ pc' = "scan"
  /\ idx' = 0
  /\ got' = << >>
  /\ UNCHANGED << encoder, noise, tail, result >>

(* Some more raw bytes reach the receiver, which calls Frame_Decode anew. *)
Arrive ==
  /\ pc = "arrive"
  /\ \E n \in (avail + 1)..Len(Line) : avail' = n
  /\ pc' = "scan"
  /\ idx' = 0
  /\ got' = << >>
  /\ UNCHANGED << encoder, noise, tail, result >>

Return(res, consumed, next) ==
  /\ result' = [res |-> res, consumed |-> consumed]
  /\ pc' = next
  /\ UNCHANGED << encoder, noise, tail, decoder >>

(* The first loop: skip a byte that is not START, or stop behind START. *)
ScanNoise ==
  /\ pc = "scan"
  /\ idx < avail /\ Line[idx + 1] # START
  /\ idx' = idx + 1
  /\ UNCHANGED << pc, encoder, noise, tail, avail, got, result >>

ScanStart ==
  /\ pc = "scan"
  /\ idx < avail /\ Line[idx + 1] = START
  /\ idx' = idx + 1
  /\ pc' = "read"
  /\ UNCHANGED << encoder, noise, tail, avail, got, result >>

ScanFails == pc = "scan" /\ idx >= avail /\ Return("INCOMPLETE", 0, "arrive")

DeclaredLen == Protocol_GetU16(got[1], got[2])

TooLarge == Len(got) >= 2 /\ DeclaredLen > OutPayloadCap

(* How many bytes the three loops still to run read in all, so far as known. *)
Needed == IF Len(got) < 2 THEN 2 ELSE DeclaredLen + 4

Escaped == Line[idx + 1] = ESCAPE

(* Fault: two raw bytes wanted for every byte. *)
CanReadTwo == idx + 1 < avail

CanRead == idx < avail /\ (Escaped => idx + 1 < avail)

(* One call of destuff_read_byte that has the raw bytes it needs. *)
ReadByte ==
  /\ pc = "read"
  /\ ~TooLarge /\ Len(got) < Needed
  /\ CanRead
  /\ IF Escaped
       THEN got' = Append(got, EscapeXor(Line[idx + 2])) /\ idx' = idx + 2
       ELSE got' = Append(got, Line[idx + 1]) /\ idx' = idx + 1
  /\ UNCHANGED << pc, encoder, noise, tail, avail, result >>

ReadFails ==
  /\ pc = "read"
  /\ ~TooLarge /\ Len(got) < Needed
  /\ ~CanRead
  /\ Return("INCOMPLETE", 0, "arrive")

RejectLength ==
  /\ pc = "read"
  /\ TooLarge
  /\ Return("BUFFER_TOO_SMALL", 0, "done")

CheckCrc ==
  /\ pc = "read"
  /\ ~TooLarge /\ Len(got) = Needed
  /\ Return(IF CrcMatches(got, DeclaredLen) THEN "OK" ELSE "MALFORMED", idx, "done")

TransferNext ==
  \/ WriteByte \/ WriteFails \/ Encoded
  \/ Arrive
  \/ ScanNoise \/ ScanStart \/ ScanFails
  \/ ReadByte \/ ReadFails \/ RejectLength \/ CheckCrc

TransferSpec == TransferInit /\ [][TransferNext]_transfer

-----------------------------------------------------------------------------
(* Correctness *)

FramedLen == Len(noise) + Len(outBuf)

(* The types of the variables. *)
TransferTypeOK ==
  /\ pc \in {"encode", "arrive", "scan", "read", "done"}
  /\ payload \in FramePayloads
  /\ outBuf \in Seq(Byte)
  /\ written \in Nat
  /\ filled \in [0..written -> Nat]
  /\ noise \in Noises
  /\ tail \in Tails
  /\ avail \in 0..Len(Line)
  /\ idx \in Nat
  /\ got \in Seq(Byte)
  /\ result.consumed \in Nat
  /\ result.res \in {"NONE", "ENCODE_TOO_SMALL", "INCOMPLETE", "BUFFER_TOO_SMALL",
                     "MALFORMED", "OK"}

(* What Frame_Decode may answer about a frame nothing has damaged, however   *)
(* the bytes were split on arrival: OK gives back the payload and consumes   *)
(* the noise and exactly the frame, leaving the next one; INCOMPLETE means   *)
(* that part of the frame is still missing; BUFFER_TOO_SMALL that the        *)
(* payload is too large; and it is never MALFORMED.                          *)
RoundTrip ==
  /\ result.res = "OK" => /\ SubSeq(got, 3, Len(got) - 2) = payload
                          /\ result.consumed = FramedLen
                          /\ avail >= FramedLen
  /\ result.res = "INCOMPLETE" /\ pc = "arrive" => avail < FramedLen
  /\ result.res = "BUFFER_TOO_SMALL" => Len(payload) > OutPayloadCap
  /\ result.res # "MALFORMED"

(* "A literal 0x7E in the data can never be mistaken for a frame boundary"   *)
(* (protocol.h): START is the first byte of what the encoder wrote and none  *)
(* of the others.                                                            *)
OnlyFirstIsStart ==
  \A i \in 1..Len(outBuf) : outBuf[i] = START <=> i = 1

(* The worst case the bridge sizes its 600-byte buffer for: framing at most  *)
(* doubles the payload, its length and its CRC, so a buffer of that size     *)
(* always suffices.                                                          *)
WorstCase(n) == 1 + 2 * (n + 4)

EncodeFits ==
  /\ Len(outBuf) <= WorstCase(Len(payload))
  /\ result.res = "ENCODE_TOO_SMALL" => OutBufCap < WorstCase(Len(payload))

(* The loops compute the operators of FrameCodec: the encoder's buffer is    *)
(* Frame(payload) once it is done, and each answer of the decoder is         *)
(* Frame_Decode of the bytes that had arrived.                               *)
StepsAgree ==
  /\ pc \in {"arrive", "scan", "read"} =>
       Frame_Encode(payload, OutBufCap) = [res |-> "OK", framed |-> outBuf]
  /\ result.res = "ENCODE_TOO_SMALL" => Frame_Encode(payload, OutBufCap).res = "BUFFER_TOO_SMALL"
  /\ (pc = "arrive" /\ avail > 0) \/ (pc = "done" /\ result.res # "ENCODE_TOO_SMALL") =>
       LET d == Frame_Decode(SubSeq(Line, 1, avail), OutPayloadCap)
       IN  result = [res |-> d.res, consumed |-> d.consumed]

-----------------------------------------------------------------------------
(* The inductive invariant *)

(* Byte k of the body lies, stuffed, right behind byte k - 1 in outBuf.      *)
LaidOut(k) ==
  LET raw == Stuff(Body(payload)[k])
  IN  /\ filled[k] = filled[k - 1] + Len(raw)
      /\ \A i \in 1..Len(raw) : outBuf[filled[k - 1] + i] = raw[i]

WireHoldsBody ==
  /\ written <= Len(Body(payload))
  /\ filled[0] = 1
  /\ filled[written] = Len(outBuf)
  /\ \A k \in 1..written : LaidOut(k)
  /\ \A j, k \in 0..written :
       j <= k => filled[j] + (k - j) <= filled[k] /\ filled[k] <= filled[j] + 2 * (k - j)

(* The decoder has read a prefix of the body, and stands behind the raw      *)
(* bytes that prefix takes.                                                  *)
GotIsPrefix ==
  /\ pc = "encode" => result.res = "NONE"
  /\ pc # "done" => result.res \in {"NONE", "INCOMPLETE"}
  /\ pc \in {"arrive", "scan", "read"} => written = Len(Body(payload))
  /\ pc \in {"scan", "read"} => avail > 0
  /\ pc = "scan" => idx <= Len(noise) /\ got = << >>
  /\ pc = "read" => /\ Len(got) <= Needed \/ TooLarge
                    /\ Len(got) <= Len(Body(payload))
                    /\ \A i \in 1..Len(got) : got[i] = Body(payload)[i]
                    /\ idx = Len(noise) + filled[Len(got)]
                    /\ idx <= avail

(* Everything at every moment: the bytes in outBuf are the body's, no    *)
(* START among them, and the decoder has read them back.                     *)
Inductive ==
  WireHoldsBody /\ OnlyFirstIsStart /\ GotIsPrefix /\ RoundTrip /\ EncodeFits

(* For StepsAgree: outBuf is the operators' Frame so far as it is written;   *)
(* and the decoder gave up waiting, or gave its answer, when Frame_Decode of *)
(* the same bytes does.                                                      *)
BuffersAgree ==
  /\ outBuf = << START >> \o Stuffed(SubSeq(Body(payload), 1, written))
  /\ \A k \in 0..written : filled[k] = 1 + Len(Stuffed(SubSeq(Body(payload), 1, k)))
  /\ written > 0 => Len(outBuf) <= OutBufCap

AnswersAgree ==
  /\ pc = "encode" => avail = 0
  /\ result.res = "ENCODE_TOO_SMALL" => pc = "done" /\ Len(Frame(payload)) > OutBufCap
  /\ pc = "arrive" /\ avail > 0 =>
       /\ result = [res |-> "INCOMPLETE", consumed |-> 0]
       /\ \/ avail < Len(noise) + filled[2]
          \/ Len(payload) <= OutPayloadCap /\ avail < FramedLen
  /\ pc = "done" /\ result.res # "ENCODE_TOO_SMALL" =>
       /\ written = Len(Body(payload)) /\ avail >= Len(noise) + filled[2]
       /\ \/ /\ Len(payload) > OutPayloadCap
             /\ result = [res |-> "BUFFER_TOO_SMALL", consumed |-> 0]
          \/ /\ Len(payload) <= OutPayloadCap /\ avail >= FramedLen
             /\ result = [res |-> "OK", consumed |-> FramedLen]

=============================================================================
