---------------------------- MODULE BridgeUplink ----------------------------
(***************************************************************************)
(* The uplink half of lnc_bridge/main.cpp: bytes of the LNC's frames reach *)
(* the UART at their own pace, the loop reads what is there into           *)
(* uartRxBuf, tries to decode one frame per turn and forwards its payload. *)
(* The LNC, which is not part of this repository, is what sends frames on  *)
(* the wire; the wire may lose, corrupt or invent bytes, and the LNC may   *)
(* reset in the middle of a frame.                                         *)
(***************************************************************************)
EXTENDS FrameCodec

CONSTANTS
  Payloads,     \* what the LNC may send
  RxBufSize,    \* sizeof(uartRxBuf): 256
  PayloadCap,   \* sizeof(payload): 256
  LineNoise,    \* what may be on the line before the first frame
  BadBytes,     \* the values a damaged or spurious byte may have
  MaxFrames,    \* bound: how many frames the LNC sends
  MaxFaults     \* bound: how many faults strike the wire

ASSUME BridgeUplinkAssumption ==
  /\ RxBufSize \in Nat \ {0} /\ PayloadCap \in Nat
  /\ MaxFrames \in Nat /\ MaxFaults \in Nat
  /\ BadBytes \subseteq Byte
  /\ \A p \in Payloads :
       p \in Seq(Byte) /\ Len(p) \in U16 /\ Crc(Protocol_PutU16(Len(p)) \o p) \in U16
  /\ \A n \in LineNoise : n \in Seq(Byte)

VARIABLES
  sent,        \* the payloads the LNC has framed and sent, in order
  wire,        \* raw bytes under way
  tty,         \* raw bytes the kernel holds for the bridge
  uartRxBuf,   \* the first uartRxLen bytes of the buffer
  loopAt,      \* where the loop is: about to "recv" or to "decode"
  forwarded,   \* the payloads handed to BridgeServer_Send, in order
  faults

lnc  == << sent, wire, faults >>
loop == << uartRxBuf, loopAt, forwarded >>
uplink == << lnc, tty, loop >>

UplinkInit ==
  /\ sent = << >>
  /\ wire \in LineNoise
  /\ tty = << >> /\ uartRxBuf = << >>
  /\ loopAt = "recv"
  /\ forwarded = << >>
  /\ faults = 0

-----------------------------------------------------------------------------
(* The LNC and the wire (external) *)

LncSend ==
  /\ Len(sent) < MaxFrames
  /\ \E p \in Payloads : sent' = Append(sent, p) /\ wire' = wire \o Frame(p)
  /\ UNCHANGED << faults, tty, loop >>

Fault(damaged) ==
  /\ faults < MaxFaults
  /\ faults' = faults + 1
  /\ wire' = damaged
  /\ UNCHANGED << sent, tty, loop >>

LoseByte    == \E i \in DOMAIN wire : Fault(RemoveAt(wire, i))
CorruptByte == \E i \in DOMAIN wire, b \in BadBytes : Fault([wire EXCEPT ![i] = b])
InventByte  == \E i \in 1..(Len(wire) + 1), b \in BadBytes : Fault(InsertAt(wire, i, b))

(* The LNC resets while it sends: only the beginning of a frame goes out. *)
LncReset ==
  \E p \in Payloads : \E k \in 1..(Len(Frame(p)) - 1) : Fault(wire \o SubSeq(Frame(p), 1, k))

ReachTty ==
  /\ \E k \in 1..Len(wire) : /\ tty' = tty \o SubSeq(wire, 1, k)
                             /\ wire' = SubSeq(wire, k + 1, Len(wire))
  /\ UNCHANGED << sent, faults, loop >>

-----------------------------------------------------------------------------
(* The loop *)

(* Fault: the whole size of the buffer. *)
RoomWhole == RxBufSize

Room == RxBufSize - Len(uartRxBuf)

(* Transport_Recv(uartRxBuf + uartRxLen, sizeof(uartRxBuf) - uartRxLen). *)
Recv ==
  /\ loopAt = "recv"
  /\ LET n == Min({Len(tty), Room})
     IN  /\ uartRxBuf' = uartRxBuf \o SubSeq(tty, 1, n)
         /\ tty' = SubSeq(tty, n + 1, Len(tty))
  /\ loopAt' = "decode"
  /\ UNCHANGED << lnc, forwarded >>

(* Faults: everything buffered goes with the frame; the payload's length is  *)
(* taken for the frame's.                                                    *)
RemainingNone(d)  == << >>
RemainingShort(d) == SubSeq(uartRxBuf, Len(d.payload) + 1, Len(uartRxBuf))

(* What memmove leaves in the buffer behind a frame. *)
Remaining(d) == SubSeq(uartRxBuf, d.consumed + 1, Len(uartRxBuf))

(* One turn's Frame_Decode and what is done about each of its answers. An    *)
(* empty buffer is not decoded, which would be INCOMPLETE.                   *)
Decode ==
  /\ loopAt = "decode"
  /\ LET d == Frame_Decode(uartRxBuf, PayloadCap)
     IN  CASE d.res = "OK" ->
                /\ forwarded' = Append(forwarded, d.payload)
                /\ uartRxBuf' = Remaining(d)
           [] d.res = "MALFORMED" ->
                /\ uartRxBuf' = Remaining(d)
                /\ UNCHANGED forwarded
           [] d.res = "BUFFER_TOO_SMALL" ->
                /\ uartRxBuf' = << >>
                /\ UNCHANGED forwarded
           [] d.res = "INCOMPLETE" ->
                UNCHANGED << uartRxBuf, forwarded >>
  /\ loopAt' = "recv"
  /\ UNCHANGED << lnc, tty >>

UplinkNext ==
  \/ LncSend \/ ReachTty
  \/ LoseByte \/ CorruptByte \/ InventByte \/ LncReset
  \/ Recv \/ Decode

(* The loop never stops, so each half of a turn is followed by the other,    *)
(* and bytes that were sent arrive.  The loop's fairness is stated on where  *)
(* it is, which Recv and Decode alone change.                                *)
ToDecode == loopAt = "recv" /\ loopAt' = "decode"
ToRecv   == loopAt = "decode" /\ loopAt' = "recv"

Fairness == WF_uplink(ReachTty) /\ WF_loopAt(ToDecode) /\ WF_loopAt(ToRecv)

UplinkSpec == UplinkInit /\ [][UplinkNext]_uplink /\ Fairness

-----------------------------------------------------------------------------
(* Correctness *)

(* The types of the variables; the buffer is never overrun. *)
UplinkTypeOK ==
  /\ sent \in Seq(Payloads)
  /\ wire \in Seq(Byte) /\ tty \in Seq(Byte)
  /\ uartRxBuf \in Seq(Byte) /\ Len(uartRxBuf) <= RxBufSize
  /\ loopAt \in {"recv", "decode"}
  /\ forwarded \in Seq(Seq(Byte))
  /\ faults \in 0..MaxFaults

(* "PROTO_ERR_INCOMPLETE: leave uartRxBuf as-is, wait for more bytes next    *)
(* iteration": when the loop goes round with an incomplete frame in the      *)
(* buffer, there is room for the bytes it waits for - so long as nothing has *)
(* damaged the frames.                                                       *)
WaitingHasRoom == loopAt = "recv" /\ faults = 0 => Len(uartRxBuf) < RxBufSize

(* So it is when no frame, with the noise before it, is larger than the      *)
(* buffer, nor its payload than the one payloads are decoded into.           *)
FramesFit ==
  \A n \in LineNoise \cup {<< >>} :
    /\ n \in Seq(Byte \ {START}) /\ Len(n) < RxBufSize
    /\ \A p \in Payloads : Len(p) <= PayloadCap /\ Len(n) + Len(Frame(p)) <= RxBufSize

(* The uplink is a pipe: on a wire without faults every payload is forwarded *)
(* once, in order, eventually; and when the wire loses, changes or invents a *)
(* byte, or the LNC resets, nothing is forwarded that the LNC did not send,  *)
(* nothing twice and nothing out of order.                                   *)
Pipe == INSTANCE PayloadPipe WITH damaged <- faults > 0
PipeSpec == Pipe!Spec

(* Why it is: until the first fault, what is under way is the frames of the  *)
(* payloads not forwarded yet, behind the noise if none has been.            *)
FramesOf(payloads) == FlattenSeq([i \in DOMAIN payloads |-> Frame(payloads[i])])

StreamIntact ==
  faults = 0 =>
    \E k \in 0..Len(sent), n \in LineNoise \cup {<< >>} :
      /\ forwarded = SubSeq(sent, 1, k)
      /\ uartRxBuf \o (tty \o wire) = n \o FramesOf(SubSeq(sent, k + 1, Len(sent)))

=============================================================================
