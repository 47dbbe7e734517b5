--------------------------- MODULE BridgeDownlink ---------------------------
(***************************************************************************)
(* The downlink half of lnc_bridge/main.cpp: what BridgeServer_TryRecv     *)
(* hands over is framed and written to the UART in the same turn of the    *)
(* loop, so this module adds to the steps of BridgeLink what they do to    *)
(* the line.  The tty is non-blocking and Transport_Send's answer is not   *)
(* looked at: when its buffer is full the beginning of a frame goes out,   *)
(* or nothing does, and the loop goes on with the next message.            *)
(*                                                                         *)
(* The LNC (external) shares Frame_Decode with the bridge and is taken to  *)
(* call it as the bridge does, whenever something has been written.        *)
(***************************************************************************)
EXTENDS BridgeLink, FrameCodec

CONSTANTS
  FramedSize,   \* sizeof(framed): 600
  LncCap,       \* the longest payload the LNC admits
  Cuts,         \* how much of a frame the tty may take, if not all
  MaxCuts       \* bound: frames it does not take whole

ASSUME BridgeDownlinkAssumption ==
  /\ FramedSize \in Nat /\ LncCap \in Nat /\ MaxCuts \in Nat /\ Cuts \subseteq Nat
  /\ \A p \in DownPayloads : Len(p) \in U16 /\ Crc(Protocol_PutU16(Len(p)) \o p) \in U16

VARIABLES
  lncRx,    \* raw bytes the LNC has yet to decode
  lncGot,   \* the payloads it has decoded
  cuts

line == << lncRx, lncGot, cuts >>

DownlinkInit == Init /\ lncRx = << >> /\ lncGot = << >> /\ cuts = 0

-----------------------------------------------------------------------------
(* The LNC (external) *)

(* One call of Frame_Decode on what it has; nothing changes once there is    *)
(* nothing more to decode.                                                   *)
DecodeOnce(lnc) ==
  LET d == Frame_Decode(lnc.rx, LncCap)
      Consumed == SubSeq(lnc.rx, d.consumed + 1, Len(lnc.rx))
  IN  IF lnc.rx = << >> THEN lnc
      ELSE CASE d.res = "OK"               -> [rx |-> Consumed, got |-> Append(lnc.got, d.payload)]
             [] d.res = "MALFORMED"        -> [rx |-> Consumed, got |-> lnc.got]
             [] d.res = "BUFFER_TOO_SMALL" -> [rx |-> << >>, got |-> lnc.got]
             [] d.res = "INCOMPLETE"       -> lnc

(* It decodes all there is to decode; each call that does anything consumes  *)
(* a byte at least.                                                          *)
DecodeAll(raw) ==
  LET after[n \in 0..Len(raw)] ==
        IF n = 0 THEN [rx |-> raw, got |-> lncGot] ELSE DecodeOnce(after[n - 1])
  IN  after[Len(raw)]

LncReceives(bytes) ==
  \E lnc \in {DecodeAll(lncRx \o bytes)} : lncRx' = lnc.rx /\ lncGot' = lnc.got

-----------------------------------------------------------------------------
(* The bridge *)

(* Serial_Send: write() takes all of the frame, or what there is room for.   *)
Transport_Send(framed) ==
  \/ /\ LncReceives(framed)
     /\ UNCHANGED cuts
  \/ /\ cuts < MaxCuts
     /\ cuts' = cuts + 1
     /\ \E k \in {n \in Cuts : n < Len(framed)} : LncReceives(SubSeq(framed, 1, k))

(* Fault: the payload goes out without its envelope. *)
EnvelopeNot(payload) == payload

Envelope(payload) == Frame_Encode(payload, FramedSize).framed

(* The message a step of BridgeLink hands over, if it does. *)
HandedOver == {Last(gotDown'[c]) : c \in {d \in Conns : Len(gotDown'[d]) > Len(gotDown[d])}}

(* An empty payload is not told from there being none. *)
Downlink ==
  \/ HandedOver \subseteq {<< >>} /\ UNCHANGED line
  \/ \E payload \in HandedOver \ {<< >>} : \E framed \in {Envelope(payload)} : Transport_Send(framed)

DownlinkNext ==
  \/ (Core \/ BridgeServer_Init \/ BridgeServer_Accept \/ NothingToForward
        \/ SendPrefix \/ SendPayload \/ TryRecvClosed \/ NoClient) /\ UNCHANGED line
  \/ (TryRecvBytes \/ TryRecvReset) /\ Downlink

DownlinkSpec ==
  DownlinkInit /\ [][DownlinkNext]_<< vars, line >> /\ WF_vars(Turn)

-----------------------------------------------------------------------------
(* Correctness *)

DownPipe == INSTANCE PayloadPipe
          WITH Payloads <- DownPayloads, sent <- FlattenSeq(gotDown), forwarded <- lncGot,
               damaged <- cuts > 0

(* What the LNC receives is what the clients' messages were, one connection  *)
(* after the other: all of it as long as the tty takes frames whole; and     *)
(* when a frame has been cut, with the next one behind it, still nothing     *)
(* that was not sent, nothing twice and nothing out of order.                *)
LncGetsWhatWasSent ==
  IF cuts = 0 THEN lncGot = FlattenSeq(gotDown)
              ELSE DownPipe!Subsequence(lncGot, FlattenSeq(gotDown))

(* For all of it to arrive, the buffers have to be large enough.             *)
DownlinkFits ==
  \A p \in DownPayloads : Len(p) <= LncCap /\ Len(Frame(p)) <= FramedSize

(* What may reach the LNC of a frame, if not all of it. *)
CutFrames(p) == {SubSeq(Frame(p), 1, k) : k \in {n \in Cuts : n < Len(Frame(p))}}

PiecesOf(p) == {Frame(p)} \cup CutFrames(p)

Pieces == UNION {PiecesOf(p) : p \in DownPayloads}

(* And for nothing else to arrive, the checksum has to tell a cut frame from *)
(* a whole one, whatever comes behind it.                                    *)
CutsAreNoticed(Rests) ==
  \A p \in DownPayloads : \A cut \in CutFrames(p) \ {<< >>}, rest \in Rests :
     Frame_Decode(cut \o FlattenSeq(rest), LncCap).res # "OK"

=============================================================================
