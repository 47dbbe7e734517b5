----------------------------- MODULE BridgeLink -----------------------------
(***************************************************************************)
(* The TCP link between lnc_bridge and the central computer's core: the    *)
(* bridge's end of it (bridge_server.cpp), called from its main loop, and  *)
(* the core's (lnc_link_client.cpp).  Messages are a 4-byte big-endian     *)
(* length and a payload; the kernel hands bytes over in whatever pieces it *)
(* likes.  The core connects, sends, receives, closes or crashes as it     *)
(* pleases: what it sends when is LncSession's subject.                    *)
(*                                                                         *)
(* The kernel's TCP (external) is: per connection a byte stream each way,  *)
(* and what a peer's departure makes of later calls.                       *)
(***************************************************************************)
EXTENDS Integers, Sequences, SequencesExt

CONSTANTS
  DownPayloads,   \* what the core may send
  UpPayloads,     \* what the bridge may have to forward
  RecvBufSize,    \* BRIDGE_RECV_BUF_SIZE: 512
  MaxLen,         \* the callers' buffer for one payload: 256
  SendRoom,       \* how many unread bytes the kernel keeps for the core
  MaxConns,       \* bound: connections made
  MaxDown,        \* bound: messages sent on one connection by the core
  MaxUp           \* bound: payloads forwarded in all

Conns == 1..MaxConns

ASSUME BridgeLinkAssumption ==
  /\ RecvBufSize \in Nat /\ MaxLen \in 1..(256 * 256 - 1) /\ SendRoom \in Nat
  /\ MaxConns \in Nat /\ MaxDown \in Nat /\ MaxUp \in Nat
  /\ \A p \in DownPayloads \cup UpPayloads : p \in Seq(0..255) /\ Len(p) \in 1..MaxLen

VARIABLES
  \* the bridge
  clientFd,   \* g_clientFd: the connection accepted, 0 for -1
  recvBuf,    \* the first g_recvLen bytes of g_recvBuf
  at,         \* the next call of the main loop, or "dead"
  sending,    \* the payload inside BridgeServer_Send, between its two sends
  \* the core
  fd,         \* the connection it has open, 0 for none
  \* the kernel
  made,       \* connections made so far
  backlog,    \* those the bridge has yet to accept
  down,       \* bytes under way to the bridge, per connection
  up,         \* bytes under way to the core, per connection
  peer,       \* what the bridge's kernel knows of the core's end:
              \*   open; fin: closed; rst: closed with bytes unread;
              \*   broken: a call has failed, so the next send is fatal
  left,       \* the connections the bridge has closed
  \* history
  sentDown, gotDown,   \* payloads sent by the core and returned by TryRecv
  sentUp, gotUp,       \* payloads sent by the bridge and received by the core
  short                \* connections to which a send() has written only a part

bridge == << clientFd, recvBuf, at, sending >>
kernel == << made, backlog, down, up, peer, left >>
history == << sentDown, gotDown, sentUp, gotUp, short >>
vars == << bridge, fd, kernel, history >>

None == << >>     \* no payload

Init ==
  /\ clientFd = 0 /\ recvBuf = << >> /\ at = "accept" /\ sending = None
  /\ fd = 0
  /\ made = 0 /\ backlog = << >> /\ left = {}
  /\ down = [c \in Conns |-> << >>] /\ up = [c \in Conns |-> << >>]
  /\ peer = [c \in Conns |-> "open"]
  /\ sentDown = [c \in Conns |-> << >>] /\ gotDown = [c \in Conns |-> << >>]
  /\ sentUp = [c \in Conns |-> << >>] /\ gotUp = [c \in Conns |-> << >>]
  /\ short = {}

Protocol_PutU32(value) ==
  << value \div (256 * 256 * 256), (value \div (256 * 256)) % 256, (value \div 256) % 256, value % 256 >>

Protocol_GetU32(b) == b[1] * (256 * 256 * 256) + b[2] * (256 * 256) + b[3] * 256 + b[4]

(* Fault: one off. *)
PrefixShort(payload) == Protocol_PutU32(Len(payload) - 1)

Prefix(payload) == Protocol_PutU32(Len(payload))

Message(payload) == Prefix(payload) \o payload

Drop(s, n) == SubSeq(s, n + 1, Len(s))

-----------------------------------------------------------------------------
(* The core: lnc_link_client.cpp *)

CcCore_LncConnect ==
  /\ fd = 0 /\ at # "dead"
  /\ made < MaxConns
  /\ made' = made + 1
  /\ fd' = made'
  /\ backlog' = Append(backlog, made')
  /\ UNCHANGED << bridge, down, up, peer, left, history >>

CcCore_LncSend ==
  /\ fd # 0 /\ fd \notin left
  /\ Len(sentDown[fd]) < MaxDown
  /\ \E p \in DownPayloads : /\ down' = [down EXCEPT ![fd] = @ \o Message(p)]
                             /\ sentDown' = [sentDown EXCEPT ![fd] = Append(@, p)]
  /\ UNCHANGED << bridge, fd, made, backlog, up, peer, left, gotDown, sentUp, gotUp,
                  short >>

(* The length of the message at the head of a stream, if it has one. *)
HeadLen(s) == Protocol_GetU32(SubSeq(s, 1, 4))

(* Fault: one byte of the next message has to be there too. *)
HasMore(s) == Len(s) >= 4 /\ Len(s) > 4 + HeadLen(s)

HasMessage(s) == Len(s) >= 4 /\ Len(s) >= 4 + HeadLen(s)

(* Both recv calls wait for all their bytes (MSG_WAITALL). *)
CcCore_LncRecv ==
  /\ fd # 0 /\ HasMessage(up[fd]) /\ HeadLen(up[fd]) \in 1..MaxLen
  /\ up' = [up EXCEPT ![fd] = Drop(@, 4 + HeadLen(@))]
  /\ gotUp' = [gotUp EXCEPT ![fd] = Append(@, SubSeq(up[fd], 5, 4 + HeadLen(up[fd])))]
  /\ UNCHANGED << bridge, fd, made, backlog, down, peer, left, sentDown, gotDown, sentUp,
                  short >>

(* What closing does to the bridge's end; a close with bytes unread is a     *)
(* reset.                                                                    *)
Hangup(c, unread) == [peer EXCEPT ![c] = IF unread = << >> THEN "fin" ELSE "rst"]

(* A length that is 0 or too large, which the core takes for the end of the  *)
(* connection.                                                               *)
CcCore_LncRecvFails ==
  /\ fd # 0 /\ Len(up[fd]) >= 4 /\ HeadLen(up[fd]) \notin 1..MaxLen
  /\ up' = [up EXCEPT ![fd] = Drop(@, 4)]
  /\ peer' = Hangup(fd, up'[fd])
  /\ fd' = 0
  /\ UNCHANGED << bridge, made, backlog, down, left, history >>

(* The core leaves: because CcCore_LncRecv has returned 0, or because it is  *)
(* stopped.                                                                  *)
CcCore_Close ==
  /\ fd # 0
  /\ peer' = Hangup(fd, up[fd])
  /\ fd' = 0
  /\ UNCHANGED << bridge, made, backlog, down, up, left, history >>

(* The core is killed between the two sends of CcCore_LncSend. *)
CcCore_CrashInSend ==
  /\ fd # 0 /\ fd \notin left
  /\ \E p \in DownPayloads : down' = [down EXCEPT ![fd] = @ \o Prefix(p)]
  /\ peer' = Hangup(fd, up[fd])
  /\ fd' = 0
  /\ UNCHANGED << bridge, made, backlog, up, left, history >>

-----------------------------------------------------------------------------
(* The bridge: bridge_server.cpp, in the order main calls it *)

(* Fault: bytes of the previous client are kept. *)
RecvBufKept == recvBuf

RecvBufOnAccept == << >>

BridgeServer_Accept ==
  /\ at = "accept"
  /\ at' = "uplink"
  /\ IF clientFd = 0 /\ backlog # << >>
       THEN /\ clientFd' = Head(backlog)
            /\ backlog' = Tail(backlog)
            /\ recvBuf' = RecvBufOnAccept
       ELSE UNCHANGED << clientFd, backlog, recvBuf >>
  /\ UNCHANGED << sending, fd, made, down, up, peer, left, history >>

(* No frame has been decoded this turn, or no client is there to have it. *)
NothingToForward ==
  /\ at = "uplink"
  /\ at' = "downlink"
  /\ UNCHANGED << clientFd, recvBuf, sending, fd, kernel, history >>

(* send() on the client's socket, which is non-blocking.  It writes what the *)
(* kernel has room for, which main takes for everything; it fails for want   *)
(* of any room (EAGAIN) or because the core has reset the connection; and a  *)
(* core that has closed answers with a reset, sooner or later, after which   *)
(* the next send() raises SIGPIPE, which nothing in the bridge handles.      *)
Writable == SendRoom - Len(up[clientFd])

Written(bytes) ==
  \/ /\ peer[clientFd] = "open" /\ Writable > 0
     /\ up' = [up EXCEPT ![clientFd] = @ \o SubSeq(bytes, 1, Min({Len(bytes), Writable}))]
     /\ short' = IF Writable < Len(bytes) THEN short \cup {clientFd} ELSE short
     /\ UNCHANGED peer
  \/ /\ peer[clientFd] = "fin"
     /\ peer' \in {peer, [peer EXCEPT ![clientFd] = "broken"]}
     /\ UNCHANGED << up, short >>

(* Fault: the descriptor is closed and kept. *)
ClosedKept == clientFd

(* g_clientFd behind close(). *)
Closed == 0

SendFails ==
  /\ \/ peer[clientFd] = "open" /\ Writable <= 0
     \/ peer[clientFd] = "rst"
  /\ left' = left \cup {clientFd}
  /\ clientFd' = Closed
  /\ UNCHANGED << recvBuf, backlog, up, peer, short >>

SigPipe ==
  /\ peer[clientFd] = "broken"
  /\ left' = left \cup {clientFd} \cup ToSet(backlog)
  /\ clientFd' = 0
  /\ recvBuf' = << >>
  /\ backlog' = << >>
  /\ UNCHANGED << up, peer, short >>

SendBytes(bytes, next) ==
  \/ /\ Written(bytes)
     /\ at' = next
     /\ UNCHANGED << clientFd, recvBuf, backlog, left >>
  \/ SendFails /\ at' = "downlink"
  \/ SigPipe /\ at' = "dead"

(* BridgeServer_Send, up to and including its first send. *)
SendPrefix ==
  /\ at = "uplink" /\ clientFd # 0
  /\ Len(FlattenSeq(sentUp)) < MaxUp
  /\ \E p \in UpPayloads :
       /\ SendBytes(Prefix(p), "payload")
       /\ sending' = IF at' = "payload" THEN p ELSE None
       /\ sentUp' = [sentUp EXCEPT ![clientFd] = Append(@, p)]
  /\ UNCHANGED << fd, made, down, sentDown, gotDown, gotUp >>

SendPayload ==
  /\ at = "payload"
  /\ SendBytes(sending, "downlink")
  /\ sending' = None
  /\ UNCHANGED << fd, made, down, sentDown, gotDown, sentUp, gotUp >>

(* The part of BridgeServer_TryRecv behind recv(): hand over one message if  *)
(* the buffer holds a whole one.                                             *)
TakeMessage(buf) ==
  IF HasMessage(buf)
    THEN /\ recvBuf' = Drop(buf, 4 + HeadLen(buf))
         /\ gotDown' = [gotDown EXCEPT ![clientFd] =
                          Append(@, SubSeq(buf, 5, 4 + Min({HeadLen(buf), MaxLen})))]
    ELSE recvBuf' = buf /\ UNCHANGED gotDown

RecvRoom == RecvBufSize - Len(recvBuf)

(* recv() has bytes, some or all of those under way, or none (EAGAIN). *)
TryRecvBytes ==
  /\ at = "downlink" /\ clientFd # 0
  /\ LET c == clientFd
         most == Min({Len(down[c]), RecvRoom})
     IN  /\ most > 0 \/ peer[c] = "open" \/ RecvRoom = 0
         /\ \E n \in Min({1, most})..most :
              /\ TakeMessage(recvBuf \o SubSeq(down[c], 1, n))
              /\ down' = [down EXCEPT ![c] = Drop(@, n)]
  /\ at' = "accept"
  /\ UNCHANGED << clientFd, sending, fd, made, backlog, up, peer, left,
                  sentDown, sentUp, gotUp, short >>

(* Faults: EAGAIN is taken for a close; a close after a reset is missed. *)
EofOrNothing(c) == down[c] = << >>
EofAfterFin(c) == down[c] = << >> /\ peer[c] = "fin"

Eof(c) == down[c] = << >> /\ peer[c] \in {"fin", "broken"}

(* recv() returns 0: the core has closed and nothing is left to read. *)
TryRecvClosed ==
  /\ at = "downlink" /\ clientFd # 0
  /\ RecvRoom > 0
  /\ Eof(clientFd)
  /\ left' = left \cup {clientFd}
  /\ clientFd' = Closed
  /\ recvBuf' = << >>
  /\ at' = "accept"
  /\ UNCHANGED << sending, fd, made, backlog, down, up, peer, history >>

(* recv() fails once after a reset, and the next call finds the connection   *)
(* closed.                                                                   *)
TryRecvReset ==
  /\ at = "downlink" /\ clientFd # 0
  /\ RecvRoom > 0
  /\ down[clientFd] = << >> /\ peer[clientFd] = "rst"
  /\ peer' = [peer EXCEPT ![clientFd] = "broken"]
  /\ TakeMessage(recvBuf)
  /\ at' = "accept"
  /\ UNCHANGED << clientFd, sending, fd, made, backlog, down, up, left,
                  sentDown, sentUp, gotUp, short >>

NoClient ==
  /\ at = "downlink" /\ clientFd = 0
  /\ at' = "accept"
  /\ UNCHANGED << clientFd, recvBuf, sending, fd, kernel, history >>

(* A bridge that died is started again: BridgeServer_Init. *)
BridgeServer_Init ==
  /\ at = "dead"
  /\ at' = "accept"
  /\ recvBuf' = << >>
  /\ UNCHANGED << clientFd, sending, fd, kernel, history >>

Core == CcCore_LncConnect \/ CcCore_LncSend \/ CcCore_LncRecv \/ CcCore_LncRecvFails
          \/ CcCore_Close \/ CcCore_CrashInSend

Turn == BridgeServer_Accept \/ NothingToForward \/ SendPrefix \/ SendPayload
          \/ TryRecvBytes \/ TryRecvClosed \/ TryRecvReset \/ NoClient

Next == Core \/ Turn \/ BridgeServer_Init

(* The bridge's loop goes round for as long as the bridge is alive; the core *)
(* owes it nothing, and nobody need restart it.                              *)
Spec == Init /\ [][Next]_vars /\ WF_vars(Turn)

-----------------------------------------------------------------------------
(* Correctness *)

(* The types of the variables; the buffer is never overrun, and the bridge's *)
(* client is neither one it has closed nor one it has yet to accept.         *)
TypeOK ==
  /\ clientFd \in 0..made /\ fd \in 0..made /\ made \in 0..MaxConns
  /\ clientFd \notin left \cup ToSet(backlog)
  /\ recvBuf \in Seq(0..255) /\ Len(recvBuf) <= RecvBufSize
  /\ at \in {"accept", "uplink", "payload", "downlink", "dead"}
  /\ sending \in UpPayloads \cup {None}
  /\ backlog \in Seq(1..made)
  /\ left \subseteq 1..made /\ short \subseteq 1..made
  /\ \A c \in Conns : /\ down[c] \in Seq(0..255) /\ up[c] \in Seq(0..255)
                      /\ peer[c] \in {"open", "fin", "rst", "broken"}

(* What TryRecv hands over are the messages of the client it is connected    *)
(* to, whole and in order: no bytes of one client, or of a message its       *)
(* sender never finished, end up in the messages of the next.                *)
DownInOrder == \A c \in Conns : IsPrefix(gotDown[c], sentDown[c])

(* What the core receives are the payloads BridgeServer_Send was given for   *)
(* that connection, whole and in order, two sends to each; except that a     *)
(* part of a message may be sent, behind which nothing is in its place.      *)
UpInOrder == \A c \in Conns \ short : IsPrefix(gotUp[c], sentUp[c])

(* The bridge, while it lives, gives up a connection only when the core has,  *)
(* or has left unread all that the kernel keeps for it: send() answers that  *)
(* with EAGAIN, which BridgeServer_Send does not tell from a disconnection.  *)
ClosedOnlyIfCoreLeft ==
  [][at' # "dead" =>
       \A c \in left' \ left : peer[c] # "open" \/ Len(up[c]) >= SendRoom]_vars

(* A core that connects becomes the bridge's client, whatever became of the  *)
(* client before it, and what it sends is handed over, all of it, unless it  *)
(* leaves or the bridge dies first.                                          *)
ClientIsServed ==
  \A c \in Conns :
    fd = c ~> (clientFd = c /\ gotDown[c] = sentDown[c]) \/ fd # c \/ c \in left

=============================================================================
