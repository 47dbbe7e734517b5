------------------------------- MODULE GsLink -------------------------------
(***************************************************************************)
(* The Ground Station link: the thread of the central computer that serves *)
(* it (comm_gs.cpp), one client after the other, and the client program    *)
(* (ground_station), which greets, asks for measurements, asks for events  *)
(* and leaves.  Any of the clients may be stopped at any moment, and takes *)
(* its time over its prompts.  Its greeting and the ranges it asks for are *)
(* well formed.                                                            *)
(*                                                                         *)
(* What the store returns is any number of records of the sizes records    *)
(* have (DataCollection says which records).  Lengths are uint16_t where   *)
(* the code has them so, with U16Max + 1 = Wrap.                           *)
(***************************************************************************)
EXTENDS Integers, Sequences, SequencesExt, FiniteSetsExt

CONSTANTS
  Clients,              \* runs of ground_station
  Sizes,                \* record sizes, of "LOG" and of "EVENTS"
  StatusSize,           \* size of the status field: 4
  GS_RESP_MAX_PAYLOAD,  \* 60000
  Wrap,                 \* 65536
  MaxRecords,           \* bound: records a query finds
  MaxKills              \* bound: clients stopped

ASSUME GsLinkAssumption ==
  /\ DOMAIN Sizes = {"LOG", "EVENTS"}
  /\ \A q \in DOMAIN Sizes : Sizes[q] \subseteq Nat \ 0..3
  /\ StatusSize \in Nat \ 0..3 /\ GS_RESP_MAX_PAYLOAD \in Nat
  /\ StatusSize <= GS_RESP_MAX_PAYLOAD
  /\ Wrap \in Nat \ {0}
  \* a response that exceeds the limit by a record stays below Wrap
  /\ \A q \in DOMAIN Sizes : \A size \in Sizes[q] : GS_RESP_MAX_PAYLOAD + size + 3 < Wrap
  /\ MaxRecords \in Nat /\ MaxKills \in Nat

VARIABLES
  \* the thread
  at,        \* where it is, or "dead"
  clientFd,  \* whom it serves
  out,       \* the message it is sending
  \* the clients
  pc,        \* where each is
  asks,      \* what each asks for, or will next
  value,     \* the fields of the response each is walking through
  offset,    \* and how far it is
  printed,   \* the sizes of the records each has printed of that response
  \* the kernel
  backlog,   \* clients to be accepted
  toServer, toClient,
  peer,      \* what the server's kernel knows of the client's end:
             \*   open; fin: closed; rst: closed with bytes unread;
             \*   broken: a call has failed, so the next send is fatal
  \* history
  found,     \* the records each client's last query has found
  kills

thread == << at, clientFd, out >>
walk   == << value, offset, printed >>
kernel == << backlog, toServer, toClient, peer >>
vars   == << thread, pc, asks, walk, kernel, found, kills >>

None == [tag |-> "NONE"]

Init ==
  /\ at = "accept" /\ clientFd \in Clients /\ out = None
  /\ pc = [c \in Clients |-> "start"] /\ asks = [c \in Clients |-> "LOG"]
  /\ value = [c \in Clients |-> << >>] /\ offset = [c \in Clients |-> 0]
  /\ printed = [c \in Clients |-> << >>]
  /\ backlog = << >>
  /\ toServer = [c \in Clients |-> << >>] /\ toClient = [c \in Clients |-> << >>]
  /\ peer = [c \in Clients |-> "open"]
  /\ found = [c \in Clients |-> << >>] /\ kills = 0

-----------------------------------------------------------------------------
(* The thread: CC_GsLink_Run *)

Accept ==
  /\ at = "accept" /\ backlog # << >>
  /\ clientFd' = Head(backlog)
  /\ backlog' = Tail(backlog)
  /\ at' = "greet"
  /\ UNCHANGED << out, pc, asks, walk, toServer, toClient, peer, found, kills >>

RecvGreeting ==
  /\ at = "greet" /\ toServer[clientFd] # << >>
  /\ toServer' = [toServer EXCEPT ![clientFd] = Tail(@)]
  /\ out' = [tag |-> "CC_HELLO_ACK"]
  /\ at' = "send prefix"
  /\ UNCHANGED << clientFd, pc, asks, walk, backlog, toClient, peer, found, kills >>

(* Fault: it waits for another request. *)
ServesOn == at

AfterDisconnect == "accept"

(* recv() returns 0, or an error the first time after a reset. *)
RecvEof ==
  /\ at \in {"greet", "recv"} /\ toServer[clientFd] = << >> /\ peer[clientFd] # "open"
  /\ at' = AfterDisconnect
  /\ UNCHANGED << clientFd, out, pc, asks, walk, kernel, found, kills >>

(* Fault: the limit is not kept to. *)
RecordsUnlimited(q, records) == records

(* Records are added to the status until they exceed the limit. *)
SizeOf(records) ==
  LET size[k \in 0..Len(records)] == IF k = 0 THEN 0 ELSE size[k - 1] + records[k]
  IN  size[Len(records)]

Records(q, records) ==
  LET fits == {k \in DOMAIN records : StatusSize + SizeOf(SubSeq(records, 1, k - 1)) <= GS_RESP_MAX_PAYLOAD}
  IN  SubSeq(records, 1, Cardinality(fits))

(* CC_GsLink_HandleGetLog, CC_GsLink_HandleGetEvents: the records the store  *)
(* has, up to a limit.                                                       *)
Dispatch ==
  /\ at = "recv" /\ toServer[clientFd] # << >>
  /\ toServer' = [toServer EXCEPT ![clientFd] = Tail(@)]
  /\ LET q == Head(toServer[clientFd]).tag
     IN  \E records \in BoundedSeq(Sizes[q], MaxRecords) :
           /\ found' = [found EXCEPT ![clientFd] = records]
           /\ out' = [tag |-> q, status |-> IF records = << >> THEN "NO_DATA_FOUND" ELSE "SUCCESS",
                      records |-> Records(q, records)]
  /\ at' = "send prefix"
  /\ UNCHANGED << clientFd, pc, asks, walk, backlog, toClient, peer, kills >>

(* One of the two calls of send() for a message; what they return is         *)
(* ignored.  A client that has closed answers with a reset, sooner or later. *)
Sent(next) ==
  \/ /\ peer[clientFd] = "open" /\ at' = next /\ UNCHANGED peer
  \/ /\ peer[clientFd] = "fin" /\ at' = next
     /\ peer' \in {peer, [peer EXCEPT ![clientFd] = "broken"]}
  \/ /\ peer[clientFd] = "rst" /\ at' = next
     /\ peer' = [peer EXCEPT ![clientFd] = "broken"]
  \/ /\ peer[clientFd] = "broken" /\ at' = "dead"     \* SIGPIPE
     /\ UNCHANGED peer

SendPrefix ==
  /\ at = "send prefix"
  /\ Sent("send message")
  /\ UNCHANGED << clientFd, out, pc, asks, walk, backlog, toServer, toClient, found, kills >>

(* Fault: the next client's turn after one response. *)
OneReplyEach == "accept"

AfterReply == "recv"

SendMessage ==
  /\ at = "send message"
  /\ Sent(AfterReply)
  /\ toClient' = IF peer[clientFd] = "open"
                   THEN [toClient EXCEPT ![clientFd] = Append(@, out)] ELSE toClient
  /\ out' = None
  /\ UNCHANGED << clientFd, pc, asks, walk, backlog, toServer, found, kills >>

-----------------------------------------------------------------------------
(* ground_station *)

Connect(c) ==
  /\ pc[c] = "start" /\ at # "dead"
  /\ pc' = [pc EXCEPT ![c] = "greeted"]
  /\ backlog' = Append(backlog, c)
  /\ toServer' = [toServer EXCEPT ![c] = << [tag |-> "GS_HELLO"] >>]
  /\ UNCHANGED << thread, asks, walk, toClient, peer, found, kills >>

RecvReply(c) ==
  /\ pc[c] = "greeted" /\ toClient[c] # << >>
  /\ toClient' = [toClient EXCEPT ![c] = Tail(@)]
  /\ pc' = [pc EXCEPT ![c] = "ask"]
  /\ UNCHANGED << thread, asks, walk, backlog, toServer, peer, found, kills >>

(* Gs_RequestLog, Gs_RequestEvents: the request ... *)
Request(c) ==
  /\ pc[c] = "ask" /\ at # "dead"
  /\ pc' = [pc EXCEPT ![c] = "await"]
  /\ toServer' = [toServer EXCEPT ![c] = Append(@, [tag |-> asks[c]])]
  /\ UNCHANGED << thread, asks, walk, backlog, toClient, peer, found, kills >>

Closed(c) == [peer EXCEPT ![c] = IF toClient[c] = << >> THEN "fin" ELSE "rst"]

(* Measurements are followed by events, events by close(). *)
Finished(c) ==
  IF asks[c] = "LOG"
    THEN /\ asks' = [asks EXCEPT ![c] = "EVENTS"]
         /\ pc' = [pc EXCEPT ![c] = "ask"]
         /\ UNCHANGED peer
    ELSE /\ pc' = [pc EXCEPT ![c] = "done"]
         /\ peer' = Closed(c)
         /\ UNCHANGED asks

(* ... the response, whose fields are the status and the records ... *)
RecvResponse(c) ==
  /\ pc[c] = "await" /\ toClient[c] # << >>
  /\ toClient' = [toClient EXCEPT ![c] = Tail(@)]
  /\ LET r == Head(toClient[c])
     IN  /\ printed' = [printed EXCEPT ![c] = << >>]
         /\ IF r.tag = asks[c] /\ r.status = "SUCCESS"
              THEN /\ value' = [value EXCEPT ![c] = << StatusSize >> \o r.records]
                   /\ offset' = [offset EXCEPT ![c] = 0]
                   /\ pc' = [pc EXCEPT ![c] = "walk"]
                   /\ UNCHANGED << asks, peer >>
              ELSE Finished(c) /\ UNCHANGED << value, offset >>
  /\ UNCHANGED << thread, backlog, toServer, found, kills >>

(* ... and the walk through them.  WrapMessage keeps 16 bits of the length.  *)
ValueLen(c) == SizeOf(value[c]) % Wrap

MayWalkOn(c) == (offset[c] + 3) % Wrap <= ValueLen(c)

FieldStart(c, i) == SizeOf(SubSeq(value[c], 1, i - 1))

Behind(o, size) == (o + size) % Wrap

(* The second field is the first record.  An offset where no field begins    *)
(* is in the middle of something: what is printed then is no record.         *)
WalkField(c) ==
  /\ pc[c] = "walk" /\ MayWalkOn(c)
  /\ \/ \E i \in DOMAIN value[c] :
          /\ offset[c] = FieldStart(c, i)
          /\ offset' = [offset EXCEPT ![c] = Behind(@, value[c][i])]
          /\ printed' = [printed EXCEPT ![c] = IF i = 1 THEN @ ELSE Append(@, value[c][i])]
     \/ /\ \A i \in DOMAIN value[c] : offset[c] # FieldStart(c, i)
        /\ offset' = [offset EXCEPT ![c] = ValueLen(c)]
        /\ printed' = [printed EXCEPT ![c] = Append(@, 0)]
  /\ UNCHANGED << thread, pc, asks, value, kernel, found, kills >>

WalkDone(c) ==
  /\ pc[c] = "walk" /\ ~MayWalkOn(c)
  /\ Finished(c)
  /\ UNCHANGED << thread, walk, backlog, toServer, toClient, found, kills >>

Kill(c) ==
  /\ pc[c] \in {"greeted", "ask", "await", "walk"}
  /\ kills < MaxKills
  /\ kills' = kills + 1
  /\ pc' = [pc EXCEPT ![c] = "killed"]
  /\ peer' = Closed(c)
  /\ UNCHANGED << thread, asks, walk, backlog, toServer, toClient, found >>

Thread == Accept \/ RecvGreeting \/ RecvEof \/ Dispatch \/ SendPrefix \/ SendMessage

Client(c) == RecvReply(c) \/ Request(c) \/ RecvResponse(c) \/ WalkField(c) \/ WalkDone(c)

Next == Thread \/ \E c \in Clients : Connect(c) \/ Client(c) \/ Kill(c)

(* The thread runs, and whoever is at a client's prompts answers them.       *)
Spec == Init /\ [][Next]_vars /\ WF_vars(Thread) /\ \A c \in Clients : WF_vars(Client(c))

-----------------------------------------------------------------------------
(* Correctness *)

(* The types of the variables; whoever is in the backlog has not been        *)
(* answered, whoever has been and has not left is the one client served, and *)
(* a walk stays inside its response.                                         *)
TypeOK ==
  /\ at \in {"accept", "greet", "recv", "send prefix", "send message", "dead"}
  /\ clientFd \in Clients
  /\ pc \in [Clients -> {"start", "greeted", "ask", "await", "walk", "done", "killed"}]
  /\ asks \in [Clients -> {"LOG", "EVENTS"}]
  /\ peer \in [Clients -> {"open", "fin", "rst", "broken"}]
  /\ \A c \in ToSet(backlog) : toClient[c] = << >> /\ pc[c] \in {"greeted", "killed"}
  /\ \A c \in Clients : pc[c] \in {"ask", "await", "walk"} => c = clientFd /\ at # "accept"
  /\ \A c \in Clients : pc[c] = "walk" => offset[c] <= SizeOf(value[c])
  /\ kills \in 0..MaxKills

(* "This stays safely under that": the limit is chosen so that no length     *)
(* wraps, and the client that has walked through a response has printed the  *)
(* records in it, which are the first that were found for its own request.   *)
Walked(c) == pc[c] = "walk" /\ ~MayWalkOn(c)

PrintsRecords ==
  \A c \in Clients : Walked(c) =>
    /\ printed[c] = Tail(value[c])
    /\ printed[c] # << >> /\ IsPrefix(printed[c], found[c])

(* A client that connects gets through both its queries, if neither it nor   *)
(* the central computer is stopped, and whoever was before it leaves or is   *)
(* stopped: a client that goes away at any moment does not hold up the next. *)
EveryoneServed ==
  \A c \in Clients : pc[c] = "greeted" ~> (pc[c] \in {"done", "killed"} \/ at = "dead")

=============================================================================
