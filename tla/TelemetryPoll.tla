--------------------------- MODULE TelemetryPoll ---------------------------
(***************************************************************************)
(* The connection a combat submarine of oop_fleet has to an LNC of its own *)
(* (oop_fleet/central_computer.cpp).  Nothing reads it but a poll, when    *)
(* the submarine is displayed, which takes what has arrived by then, at    *)
(* most PollLimit messages, and remembers the latest measurement.          *)
(*                                                                         *)
(* A byte on the connection is known by the message it belongs to and its  *)
(* position in it.  Of the bridge (external) nothing is assumed but that   *)
(* it sends telemetry and may close, after which the rest still arrives.   *)
(***************************************************************************)
EXTENDS Integers, Sequences, SequencesExt

CONSTANTS
  Lens,          \* how long the payload of a message may be
  MaxLen,        \* sizeof(storage): 256
  PollLimit,     \* 5
  MaxConns,      \* bound: connections made
  MaxSent        \* bound: messages sent on one

ASSUME TelemetryPollAssumption ==
  /\ MaxLen \in Nat /\ Lens \subseteq 1..MaxLen
  /\ PollLimit \in Nat \ {0}
  /\ MaxConns \in Nat /\ MaxSent \in Nat

VARIABLES
  connected,   \* fd_ >= 0
  at,          \* where the poll is: "idle", "prefix" or "payload"
  turn,        \* its i
  len,         \* its len
  haveLatest, latest,
  \* the connection
  sent,        \* the messages the bridge has sent on it
  coming,      \* their bytes under way
  arrived,     \* and those to be read
  closed,      \* whether the bridge has closed its end
  \* history
  conns,
  taken,       \* the messages polled on it, 0 for what is none
  split        \* whether a poll on it has met part of a length

poll == << at, turn, len >>
link == << sent, coming, arrived, closed >>
history == << conns, taken, split >>
vars == << connected, poll, haveLatest, latest, link, history >>

Init ==
  /\ connected = FALSE
  /\ at = "idle" /\ turn = 0 /\ len = 0
  /\ haveLatest = FALSE /\ latest = 0
  /\ sent = << >> /\ coming = << >> /\ arrived = << >> /\ closed = FALSE
  /\ conns = 0 /\ taken = << >> /\ split = FALSE

-----------------------------------------------------------------------------
(* The bridge and the network (external) *)

Bytes(id, n) == [i \in 1..n |-> [id |-> id, pos |-> i]]

Send ==
  /\ connected /\ ~closed /\ Len(sent) < MaxSent
  /\ \E n \in Lens, m \in BOOLEAN :
       /\ sent' = Append(sent, [len |-> n, measured |-> m])
       /\ coming' = coming \o Bytes(Len(sent'), 4 + n)
  /\ UNCHANGED << connected, poll, haveLatest, latest, arrived, closed, history >>

Close ==
  /\ connected /\ ~closed
  /\ closed' = TRUE
  /\ UNCHANGED << connected, poll, haveLatest, latest, sent, coming, arrived, history >>

Arrive ==
  /\ \E k \in 1..Len(coming) :
       /\ arrived' = arrived \o SubSeq(coming, 1, k)
       /\ coming' = SubSeq(coming, k + 1, Len(coming))
  /\ UNCHANGED << connected, poll, haveLatest, latest, sent, closed, history >>

-----------------------------------------------------------------------------
(* CentralComputer *)

(* Fault: the measurement is kept. *)
HaveKept == haveLatest

HaveAfterClose == FALSE

(* A new connection; the old one, if there is one, is given up. *)
Connect ==
  /\ at = "idle" /\ conns < MaxConns
  /\ conns' = conns + 1
  /\ \/ connected' = TRUE
     \/ connected' = FALSE
  /\ haveLatest' = IF connected THEN HaveAfterClose ELSE haveLatest
  /\ sent' = << >> /\ coming' = << >> /\ arrived' = << >> /\ closed' = FALSE
  /\ taken' = << >> /\ split' = FALSE
  /\ UNCHANGED << poll, latest >>

GiveUp ==
  /\ connected' = FALSE
  /\ haveLatest' = HaveAfterClose

(* The mission ends. *)
Disconnect ==
  /\ at = "idle" /\ connected
  /\ GiveUp
  /\ UNCHANGED << poll, latest, link, history >>

PollLatestTelemetry ==
  /\ at = "idle" /\ connected
  /\ at' = "prefix" /\ turn' = 0
  /\ UNCHANGED << connected, len, haveLatest, latest, link, history >>

Return ==
  /\ at' = "idle"
  /\ UNCHANGED << turn, len >>

(* Fault: the turns are not counted against the limit. *)
NoLimit == TRUE

MayTakeMore == turn < PollLimit

PollEnds ==
  /\ at = "prefix" /\ ~MayTakeMore
  /\ Return
  /\ UNCHANGED << connected, haveLatest, latest, link, history >>

Eof == closed /\ coming = << >> /\ arrived = << >>

(* recv(): nothing, or the end of the connection. *)
RecvNothing ==
  /\ at = "prefix" /\ MayTakeMore
  /\ arrived = << >>
  /\ IF Eof THEN GiveUp ELSE UNCHANGED << connected, haveLatest >>
  /\ Return
  /\ UNCHANGED << latest, link, history >>

(* Some of the four bytes have arrived, and are gone with this poll. *)
RecvPartOfPrefix ==
  /\ at = "prefix" /\ MayTakeMore
  /\ Len(arrived) \in 1..3
  /\ arrived' = << >>
  /\ split' = TRUE
  /\ Return
  /\ UNCHANGED << connected, haveLatest, latest, sent, coming, closed, conns, taken >>

(* Whether the next n bytes are those of one message from position i. *)
Together(n, i) == \A k \in 1..n : arrived[k] = [id |-> arrived[1].id, pos |-> i + k - 1]

(* A length made of other bytes may be any. *)
LengthRead == IF Together(4, 1) THEN {sent[arrived[1].id].len} ELSE 0..(MaxLen + 1)

RecvPrefix ==
  /\ at = "prefix" /\ MayTakeMore
  /\ Len(arrived) >= 4
  /\ len' \in LengthRead
  /\ arrived' = SubSeq(arrived, 5, Len(arrived))
  /\ at' = IF len' = 0 \/ len' > MaxLen THEN "idle" ELSE "payload"
  /\ UNCHANGED << connected, turn, haveLatest, latest, sent, coming, closed, history >>

(* The message a payload is, all of it. *)
MessageRead ==
  LET id == arrived[1].id
  IN  IF Together(len, 5) /\ sent[id].len = len THEN id ELSE 0

(* An event without a measurement leaves what is cached as it is; so does a  *)
(* payload that is no telemetry.                                             *)
RecvPayload ==
  /\ at = "payload" /\ Len(arrived) >= len
  /\ LET id == MessageRead
     IN  /\ taken' = Append(taken, id)
         /\ IF id # 0 /\ sent[id].measured
              THEN latest' = id /\ haveLatest' = TRUE
              ELSE UNCHANGED << latest, haveLatest >>
  /\ arrived' = SubSeq(arrived, len + 1, Len(arrived))
  /\ at' = "prefix" /\ turn' = turn + 1
  /\ UNCHANGED << connected, len, sent, coming, closed, conns, split >>

(* Fault: another poll may bring the rest. *)
StayConnected == UNCHANGED << connected, haveLatest >>

PayloadMissing == GiveUp

(* After half a second, or at the end of the connection, part of the payload *)
(* is still missing.                                                         *)
RecvTimeout ==
  /\ at = "payload" /\ Len(arrived) < len
  /\ arrived' = << >>
  /\ PayloadMissing
  /\ Return
  /\ UNCHANGED << latest, sent, coming, closed, history >>

Next ==
  \/ Send \/ Close \/ Arrive
  \/ Connect \/ Disconnect
  \/ PollLatestTelemetry \/ PollEnds
  \/ RecvNothing \/ RecvPartOfPrefix \/ RecvPrefix \/ RecvPayload \/ RecvTimeout

Spec == Init /\ [][Next]_vars

-----------------------------------------------------------------------------
(* Correctness *)

(* The types of the variables; a poll is under way on a connection only, and *)
(* takes PollLimit messages at most.                                         *)
TypeOK ==
  /\ connected \in BOOLEAN /\ haveLatest \in BOOLEAN /\ closed \in BOOLEAN
  /\ at \in {"idle", "prefix", "payload"} /\ (at # "idle" => connected)
  /\ turn \in 0..PollLimit /\ (at = "payload" => turn < PollLimit)
  /\ len \in 0..(MaxLen + 1)
  /\ latest \in 0..MaxSent

(* Whatever arrives when, and however many polls it takes: as long as no     *)
(* poll has met part of a length, what is polled is the telemetry that was   *)
(* sent, message by message; a payload that was late leaves no bytes behind  *)
(* that a later poll takes for a message.                                    *)
ReadsInStep == ~split => taken = [i \in DOMAIN taken |-> i]

(* What is displayed as the last telemetry of a mission is the last          *)
(* measurement polled on its own connection, not on that of a mission before *)
(* it or one given up halfway.                                               *)
LatestOfThisMission ==
  haveLatest =>
    /\ connected
    /\ latest \in ToSet(taken) /\ sent[latest].measured
    /\ \A id \in ToSet(taken) : id > latest => ~sent[id].measured

=============================================================================
