----------------------------- MODULE QueryPaging -----------------------------
(***************************************************************************)
(* Asking an LNC for what it has recorded: CcCore_GetMeasurements and      *)
(* CcCore_GetEvents (management_command.cpp) follow a cursor from page to  *)
(* page on the connection a combat submarine of oop_fleet also polls       *)
(* (oop_fleet/central_computer.cpp), with telemetry among the pages.       *)
(*                                                                         *)
(* Nothing ties a page to its request, and nothing bounds the wait for it. *)
(* A page that comes late, on the next connection, is taken for the answer *)
(* to another question; one of the other kind ends the query, whose own    *)
(* page is then the late one.  A poll throws such pages away.              *)
(*                                                                         *)
(* The LNC, the wire and the bridge (external) are as in LncSession: the   *)
(* LNC answers in order and keeps its log over a reboot, the bridge        *)
(* forwards while it has a client.  A poll is one of whole messages; what  *)
(* a length in two pieces does to it is TelemetryPoll's subject.           *)
(***************************************************************************)
EXTENDS Integers, Sequences, SequencesExt

CONSTANTS
  Ranges,         \* pairs of a first and a last record, what may be asked for
  PageSize,       \* how many records the LNC puts on a page at most
  PollLimit,      \* messages of one poll: 5
  MaxRecords,     \* bound: records of a kind
  MaxTelemetry,   \* bound: reports of the LNC
  MaxQueries,     \* bound: visits to ViewHistoricalData
  MaxDrops,       \* bound: stops of the bridge or of oop_fleet, ends of a mission
  MaxFaults       \* bound: messages lost on the wire, reboots of the LNC

Kinds == {"MEASUREMENTS", "EVENTS"}

ASSUME QueryPagingAssumption ==
  /\ Ranges \subseteq (Nat \ {0}) \X Nat
  /\ PageSize \in Nat \ {0} /\ PollLimit \in Nat \ {0}
  /\ MaxRecords \in Nat /\ MaxTelemetry \in Nat /\ MaxQueries \in Nat
  /\ MaxDrops \in Nat /\ MaxFaults \in Nat

VARIABLES
  \* oop_fleet
  pc,          \* "menu", "poll", "send", "await", "events", or "dead"
  turn,        \* the poll's i
  kind, range, \* the query under way, or the last one
  cursor,      \* the record the next page begins with; 0: haveCursor is false
  printed,     \* the records printed for it
  ended,       \* how it ended: "no", "done", "no data" or "failed"
  saved,       \* telemetry stored
  \* the link
  link,        \* "down", "up", or "eof": the bridge's end has closed
  inbox,       \* messages oop_fleet has yet to read
  toLnc,       \* requests under way to the LNC
  fromLnc,     \* messages under way to the bridge
  \* the LNC
  log,         \* how many records of a kind it has
  \* history
  alone,       \* the query began with nothing of another under way
  owed,        \* how many records its range held then
  delivered,   \* telemetry handed to an oop_fleet then alive
  reports, queries, drops, faults

query == << kind, range, cursor, printed, ended, alone, owed >>
fleet == << pc, turn, query, saved >>
lnc   == << log, reports, faults >>
rest  == << queries, drops >>
vars  == << fleet, link, inbox, toLnc, fromLnc, lnc, delivered, rest >>

Init ==
  /\ pc = "menu" /\ turn = 0 /\ saved = << >>
  /\ kind = "EVENTS" /\ range \in Ranges /\ cursor = 0
  /\ printed = << >> /\ ended = "done"
  /\ link = "down" /\ inbox = << >> /\ toLnc = << >> /\ fromLnc = << >>
  /\ log = [k \in Kinds |-> 0]
  /\ alone = FALSE /\ owed = 0 /\ delivered = {}
  /\ reports = 0 /\ queries = 0 /\ drops = 0 /\ faults = 0

-----------------------------------------------------------------------------
(* The LNC and the wire (external) *)

LncRecord ==
  /\ \E k \in Kinds : log[k] < MaxRecords /\ log' = [log EXCEPT ![k] = @ + 1]
  /\ UNCHANGED << fleet, link, inbox, toLnc, fromLnc, reports, faults, delivered, rest >>

LncReport ==
  /\ reports < MaxTelemetry
  /\ reports' = reports + 1
  /\ fromLnc' = Append(fromLnc, [tag |-> "TELEMETRY", id |-> reports'])
  /\ UNCHANGED << fleet, link, inbox, toLnc, log, faults, delivered, rest >>

(* The last record of a range that is there. *)
LastIn(k, r) == IF log[k] < r[2] THEN log[k] ELSE r[2]

(* A page of the records asked for, with a cursor if there are more; or the  *)
(* answer that there are none.                                               *)
Page(q, n) ==
  LET from == IF q.cursor = 0 THEN q.range[1] ELSE q.cursor
      last == LastIn(q.kind, q.range)
      n1   == IF n > last - from + 1 THEN last - from + 1 ELSE n
  IN  [tag |-> q.kind,
       status |-> IF from > last THEN "NO_DATA" ELSE "SUCCESS",
       records |-> IF from > last THEN << >> ELSE [i \in 1..n1 |-> from + i - 1],
       cursor |-> IF from + n1 > last THEN 0 ELSE from + n1]

Refusal(q) == [tag |-> q.kind, status |-> "ERROR", records |-> << >>, cursor |-> 0]

LncReply ==
  /\ toLnc # << >>
  /\ toLnc' = Tail(toLnc)
  /\ \/ \E n \in 1..PageSize : fromLnc' = Append(fromLnc, Page(Head(toLnc), n))
     \/ fromLnc' = Append(fromLnc, Refusal(Head(toLnc)))
  /\ UNCHANGED << fleet, link, inbox, lnc, delivered, rest >>

(* What the LNC has not answered is forgotten. *)
LncReboot ==
  /\ faults < MaxFaults
  /\ faults' = faults + 1
  /\ toLnc' = << >>
  /\ UNCHANGED << fleet, link, inbox, fromLnc, log, reports, delivered, rest >>

LoseFrame ==
  /\ faults < MaxFaults
  /\ faults' = faults + 1
  /\ \E i \in DOMAIN fromLnc : fromLnc' = RemoveAt(fromLnc, i)
  /\ UNCHANGED << fleet, link, inbox, toLnc, log, reports, delivered, rest >>

(* The bridge. *)
Forward ==
  /\ fromLnc # << >>
  /\ fromLnc' = Tail(fromLnc)
  /\ IF link = "up"
       THEN /\ inbox' = Append(inbox, Head(fromLnc))
            /\ delivered' = IF Head(fromLnc).tag = "TELEMETRY"
                              THEN delivered \cup {Head(fromLnc).id} ELSE delivered
       ELSE UNCHANGED << inbox, delivered >>
  /\ UNCHANGED << fleet, link, toLnc, lnc, rest >>

(* The bridge stops, or closes a connection it takes for a broken one. *)
Drop ==
  /\ link = "up" /\ drops < MaxDrops
  /\ drops' = drops + 1
  /\ link' = "eof"
  /\ UNCHANGED << fleet, inbox, toLnc, fromLnc, lnc, delivered, queries >>

-----------------------------------------------------------------------------
(* oop_fleet *)

(* CentralComputer::Connect, when a mission is assigned.                     *)
Connect ==
  /\ pc = "menu" /\ link = "down"
  /\ link' = "up"
  /\ UNCHANGED << fleet, inbox, toLnc, fromLnc, lnc, delivered, rest >>

(* What closing takes along: all there is yet to read. *)
Unread == {inbox[i].id : i \in {j \in DOMAIN inbox : inbox[j].tag = "TELEMETRY"}}

(* Fault: what is unread is kept for the next connection. *)
GiveUpLink == link' = "down" /\ UNCHANGED << inbox, delivered >>

GiveUp == link' = "down" /\ inbox' = << >> /\ delivered' = delivered \ Unread

(* CentralComputer::Disconnect, when a mission ends. *)
Disconnect ==
  /\ pc = "menu" /\ link # "down" /\ drops < MaxDrops
  /\ drops' = drops + 1
  /\ GiveUp
  /\ UNCHANGED << fleet, toLnc, fromLnc, lnc, queries >>

(* CentralComputer::PollLatestTelemetry, when the submarine is displayed.    *)
Poll ==
  /\ pc = "menu" /\ link # "down"
  /\ pc' = "poll" /\ turn' = 0
  /\ UNCHANGED << query, saved, link, inbox, toLnc, fromLnc, lnc, delivered, rest >>

(* Fault: telemetry is passed over while a page is awaited. *)
StorePolled(m) == saved' = IF m.tag = "TELEMETRY" /\ pc = "poll" THEN Append(saved, m.id) ELSE saved

(* CcCore_PrintKeepAlive, CcCore_PrintEventReport. *)
Store(m) == saved' = IF m.tag = "TELEMETRY" THEN Append(saved, m.id) ELSE saved

(* "Any other tag here would be a stray reply with nothing pending": it is   *)
(* thrown away.                                                              *)
PollMessage ==
  /\ pc = "poll" /\ turn < PollLimit /\ inbox # << >>
  /\ inbox' = Tail(inbox)
  /\ Store(Head(inbox))
  /\ turn' = turn + 1
  /\ UNCHANGED << pc, query, link, toLnc, fromLnc, lnc, delivered, rest >>

PollEnds ==
  /\ pc = "poll"
  /\ turn = PollLimit \/ inbox = << >>
  /\ pc' = "menu"
  /\ IF turn < PollLimit /\ link = "eof" THEN GiveUp ELSE UNCHANGED << link, inbox, delivered >>
  /\ UNCHANGED << turn, query, saved, toLnc, fromLnc, lnc, rest >>

(* Whether nothing asked before is still to be answered, or its answer to be *)
(* read.                                                                     *)
Quiet ==
  /\ toLnc = << >>
  /\ \A i \in DOMAIN fromLnc : fromLnc[i].tag = "TELEMETRY"
  /\ \A i \in DOMAIN inbox : inbox[i].tag = "TELEMETRY"

(* The beginning of CcCore_GetMeasurements or CcCore_GetEvents. *)
Begin(k, r) ==
  /\ pc' = "send"
  /\ kind' = k /\ range' = r
  /\ cursor' = 0 /\ printed' = << >> /\ ended' = "no"
  /\ alone' = Quiet
  /\ owed' = LET n == LastIn(k, r) - r[1] + 1 IN IF n > 0 THEN n ELSE 0

(* Fleet::ViewHistoricalData: the one query and, however it ends, the other  *)
(* for the same range.                                                       *)
ViewHistoricalData ==
  /\ pc = "menu" /\ link # "down" /\ queries < MaxQueries
  /\ queries' = queries + 1
  /\ \E r \in Ranges : Begin("MEASUREMENTS", r)
  /\ UNCHANGED << turn, saved, link, inbox, toLnc, fromLnc, lnc, delivered, drops >>

QueryEvents ==
  /\ pc = "events"
  /\ Begin("EVENTS", range)
  /\ UNCHANGED << turn, saved, link, inbox, toLnc, fromLnc, lnc, delivered, rest >>

(* The process ends, by SIGPIPE or by somebody's hand. *)
Dies == pc' = "dead" /\ GiveUp

Request == [kind |-> kind, range |-> range, cursor |-> cursor]

(* CcCore_LncSend: as in LncSession, two calls of send(), of which the       *)
(* second may raise SIGPIPE once the bridge has closed its end.              *)
SendRequest ==
  /\ pc = "send"
  /\ \/ /\ link = "up"
        /\ toLnc' = Append(toLnc, Request)
        /\ pc' = "await"
        /\ UNCHANGED << link, inbox, delivered >>
     \/ /\ link = "eof"
        /\ pc' = "await"
        /\ UNCHANGED << link, inbox, delivered, toLnc >>
     \/ /\ link = "eof"
        /\ Dies
        /\ UNCHANGED toLnc
  /\ UNCHANGED << turn, query, saved, fromLnc, lnc, rest >>

RecvTelemetry ==
  /\ pc = "await"
  /\ inbox # << >> /\ Head(inbox).tag = "TELEMETRY"
  /\ inbox' = Tail(inbox)
  /\ Store(Head(inbox))
  /\ UNCHANGED << pc, turn, query, link, toLnc, fromLnc, lnc, delivered, rest >>

(* Where a query that has returned returns to. *)
Caller == IF kind = "MEASUREMENTS" THEN "events" ELSE "menu"

(* Fault: the next page asked for is this one again. *)
NextCursorStale(m) == IF cursor = 0 THEN range[1] ELSE cursor

(* PROTO_FIELD_CURSOR_DAY and PROTO_FIELD_CURSOR_OFFSET of a page. *)
NextCursor(m) == m.cursor

(* A page of the kind asked for: its records are printed and, if it has a    *)
(* cursor, the next page is asked for.                                       *)
RecvPage ==
  /\ pc = "await"
  /\ inbox # << >> /\ Head(inbox).tag = kind /\ Head(inbox).status = "SUCCESS"
  /\ LET m == Head(inbox)
     IN  /\ inbox' = Tail(inbox)
         /\ printed' = printed \o m.records
         /\ IF m.cursor # 0
              THEN pc' = "send" /\ cursor' = NextCursor(m) /\ UNCHANGED ended
              ELSE pc' = Caller /\ ended' = "done" /\ UNCHANGED cursor
  /\ UNCHANGED << turn, kind, range, alone, owed, saved, link, toLnc, fromLnc, lnc,
                  delivered, rest >>

(* Anything else ends the query: no data, an error, or a page that is none   *)
(* of its own, which is gone all the same.                                   *)
RecvOther ==
  /\ pc = "await"
  /\ inbox # << >> /\ Head(inbox).tag \in Kinds
  /\ LET m == Head(inbox)
     IN  /\ m.tag # kind \/ m.status # "SUCCESS"
         /\ ended' = IF m.tag = kind /\ m.status = "NO_DATA" THEN "no data" ELSE "failed"
  /\ inbox' = Tail(inbox)
  /\ pc' = Caller
  /\ UNCHANGED << turn, kind, range, cursor, printed, alone, owed, saved, link, toLnc,
                  fromLnc, lnc, delivered, rest >>

(* Fault: the wait goes on. *)
StillAwaiting == "await"

AfterEof == Caller

(* CcCore_LncRecv returns 0; the descriptor stays open until a poll finds it *)
(* at its end.                                                               *)
RecvEof ==
  /\ pc = "await"
  /\ inbox = << >> /\ link = "eof"
  /\ ended' = "failed"
  /\ pc' = AfterEof
  /\ UNCHANGED << turn, kind, range, cursor, printed, alone, owed, saved, link, inbox, toLnc,
                  fromLnc, lnc, delivered, rest >>

(* Somebody stops oop_fleet, which he must if a page never comes. *)
Stop ==
  /\ pc # "dead" /\ drops < MaxDrops
  /\ drops' = drops + 1
  /\ Dies
  /\ UNCHANGED << turn, query, saved, toLnc, fromLnc, lnc, queries >>

Restart ==
  /\ pc = "dead"
  /\ pc' = "menu"
  /\ UNCHANGED << turn, query, saved, link, inbox, toLnc, fromLnc, lnc, delivered, rest >>

Asking == SendRequest \/ RecvTelemetry \/ RecvPage \/ RecvOther \/ RecvEof \/ QueryEvents
Polling == PollMessage \/ PollEnds
User == Connect \/ Disconnect \/ Poll \/ ViewHistoricalData \/ Stop \/ Restart
Environment == LncRecord \/ LncReport \/ LncReboot \/ LoseFrame \/ Drop

Next == Asking \/ Polling \/ User \/ LncReply \/ Forward \/ Environment

(* A query runs, the LNC answers and the bridge forwards; nothing else need  *)
(* ever happen.                                                              *)
Spec == Init /\ [][Next]_vars /\ WF_vars(Asking) /\ WF_vars(LncReply) /\ WF_vars(Forward)

-----------------------------------------------------------------------------
(* Correctness *)

Messages ==
  [tag : {"TELEMETRY"}, id : Nat] \cup
  [tag : Kinds, status : {"SUCCESS", "NO_DATA", "ERROR"}, records : Seq(Nat), cursor : Nat]

Requests == [kind : Kinds, range : Ranges, cursor : Nat]

(* The types of the variables; the inbox belongs to a connection, and a      *)
(* query is under way on one only.                                           *)
FleetTypes ==
  /\ pc \in {"menu", "poll", "send", "await", "events", "dead"}
  /\ turn \in 0..PollLimit
  /\ kind \in Kinds /\ range \in Ranges /\ cursor \in Nat
  /\ printed \in Seq(Nat) /\ saved \in Seq(Nat)
  /\ ended \in {"no", "done", "no data", "failed"}

LinkTypes ==
  /\ link \in {"down", "up", "eof"}
  /\ inbox \in Seq(Messages) /\ fromLnc \in Seq(Messages) /\ toLnc \in Seq(Requests)

HistoryTypes ==
  /\ log \in [Kinds -> Nat]
  /\ alone \in BOOLEAN /\ owed \in Nat /\ delivered \subseteq Nat
  /\ reports \in Nat /\ queries \in Nat /\ drops \in Nat /\ faults \in Nat

OneConnection ==
  /\ pc \in {"send", "await"} => ended = "no"
  /\ link = "down" => inbox = << >> /\ pc \in {"menu", "dead"}

TypeOK == FleetTypes /\ LinkTypes /\ HistoryTypes /\ OneConnection

(* A query that begins when nothing asked before is still on its way prints  *)
(* the records of its range in order, each once, page after page, and if it  *)
(* says it is done it has printed at least those there were when it began:   *)
(* whatever is recorded and reported meanwhile, however the LNC cuts the     *)
(* pages, and whatever becomes of the connection, of the LNC and of messages *)
(* on the wire.                                                              *)
PagesInOrder ==
  alone =>
    /\ printed = [i \in 1..Len(printed) |-> range[1] + i - 1]
    /\ ended = "done" => Len(printed) >= owed
    /\ ended = "no data" => owed = 0

(* Telemetry that reaches oop_fleet is stored once and in order, be it read  *)
(* by a poll or among the pages of a query; none is lost with a page that is *)
(* thrown away.                                                              *)
TelemetryStored ==
  /\ ToSet(saved) \cup Unread = delivered
  /\ \A i, j \in DOMAIN saved : i < j => saved[i] < saved[j]

(* A query that is under way comes to its end, even one that goes on with    *)
(* the pages of another, unless the LNC reboots or a message is lost: the    *)
(* wait for a page has no limit.                                             *)
QueryEnds == pc \in {"send", "await", "events"} ~> pc \in {"menu", "dead"} \/ faults > 0

=============================================================================
