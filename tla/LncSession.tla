----------------------------- MODULE LncSession -----------------------------
(***************************************************************************)
(* The central computer's main thread (central_computer/main.cpp): connect *)
(* to the bridge, read and set the LNC's clock, then store telemetry until *)
(* the link drops, and again.  Telemetry may arrive at any time, before a  *)
(* reply as well; requests and replies carry nothing that ties one to the  *)
(* other.                                                                  *)
(*                                                                         *)
(* The LNC is external: it answers requests in order, reports telemetry,   *)
(* and when it reboots its clock starts from a baseline.  The bridge is    *)
(* reduced to what BridgeUplink and BridgeLink show of it: it forwards     *)
(* whole messages in order while a client is connected, drops what arrives *)
(* without one, and may stop and be started again.                         *)
(***************************************************************************)
EXTENDS Integers, Sequences, SequencesExt, FiniteSets

CONSTANTS
  StartTime,       \* the host's clock at first: the LNC's baseline is 0, and no
                   \* LNC runs for long enough to get from there to here
  MaxTicks,        \* bound: seconds that pass
  MaxTelemetry,    \* bound: reports of the LNC
  MaxDrops,        \* bound: stops of the bridge or of the core
  MaxRefusals,     \* bound: SETs the LNC answers with an error
  MaxFaults        \* bound: frames lost on the wire, reboots of the LNC

ASSUME LncSessionAssumption ==
  /\ StartTime \in Nat /\ MaxTicks \in Nat /\ MaxTicks < StartTime
  /\ MaxTelemetry \in Nat /\ MaxDrops \in Nat /\ MaxRefusals \in Nat /\ MaxFaults \in Nat

VARIABLES
  now,          \* the host's clock
  \* the core
  pc,           \* what main is about to do, or waits for
  newTime,      \* the time it sets
  synced,       \* whether it believes the LNC's clock is set
  saved,        \* the telemetry it has stored, by number
  \* the link
  link,         \* "down", "up", or "eof": the bridge's end has closed
  inbox,        \* messages the core has yet to read
  toLnc,        \* requests under way to the LNC
  fromLnc,      \* messages under way to the bridge
  \* the LNC
  lncTime,
  \* history
  session,      \* connections made
  setIn,        \* the connection whose SET the LNC has last executed; 0 since
                \* it booted
  delivered,    \* telemetry worth storing that has reached a core then alive
  reports, drops, refusals, faults

core == << pc, newTime, synced, saved >>
lnc  == << lncTime, setIn, reports, refusals >>
rest == << drops, faults >>
vars == << now, core, link, inbox, toLnc, fromLnc, lnc, session, delivered, rest >>

Init ==
  /\ now = StartTime
  /\ pc = "connect" /\ newTime = 0 /\ synced = FALSE /\ saved = << >>
  /\ link = "down" /\ inbox = << >> /\ toLnc = << >> /\ fromLnc = << >>
  /\ lncTime = 0
  /\ session = 0 /\ setIn = 0 /\ delivered = {}
  /\ reports = 0 /\ drops = 0 /\ refusals = 0 /\ faults = 0

Tick ==
  /\ now < StartTime + MaxTicks
  /\ now' = now + 1 /\ lncTime' = lncTime + 1
  /\ UNCHANGED << core, link, inbox, toLnc, fromLnc, setIn, reports, refusals,
                  session, delivered, rest >>

-----------------------------------------------------------------------------
(* The LNC and the wire (external) *)

Telemetry == {"KEEP_ALIVE", "EVENT_REPORT"}

(* A keep-alive may come without measurements. *)
Reports == [tag : {"KEEP_ALIVE"}, id : Nat, measured : BOOLEAN]
           \cup [tag : {"EVENT_REPORT"}, id : Nat]

LncReport ==
  /\ reports < MaxTelemetry
  /\ reports' = reports + 1
  /\ \/ \E b \in BOOLEAN :
          fromLnc' = Append(fromLnc, [tag |-> "KEEP_ALIVE", id |-> reports', measured |-> b])
     \/ fromLnc' = Append(fromLnc, [tag |-> "EVENT_REPORT", id |-> reports'])
  /\ UNCHANGED << now, core, link, inbox, toLnc, lncTime, setIn, refusals,
                  session, delivered, rest >>

LncGetTime ==
  /\ toLnc # << >> /\ Head(toLnc).tag = "GET_TIME_REQ"
  /\ toLnc' = Tail(toLnc)
  /\ fromLnc' = Append(fromLnc, [tag |-> "GET_TIME_RESP", time |-> lncTime,
                                 set |-> setIn # 0])
  /\ UNCHANGED << now, core, link, inbox, lnc, session, delivered, rest >>

LncSetRtc ==
  /\ toLnc # << >> /\ Head(toLnc).tag = "SET_RTC_REQ"
  /\ toLnc' = Tail(toLnc)
  /\ \/ /\ lncTime' = Head(toLnc).time
        /\ setIn' = Head(toLnc).session
        /\ fromLnc' = Append(fromLnc, [tag |-> "CONFIG_ACK", status |-> "SUCCESS"])
        /\ UNCHANGED refusals
     \/ /\ refusals < MaxRefusals
        /\ refusals' = refusals + 1
        /\ fromLnc' = Append(fromLnc, [tag |-> "CONFIG_ACK", status |-> "INTERNAL_ERROR"])
        /\ UNCHANGED << lncTime, setIn >>
  /\ UNCHANGED << now, core, link, inbox, reports, session, delivered, rest >>

(* What the LNC has not answered is forgotten. *)
LncReboot ==
  /\ faults < MaxFaults
  /\ faults' = faults + 1
  /\ lncTime' = 0 /\ setIn' = 0
  /\ toLnc' = << >>
  /\ UNCHANGED << now, core, link, inbox, fromLnc, reports, refusals, session, delivered, drops >>

LoseFrame ==
  /\ faults < MaxFaults
  /\ faults' = faults + 1
  /\ \/ \E i \in DOMAIN toLnc : toLnc' = RemoveAt(toLnc, i) /\ UNCHANGED fromLnc
     \/ \E i \in DOMAIN fromLnc : fromLnc' = RemoveAt(fromLnc, i) /\ UNCHANGED toLnc
  /\ UNCHANGED << now, core, link, inbox, lnc, session, delivered, drops >>

-----------------------------------------------------------------------------
(* The bridge *)

(* What the core stores: an event with or without measurements, a keep-alive *)
(* only with them.                                                           *)
Storable(m) == m.tag \in Telemetry /\ (m.tag = "KEEP_ALIVE" => m.measured)

Forward ==
  /\ fromLnc # << >>
  /\ fromLnc' = Tail(fromLnc)
  /\ IF link = "up"
       THEN /\ inbox' = Append(inbox, Head(fromLnc))
            /\ delivered' = IF Storable(Head(fromLnc))
                              THEN delivered \cup {Head(fromLnc).id} ELSE delivered
       ELSE UNCHANGED << inbox, delivered >>
  /\ UNCHANGED << now, core, link, toLnc, lnc, session, rest >>

(* The bridge stops; its end of the connection closes. *)
Drop ==
  /\ link = "up" /\ drops < MaxDrops
  /\ drops' = drops + 1
  /\ link' = "eof"
  /\ UNCHANGED << now, core, inbox, toLnc, fromLnc, lnc, session, delivered, faults >>

-----------------------------------------------------------------------------
(* The core *)

Connect ==
  /\ pc = "connect" /\ link = "down"
  /\ link' = "up"
  /\ session' = session + 1
  /\ pc' = "get" /\ synced' = FALSE
  /\ UNCHANGED << now, newTime, saved, inbox, toLnc, fromLnc, lnc, delivered, rest >>

(* What its end takes along: the connection and all it has yet to read. *)
Unread == {inbox[i].id : i \in {j \in DOMAIN inbox : Storable(inbox[j])}}

Dies ==
  /\ pc' = "dead" /\ synced' = FALSE
  /\ link' = "down" /\ inbox' = << >> /\ delivered' = delivered \ Unread

(* CcCore_LncSend: two calls of send().  On a connection whose other end has *)
(* closed the first draws a reset and the second, if the reset is there by   *)
(* then, raises SIGPIPE.                                                     *)
LncSend(message, next) ==
  \/ /\ link = "up"
     /\ toLnc' = Append(toLnc, message)
     /\ pc' = next
     /\ UNCHANGED << link, inbox, delivered, synced >>
  \/ /\ link = "eof"
     /\ pc' = next
     /\ UNCHANGED << link, inbox, delivered, synced, toLnc >>
  \/ /\ link = "eof"
     /\ Dies
     /\ UNCHANGED toLnc

SendGetTime ==
  /\ \/ pc = "get"   /\ LncSend([tag |-> "GET_TIME_REQ"], "await time")
     \/ pc = "check" /\ LncSend([tag |-> "GET_TIME_REQ"], "await check")
  /\ UNCHANGED << now, newTime, saved, fromLnc, lnc, session, rest >>

SendSetRtc ==
  /\ pc = "set"
  /\ newTime' = now
  /\ LncSend([tag |-> "SET_RTC_REQ", time |-> now, session |-> session], "await ack")
  /\ UNCHANGED << now, saved, fromLnc, lnc, session, rest >>

Awaiting == {"await time", "await ack", "await check"}

(* Fault: telemetry is passed over while a reply is awaited. *)
StoreWhenStreaming(m) ==
  saved' = IF pc = "stream" /\ Storable(m) THEN Append(saved, m.id) ELSE saved

(* CcCore_PrintKeepAlive, CcCore_PrintEventReport. *)
Store(m) == saved' = IF Storable(m) THEN Append(saved, m.id) ELSE saved

RecvTelemetry ==
  /\ pc \in Awaiting \cup {"stream"}
  /\ inbox # << >> /\ Head(inbox).tag \in Telemetry
  /\ inbox' = Tail(inbox)
  /\ Store(Head(inbox))
  /\ UNCHANGED << now, pc, newTime, synced, link, toLnc, fromLnc, lnc, session, delivered, rest >>

(* Fault: a clock that is behind will do. *)
NotAhead(m) == m.tag = "GET_TIME_RESP" /\ m.time <= newTime + 2

Confirms(m) == m.tag = "GET_TIME_RESP" /\ m.time >= newTime /\ m.time <= newTime + 2

(* Fault: a wrong reply is passed over and another awaited. *)
AfterRetry(m) == CASE pc = "await time" /\ m.tag = "GET_TIME_RESP" -> "set"
                   [] pc = "await ack" /\ m.tag = "CONFIG_ACK" /\ m.status = "SUCCESS" -> "check"
                   [] pc = "await check" /\ m.tag = "GET_TIME_RESP" -> "stream"
                   [] OTHER -> pc

(* Where main goes with a message that is not telemetry: the wrong reply, or *)
(* an error, ends the synchronisation; while streaming it is reported only.  *)
After(m) == CASE pc = "await time" /\ m.tag = "GET_TIME_RESP" -> "set"
              [] pc = "await ack" /\ m.tag = "CONFIG_ACK" /\ m.status = "SUCCESS" -> "check"
              [] OTHER -> "stream"

(* Fault: an acknowledged SET is as good as a clock read back. *)
SyncedByAck(m) == m.tag = "CONFIG_ACK" \/ synced

SyncedAfter(m) == IF pc = "await check" THEN Confirms(m) ELSE synced

RecvReply ==
  /\ pc \in Awaiting \cup {"stream"}
  /\ inbox # << >> /\ Head(inbox).tag \notin Telemetry
  /\ inbox' = Tail(inbox)
  /\ pc' = After(Head(inbox))
  /\ synced' = SyncedAfter(Head(inbox))
  /\ UNCHANGED << now, newTime, saved, link, toLnc, fromLnc, lnc, session, delivered, rest >>

(* CcCore_LncRecv returns 0: what is left of the synchronisation fails, and  *)
(* so does the streaming loop's first read.                                  *)
RecvEof ==
  /\ pc \in Awaiting \cup {"stream"}
  /\ inbox = << >> /\ link = "eof"
  /\ link' = "down"
  /\ pc' = "connect" /\ synced' = FALSE
  /\ UNCHANGED << now, newTime, saved, inbox, toLnc, fromLnc, lnc, session, delivered, rest >>

(* Somebody stops the core. *)
Stop ==
  /\ pc # "dead" /\ drops < MaxDrops
  /\ drops' = drops + 1
  /\ Dies
  /\ UNCHANGED << now, newTime, saved, toLnc, fromLnc, lnc, session, faults >>

(* A core that died is started again. *)
Restart ==
  /\ pc = "dead"
  /\ pc' = "connect"
  /\ UNCHANGED << now, newTime, synced, saved, link, inbox, toLnc, fromLnc, lnc,
                  session, delivered, rest >>

Core == Connect \/ SendGetTime \/ SendSetRtc \/ RecvTelemetry \/ RecvReply \/ RecvEof
Lnc  == LncGetTime \/ LncSetRtc
Environment == Tick \/ LncReport \/ LncReboot \/ LoseFrame \/ Drop \/ Stop \/ Restart

Next == Core \/ Lnc \/ Forward \/ Environment

(* The core runs, the LNC answers and the bridge forwards; nothing else need *)
(* ever happen.                                                              *)
Spec == Init /\ [][Next]_vars /\ WF_vars(Core) /\ WF_vars(Lnc) /\ WF_vars(Forward)

-----------------------------------------------------------------------------
(* Correctness *)

Messages ==
  Reports
  \cup [tag : {"GET_TIME_RESP"}, time : Nat, set : BOOLEAN]
  \cup [tag : {"CONFIG_ACK"}, status : {"SUCCESS", "INTERNAL_ERROR"}]

Requests ==
  [tag : {"GET_TIME_REQ"}] \cup [tag : {"SET_RTC_REQ"}, time : Nat, session : Nat \ {0}]

(* The types of the variables; the inbox belongs to a connection, and only a *)
(* core that streams takes the clock for set.                                *)
CoreTypes ==
  /\ now \in StartTime..(StartTime + MaxTicks)
  /\ pc \in {"connect", "get", "set", "check", "stream", "dead"} \cup Awaiting
  /\ newTime \in Nat /\ synced \in BOOLEAN /\ saved \in Seq(Nat)

LinkTypes ==
  /\ link \in {"down", "up", "eof"}
  /\ inbox \in Seq(Messages) /\ fromLnc \in Seq(Messages) /\ toLnc \in Seq(Requests)

HistoryTypes ==
  /\ lncTime \in Nat /\ session \in Nat /\ setIn \in Nat /\ delivered \subseteq Nat
  /\ reports \in Nat /\ drops \in Nat /\ refusals \in Nat /\ faults \in Nat

OneConnection ==
  /\ link = "down" <=> pc \in {"connect", "dead"}
  /\ link = "down" => inbox = << >>
  /\ link # "down" => session > 0
  /\ synced => pc = "stream"

TypeOK == CoreTypes /\ LinkTypes /\ HistoryTypes /\ OneConnection

(* Telemetry that reaches the core is stored once and in order, in whichever *)
(* phase it arrives and whatever else is under way, as long as the core      *)
(* lives; only a keep-alive without measurements is not stored.              *)
TelemetryStored ==
  /\ ToSet(saved) \cup Unread = delivered
  /\ \A i, j \in DOMAIN saved : i < j => saved[i] < saved[j]

(* When the core has set the clock and read it back to its satisfaction, the *)
(* reply that satisfied it came from an LNC whose clock had been set since   *)
(* it booted - even when that reply is one to an earlier connection's        *)
(* request.                                                                  *)
SyncedIsTrue == [][~synced /\ synced' => Head(inbox).set]_vars

(* A core that is not yet streaming gets there, whatever replies of earlier  *)
(* connections it meets on the way, unless it ends, or a message is lost on  *)
(* the wire, or the LNC reboots with a request unanswered: it waits for a    *)
(* reply without a timeout.                                                  *)
GetsToStreaming ==
  (pc \notin {"stream", "dead"}) ~>
    (pc \in {"stream", "dead"} \/ faults > 0)

(* "Get/Set time round-trip, re-synced on EVERY (re)connection": by the time *)
(* the core is streaming, it has sent a SET on this connection, and the LNC  *)
(* has executed it unless it is still under way.                             *)
SetOnEveryConnection ==
  pc = "stream" =>
    \/ setIn = session
    \/ \E i \in DOMAIN toLnc : toLnc[i].tag = "SET_RTC_REQ" /\ toLnc[i].session = session

=============================================================================
