-------------------------- MODULE LncSessionProofs --------------------------
(***************************************************************************)
(* What LncSession promises, proved for any number of reports, drops,      *)
(* refusals and faults, as long as the host's clock is further from the    *)
(* LNC's baseline than the LNC runs.                                       *)
(***************************************************************************)
EXTENDS LncSession, SequenceLemmas

-----------------------------------------------------------------------------
(* The types *)

(* A message is telemetry, or the reply to a request.                        *)
LEMMA MessageFields ==
  ASSUME NEW m \in Messages
  PROVE  /\ m.tag \in Telemetry => m.id \in Nat
         /\ m.tag \notin Telemetry => ~Storable(m)
         /\ m.tag = "GET_TIME_RESP" => m.time \in Nat /\ m.set \in BOOLEAN
BY DEF Messages, Reports, Telemetry, Storable

(* What is asked for.                                                        *)
LEMMA RequestFields ==
  ASSUME NEW q \in Requests
  PROVE  /\ q.tag \in {"GET_TIME_REQ", "SET_RTC_REQ"}
         /\ q.tag = "SET_RTC_REQ" => q.time \in Nat /\ q.session \in Nat \ {0}
BY DEF Requests

(* The variables have their types at first.                                  *)
LEMMA InitTyped == Init => TypeOK
<1> SUFFICES ASSUME Init PROVE TypeOK
  OBVIOUS
<1>1. CoreTypes
  <2>1. now \in StartTime..(StartTime + MaxTicks)
    BY LncSessionAssumption DEF Init
  <2>2. pc = "connect" /\ newTime = 0 /\ synced = FALSE /\ saved = << >>
    BY DEF Init
  <2>3. saved \in Seq(Nat)
    BY <2>2
  <2>4. synced \in BOOLEAN
    BY <2>2
  <2> QED
    BY <2>1, <2>2, <2>3, <2>4 DEF CoreTypes
<1>2. LinkTypes /\ OneConnection
  BY DEF Init, LinkTypes, OneConnection
<1>3. HistoryTypes
  BY DEF Init, HistoryTypes
<1> QED
  BY <1>1, <1>2, <1>3 DEF TypeOK

(* The LNC tells its time, and whether it has been set.                      *)
LEMMA GetTimeContents ==
  ASSUME TypeOK, LncGetTime
  PROVE  \E m \in Messages : /\ fromLnc' = Append(fromLnc, m)
                             /\ m.tag = "GET_TIME_RESP" /\ m.time = lncTime
                             /\ m.set = (setIn # 0)
<1> DEFINE m == [tag |-> "GET_TIME_RESP", time |-> lncTime, set |-> setIn # 0]
<1>1. m \in Messages
  BY DEF Messages, TypeOK, HistoryTypes
<1>2. fromLnc' = Append(fromLnc, m)
  BY DEF LncGetTime
<1>3. m.tag = "GET_TIME_RESP" /\ m.time = lncTime /\ m.set = (setIn # 0)
  OBVIOUS
<1> HIDE DEF m
<1> QED
  BY <1>1, <1>2, <1>3

(* The LNC accepts a time or refuses it.                                     *)
LEMMA SetRtcContents ==
  ASSUME TypeOK, LncSetRtc
  PROVE  \E m \in Messages : fromLnc' = Append(fromLnc, m) /\ m.tag = "CONFIG_ACK"
<1>1. \A s \in {"SUCCESS", "INTERNAL_ERROR"} :
        /\ [tag |-> "CONFIG_ACK", status |-> s] \in Messages
        /\ [tag |-> "CONFIG_ACK", status |-> s].tag = "CONFIG_ACK"
  BY DEF Messages
<1>2. \E s \in {"SUCCESS", "INTERNAL_ERROR"} :
        fromLnc' = Append(fromLnc, [tag |-> "CONFIG_ACK", status |-> s])
  BY DEF LncSetRtc
<1> QED
  BY <1>1, <1>2

(* The LNC reports, under the next number.                                   *)
LEMMA ReportContents ==
  ASSUME TypeOK, LncReport
  PROVE  \E m \in Messages : /\ fromLnc' = Append(fromLnc, m)
                             /\ m.tag \in Telemetry /\ m.id = reports'
<1>1. reports' \in Nat
  BY DEF TypeOK, HistoryTypes, LncReport
<1>2. CASE \E b \in BOOLEAN :
        fromLnc' = Append(fromLnc, [tag |-> "KEEP_ALIVE", id |-> reports', measured |-> b])
  <2>1. \A b \in BOOLEAN : [tag |-> "KEEP_ALIVE", id |-> reports', measured |-> b] \in Messages
    BY <1>1 DEF Messages, Reports
  <2> QED
    BY <1>2, <2>1 DEF Telemetry
<1>3. CASE fromLnc' = Append(fromLnc, [tag |-> "EVENT_REPORT", id |-> reports'])
  <2>1. [tag |-> "EVENT_REPORT", id |-> reports'] \in Messages
    BY <1>1 DEF Messages, Reports
  <2> QED
    BY <1>3, <2>1 DEF Telemetry
<1> QED
  BY <1>2, <1>3 DEF LncReport

(* What the LNC sends.                                                       *)
LEMMA SentByLnc ==
  ASSUME TypeOK, LncReport \/ LncGetTime \/ LncSetRtc
  PROVE  \E m \in Messages : fromLnc' = Append(fromLnc, m)
BY ReportContents, GetTimeContents, SetRtcContents

(* What the clocks, the LNC, the wire and the bridge do. *)
Outside == Tick \/ LncReport \/ LncReboot \/ LoseFrame \/ Drop \/ Lnc \/ Forward

(* They keep the types.                                                      *)
LEMMA OutsideTyped ==
  ASSUME TypeOK, Outside
  PROVE  TypeOK'
<1> USE DEF Outside, Lnc
<1>1. CoreTypes'
  <2>1. CASE Tick
    BY <2>1, LncSessionAssumption DEF Tick, TypeOK, CoreTypes, core
  <2>2. CASE ~Tick
    BY <2>2 DEF TypeOK, CoreTypes, LncReport, LncReboot, LoseFrame, Drop, LncGetTime,
                LncSetRtc, Forward, core
  <2> QED
    BY <2>1, <2>2
<1>2. HistoryTypes'
  <2>1. CASE Tick \/ LncReport \/ LncReboot \/ LoseFrame \/ Drop \/ LncGetTime
    <3>1. CASE Tick
      BY <3>1 DEF Tick, TypeOK, HistoryTypes, rest
    <3>2. CASE LncReport
      BY <3>2 DEF LncReport, TypeOK, HistoryTypes, rest
    <3>3. CASE LncReboot
      BY <3>3 DEF LncReboot, TypeOK, HistoryTypes
    <3>4. CASE LoseFrame
      BY <3>4 DEF LoseFrame, TypeOK, HistoryTypes, lnc
    <3>5. CASE Drop
      BY <3>5 DEF Drop, TypeOK, HistoryTypes, lnc
    <3>6. CASE LncGetTime
      BY <3>6 DEF LncGetTime, TypeOK, HistoryTypes, lnc, rest
    <3> QED
      BY <2>1, <3>1, <3>2, <3>3, <3>4, <3>5, <3>6
  <2>2. CASE LncSetRtc
    <3>1. Head(toLnc) \in Requests
      BY <2>2, TailElements DEF LncSetRtc, TypeOK, LinkTypes
    <3>2. Head(toLnc).time \in Nat /\ Head(toLnc).session \in Nat
      BY <2>2, <3>1, RequestFields DEF LncSetRtc
    <3> QED
      BY <2>2, <3>2 DEF LncSetRtc, TypeOK, HistoryTypes, rest
  <2>3. CASE Forward
    <3>1. Head(fromLnc) \in Messages
      BY <2>3, TailElements DEF Forward, TypeOK, LinkTypes
    <3>2. Storable(Head(fromLnc)) => Head(fromLnc).id \in Nat
      BY <3>1, MessageFields
    <3>3. delivered \subseteq Nat
      BY DEF TypeOK, HistoryTypes
    <3>4. delivered' \subseteq Nat
      BY <2>3, <3>2, <3>3 DEF Forward
    <3> QED
      BY <2>3, <3>4 DEF Forward, TypeOK, HistoryTypes, lnc, rest
  <2> QED
    BY <2>1, <2>2, <2>3
<1>3. LinkTypes'
  <2>1. CASE Tick \/ LncReboot \/ Drop
    <3>1. fromLnc' = fromLnc /\ inbox' = inbox /\ link' \in {link, "eof"}
      BY <2>1 DEF Tick, LncReboot, Drop
    <3>2. toLnc' = toLnc \/ toLnc' = << >>
      BY <2>1 DEF Tick, LncReboot, Drop
    <3>3. toLnc \in Seq(Requests) /\ << >> \in Seq(Requests)
      BY DEF TypeOK, LinkTypes
    <3>4. toLnc' \in Seq(Requests)
      BY <3>2, <3>3
    <3> QED
      BY <3>1, <3>4 DEF TypeOK, LinkTypes
  <2>2. CASE LncReport
    <3>1. PICK m \in Messages : fromLnc' = Append(fromLnc, m)
      BY <2>2, SentByLnc
    <3> QED
      BY <2>2, <3>1, AppendElements DEF LncReport, TypeOK, LinkTypes
  <2>3. CASE LncGetTime \/ LncSetRtc
    <3>1. PICK m \in Messages : fromLnc' = Append(fromLnc, m)
      BY <2>3, SentByLnc
    <3>2. toLnc' \in Seq(Requests) /\ UNCHANGED << link, inbox >>
      BY <2>3, TailElements DEF LncGetTime, LncSetRtc, TypeOK, LinkTypes
    <3> QED
      BY <3>1, <3>2, AppendElements DEF TypeOK, LinkTypes
  <2>4. CASE LoseFrame
    BY <2>4, RemoveAtElements DEF LoseFrame, TypeOK, LinkTypes
  <2>5. CASE Forward
    <3>1. Head(fromLnc) \in Messages /\ Tail(fromLnc) \in Seq(Messages)
          /\ inbox \in Seq(Messages)
      BY <2>5, TailElements DEF Forward, TypeOK, LinkTypes
    <3>2. Append(inbox, Head(fromLnc)) \in Seq(Messages)
      BY <3>1, AppendElements
    <3>3. inbox' \in Seq(Messages) /\ fromLnc' \in Seq(Messages)
      BY <2>5, <3>1, <3>2 DEF Forward
    <3> QED
      BY <2>5, <3>3 DEF Forward, TypeOK, LinkTypes
  <2> QED
    BY <2>1, <2>2, <2>3, <2>4, <2>5
<1>4. OneConnection'
  <2>1. UNCHANGED << pc, synced, session >>
    BY DEF Tick, LncReport, LncReboot, LoseFrame, Drop, LncGetTime, LncSetRtc, Forward, core
  <2>2. link' = link \/ (link = "up" /\ link' = "eof")
    BY DEF Tick, LncReport, LncReboot, LoseFrame, Drop, LncGetTime, LncSetRtc, Forward
  <2>3. inbox' = inbox \/ link = "up"
    BY DEF Tick, LncReport, LncReboot, LoseFrame, Drop, LncGetTime, LncSetRtc, Forward
  <2> QED
    BY <2>1, <2>2, <2>3 DEF TypeOK, OneConnection
<1> QED
  BY <1>1, <1>2, <1>3, <1>4 DEF TypeOK

(* The end of the core leaves nothing of the connection.                     *)
LEMMA DiesTyped ==
  ASSUME TypeOK, Dies
  PROVE  /\ pc' = "dead" /\ synced' = FALSE /\ link' = "down"
         /\ inbox' = << >> /\ inbox' \in Seq(Messages) /\ delivered' \subseteq Nat
<1>1. delivered \subseteq Nat
  BY DEF TypeOK, HistoryTypes
<1>2. /\ pc' = "dead" /\ synced' = FALSE /\ link' = "down" /\ inbox' = << >>
      /\ delivered' = delivered \ Unread
  BY DEF Dies
<1>3. inbox' \in Seq(Messages)
  BY <1>2
<1> QED
  BY <1>1, <1>2, <1>3

(* A send leaves the request under way, or the core dead, or neither.        *)
LEMMA SendTyped ==
  ASSUME TypeOK, NEW message \in Requests, NEW next \in Awaiting, LncSend(message, next),
         pc \in {"get", "set", "check"}
  PROVE  /\ link' \in {"down", "up", "eof"} /\ inbox' \in Seq(Messages)
         /\ toLnc' \in Seq(Requests) /\ delivered' \subseteq Nat
         /\ \/ /\ pc' = next /\ UNCHANGED << link, inbox, synced >>
            \/ pc' = "dead" /\ link' = "down" /\ inbox' = << >> /\ synced' = FALSE
<1>1. toLnc \in Seq(Requests) /\ inbox \in Seq(Messages) /\ delivered \subseteq Nat
      /\ link \in {"down", "up", "eof"}
  BY DEF TypeOK, LinkTypes, HistoryTypes
<1>2. Append(toLnc, message) \in Seq(Requests)
  BY <1>1, AppendElements
<1>3. CASE link = "eof" /\ Dies /\ UNCHANGED toLnc
  BY <1>1, <1>3, DiesTyped
<1>4. CASE /\ toLnc' \in {toLnc, Append(toLnc, message)} /\ pc' = next
           /\ UNCHANGED << link, inbox, delivered, synced >>
  BY <1>1, <1>2, <1>4
<1> QED
  BY <1>3, <1>4 DEF LncSend

(* A send keeps the types.                                                   *)
LEMMA SentTyped ==
  ASSUME TypeOK, NEW message \in Requests, NEW next \in Awaiting, LncSend(message, next),
         pc \in {"get", "set", "check"}, newTime' \in Nat,
         UNCHANGED << now, saved, fromLnc, lnc, session, rest >>
  PROVE  TypeOK'
<1>1. /\ link' \in {"down", "up", "eof"} /\ inbox' \in Seq(Messages)
      /\ toLnc' \in Seq(Requests) /\ delivered' \subseteq Nat
      /\ \/ /\ pc' = next /\ UNCHANGED << link, inbox, synced >>
         \/ pc' = "dead" /\ link' = "down" /\ inbox' = << >> /\ synced' = FALSE
  BY SendTyped
<1>2. next \in Awaiting /\ link # "down" /\ ~synced
  BY DEF TypeOK, OneConnection, CoreTypes
<1>3. CoreTypes'
  <2>1. pc' \in Awaiting \cup {"dead"} /\ synced' \in BOOLEAN
    BY <1>1 DEF TypeOK, CoreTypes
  <2> QED
    BY <2>1 DEF TypeOK, CoreTypes
<1>4. LinkTypes'
  BY <1>1 DEF TypeOK, LinkTypes
<1>5. HistoryTypes'
  BY <1>1 DEF TypeOK, HistoryTypes, lnc, rest
<1>6. OneConnection'
  <2>1. (link' = "down" <=> pc' \in {"connect", "dead"}) /\ (link' = "down" => inbox' = << >>)
    BY <1>1, <1>2 DEF TypeOK, OneConnection, Awaiting
  <2>2. session' > 0
    BY <1>2 DEF TypeOK, OneConnection
  <2>3. ~synced'
    BY <1>1, <1>2
  <2> QED
    BY <2>1, <2>2, <2>3 DEF OneConnection
<1> QED
  BY <1>3, <1>4, <1>5, <1>6 DEF TypeOK

(* A message that is read, and what is stored of it.                         *)
LEMMA ReadTyped ==
  ASSUME TypeOK, inbox # << >>
  PROVE  /\ Head(inbox) \in Messages /\ Tail(inbox) \in Seq(Messages)
         /\ Store(Head(inbox)) => saved' \in Seq(Nat)
<1>1. Head(inbox) \in Messages /\ Tail(inbox) \in Seq(Messages)
  BY TailElements DEF TypeOK, LinkTypes
<1>2. saved \in Seq(Nat)
  BY DEF TypeOK, CoreTypes
<1>3. Head(inbox).tag \in Telemetry => Append(saved, Head(inbox).id) \in Seq(Nat)
  BY <1>1, <1>2, MessageFields, AppendElements
<1> QED
  BY <1>1, <1>2, <1>3 DEF Store, Storable

(* What the core does keeps the types.                                       *)
LEMMA CoreTyped ==
  ASSUME TypeOK, Core \/ Stop \/ Restart
  PROVE  TypeOK'
<1>1. CASE Connect
  <2>1. CoreTypes' /\ LinkTypes'
    BY <1>1 DEF Connect, TypeOK, CoreTypes, LinkTypes
  <2>2. HistoryTypes' /\ OneConnection'
    BY <1>1 DEF Connect, TypeOK, HistoryTypes, OneConnection, lnc, rest
  <2> QED
    BY <2>1, <2>2 DEF TypeOK
<1>2. CASE SendGetTime
  <2>1. PICK next \in Awaiting :
          LncSend([tag |-> "GET_TIME_REQ"], next) /\ pc \in {"get", "set", "check"}
    BY <1>2 DEF SendGetTime, Awaiting
  <2>2. [tag |-> "GET_TIME_REQ"] \in Requests
    BY DEF Requests
  <2>3. newTime' \in Nat /\ UNCHANGED << now, saved, fromLnc, lnc, session, rest >>
    BY <1>2 DEF SendGetTime, TypeOK, CoreTypes
  <2> QED
    BY <2>1, <2>2, <2>3, SentTyped
<1>3. CASE SendSetRtc
  <2>1. pc = "set" /\ session > 0
    BY <1>3 DEF SendSetRtc, TypeOK, OneConnection
  <2>2. now \in Nat /\ session \in Nat
    BY LncSessionAssumption DEF TypeOK, CoreTypes, HistoryTypes
  <2>3. [tag |-> "SET_RTC_REQ", time |-> now, session |-> session] \in Requests
    BY <2>1, <2>2 DEF Requests
  <2>4. "await ack" \in Awaiting /\ newTime' \in Nat
        /\ UNCHANGED << now, saved, fromLnc, lnc, session, rest >>
    BY <1>3, <2>2 DEF SendSetRtc, Awaiting
  <2> QED
    BY <1>3, <2>1, <2>3, <2>4, SentTyped DEF SendSetRtc
<1>4. CASE RecvTelemetry
  <2>1. saved' \in Seq(Nat) /\ inbox' \in Seq(Messages)
    BY <1>4, ReadTyped DEF RecvTelemetry
  <2>2. CoreTypes' /\ LinkTypes'
    BY <1>4, <2>1 DEF RecvTelemetry, TypeOK, CoreTypes, LinkTypes
  <2>3. HistoryTypes'
    BY <1>4 DEF RecvTelemetry, TypeOK, HistoryTypes, lnc, rest
  <2>4. OneConnection'
    BY <1>4 DEF RecvTelemetry, TypeOK, OneConnection, Awaiting
  <2> QED
    BY <2>2, <2>3, <2>4 DEF TypeOK
<1>5. CASE RecvReply
  <2>1. inbox' \in Seq(Messages) /\ pc' \in {"set", "check", "stream"}
        /\ pc \in Awaiting \cup {"stream"} /\ inbox # << >>
    BY <1>5, ReadTyped DEF RecvReply, After
  <2>2. synced' \in BOOLEAN
    BY <1>5 DEF RecvReply, SyncedAfter, Confirms, TypeOK, CoreTypes
  <2>3. synced' => pc' = "stream"
    <3>1. synced' => pc = "await check" \/ synced
      BY <1>5 DEF RecvReply, SyncedAfter
    <3>2. pc \in {"await check", "stream"} => pc' = "stream"
      BY <1>5 DEF RecvReply, After
    <3> QED
      BY <3>1, <3>2 DEF TypeOK, OneConnection
  <2>4. CoreTypes' /\ LinkTypes'
    BY <1>5, <2>1, <2>2 DEF RecvReply, TypeOK, CoreTypes, LinkTypes
  <2>5. HistoryTypes'
    BY <1>5 DEF RecvReply, TypeOK, HistoryTypes, lnc, rest
  <2>6. OneConnection'
    BY <1>5, <2>1, <2>3 DEF RecvReply, TypeOK, OneConnection, Awaiting
  <2> QED
    BY <2>4, <2>5, <2>6 DEF TypeOK
<1>6. CASE RecvEof
  <2>1. CoreTypes' /\ LinkTypes'
    BY <1>6 DEF RecvEof, TypeOK, CoreTypes, LinkTypes
  <2>2. HistoryTypes' /\ OneConnection'
    BY <1>6 DEF RecvEof, TypeOK, HistoryTypes, OneConnection, lnc, rest
  <2> QED
    BY <2>1, <2>2 DEF TypeOK
<1>7. CASE Stop
  <2>1. /\ pc' = "dead" /\ synced' = FALSE /\ link' = "down"
        /\ inbox' = << >> /\ inbox' \in Seq(Messages) /\ delivered' \subseteq Nat
    BY <1>7, DiesTyped DEF Stop
  <2>2. CoreTypes' /\ LinkTypes'
    BY <1>7, <2>1 DEF Stop, TypeOK, CoreTypes, LinkTypes
  <2>3. HistoryTypes' /\ OneConnection'
    BY <1>7, <2>1 DEF Stop, TypeOK, HistoryTypes, OneConnection, lnc
  <2> QED
    BY <2>2, <2>3 DEF TypeOK
<1>8. CASE Restart
  <2>1. CoreTypes' /\ LinkTypes'
    BY <1>8 DEF Restart, TypeOK, CoreTypes, LinkTypes
  <2>2. HistoryTypes' /\ OneConnection'
    BY <1>8 DEF Restart, TypeOK, HistoryTypes, OneConnection, lnc, rest
  <2> QED
    BY <2>1, <2>2 DEF TypeOK
<1> QED
  BY <1>1, <1>2, <1>3, <1>4, <1>5, <1>6, <1>7, <1>8 DEF Core

(* The variables have their types, a connection its own inbox, and only a    *)
(* core that streams takes the clock for set.                                *)
THEOREM SessionTyping == Spec => []TypeOK
<1>1. TypeOK /\ [Next]_vars => TypeOK'
  <2> SUFFICES ASSUME TypeOK, [Next]_vars PROVE TypeOK'
    OBVIOUS
  <2>1. CASE Next
    BY <2>1, OutsideTyped, CoreTyped DEF Next, Environment, Outside
  <2>2. CASE UNCHANGED vars
    BY <2>2 DEF vars, core, lnc, rest, TypeOK, CoreTypes, LinkTypes, HistoryTypes,
                OneConnection
  <2> QED
    BY <2>1, <2>2
<1> QED
  BY InitTyped, <1>1, PTL DEF Spec

-----------------------------------------------------------------------------
(* Telemetry *)

(* The messages that are to be stored. *)
Storables == {m \in Messages : Storable(m)}

Ids(s) == IdsIn(s, Storables)
IdOf(m) == IdIn(m, Storables)
Rising(s) == RisingIn(s, Storables)

(* Telemetry is stored in the order in which it is reported, and none that   *)
(* has reached the core is missing.                                          *)
InOrderOfReport ==
  /\ \A i, j \in DOMAIN saved : i < j => saved[i] < saved[j]
  /\ Rising(inbox) /\ Rising(fromLnc)
  /\ Sorted(ToSet(saved), Ids(inbox), Ids(fromLnc), reports)
  /\ ToSet(saved) \cup Ids(inbox) = delivered

(* What is unread of telemetry, in the terms of SequenceLemmas.              *)
LEMMA UnreadIsIds == TypeOK => Unread = Ids(inbox)
BY DEF Unread, Ids, IdsIn, Storables, TypeOK, LinkTypes

(* Storing a report behind those stored.                                     *)
LEMMA StoreKeepsOrder ==
  ASSUME TypeOK, NEW m \in Messages, Store(m),
         \A i, j \in DOMAIN saved : i < j => saved[i] < saved[j],
         \A x \in ToSet(saved), y \in IdOf(m) : x < y
  PROVE  /\ ToSet(saved') = ToSet(saved) \cup IdOf(m)
         /\ \A i, j \in DOMAIN saved' : i < j => saved'[i] < saved'[j]
<1>1. saved \in Seq(Nat)
  BY DEF TypeOK, CoreTypes
<1>2. CASE Storable(m)
  <2>1. m.id \in Nat /\ IdOf(m) = {m.id}
    BY <1>2, MessageFields DEF IdOf, IdIn, Storables
  <2>2. saved' = Append(saved, m.id)
    BY <1>2 DEF Store
  <2> QED
    BY <1>1, <2>1, <2>2, StoredBehind
<1>3. CASE ~Storable(m)
  BY <1>3 DEF Store, IdOf, IdIn, Storables
<1> QED
  BY <1>2, <1>3

(* A message is read, and stored if it is to be.                             *)
LEMMA ReadKeepsOrder ==
  ASSUME TypeOK, InOrderOfReport, inbox # << >>, Store(Head(inbox)), inbox' = Tail(inbox),
         UNCHANGED << fromLnc, reports, delivered >>
  PROVE  InOrderOfReport'
<1>1. inbox \in Seq(Messages) /\ Head(inbox) \in Messages
  BY ReadTyped DEF TypeOK, LinkTypes
<1>2. /\ Ids(inbox) = IdOf(Head(inbox)) \cup Ids(inbox')
      /\ Rising(inbox')
      /\ \A x \in IdOf(Head(inbox)), y \in Ids(inbox') : x < y
  BY <1>1, IdsOfTail DEF InOrderOfReport, Ids, IdOf, Rising
<1>3. /\ ToSet(saved') = ToSet(saved) \cup IdOf(Head(inbox))
      /\ \A i, j \in DOMAIN saved' : i < j => saved'[i] < saved'[j]
  BY <1>1, <1>2, StoreKeepsOrder DEF InOrderOfReport, Sorted
<1>4. Sorted(ToSet(saved'), Ids(inbox'), Ids(fromLnc), reports)
  BY <1>2, <1>3 DEF InOrderOfReport, Sorted
<1> QED
  BY <1>2, <1>3, <1>4 DEF InOrderOfReport

(* What the core has not read ends with it.                                  *)
LEMMA DiesKeepsOrder ==
  ASSUME TypeOK, InOrderOfReport, Dies, UNCHANGED << saved, fromLnc, reports >>
  PROVE  InOrderOfReport'
<1>1. inbox' = << >> /\ delivered' = delivered \ Ids(inbox)
  BY UnreadIsIds DEF Dies
<1>2. Ids(inbox') = {} /\ Rising(inbox')
  BY <1>1 DEF Ids, Rising, IdsIn, RisingIn
<1>3. \A x \in ToSet(saved) : x \notin Ids(inbox)
  BY DEF InOrderOfReport, Sorted
<1>4. ToSet(saved') \cup Ids(inbox') = delivered'
  BY <1>1, <1>2, <1>3 DEF InOrderOfReport
<1>5. Sorted(ToSet(saved'), Ids(inbox'), Ids(fromLnc'), reports')
  BY <1>2 DEF InOrderOfReport, Sorted
<1> QED
  BY <1>2, <1>4, <1>5 DEF InOrderOfReport

(* Nothing of telemetry changes.                                             *)
LEMMA OthersKeepOrder ==
  ASSUME InOrderOfReport, UNCHANGED << saved, inbox, fromLnc, reports, delivered >>
  PROVE  InOrderOfReport'
BY DEF InOrderOfReport

(* The LNC sends a message that comes after all there are.                   *)
LEMMA SendingKeepsOrder ==
  ASSUME TypeOK, InOrderOfReport, NEW m \in Messages, fromLnc' = Append(fromLnc, m),
         reports' \in Nat, reports <= reports', IdOf(m) \subseteq {reports'},
         IdOf(m) # {} => reports < reports',
         UNCHANGED << saved, inbox, delivered >>
  PROVE  InOrderOfReport'
<1>1. fromLnc \in Seq(Messages) /\ reports \in Nat
  BY DEF TypeOK, LinkTypes, HistoryTypes
<1>2. \A x \in Ids(fromLnc), y \in IdOf(m) : x < y
  BY <1>1 DEF InOrderOfReport, Sorted
<1>3. Ids(fromLnc') = Ids(fromLnc) \cup IdOf(m) /\ Rising(fromLnc')
  BY <1>1, <1>2, IdsOfAppend DEF InOrderOfReport, Ids, IdOf, Rising
<1>4. Sorted(ToSet(saved), Ids(inbox), Ids(fromLnc'), reports')
  BY <1>1, <1>3 DEF InOrderOfReport, Sorted
<1> QED
  BY <1>3, <1>4 DEF InOrderOfReport

(* What the clocks, the LNC, the wire and the bridge do keeps the order.     *)
LEMMA OutsideKeepsOrder ==
  ASSUME TypeOK, InOrderOfReport, Outside
  PROVE  InOrderOfReport'
<1>1. CASE LncReport
  <2>1. reports \in Nat /\ reports' = reports + 1 /\ UNCHANGED << saved, inbox, delivered >>
    BY <1>1 DEF LncReport, TypeOK, HistoryTypes, core
  <2>2. PICK m \in Messages : fromLnc' = Append(fromLnc, m) /\ m.id = reports'
    BY <1>1, ReportContents
  <2>3. IdOf(m) \subseteq {reports'}
    BY <2>2 DEF IdOf, IdIn
  <2> QED
    BY <2>1, <2>2, <2>3, SendingKeepsOrder
<1>2. CASE LncGetTime \/ LncSetRtc
  <2>1. reports' = reports /\ reports \in Nat /\ UNCHANGED << saved, inbox, delivered >>
    BY <1>2 DEF LncGetTime, LncSetRtc, TypeOK, HistoryTypes, core, lnc
  <2>2. PICK m \in Messages : fromLnc' = Append(fromLnc, m) /\ m.tag \notin Telemetry
    <3>1. CASE LncGetTime
      BY <3>1, GetTimeContents DEF Telemetry
    <3>2. CASE LncSetRtc
      BY <3>2, SetRtcContents DEF Telemetry
    <3> QED
      BY <1>2, <3>1, <3>2
  <2>3. IdOf(m) = {}
    BY <2>2, MessageFields DEF IdOf, IdIn, Storables
  <2> QED
    BY <2>1, <2>2, <2>3, SendingKeepsOrder
<1>3. CASE LoseFrame
  <2>1. fromLnc \in Seq(Messages) /\ UNCHANGED << saved, inbox, reports, delivered >>
    BY <1>3 DEF LoseFrame, TypeOK, LinkTypes, core, lnc
  <2>2. Ids(fromLnc') \subseteq Ids(fromLnc) /\ Rising(fromLnc')
    BY <1>3, <2>1, IdsOfRemoveAt DEF LoseFrame, InOrderOfReport, Ids, Rising
  <2>3. Sorted(ToSet(saved), Ids(inbox), Ids(fromLnc'), reports)
    BY <2>2 DEF InOrderOfReport, Sorted
  <2> QED
    BY <2>1, <2>2, <2>3 DEF InOrderOfReport
<1>4. CASE Forward
  <2>1. /\ fromLnc \in Seq(Messages) /\ inbox \in Seq(Messages) /\ fromLnc # << >>
        /\ Head(fromLnc) \in Messages /\ fromLnc' = Tail(fromLnc)
        /\ UNCHANGED << saved, reports >>
    BY <1>4, TailElements DEF Forward, TypeOK, LinkTypes, core, lnc
  <2>2. /\ Ids(fromLnc) = IdOf(Head(fromLnc)) \cup Ids(fromLnc')
        /\ Rising(fromLnc')
        /\ \A x \in IdOf(Head(fromLnc)), y \in Ids(fromLnc') : x < y
    BY <2>1, IdsOfTail DEF InOrderOfReport, Ids, IdOf, Rising
  <2>3. CASE link = "up"
    <3>1. inbox' = Append(inbox, Head(fromLnc))
          /\ delivered' = delivered \cup IdOf(Head(fromLnc))
      BY <1>4, <2>1, <2>3 DEF Forward, IdOf, IdIn, Storables
    <3>2. \A x \in Ids(inbox), y \in IdOf(Head(fromLnc)) : x < y
      BY <2>2 DEF InOrderOfReport, Sorted
    <3>3. Ids(inbox') = Ids(inbox) \cup IdOf(Head(fromLnc)) /\ Rising(inbox')
      BY <2>1, <3>1, <3>2, IdsOfAppend DEF InOrderOfReport, Ids, IdOf, Rising
    <3>4. Sorted(ToSet(saved), Ids(inbox'), Ids(fromLnc'), reports)
      BY <2>2, <3>3 DEF InOrderOfReport, Sorted
    <3> QED
      BY <2>1, <2>2, <3>1, <3>3, <3>4 DEF InOrderOfReport
  <2>4. CASE link # "up"
    <3>1. UNCHANGED << inbox, delivered >>
      BY <1>4, <2>4 DEF Forward
    <3>2. Sorted(ToSet(saved), Ids(inbox), Ids(fromLnc'), reports)
      BY <2>2 DEF InOrderOfReport, Sorted
    <3> QED
      BY <2>1, <2>2, <3>1, <3>2 DEF InOrderOfReport
  <2> QED
    BY <2>3, <2>4
<1>5. CASE Tick \/ LncReboot \/ Drop
  BY <1>5, OthersKeepOrder DEF Tick, LncReboot, Drop, core, lnc
<1> QED
  BY <1>1, <1>2, <1>3, <1>4, <1>5 DEF Outside, Lnc

(* What the core does keeps the order.                                       *)
LEMMA CoreKeepsOrder ==
  ASSUME TypeOK, InOrderOfReport, Core \/ Stop \/ Restart
  PROVE  InOrderOfReport'
<1>1. CASE Connect \/ Restart \/ RecvEof
  BY <1>1, OthersKeepOrder DEF Connect, Restart, RecvEof, lnc
<1>2. CASE Stop
  BY <1>2, DiesKeepsOrder DEF Stop, lnc
<1>3. CASE SendGetTime \/ SendSetRtc
  <2>1. Dies \/ UNCHANGED << inbox, delivered >>
    BY <1>3 DEF SendGetTime, SendSetRtc, LncSend
  <2>2. UNCHANGED << saved, fromLnc, reports >>
    BY <1>3 DEF SendGetTime, SendSetRtc, lnc
  <2> QED
    BY <2>1, <2>2, DiesKeepsOrder, OthersKeepOrder
<1>4. CASE RecvTelemetry
  BY <1>4, ReadKeepsOrder DEF RecvTelemetry, lnc
<1>5. CASE RecvReply
  <2>1. ~Storable(Head(inbox))
    BY <1>5 DEF RecvReply, Storable
  <2>2. Store(Head(inbox))
    BY <1>5, <2>1 DEF RecvReply, Store
  <2> QED
    BY <1>5, <2>2, ReadKeepsOrder DEF RecvReply, lnc
<1> QED
  BY <1>1, <1>2, <1>3, <1>4, <1>5 DEF Core

(* Telemetry that has reached the core is stored, once and in the order of   *)
(* the reports, or is still to be read: whatever the core waits for.         *)
THEOREM TelemetryIsStored == Spec => []TelemetryStored
<1>1. Init => InOrderOfReport
  <2> SUFFICES ASSUME Init PROVE InOrderOfReport
    OBVIOUS
  <2>1. /\ saved = << >> /\ inbox = << >> /\ fromLnc = << >> /\ delivered = {}
    BY DEF Init
  <2>2. Ids(inbox) = {} /\ Ids(fromLnc) = {} /\ ToSet(saved) = {}
    BY <2>1 DEF Ids, IdsIn, ToSet
  <2> QED
    BY <2>1, <2>2 DEF InOrderOfReport, Rising, RisingIn, Sorted
<1>2. TypeOK /\ InOrderOfReport /\ [Next]_vars => InOrderOfReport'
  <2> SUFFICES ASSUME TypeOK, InOrderOfReport, [Next]_vars PROVE InOrderOfReport'
    OBVIOUS
  <2>1. CASE Next
    BY <2>1, OutsideKeepsOrder, CoreKeepsOrder DEF Next, Environment, Outside
  <2>2. CASE UNCHANGED vars
    BY <2>2, OthersKeepOrder DEF vars, core, lnc
  <2> QED
    BY <2>1, <2>2
<1>3. TypeOK /\ InOrderOfReport => TelemetryStored
  BY UnreadIsIds DEF InOrderOfReport, TelemetryStored
<1> QED
  BY SessionTyping, <1>1, <1>2, <1>3, PTL DEF Spec

-----------------------------------------------------------------------------
(* The clock *)

(* When the host's clock shows t, one that has not been set is as far behind *)
(* it as at first, or further; and so is a time read from it.                *)
Behind(time, t) == time + StartTime <= t

Truthful(m, t) == m.tag = "GET_TIME_RESP" /\ ~m.set => Behind(m.time, t)

AllTruthful(s, t) == \A i \in DOMAIN s : Truthful(s[i], t)

TimesAreTrue ==
  /\ setIn = 0 => Behind(lncTime, now)
  /\ AllTruthful(fromLnc, now) /\ AllTruthful(inbox, now)
  /\ pc \in {"await ack", "check", "await check"} => newTime >= StartTime

(* What was behind stays behind.                                             *)
LEMMA StaysBehind ==
  ASSUME NEW t \in Nat, NEW u \in Nat, t <= u, NEW s \in Seq(Messages), AllTruthful(s, t)
  PROVE  AllTruthful(s, u)
<1>1. ASSUME NEW m \in Messages, Truthful(m, t) PROVE Truthful(m, u)
  BY <1>1, MessageFields, LncSessionAssumption DEF Truthful, Behind
<1>2. \A i \in DOMAIN s : s[i] \in Messages
  OBVIOUS
<1> QED
  BY <1>1, <1>2 DEF AllTruthful

(* A queue of true messages from which one is taken, or to which one is put. *)
LEMMA TrueQueues ==
  ASSUME NEW t, NEW s \in Seq(Messages), AllTruthful(s, t)
  PROVE  /\ s # << >> => Truthful(Head(s), t) /\ AllTruthful(Tail(s), t)
         /\ \A i \in DOMAIN s : AllTruthful(RemoveAt(s, i), t)
         /\ \A m \in Messages : Truthful(m, t) => AllTruthful(Append(s, m), t)
         /\ AllTruthful(<< >>, t)
<1>1. ASSUME s # << >> PROVE Truthful(Head(s), t) /\ AllTruthful(Tail(s), t)
  <2>1. /\ Head(s) = s[1] /\ Len(s) \in Nat \ {0} /\ DOMAIN s = 1..Len(s)
        /\ DOMAIN Tail(s) = 1..(Len(s) - 1)
        /\ \A i \in 1..(Len(s) - 1) : Tail(s)[i] = s[i + 1]
    BY <1>1, TailElements
  <2> QED
    BY <2>1 DEF AllTruthful
<1>2. ASSUME NEW i \in DOMAIN s PROVE AllTruthful(RemoveAt(s, i), t)
  <2>1. Len(s) \in Nat /\ i \in 1..Len(s) /\ DOMAIN s = 1..Len(s)
    OBVIOUS
  <2>2. /\ RemoveAt(s, i) \in Seq(Messages) /\ Len(RemoveAt(s, i)) = Len(s) - 1
        /\ \A k \in 1..(Len(s) - 1) :
             RemoveAt(s, i)[k] = IF k < i THEN s[k] ELSE s[k + 1]
    BY <2>1, RemoveAtElements
  <2>3. DOMAIN RemoveAt(s, i) = 1..(Len(s) - 1)
    BY <2>1, <2>2
  <2> QED
    BY <2>1, <2>2, <2>3 DEF AllTruthful
<1>3. ASSUME NEW m \in Messages, Truthful(m, t) PROVE AllTruthful(Append(s, m), t)
  <2>1. /\ Len(s) \in Nat /\ DOMAIN s = 1..Len(s) /\ DOMAIN Append(s, m) = 1..(Len(s) + 1)
        /\ \A i \in 1..Len(s) : Append(s, m)[i] = s[i]
        /\ Append(s, m)[Len(s) + 1] = m
    BY AppendElements
  <2>2. ASSUME NEW i \in 1..(Len(s) + 1) PROVE Truthful(Append(s, m)[i], t)
    <3>1. CASE i = Len(s) + 1
      BY <1>3, <2>1, <3>1
    <3>2. CASE i # Len(s) + 1
      BY <2>1, <3>2 DEF AllTruthful
    <3> QED
      BY <3>1, <3>2
  <2> QED
    BY <2>1, <2>2 DEF AllTruthful
<1> QED
  BY <1>1, <1>2, <1>3 DEF AllTruthful

(* What the host's clock shows.                                              *)
LEMMA HostClock ==
  ASSUME TypeOK
  PROVE  now \in Nat /\ StartTime <= now /\ now <= StartTime + MaxTicks
<1>1. now \in StartTime..(StartTime + MaxTicks)
  BY DEF TypeOK, CoreTypes
<1>2. StartTime \in Nat /\ MaxTicks \in Nat
  BY LncSessionAssumption
<1> QED
  BY <1>1, <1>2

(* Time passes.                                                              *)
LEMMA TickKeepsTimes ==
  ASSUME TypeOK, TimesAreTrue, Tick
  PROVE  TimesAreTrue'
<1>1. /\ now \in Nat /\ lncTime \in Nat /\ StartTime \in Nat
      /\ fromLnc \in Seq(Messages) /\ inbox \in Seq(Messages)
  BY HostClock, LncSessionAssumption DEF TypeOK, LinkTypes, HistoryTypes
<1>2. /\ now' = now + 1 /\ lncTime' = lncTime + 1
      /\ UNCHANGED << setIn, fromLnc, inbox, pc, newTime >>
  BY DEF Tick, core
<1>3. AllTruthful(fromLnc, now + 1) /\ AllTruthful(inbox, now + 1)
  <2>1. AllTruthful(fromLnc, now) /\ AllTruthful(inbox, now)
    BY DEF TimesAreTrue
  <2>2. now + 1 \in Nat /\ now <= now + 1
    BY <1>1
  <2> QED
    BY <1>1, <2>1, <2>2, StaysBehind
<1>4. setIn = 0 => Behind(lncTime + 1, now + 1)
  <2>1. setIn = 0 => Behind(lncTime, now)
    BY DEF TimesAreTrue
  <2> QED
    BY <1>1, <2>1 DEF Behind
<1> QED
  BY <1>2, <1>3, <1>4 DEF TimesAreTrue

(* What the LNC, the wire and the bridge do keeps the times true.            *)
LEMMA OutsideKeepsTimes ==
  ASSUME TypeOK, TimesAreTrue, Outside
  PROVE  TimesAreTrue'
<1>1. fromLnc \in Seq(Messages) /\ inbox \in Seq(Messages)
  BY DEF TypeOK, LinkTypes
<1>2. CASE Tick
  BY <1>2, TickKeepsTimes
<1>3. CASE ~Tick
  <2>1. UNCHANGED << now, pc, newTime >>
    BY <1>3 DEF Outside, Lnc, LncReport, LncReboot, LoseFrame, Drop, LncGetTime, LncSetRtc,
                Forward, core
  <2>2. setIn' = 0 => Behind(lncTime', now')
    <3>1. CASE LncReboot
      <4>1. lncTime' = 0 /\ now \in StartTime..(StartTime + MaxTicks)
        BY <3>1 DEF LncReboot, TypeOK, CoreTypes
      <4> QED
        BY <2>1, <4>1, LncSessionAssumption DEF Behind
    <3>2. CASE LncSetRtc
      <4>1. Head(toLnc) \in Requests
        BY <3>2, TailElements DEF LncSetRtc, TypeOK, LinkTypes
      <4>2. Head(toLnc).session # 0
        BY <3>2, <4>1, RequestFields DEF LncSetRtc
      <4>3. UNCHANGED << lncTime, setIn >> \/ setIn' # 0
        BY <3>2, <4>2 DEF LncSetRtc
      <4> QED
        BY <2>1, <4>3 DEF TimesAreTrue, Behind
    <3>3. CASE ~LncReboot /\ ~LncSetRtc
      <4>1. UNCHANGED << lncTime, setIn >>
        BY <1>3, <3>3 DEF Outside, Lnc, LncReport, LoseFrame, Drop, LncGetTime, Forward, lnc
      <4> QED
        BY <2>1, <4>1 DEF TimesAreTrue, Behind
    <3> QED
      BY <3>1, <3>2, <3>3
  <2>3. AllTruthful(fromLnc', now) /\ AllTruthful(inbox', now)
    <3>1. CASE LncReport \/ LncGetTime \/ LncSetRtc
      <4>1. PICK m \in Messages : fromLnc' = Append(fromLnc, m) /\ Truthful(m, now)
        <5>1. CASE LncReport
          BY <5>1, ReportContents DEF Truthful, Telemetry
        <5>2. CASE LncGetTime
          BY <5>2, GetTimeContents DEF Truthful, TimesAreTrue
        <5>3. CASE LncSetRtc
          BY <5>3, SetRtcContents DEF Truthful
        <5> QED
          BY <3>1, <5>1, <5>2, <5>3
      <4>2. UNCHANGED inbox
        BY <3>1 DEF LncReport, LncGetTime, LncSetRtc
      <4> QED
        BY <1>1, <2>1, <4>1, <4>2, TrueQueues DEF TimesAreTrue
    <3>2. CASE LncReboot \/ Drop
      BY <1>1, <2>1, <3>2, TrueQueues DEF LncReboot, Drop, TimesAreTrue
    <3>3. CASE LoseFrame
      BY <1>1, <2>1, <3>3, TrueQueues DEF LoseFrame, TimesAreTrue
    <3>4. CASE Forward
      <4>1. Head(fromLnc) \in Messages /\ fromLnc # << >> /\ fromLnc' = Tail(fromLnc)
        BY <1>1, <3>4, TailElements DEF Forward
      <4>2. inbox' = inbox \/ inbox' = Append(inbox, Head(fromLnc))
        BY <3>4 DEF Forward
      <4>3. AllTruthful(fromLnc', now)
        BY <1>1, <2>1, <4>1, TrueQueues DEF TimesAreTrue
      <4>4. Truthful(Head(fromLnc), now)
        BY <1>1, <2>1, <4>1, TrueQueues DEF TimesAreTrue
      <4>5. AllTruthful(inbox', now)
        BY <1>1, <2>1, <4>1, <4>2, <4>4, TrueQueues DEF TimesAreTrue
      <4> QED
        BY <4>3, <4>5
    <3> QED
      BY <1>3, <3>1, <3>2, <3>3, <3>4 DEF Outside, Lnc
  <2> QED
    BY <2>1, <2>2, <2>3 DEF TimesAreTrue
<1> QED
  BY <1>2, <1>3

(* What the core does keeps the times true.                                  *)
LEMMA CoreKeepsTimes ==
  ASSUME TypeOK, TimesAreTrue, Core \/ Stop \/ Restart
  PROVE  TimesAreTrue'
<1>1. /\ UNCHANGED << now, lncTime, setIn, fromLnc >>
      /\ fromLnc \in Seq(Messages) /\ inbox \in Seq(Messages)
  BY DEF Core, Connect, SendGetTime, SendSetRtc, RecvTelemetry, RecvReply, RecvEof, Stop, Restart,
         lnc, TypeOK, LinkTypes
<1>2. inbox' \in {inbox, << >>} \/ (inbox # << >> /\ inbox' = Tail(inbox))
  <2>1. CASE SendGetTime \/ SendSetRtc
    BY <2>1 DEF SendGetTime, SendSetRtc, LncSend, Dies
  <2>2. CASE Connect \/ RecvTelemetry \/ RecvReply \/ RecvEof \/ Stop \/ Restart
    BY <2>2 DEF Connect, RecvTelemetry, RecvReply, RecvEof, Stop, Restart, Dies
  <2> QED
    BY <2>1, <2>2 DEF Core
<1>3. AllTruthful(inbox', now)
  BY <1>1, <1>2, TrueQueues DEF TimesAreTrue
<1>4. AllTruthful(fromLnc', now)
  BY <1>1, TrueQueues DEF TimesAreTrue
<1>5. setIn' = 0 => Behind(lncTime', now')
  BY <1>1 DEF TimesAreTrue, Behind
<1>6. pc' \in {"await ack", "check", "await check"} => newTime' >= StartTime
  <2>1. CASE SendSetRtc
    <3>1. newTime' = now /\ now \in StartTime..(StartTime + MaxTicks)
      BY <2>1 DEF SendSetRtc, TypeOK, CoreTypes
    <3> QED
      BY <3>1, HostClock
  <2>2. CASE ~SendSetRtc
    <3>1. UNCHANGED newTime
      BY <2>2 DEF Core, Connect, SendGetTime, RecvTelemetry, RecvReply, RecvEof, Stop, Restart
    <3>2. pc' \in {"await ack", "check", "await check"} =>
            pc \in {"await ack", "check", "await check"}
      <4>1. CASE SendGetTime
        BY <4>1 DEF SendGetTime, LncSend, Dies
      <4>2. CASE RecvReply
        BY <4>2 DEF RecvReply, After
      <4>3. CASE Connect \/ RecvTelemetry \/ RecvEof \/ Stop \/ Restart
        BY <4>3 DEF Connect, RecvTelemetry, RecvEof, Stop, Restart, Dies
      <4> QED
        BY <2>2, <4>1, <4>2, <4>3 DEF Core
    <3> QED
      BY <3>1, <3>2 DEF TimesAreTrue
  <2> QED
    BY <2>1, <2>2
<1> QED
  BY <1>1, <1>3, <1>4, <1>5, <1>6 DEF TimesAreTrue

(* A time that is not before one the core sets is not that of an unset      *)
(* clock: none runs for long enough.                                         *)
LEMMA NotBehind ==
  ASSUME NEW time \in Nat, NEW set \in Nat, NEW t \in Nat,
         time >= set, set >= StartTime, t <= StartTime + MaxTicks
  PROVE  ~Behind(time, t)
BY LncSessionAssumption DEF Behind

(* A time that confirms the one set does not come from a clock that has not  *)
(* been set.                                                                 *)
LEMMA ConfirmedIsSet ==
  ASSUME TypeOK, TimesAreTrue, RecvReply, pc = "await check", Confirms(Head(inbox))
  PROVE  Head(inbox).set
<1>1. inbox \in Seq(Messages) /\ inbox # << >>
  BY DEF RecvReply, TypeOK, LinkTypes
<1>2. Head(inbox) \in Messages /\ Truthful(Head(inbox), now)
  BY <1>1, TailElements, TrueQueues DEF TimesAreTrue
<1>3. /\ Head(inbox).time \in Nat /\ Head(inbox).time >= newTime
      /\ Head(inbox).tag = "GET_TIME_RESP" /\ newTime >= StartTime /\ newTime \in Nat
  BY <1>2, MessageFields DEF Confirms, TimesAreTrue, TypeOK, CoreTypes
<1>4. ~Behind(Head(inbox).time, now)
  BY <1>3, HostClock, NotBehind
<1> QED
  BY <1>2, <1>3, <1>4 DEF Truthful

(* A core that takes the LNC's clock for set has been told so by an LNC      *)
(* whose clock had been set since it booted, whichever request it answered.  *)
THEOREM SyncIsTrue == Spec => SyncedIsTrue
<1>1. Init => TimesAreTrue
  <2> SUFFICES ASSUME Init PROVE TimesAreTrue
    OBVIOUS
  <2>1. /\ now = StartTime /\ lncTime = 0 /\ fromLnc = << >> /\ inbox = << >>
        /\ pc = "connect"
    BY DEF Init
  <2> QED
    BY <2>1, LncSessionAssumption DEF TimesAreTrue, AllTruthful, Behind
<1>2. TypeOK /\ TimesAreTrue /\ [Next]_vars => TimesAreTrue'
  <2> SUFFICES ASSUME TypeOK, TimesAreTrue, [Next]_vars PROVE TimesAreTrue'
    OBVIOUS
  <2>1. CASE Next
    BY <2>1, OutsideKeepsTimes, CoreKeepsTimes DEF Next, Environment, Outside
  <2>2. CASE UNCHANGED vars
    BY <2>2 DEF vars, core, lnc, TimesAreTrue
  <2> QED
    BY <2>1, <2>2
<1>3. TypeOK /\ TimesAreTrue /\ [Next]_vars => [~synced /\ synced' => Head(inbox).set]_vars
  <2> SUFFICES ASSUME TypeOK, TimesAreTrue, Next, ~synced, synced' PROVE Head(inbox).set
    OBVIOUS
  <2>1. RecvReply
    <3>1. CASE Outside
      BY <3>1 DEF Outside, Lnc, Tick, LncReport, LncReboot, LoseFrame, Drop, LncGetTime,
                  LncSetRtc, Forward, core
    <3>2. CASE SendGetTime \/ SendSetRtc
      BY <3>2 DEF SendGetTime, SendSetRtc, LncSend, Dies
    <3>3. CASE Connect \/ RecvTelemetry \/ RecvEof \/ Stop \/ Restart
      BY <3>3 DEF Connect, RecvTelemetry, RecvEof, Stop, Restart, Dies
    <3> QED
      BY <3>1, <3>2, <3>3 DEF Next, Environment, Outside, Core
  <2>2. pc = "await check" /\ Confirms(Head(inbox))
    BY <2>1 DEF RecvReply, SyncedAfter
  <2> QED
    BY <2>1, <2>2, ConfirmedIsSet
<1> QED
  BY SessionTyping, <1>1, <1>2, <1>3, PTL DEF Spec, SyncedIsTrue

=============================================================================
