-------------------------- MODULE QueryPagingProofs --------------------------
(***************************************************************************)
(* What QueryPaging promises, proved for any ranges, page sizes, numbers   *)
(* of records, reports, queries, drops and faults.                         *)
(***************************************************************************)
EXTENDS QueryPaging, SequenceLemmas

-----------------------------------------------------------------------------
(* What the LNC answers *)

(* The record a request's page begins with. *)
From(q) == IF q.cursor = 0 THEN q.range[1] ELSE q.cursor

(* The fields of a request, and where its page begins.                       *)
LEMMA RequestFields ==
  ASSUME TypeOK, NEW q \in Requests
  PROVE  /\ q.kind \in Kinds /\ q.range \in Ranges /\ q.cursor \in Nat
         /\ q.range[1] \in Nat \ {0} /\ q.range[2] \in Nat
         /\ From(q) \in Nat \ {0}
         /\ LastIn(q.kind, q.range) \in Nat
<1>1. q.kind \in Kinds /\ q.range \in Ranges /\ q.cursor \in Nat
  BY DEF Requests
<1>2. q.range[1] \in Nat \ {0} /\ q.range[2] \in Nat
  BY <1>1, QueryPagingAssumption
<1>3. log[q.kind] \in Nat
  BY <1>1 DEF TypeOK, HistoryTypes
<1> QED
  BY <1>1, <1>2, <1>3 DEF From, LastIn

(* A page holds the records that follow each other from where it was asked   *)
(* to begin; its cursor, if it has one, is the record that follows and is    *)
(* there; if it has none, nothing of the range follows.                      *)
Answers(m, q) ==
  /\ m.tag = q.kind
  /\ m.status = "NO_DATA" => From(q) > LastIn(q.kind, q.range)
  /\ m.status = "SUCCESS" =>
       /\ Len(m.records) > 0
       /\ \A i \in 1..Len(m.records) : m.records[i] = From(q) + i - 1
       /\ m.cursor # 0 => /\ m.cursor = From(q) + Len(m.records)
                          /\ m.cursor <= LastIn(q.kind, q.range)
       /\ m.cursor = 0 => From(q) + Len(m.records) > LastIn(q.kind, q.range)

(* A page of the LNC answers what was asked.                                 *)
LEMMA PageContents ==
  ASSUME TypeOK, NEW q \in Requests, NEW n \in 1..PageSize, NEW m, m = Page(q, n)
  PROVE  m \in Messages /\ Answers(m, q)
<1> DEFINE from == From(q)
           last == LastIn(q.kind, q.range)
           n1   == IF n > last - from + 1 THEN last - from + 1 ELSE n
           recs == IF from > last THEN << >> ELSE [i \in 1..n1 |-> from + i - 1]
<1>1. from \in Nat \ {0} /\ last \in Nat /\ n \in Nat \ {0} /\ q.kind \in Kinds
  BY RequestFields, QueryPagingAssumption
<1>2. m = [tag |-> q.kind,
           status |-> IF from > last THEN "NO_DATA" ELSE "SUCCESS",
           records |-> recs,
           cursor |-> IF from + n1 > last THEN 0 ELSE from + n1]
  BY DEF Page, From
<1> HIDE DEF from, last, recs
<1>3. CASE from > last
  <2>1. n1 \in Int /\ from + n1 > last
    BY <1>1, <1>3
  <2>2. recs = << >> /\ << >> \in Seq(Nat)
    BY <1>3 DEF recs
  <2> HIDE DEF n1
  <2>3. m = [tag |-> q.kind, status |-> "NO_DATA", records |-> recs, cursor |-> 0]
    BY <1>2, <1>3, <2>1
  <2> QED
    BY <1>1, <1>3, <2>2, <2>3 DEF Messages, Answers, from, last
<1>4. CASE from <= last
  <2>1. n1 \in Nat \ {0} /\ from + n1 \in Nat
    BY <1>1, <1>4
  <2>2. ~(from > last)
    BY <1>1, <1>4
  <2>3. recs = [i \in 1..n1 |-> from + i - 1]
    BY <2>2 DEF recs
  <2> HIDE DEF n1
  <2>4. /\ recs \in Seq(Nat) /\ Len(recs) = n1
        /\ \A i \in 1..n1 : recs[i] = from + i - 1
    BY <1>1, <2>1, <2>3
  <2>5. m = [tag |-> q.kind, status |-> "SUCCESS", records |-> recs,
             cursor |-> IF from + n1 > last THEN 0 ELSE from + n1]
    BY <1>2, <2>2
  <2>6. m \in Messages
    BY <1>1, <2>1, <2>4, <2>5 DEF Messages
  <2>7. /\ m.tag = q.kind /\ m.status = "SUCCESS" /\ m.records = recs
        /\ m.cursor = IF from + n1 > last THEN 0 ELSE from + n1
    BY <2>5
  <2> QED
    BY <1>1, <2>1, <2>4, <2>6, <2>7 DEF Answers, from, last
<1> QED
  BY <1>1, <1>3, <1>4

(* A refusal answers anything.                                               *)
LEMMA RefusalContents ==
  ASSUME TypeOK, NEW q \in Requests
  PROVE  Refusal(q) \in Messages /\ Answers(Refusal(q), q)
<1>1. << >> \in Seq(Nat)
  OBVIOUS
<1> QED
  BY <1>1, RequestFields DEF Refusal, Messages, Answers

(* What comes back is an answer to what was asked first.                     *)
LEMMA ReplyAnswers ==
  ASSUME TypeOK, LncReply
  PROVE  /\ Head(toLnc) \in Requests /\ Tail(toLnc) \in Seq(Requests)
         /\ \E m \in Messages : fromLnc' = Append(fromLnc, m) /\ Answers(m, Head(toLnc))
<1>1. Head(toLnc) \in Requests /\ Tail(toLnc) \in Seq(Requests)
  BY TailElements DEF LncReply, TypeOK, LinkTypes
<1>2. CASE \E n \in 1..PageSize : fromLnc' = Append(fromLnc, Page(Head(toLnc), n))
  BY <1>1, <1>2, PageContents
<1>3. CASE fromLnc' = Append(fromLnc, Refusal(Head(toLnc)))
  BY <1>1, <1>3, RefusalContents
<1> QED
  BY <1>1, <1>2, <1>3 DEF LncReply

-----------------------------------------------------------------------------
(* The types *)

(* A message is telemetry or a page.                                         *)
LEMMA MessageFields ==
  ASSUME NEW m \in Messages
  PROVE  /\ m.tag = "TELEMETRY" => m.id \in Nat
         /\ m.tag \in Kinds => /\ m.status \in {"SUCCESS", "NO_DATA", "ERROR"}
                               /\ m.records \in Seq(Nat) /\ m.cursor \in Nat
         /\ m.tag = "TELEMETRY" \/ m.tag \in Kinds
BY DEF Messages, Kinds

(* The variables have their types at first.                                  *)
LEMMA InitTyped == Init => TypeOK
<1> SUFFICES ASSUME Init PROVE TypeOK
  OBVIOUS
<1>1. FleetTypes
  BY QueryPagingAssumption DEF Init, FleetTypes, Kinds
<1>2. LinkTypes /\ OneConnection
  BY DEF Init, LinkTypes, OneConnection
<1>3. HistoryTypes
  BY DEF Init, HistoryTypes
<1> QED
  BY <1>1, <1>2, <1>3 DEF TypeOK

(* What the LNC, the wire and the bridge do keeps the types.                 *)
LEMMA OutsideTyped ==
  ASSUME TypeOK, Environment \/ LncReply \/ Forward
  PROVE  TypeOK'
<1>1. FleetTypes'
  BY DEF TypeOK, FleetTypes, Environment, LncRecord, LncReport, LncReply, LncReboot, LoseFrame,
         Forward, Drop, fleet, query
<1>2. HistoryTypes'
  <2>1. CASE LncRecord
    BY <2>1 DEF LncRecord, TypeOK, HistoryTypes, fleet, query, rest
  <2>2. CASE LncReport
    BY <2>2 DEF LncReport, TypeOK, HistoryTypes, fleet, query, rest
  <2>4. CASE LncReply
    BY <2>4 DEF LncReply, TypeOK, HistoryTypes, fleet, query, lnc, rest
  <2>5. CASE LncReboot
    BY <2>5 DEF LncReboot, TypeOK, HistoryTypes, fleet, query, rest
  <2>6. CASE LoseFrame
    BY <2>6 DEF LoseFrame, TypeOK, HistoryTypes, fleet, query, rest
  <2>7. CASE Drop
    BY <2>7 DEF Drop, TypeOK, HistoryTypes, fleet, query, lnc
  <2>3. CASE Forward
    <3>1. Head(fromLnc) \in Messages
      BY <2>3, TailElements DEF Forward, TypeOK, LinkTypes
    <3>2. Head(fromLnc).tag = "TELEMETRY" => Head(fromLnc).id \in Nat
      BY <3>1, MessageFields
    <3>3. delivered \subseteq Nat
      BY DEF TypeOK, HistoryTypes
    <3>4. delivered' \subseteq Nat
      BY <2>3, <3>2, <3>3 DEF Forward
    <3> QED
      BY <2>3, <3>4 DEF Forward, TypeOK, HistoryTypes, fleet, query, lnc, rest
  <2> QED
    BY <2>1, <2>2, <2>3, <2>4, <2>5, <2>6, <2>7 DEF Environment
<1>3. LinkTypes'
  <2>1. CASE LncRecord \/ Drop
    BY <2>1 DEF LncRecord, Drop, TypeOK, LinkTypes
  <2>6. CASE LncReboot
    BY <2>6 DEF LncReboot, TypeOK, LinkTypes
  <2>2. CASE LncReport
    <3>1. [tag |-> "TELEMETRY", id |-> reports'] \in Messages
      BY <2>2 DEF LncReport, TypeOK, HistoryTypes, Messages
    <3> QED
      BY <2>2, <3>1, AppendElements DEF LncReport, TypeOK, LinkTypes
  <2>3. CASE LoseFrame
    BY <2>3, RemoveAtElements DEF LoseFrame, TypeOK, LinkTypes
  <2>4. CASE LncReply
    <3>1. PICK m \in Messages : fromLnc' = Append(fromLnc, m)
      BY <2>4, ReplyAnswers
    <3> QED
      BY <2>4, <3>1, ReplyAnswers, AppendElements DEF LncReply, TypeOK, LinkTypes
  <2>5. CASE Forward
    <3>1. Head(fromLnc) \in Messages /\ Tail(fromLnc) \in Seq(Messages)
          /\ inbox \in Seq(Messages)
      BY <2>5, TailElements DEF Forward, TypeOK, LinkTypes
    <3>2. Append(inbox, Head(fromLnc)) \in Seq(Messages)
      BY <3>1, AppendElements
    <3>3. inbox' \in Seq(Messages) /\ fromLnc' \in Seq(Messages)
      BY <2>5, <3>1, <3>2 DEF Forward
    <3> QED
      BY <2>5, <3>3 DEF Forward, TypeOK, LinkTypes
  <2> QED
    BY <2>1, <2>2, <2>3, <2>4, <2>5, <2>6 DEF Environment
<1>4. OneConnection'
  BY DEF TypeOK, OneConnection, Environment, LncRecord, LncReport, LncReply, LncReboot, LoseFrame,
         Forward, Drop, fleet, query
<1> QED
  BY <1>1, <1>2, <1>3, <1>4 DEF TypeOK

(* Closing a connection leaves nothing of it.                                *)
LEMMA GiveUpTyped ==
  ASSUME TypeOK, GiveUp
  PROVE  link' = "down" /\ inbox' = << >> /\ inbox' \in Seq(Messages) /\ delivered' \subseteq Nat
<1>1. delivered \subseteq Nat
  BY DEF TypeOK, HistoryTypes
<1>2. link' = "down" /\ inbox' = << >> /\ delivered' = delivered \ Unread
  BY DEF GiveUp
<1>3. inbox' \in Seq(Messages)
  BY <1>2
<1> QED
  BY <1>1, <1>2, <1>3

(* A message that is read, and what is stored of it.                         *)
LEMMA ReadTyped ==
  ASSUME TypeOK, inbox # << >>
  PROVE  /\ Head(inbox) \in Messages /\ Tail(inbox) \in Seq(Messages)
         /\ Store(Head(inbox)) => saved' \in Seq(Nat)
<1>1. Head(inbox) \in Messages /\ Tail(inbox) \in Seq(Messages)
  BY TailElements DEF TypeOK, LinkTypes
<1>2. saved \in Seq(Nat)
  BY DEF TypeOK, FleetTypes
<1>3. Head(inbox).tag = "TELEMETRY" => Append(saved, Head(inbox).id) \in Seq(Nat)
  BY <1>1, <1>2, MessageFields, AppendElements
<1> QED
  BY <1>1, <1>2, <1>3 DEF Store

(* What a user of oop_fleet does keeps the types.                            *)
LEMMA UserTyped ==
  ASSUME TypeOK, User \/ Polling
  PROVE  TypeOK'
<1>1. CASE Connect
  <2>1. FleetTypes' /\ LinkTypes'
    BY <1>1 DEF Connect, TypeOK, FleetTypes, LinkTypes, fleet, query
  <2>2. HistoryTypes' /\ OneConnection'
    BY <1>1 DEF Connect, TypeOK, HistoryTypes, OneConnection, fleet, query, lnc, rest
  <2> QED
    BY <2>1, <2>2 DEF TypeOK
<1>2. CASE Disconnect
  <2>1. FleetTypes' /\ LinkTypes'
    BY <1>2, GiveUpTyped DEF Disconnect, TypeOK, FleetTypes, LinkTypes, fleet, query
  <2>2. HistoryTypes' /\ OneConnection'
    BY <1>2, GiveUpTyped DEF Disconnect, TypeOK, HistoryTypes, OneConnection, fleet, query, lnc
  <2> QED
    BY <2>1, <2>2 DEF TypeOK
<1>3. CASE Poll
  <2>1. turn' \in 0..PollLimit
    BY <1>3, QueryPagingAssumption DEF Poll
  <2>2. FleetTypes'
    BY <1>3, <2>1 DEF Poll, TypeOK, FleetTypes, query
  <2>3. LinkTypes'
    BY <1>3 DEF Poll, TypeOK, LinkTypes
  <2>4. HistoryTypes' /\ OneConnection'
    BY <1>3 DEF Poll, TypeOK, HistoryTypes, OneConnection, query, lnc, rest
  <2> QED
    BY <2>2, <2>3, <2>4 DEF TypeOK
<1>4. CASE PollMessage
  <2>1. LinkTypes' /\ saved' \in Seq(Nat)
    BY <1>4, ReadTyped DEF PollMessage, TypeOK, LinkTypes
  <2>2. turn' \in 0..PollLimit
    <3>1. turn \in 0..PollLimit
      BY DEF TypeOK, FleetTypes
    <3> QED
      BY <1>4, <3>1, QueryPagingAssumption DEF PollMessage
  <2>3. FleetTypes'
    BY <1>4, <2>1, <2>2 DEF PollMessage, TypeOK, FleetTypes, query
  <2>4. HistoryTypes' /\ OneConnection'
    BY <1>4 DEF PollMessage, TypeOK, HistoryTypes, OneConnection, query, lnc, rest
  <2> QED
    BY <2>1, <2>3, <2>4 DEF TypeOK
<1>5. CASE PollEnds
  <2>1. GiveUp \/ UNCHANGED << link, inbox, delivered >>
    BY <1>5 DEF PollEnds
  <2>2. FleetTypes' /\ LinkTypes'
    BY <1>5, <2>1, GiveUpTyped DEF PollEnds, TypeOK, FleetTypes, LinkTypes, query
  <2>3. HistoryTypes'
    BY <1>5, <2>1, GiveUpTyped DEF PollEnds, TypeOK, HistoryTypes, query, lnc, rest
  <2>4. OneConnection'
    BY <1>5, <2>1, GiveUpTyped DEF PollEnds, TypeOK, OneConnection
  <2> QED
    BY <2>2, <2>3, <2>4 DEF TypeOK
<1>6. CASE ViewHistoricalData
  <2>1. PICK r \in Ranges : Begin("MEASUREMENTS", r)
    BY <1>6 DEF ViewHistoricalData
  <2>2. /\ LastIn("MEASUREMENTS", r) \in Nat /\ r[1] \in Nat
    BY QueryPagingAssumption DEF LastIn, TypeOK, HistoryTypes, Kinds
  <2>3. owed' \in Nat /\ alone' \in BOOLEAN
    BY <2>1, <2>2 DEF Begin, Quiet
  <2>4. FleetTypes'
    <3>1. << >> \in Seq(Nat)
      OBVIOUS
    <3> QED
      BY <1>6, <2>1, <3>1 DEF ViewHistoricalData, Begin, TypeOK, FleetTypes, Kinds
  <2>5. LinkTypes'
    BY <1>6 DEF ViewHistoricalData, TypeOK, LinkTypes
  <2>6. OneConnection'
    BY <1>6, <2>1 DEF ViewHistoricalData, Begin, TypeOK, OneConnection
  <2>7. HistoryTypes'
    BY <1>6, <2>3 DEF ViewHistoricalData, TypeOK, HistoryTypes, lnc
  <2> QED
    BY <2>4, <2>5, <2>6, <2>7 DEF TypeOK
<1>7. CASE Stop
  <2>1. FleetTypes' /\ LinkTypes'
    BY <1>7, GiveUpTyped DEF Stop, Dies, TypeOK, FleetTypes, LinkTypes, query
  <2>2. HistoryTypes' /\ OneConnection'
    BY <1>7, GiveUpTyped DEF Stop, Dies, TypeOK, HistoryTypes, OneConnection, query, lnc
  <2> QED
    BY <2>1, <2>2 DEF TypeOK
<1>8. CASE Restart
  <2>1. FleetTypes' /\ LinkTypes'
    BY <1>8 DEF Restart, TypeOK, FleetTypes, LinkTypes, query
  <2>2. HistoryTypes' /\ OneConnection'
    BY <1>8 DEF Restart, TypeOK, HistoryTypes, OneConnection, query, lnc, rest
  <2> QED
    BY <2>1, <2>2 DEF TypeOK
<1> QED
  BY <1>1, <1>2, <1>3, <1>4, <1>5, <1>6, <1>7, <1>8 DEF User, Polling

(* What a query does keeps the types.                                        *)
LEMMA QueryTyped ==
  ASSUME TypeOK, Asking
  PROVE  TypeOK'
<1>1. CASE QueryEvents
  <2>1. Begin("EVENTS", range) /\ range \in Ranges
    BY <1>1 DEF QueryEvents, TypeOK, FleetTypes
  <2>2. /\ LastIn("EVENTS", range) \in Nat /\ range[1] \in Nat
    BY <2>1, QueryPagingAssumption DEF LastIn, TypeOK, HistoryTypes, Kinds
  <2>3. owed' \in Nat /\ alone' \in BOOLEAN
    BY <2>1, <2>2 DEF Begin, Quiet
  <2>4. FleetTypes'
    <3>1. << >> \in Seq(Nat)
      OBVIOUS
    <3>2. /\ pc' = "send" /\ kind' = "EVENTS" /\ range' = range /\ cursor' = 0
          /\ printed' = << >> /\ ended' = "no"
      BY <2>1 DEF Begin
    <3>3. UNCHANGED << turn, saved >>
      BY <1>1 DEF QueryEvents
    <3> QED
      BY <3>1, <3>2, <3>3 DEF TypeOK, FleetTypes, Kinds
  <2>5. LinkTypes'
    BY <1>1 DEF QueryEvents, TypeOK, LinkTypes
  <2>6. OneConnection'
    BY <1>1, <2>1 DEF QueryEvents, Begin, TypeOK, OneConnection
  <2>7. HistoryTypes'
    BY <1>1, <2>3 DEF QueryEvents, TypeOK, HistoryTypes, lnc, rest
  <2> QED
    BY <2>4, <2>5, <2>6, <2>7 DEF TypeOK
<1>2. CASE SendRequest
  <2>1. Request \in Requests
    BY DEF Request, Requests, TypeOK, FleetTypes
  <2>2. toLnc' \in Seq(Requests)
    BY <1>2, <2>1, AppendElements DEF SendRequest, TypeOK, LinkTypes
  <2>3. UNCHANGED << link, inbox, delivered >> \/ GiveUp
    BY <1>2 DEF SendRequest, Dies
  <2>4. FleetTypes' /\ LinkTypes'
    BY <1>2, <2>2, <2>3, GiveUpTyped DEF SendRequest, Dies, TypeOK, FleetTypes, LinkTypes, query
  <2>5. HistoryTypes'
    BY <1>2, <2>3, GiveUpTyped DEF SendRequest, TypeOK, HistoryTypes, query, lnc, rest
  <2>6. OneConnection'
    BY <1>2, GiveUpTyped DEF SendRequest, Dies, TypeOK, OneConnection, query
  <2> QED
    BY <2>4, <2>5, <2>6 DEF TypeOK
<1>3. CASE RecvTelemetry
  <2>1. LinkTypes' /\ saved' \in Seq(Nat)
    BY <1>3, ReadTyped DEF RecvTelemetry, TypeOK, LinkTypes
  <2>2. FleetTypes'
    BY <1>3, <2>1 DEF RecvTelemetry, TypeOK, FleetTypes, query
  <2>3. HistoryTypes' /\ OneConnection'
    BY <1>3 DEF RecvTelemetry, TypeOK, HistoryTypes, OneConnection, query, lnc, rest
  <2> QED
    BY <2>1, <2>2, <2>3 DEF TypeOK
<1>4. CASE RecvPage
  <2>1. LinkTypes'
    BY <1>4, ReadTyped DEF RecvPage, TypeOK, LinkTypes
  <2>2. Head(inbox).records \in Seq(Nat) /\ Head(inbox).cursor \in Nat
    BY <1>4, ReadTyped, MessageFields DEF RecvPage, TypeOK, FleetTypes
  <2>3. printed' \in Seq(Nat)
    BY <1>4, <2>2, ConcatProperties DEF RecvPage, TypeOK, FleetTypes
  <2>4. cursor' \in Nat /\ ended' \in {"no", "done"} /\ pc' \in {"send", "events", "menu"}
        /\ (pc' = "send" => ended' = "no")
    BY <1>4, <2>2 DEF RecvPage, NextCursor, Caller, TypeOK, FleetTypes, OneConnection
  <2>5. FleetTypes'
    BY <1>4, <2>3, <2>4 DEF RecvPage, TypeOK, FleetTypes
  <2>6. HistoryTypes'
    BY <1>4 DEF RecvPage, TypeOK, HistoryTypes, lnc, rest
  <2>7. OneConnection'
    BY <1>4, <2>4 DEF RecvPage, TypeOK, OneConnection
  <2> QED
    BY <2>1, <2>5, <2>6, <2>7 DEF TypeOK
<1>5. CASE RecvOther
  <2>1. LinkTypes'
    BY <1>5, ReadTyped DEF RecvOther, TypeOK, LinkTypes
  <2>2. FleetTypes'
    BY <1>5 DEF RecvOther, Caller, TypeOK, FleetTypes
  <2>3. HistoryTypes'
    BY <1>5 DEF RecvOther, TypeOK, HistoryTypes, lnc, rest
  <2>4. OneConnection'
    BY <1>5 DEF RecvOther, Caller, TypeOK, OneConnection
  <2> QED
    BY <2>1, <2>2, <2>3, <2>4 DEF TypeOK
<1>6. CASE RecvEof
  <2>1. FleetTypes' /\ LinkTypes'
    BY <1>6 DEF RecvEof, AfterEof, Caller, TypeOK, FleetTypes, LinkTypes
  <2>2. HistoryTypes' /\ OneConnection'
    BY <1>6 DEF RecvEof, AfterEof, Caller, TypeOK, HistoryTypes, OneConnection, lnc, rest
  <2> QED
    BY <2>1, <2>2 DEF TypeOK
<1> QED
  BY <1>1, <1>2, <1>3, <1>4, <1>5, <1>6 DEF Asking

(* The variables of QueryPaging keep their types: whatever arrives when, a   *)
(* query is under way on an open connection only.                            *)
THEOREM QueryTyping == Spec => []TypeOK
<1>1. TypeOK /\ [Next]_vars => TypeOK'
  <2> SUFFICES ASSUME TypeOK, [Next]_vars PROVE TypeOK'
    OBVIOUS
  <2>1. CASE Next
    BY <2>1, OutsideTyped, UserTyped, QueryTyped DEF Next
  <2>2. CASE UNCHANGED vars
    BY <2>2 DEF vars, fleet, query, lnc, rest, TypeOK, FleetTypes, LinkTypes, HistoryTypes,
                OneConnection
  <2> QED
    BY <2>1, <2>2
<1> QED
  BY InitTyped, <1>1, PTL DEF Spec

-----------------------------------------------------------------------------
(* Telemetry *)

(* The reports among messages. *)
Reports == {m \in Messages : m.tag = "TELEMETRY"}

Ids(s) == IdsIn(s, Reports)
IdOf(m) == IdIn(m, Reports)
Rising(s) == RisingIn(s, Reports)

(* Reports are stored in the order in which they are made, and none that has *)
(* reached oop_fleet is missing.                                             *)
InOrderOfReport ==
  /\ \A i, j \in DOMAIN saved : i < j => saved[i] < saved[j]
  /\ Rising(inbox) /\ Rising(fromLnc)
  /\ Sorted(ToSet(saved), Ids(inbox), Ids(fromLnc), reports)
  /\ ToSet(saved) \cup Ids(inbox) = delivered

(* What is unread of telemetry, in the terms of SequenceLemmas.              *)
LEMMA UnreadIsIds == TypeOK => Unread = Ids(inbox)
BY DEF Unread, Ids, IdsIn, Reports, TypeOK, LinkTypes

(* Storing a report behind those stored.                                     *)
LEMMA StoreKeepsOrder ==
  ASSUME TypeOK, NEW m \in Messages, Store(m),
         \A i, j \in DOMAIN saved : i < j => saved[i] < saved[j],
         \A x \in ToSet(saved), y \in IdOf(m) : x < y
  PROVE  /\ ToSet(saved') = ToSet(saved) \cup IdOf(m)
         /\ \A i, j \in DOMAIN saved' : i < j => saved'[i] < saved'[j]
<1>1. saved \in Seq(Nat)
  BY DEF TypeOK, FleetTypes
<1>2. CASE m.tag = "TELEMETRY"
  <2>1. m.id \in Nat /\ IdOf(m) = {m.id}
    BY <1>2, MessageFields DEF IdOf, IdIn, Reports
  <2>2. saved' = Append(saved, m.id)
    BY <1>2 DEF Store
  <2> QED
    BY <1>1, <2>1, <2>2, StoredBehind
<1>3. CASE m.tag # "TELEMETRY"
  BY <1>3 DEF Store, IdOf, IdIn, Reports
<1> QED
  BY <1>2, <1>3

(* A message is read and what it reports is stored.                          *)
LEMMA ReadKeepsOrder ==
  ASSUME TypeOK, InOrderOfReport, inbox # << >>, Store(Head(inbox)), inbox' = Tail(inbox),
         UNCHANGED << fromLnc, reports, delivered >>
  PROVE  InOrderOfReport'
<1>1. inbox \in Seq(Messages) /\ Head(inbox) \in Messages
  BY ReadTyped DEF TypeOK, LinkTypes
<1>2. /\ Ids(inbox) = IdOf(Head(inbox)) \cup Ids(inbox')
      /\ Rising(inbox')
      /\ \A x \in IdOf(Head(inbox)), y \in Ids(inbox') : x < y
  BY <1>1, IdsOfTail DEF InOrderOfReport, Ids, IdOf, Rising
<1>3. /\ ToSet(saved') = ToSet(saved) \cup IdOf(Head(inbox))
      /\ \A i, j \in DOMAIN saved' : i < j => saved'[i] < saved'[j]
  BY <1>1, <1>2, StoreKeepsOrder DEF InOrderOfReport, Sorted
<1>4. Sorted(ToSet(saved'), Ids(inbox'), Ids(fromLnc), reports)
  BY <1>2, <1>3 DEF InOrderOfReport, Sorted
<1> QED
  BY <1>2, <1>3, <1>4 DEF InOrderOfReport

(* A message is read that reports nothing.                                   *)
LEMMA PageReadKeepsOrder ==
  ASSUME TypeOK, InOrderOfReport, inbox # << >>, Head(inbox).tag \in Kinds,
         inbox' = Tail(inbox), UNCHANGED << saved, fromLnc, reports, delivered >>
  PROVE  InOrderOfReport'
<1>1. Store(Head(inbox))
  BY DEF Store, Kinds
<1> QED
  BY <1>1, ReadKeepsOrder

(* What has not been read goes with its connection.                          *)
LEMMA GiveUpKeepsOrder ==
  ASSUME TypeOK, InOrderOfReport, GiveUp, UNCHANGED << saved, fromLnc, reports >>
  PROVE  InOrderOfReport'
<1>1. inbox' = << >> /\ delivered' = delivered \ Ids(inbox)
  BY UnreadIsIds DEF GiveUp
<1>2. Ids(inbox') = {} /\ Rising(inbox')
  BY <1>1 DEF Ids, Rising, IdsIn, RisingIn
<1>3. \A x \in ToSet(saved) : x \notin Ids(inbox)
  BY DEF InOrderOfReport, Sorted
<1>4. ToSet(saved') \cup Ids(inbox') = delivered'
  BY <1>1, <1>2, <1>3 DEF InOrderOfReport
<1>5. Sorted(ToSet(saved'), Ids(inbox'), Ids(fromLnc'), reports')
  BY <1>2 DEF InOrderOfReport, Sorted
<1> QED
  BY <1>2, <1>4, <1>5 DEF InOrderOfReport

(* Nothing of telemetry changes.                                             *)
LEMMA OthersKeepOrder ==
  ASSUME InOrderOfReport, UNCHANGED << saved, inbox, fromLnc, reports, delivered >>
  PROVE  InOrderOfReport'
BY DEF InOrderOfReport

(* What the LNC, the wire and the bridge do keeps reports in order.          *)
LEMMA OutsideKeepsOrder ==
  ASSUME TypeOK, InOrderOfReport, Environment \/ LncReply \/ Forward
  PROVE  InOrderOfReport'
<1> USE DEF TypeOK, LinkTypes
<1>1. CASE LncReport
  <2>1. reports \in Nat
    BY DEF HistoryTypes
  <2> DEFINE m == [tag |-> "TELEMETRY", id |-> reports + 1]
  <2>2. m \in Messages /\ IdOf(m) = {reports + 1}
    BY <2>1 DEF Messages, IdOf, IdIn, Reports
  <2>3. \A x \in Ids(fromLnc), y \in IdOf(m) : x < y
    BY <2>1, <2>2 DEF InOrderOfReport, Sorted
  <2>4. fromLnc' = Append(fromLnc, m) /\ reports' = reports + 1
        /\ UNCHANGED << saved, inbox, delivered >>
    BY <1>1 DEF LncReport, fleet
  <2> HIDE DEF m
  <2>5. Ids(fromLnc') = Ids(fromLnc) \cup {reports + 1} /\ Rising(fromLnc')
    BY <2>2, <2>3, <2>4, IdsOfAppend DEF InOrderOfReport, Ids, IdOf, Rising
  <2>6. Sorted(ToSet(saved), Ids(inbox), Ids(fromLnc'), reports + 1)
    BY <2>1, <2>5 DEF InOrderOfReport, Sorted
  <2> QED
    BY <2>4, <2>5, <2>6 DEF InOrderOfReport
<1>2. CASE LncReply
  <2>1. PICK m \in Messages : fromLnc' = Append(fromLnc, m) /\ m.tag = Head(toLnc).kind
    BY <1>2, ReplyAnswers DEF Answers
  <2>2. m.tag \in Kinds /\ IdOf(m) = {}
    BY <1>2, <2>1, ReplyAnswers DEF IdOf, IdIn, Reports, Kinds, Requests
  <2>3. \A x \in IdsIn(fromLnc, Reports), y \in IdIn(m, Reports) : x < y
    BY <2>2 DEF IdOf
  <2>4. /\ IdsIn(Append(fromLnc, m), Reports) = IdsIn(fromLnc, Reports) \cup IdIn(m, Reports)
        /\ RisingIn(Append(fromLnc, m), Reports)
    BY <2>1, <2>3, IdsOfAppend DEF InOrderOfReport, Rising
  <2>5. Ids(fromLnc') = Ids(fromLnc) /\ Rising(fromLnc')
    BY <2>1, <2>2, <2>4 DEF Ids, IdOf, Rising
  <2> QED
    BY <1>2, <2>5 DEF LncReply, InOrderOfReport, fleet, lnc
<1>3. CASE LoseFrame
  <2>1. Ids(fromLnc') \subseteq Ids(fromLnc) /\ Rising(fromLnc')
    BY <1>3, IdsOfRemoveAt DEF LoseFrame, InOrderOfReport, Ids, Rising
  <2>2. Sorted(ToSet(saved), Ids(inbox), Ids(fromLnc'), reports)
    BY <2>1 DEF InOrderOfReport, Sorted
  <2> QED
    BY <1>3, <2>1, <2>2 DEF LoseFrame, InOrderOfReport, fleet
<1>4. CASE Forward
  <2>1. Head(fromLnc) \in Messages /\ fromLnc' = Tail(fromLnc) /\ UNCHANGED << saved, reports >>
    BY <1>4, TailElements DEF Forward, fleet, lnc
  <2>2. /\ Ids(fromLnc) = IdOf(Head(fromLnc)) \cup Ids(fromLnc')
        /\ Rising(fromLnc')
        /\ \A x \in IdOf(Head(fromLnc)), y \in Ids(fromLnc') : x < y
    BY <1>4, <2>1, IdsOfTail DEF Forward, InOrderOfReport, Ids, IdOf, Rising
  <2>3. CASE link = "up"
    <3>1. inbox' = Append(inbox, Head(fromLnc))
          /\ delivered' = delivered \cup IdOf(Head(fromLnc))
      BY <1>4, <2>3 DEF Forward, IdOf, IdIn, Reports
    <3>2. \A x \in Ids(inbox), y \in IdOf(Head(fromLnc)) : x < y
      BY <2>2 DEF InOrderOfReport, Sorted
    <3>3. Ids(inbox') = Ids(inbox) \cup IdOf(Head(fromLnc)) /\ Rising(inbox')
      BY <2>1, <3>1, <3>2, IdsOfAppend DEF InOrderOfReport, Ids, IdOf, Rising
    <3>4. Sorted(ToSet(saved), Ids(inbox'), Ids(fromLnc'), reports)
      BY <2>2, <3>3 DEF InOrderOfReport, Sorted
    <3> QED
      BY <2>1, <2>2, <3>1, <3>3, <3>4 DEF InOrderOfReport
  <2>4. CASE link # "up"
    <3>1. UNCHANGED << inbox, delivered >>
      BY <1>4, <2>4 DEF Forward
    <3>2. Sorted(ToSet(saved), Ids(inbox), Ids(fromLnc'), reports)
      BY <2>2 DEF InOrderOfReport, Sorted
    <3> QED
      BY <2>1, <2>2, <3>1, <3>2 DEF InOrderOfReport
  <2> QED
    BY <2>3, <2>4
<1>5. CASE LncRecord \/ LncReboot \/ Drop
  BY <1>5, OthersKeepOrder DEF LncRecord, LncReboot, Drop, fleet, lnc
<1> QED
  BY <1>1, <1>2, <1>3, <1>4, <1>5 DEF Environment

(* What oop_fleet does keeps reports in order.                               *)
LEMMA FleetKeepsOrder ==
  ASSUME TypeOK, InOrderOfReport, User \/ Polling \/ Asking
  PROVE  InOrderOfReport'
<1>1. CASE Connect \/ Poll \/ ViewHistoricalData \/ Restart \/ QueryEvents
  BY <1>1, OthersKeepOrder
     DEF Connect, Poll, ViewHistoricalData, Restart, QueryEvents, fleet, lnc
<1>2. CASE Disconnect \/ Stop
  BY <1>2, GiveUpKeepsOrder DEF Disconnect, Stop, Dies, fleet, lnc
<1>3. CASE PollEnds
  <2>1. GiveUp \/ UNCHANGED << inbox, delivered >>
    BY <1>3 DEF PollEnds
  <2> QED
    BY <1>3, <2>1, GiveUpKeepsOrder, OthersKeepOrder DEF PollEnds, lnc
<1>4. CASE SendRequest
  <2>1. GiveUp \/ UNCHANGED << inbox, delivered >>
    BY <1>4 DEF SendRequest, Dies
  <2> QED
    BY <1>4, <2>1, GiveUpKeepsOrder, OthersKeepOrder DEF SendRequest, lnc
<1>5. CASE PollMessage \/ RecvTelemetry
  BY <1>5, ReadKeepsOrder DEF PollMessage, RecvTelemetry, lnc
<1>6. CASE RecvPage
  <2>1. Head(inbox).tag \in Kinds
    BY <1>6 DEF RecvPage, TypeOK, FleetTypes
  <2> QED
    BY <1>6, <2>1, PageReadKeepsOrder DEF RecvPage, lnc
<1>7. CASE RecvOther
  BY <1>7, PageReadKeepsOrder DEF RecvOther, lnc
<1>8. CASE RecvEof
  BY <1>8, OthersKeepOrder DEF RecvEof, lnc
<1> QED
  BY <1>1, <1>2, <1>3, <1>4, <1>5, <1>6, <1>7, <1>8 DEF User, Polling, Asking

(* Telemetry that has reached oop_fleet is stored, once and in the order of  *)
(* the reports, or is still to be read: whether a poll or a query reads it.  *)
THEOREM TelemetryIsStored == Spec => []TelemetryStored
<1>1. Init => InOrderOfReport
  <2> SUFFICES ASSUME Init PROVE InOrderOfReport
    OBVIOUS
  <2>1. /\ saved = << >> /\ inbox = << >> /\ fromLnc = << >> /\ delivered = {}
    BY DEF Init
  <2>2. Ids(inbox) = {} /\ Ids(fromLnc) = {} /\ ToSet(saved) = {}
    BY <2>1 DEF Ids, IdsIn, ToSet
  <2> QED
    BY <2>1, <2>2 DEF InOrderOfReport, Rising, RisingIn, Sorted
<1>2. TypeOK /\ InOrderOfReport /\ [Next]_vars => InOrderOfReport'
  <2> SUFFICES ASSUME TypeOK, InOrderOfReport, [Next]_vars PROVE InOrderOfReport'
    OBVIOUS
  <2>1. CASE Next
    BY <2>1, OutsideKeepsOrder, FleetKeepsOrder DEF Next
  <2>2. CASE UNCHANGED vars
    BY <2>2, OthersKeepOrder DEF vars, fleet, lnc
  <2> QED
    BY <2>1, <2>2
<1>3. TypeOK /\ InOrderOfReport => TelemetryStored
  BY UnreadIsIds DEF InOrderOfReport, TelemetryStored
<1> QED
  BY QueryTyping, <1>1, <1>2, <1>3, PTL DEF Spec

-----------------------------------------------------------------------------
(* Pages *)

(* The pages among the messages of a queue, and that there is one at most. *)
Pages(s) == {s[i] : i \in {j \in DOMAIN s : s[j].tag \in Kinds}}

OnePaged(s) ==
  \A i, j \in DOMAIN s : s[i].tag \in Kinds /\ s[j].tag \in Kinds => i = j

(* Taking a message from the front takes its page, if it is one.             *)
LEMMA PagesOfTail ==
  ASSUME NEW s \in Seq(Messages), s # << >>, OnePaged(s)
  PROVE  /\ Pages(Tail(s)) \subseteq Pages(s) /\ OnePaged(Tail(s))
         /\ Head(s).tag \in Kinds => Head(s) \in Pages(s) /\ Pages(Tail(s)) = {}
<1> DEFINE t == Tail(s)
<1>1. /\ Head(s) = s[1] /\ Len(s) \in Nat \ {0} /\ DOMAIN s = 1..Len(s)
      /\ DOMAIN t = 1..(Len(s) - 1)
      /\ \A i \in 1..(Len(s) - 1) : t[i] = s[i + 1]
  BY TailElements
<1> HIDE DEF t
<1>2. \A i \in DOMAIN t : i + 1 \in DOMAIN s /\ t[i] = s[i + 1] /\ i + 1 # 1
  BY <1>1
<1>3. Pages(t) \subseteq Pages(s)
  BY <1>2 DEF Pages
<1>4. OnePaged(t)
  BY <1>1, <1>2 DEF OnePaged
<1>5. ASSUME s[1].tag \in Kinds PROVE s[1] \in Pages(s) /\ Pages(t) = {}
  <2>1. 1 \in DOMAIN s
    BY <1>1
  <2>2. \A i \in DOMAIN t : t[i].tag \notin Kinds
    BY <1>2, <1>5, <2>1 DEF OnePaged
  <2> QED
    BY <1>5, <2>1, <2>2 DEF Pages
<1> QED
  BY <1>1, <1>3, <1>4, <1>5 DEF t

(* A message put behind adds its page, if it is one.                         *)
LEMMA PagesOfAppend ==
  ASSUME NEW s \in Seq(Messages), NEW m \in Messages, OnePaged(s),
         m.tag \notin Kinds \/ Pages(s) = {}
  PROVE  /\ Pages(Append(s, m)) = Pages(s) \cup (IF m.tag \in Kinds THEN {m} ELSE {})
         /\ OnePaged(Append(s, m))
<1> DEFINE t == Append(s, m)
<1>1. /\ Len(s) \in Nat /\ DOMAIN s = 1..Len(s) /\ DOMAIN t = 1..(Len(s) + 1)
      /\ \A i \in 1..Len(s) : t[i] = s[i]
      /\ t[Len(s) + 1] = m
  BY AppendElements
<1> HIDE DEF t
<1>2. /\ \A i \in DOMAIN t : (i \in DOMAIN s /\ t[i] = s[i]) \/ (i = Len(s) + 1 /\ t[i] = m)
      /\ \A i \in DOMAIN s : i \in DOMAIN t /\ t[i] = s[i]
      /\ Len(s) + 1 \in DOMAIN t
  BY <1>1
<1>3. Pages(t) = Pages(s) \cup (IF m.tag \in Kinds THEN {m} ELSE {})
  <2>1. \A x \in Pages(t) : x \in Pages(s) \/ (m.tag \in Kinds /\ x = m)
    BY <1>2 DEF Pages
  <2>2. Pages(s) \subseteq Pages(t)
    BY <1>2 DEF Pages
  <2>3. m.tag \in Kinds => m \in Pages(t)
    BY <1>1, <1>2 DEF Pages
  <2> QED
    BY <2>1, <2>2, <2>3
<1>4. OnePaged(t)
  <2>1. Pages(s) = {} => \A i \in DOMAIN s : s[i].tag \notin Kinds
    BY DEF Pages
  <2> QED
    BY <1>1, <1>2, <2>1 DEF OnePaged
<1> QED
  BY <1>3, <1>4 DEF t

(* Losing a message adds no page.                                            *)
LEMMA PagesOfRemoveAt ==
  ASSUME NEW s \in Seq(Messages), NEW i \in DOMAIN s, OnePaged(s)
  PROVE  Pages(RemoveAt(s, i)) \subseteq Pages(s) /\ OnePaged(RemoveAt(s, i))
<1> DEFINE t == RemoveAt(s, i)
<1>1. Len(s) \in Nat /\ i \in Nat /\ DOMAIN s = 1..Len(s) /\ i \in 1..Len(s)
  OBVIOUS
<1>2. /\ t \in Seq(Messages) /\ Len(t) = Len(s) - 1
      /\ \A j \in 1..(Len(s) - 1) : t[j] = IF j < i THEN s[j] ELSE s[j + 1]
  BY <1>1, RemoveAtElements
<1> HIDE DEF t
<1>3. DOMAIN t = 1..(Len(s) - 1)
  BY <1>1, <1>2
<1>4. \A j \in DOMAIN t : \E k \in DOMAIN s : t[j] = s[k] /\ k = IF j < i THEN j ELSE j + 1
  BY <1>1, <1>2, <1>3
<1>5. Pages(t) \subseteq Pages(s)
  BY <1>4 DEF Pages
<1>6. OnePaged(t)
  BY <1>1, <1>3, <1>4 DEF OnePaged
<1> QED
  BY <1>5, <1>6 DEF t

(* What a query has printed, and what it says when it has ended.             *)
Told ==
  /\ \A i \in 1..Len(printed) : printed[i] = range[1] + i - 1
  /\ ended = "done" => Len(printed) >= owed
  /\ ended = "no data" => owed = 0

(* The next page goes on where the last one ended, and the log holds what it *)
(* is asked for.                                                             *)
PageGoesOn ==
  /\ From(Request) = range[1] + Len(printed)
  /\ cursor # 0 => cursor <= LastIn(kind, range)
  /\ owed = 0 \/ range[1] + owed <= LastIn(kind, range) + 1

(* A page that may be on its way: it answers the request, by what the log    *)
(* held then.                                                                *)
Fits(m) ==
  /\ m.tag = kind
  /\ m.status = "NO_DATA" => owed = 0
  /\ m.status = "SUCCESS" =>
       /\ \A i \in 1..Len(m.records) : m.records[i] = From(Request) + i - 1
       /\ m.cursor # 0 => /\ m.cursor = From(Request) + Len(m.records)
                          /\ m.cursor <= LastIn(kind, range)
       /\ m.cursor = 0 => From(Request) + Len(m.records) >= range[1] + owed

(* The request, or its answer, or nothing is on its way. *)
OnTheWay ==
  /\ toLnc \in {<< >>, << Request >>}
  /\ OnePaged(fromLnc) /\ OnePaged(inbox)
  /\ toLnc # << >> => Pages(fromLnc) = {} /\ Pages(inbox) = {}
  /\ Pages(fromLnc) = {} \/ Pages(inbox) = {}
  /\ \A m \in Pages(fromLnc) \cup Pages(inbox) : Fits(m)

NoneOnTheWay == toLnc = << >> /\ Pages(fromLnc) = {} /\ Pages(inbox) = {}

PagesFollow ==
  alone =>
    /\ Told
    /\ pc \in {"send", "await"} => PageGoesOn /\ OnTheWay
    /\ pc = "send" => NoneOnTheWay

(* When nothing asked before is under way, no page is.                       *)
LEMMA QuietIsNone == TypeOK /\ Quiet => NoneOnTheWay
<1>1. "TELEMETRY" \notin Kinds
  BY DEF Kinds
<1> QED
  BY <1>1 DEF Quiet, NoneOnTheWay, Pages

(* No page on its way is at most one.                                        *)
LEMMA NoneIsOnTheWay ==
  ASSUME NoneOnTheWay
  PROVE  OnTheWay
BY DEF NoneOnTheWay, OnTheWay, Pages, OnePaged

(* Nothing of a query that is over changes.                                  *)
LEMMA OverStays ==
  ASSUME PagesFollow, pc' \notin {"send", "await"}, UNCHANGED << kind, range, printed, alone, owed >>,
         ended' = ended \/ ended' = "failed"
  PROVE  PagesFollow'
BY DEF PagesFollow, Told

(* Messages move on, or are lost, and nothing else changes.                  *)
LEMMA MovingKeepsPages ==
  ASSUME PagesFollow, UNCHANGED << pc, query, log >>,
         OnTheWay => OnTheWay', NoneOnTheWay => NoneOnTheWay'
  PROVE  PagesFollow'
<1>1. UNCHANGED << kind, range, cursor, printed, ended, alone, owed >>
  BY DEF query
<1>2. PageGoesOn' = PageGoesOn /\ Told' = Told
  BY <1>1 DEF PageGoesOn, Told, From, Request, LastIn
<1> QED
  BY <1>1, <1>2 DEF PagesFollow

(* Whether a page fits depends on the query and the log only.                *)
LEMMA FitsStays ==
  ASSUME UNCHANGED << query, log >>, NEW m
  PROVE  Fits(m)' = Fits(m)
BY DEF Fits, query, From, Request, LastIn

(* The log only grows.                                                       *)
LEMMA RecordKeepsPages ==
  ASSUME TypeOK, PagesFollow, LncRecord
  PROVE  PagesFollow'
<1>1. UNCHANGED << pc, kind, range, cursor, printed, ended, alone, owed, toLnc, fromLnc, inbox >>
  BY DEF LncRecord, fleet, query
<1>2. kind \in Kinds /\ range[1] \in Nat /\ range[2] \in Nat /\ owed \in Nat /\ cursor \in Nat
  BY QueryPagingAssumption DEF TypeOK, FleetTypes, HistoryTypes
<1>3. log[kind] \in Nat /\ log'[kind] \in Nat /\ log[kind] <= log'[kind]
  BY <1>2 DEF LncRecord, TypeOK, HistoryTypes
<1>4. /\ LastIn(kind, range) \in Nat /\ LastIn(kind, range)' \in Nat
      /\ LastIn(kind, range) <= LastIn(kind, range)'
  BY <1>1, <1>2, <1>3 DEF LastIn
<1>5. Told => Told'
  BY <1>1 DEF Told
<1>6. PageGoesOn => PageGoesOn'
  BY <1>1, <1>2, <1>4 DEF PageGoesOn, From, Request
<1>7. ASSUME NEW m \in Messages, Fits(m) PROVE Fits(m)'
  <2>1. m.tag \in Kinds => m.cursor \in Nat
    BY MessageFields
  <2> QED
    BY <1>1, <1>2, <1>4, <1>7, <2>1 DEF Fits, From, Request
<1>8. Pages(fromLnc) \cup Pages(inbox) \subseteq Messages
  BY DEF TypeOK, LinkTypes, Pages
<1>9. OnTheWay => OnTheWay'
  BY <1>1, <1>7, <1>8 DEF OnTheWay, Request
<1> QED
  BY <1>1, <1>5, <1>6, <1>9 DEF PagesFollow, NoneOnTheWay

(* The answer to the request, which is the only thing on its way.            *)
LEMMA ReplyFits ==
  ASSUME TypeOK, PageGoesOn, NEW m \in Messages, Answers(m, Request)
  PROVE  Fits(m)
<1>1. /\ kind \in Kinds /\ range[1] \in Nat \ {0} /\ owed \in Nat /\ cursor \in Nat
      /\ Len(printed) \in Nat /\ LastIn(kind, range) \in Nat
  <2>1. Request \in Requests
    BY DEF Request, Requests, TypeOK, FleetTypes
  <2>2. Request.kind = kind /\ Request.range = range
    BY DEF Request
  <2>3. range[1] \in Nat \ {0} /\ LastIn(kind, range) \in Nat
    BY <2>1, <2>2, RequestFields
  <2>4. kind \in Kinds /\ cursor \in Nat /\ printed \in Seq(Nat) /\ owed \in Nat
    BY DEF TypeOK, FleetTypes, HistoryTypes
  <2> QED
    BY <2>3, <2>4
<1>2. /\ Request.kind = kind /\ Request.range = range /\ Request.cursor = cursor
      /\ From(Request) = IF cursor = 0 THEN range[1] ELSE cursor
  BY DEF Request, From
<1>3. From(Request) \in Nat /\ From(Request) = range[1] + Len(printed)
  BY <1>1, <1>2 DEF PageGoesOn
<1>4. m.tag = kind /\ m.records \in Seq(Nat) /\ m.cursor \in Nat
  BY <1>1, <1>2, MessageFields DEF Answers
<1>5. m.status = "NO_DATA" => owed = 0
  <2> SUFFICES ASSUME m.status = "NO_DATA" PROVE owed = 0
    OBVIOUS
  <2>1. From(Request) > LastIn(kind, range)
    BY <1>2 DEF Answers
  <2> QED
    BY <1>1, <1>2, <1>3, <2>1 DEF PageGoesOn
<1>6. ASSUME m.status = "SUCCESS", m.cursor = 0
      PROVE  From(Request) + Len(m.records) >= range[1] + owed
  <2>1. From(Request) + Len(m.records) > LastIn(kind, range) /\ Len(m.records) \in Nat
    BY <1>2, <1>4, <1>6 DEF Answers
  <2>2. owed = 0 \/ range[1] + owed <= LastIn(kind, range) + 1
    BY DEF PageGoesOn
  <2> QED
    BY <1>1, <1>3, <2>1, <2>2
<1> QED
  BY <1>2, <1>4, <1>5, <1>6 DEF Answers, Fits

(* The LNC answers the one request there is.                                 *)
LEMMA ReplyKeepsPages ==
  ASSUME TypeOK, PagesFollow, LncReply
  PROVE  PagesFollow'
<1>1. UNCHANGED << pc, query, log, inbox >> /\ toLnc # << >> /\ toLnc' = Tail(toLnc)
  BY DEF LncReply, fleet, lnc
<1>2. UNCHANGED << kind, range, cursor, printed, ended, alone, owed >>
  BY <1>1 DEF query
<1>3. PageGoesOn' = PageGoesOn /\ Told' = Told
  BY <1>1, <1>2 DEF PageGoesOn, Told, From, Request, LastIn
<1>4. ASSUME PageGoesOn, OnTheWay PROVE OnTheWay'
  <2>1. toLnc = << Request >> /\ Pages(fromLnc) = {} /\ Pages(inbox) = {}
        /\ OnePaged(fromLnc) /\ OnePaged(inbox)
    BY <1>1, <1>4 DEF OnTheWay
  <2>2. Head(toLnc) = Request /\ toLnc' = << >>
    BY <1>1, <2>1
  <2>3. PICK m \in Messages : fromLnc' = Append(fromLnc, m) /\ Answers(m, Request)
    BY <2>2, ReplyAnswers
  <2>4. Fits(m)
    BY <1>4, <2>3, ReplyFits
  <2>5. Pages(fromLnc') \subseteq {m} /\ OnePaged(fromLnc')
    BY <2>1, <2>3, PagesOfAppend DEF TypeOK, LinkTypes
  <2>6. Fits(m)'
    BY <1>1, <2>4, FitsStays
  <2> QED
    BY <1>1, <2>1, <2>2, <2>5, <2>6 DEF OnTheWay
<1>5. ~NoneOnTheWay
  BY <1>1 DEF NoneOnTheWay
<1> QED
  BY <1>1, <1>2, <1>3, <1>4, <1>5 DEF PagesFollow

(* Whatever else becomes of messages outside oop_fleet.                      *)
LEMMA OutsideKeepsPages ==
  ASSUME TypeOK, PagesFollow, Environment \/ LncReply \/ Forward
  PROVE  PagesFollow'
<1>0. inbox \in Seq(Messages) /\ fromLnc \in Seq(Messages)
  BY DEF TypeOK, LinkTypes
<1>1. CASE LncRecord
  BY <1>1, RecordKeepsPages
<1>2. CASE LncReply
  BY <1>2, ReplyKeepsPages
<1>3. CASE LncReport
  <2>1. UNCHANGED << pc, query, log, toLnc, inbox >>
    BY <1>3 DEF LncReport, fleet
  <2>2. PICK m \in Messages : m.tag \notin Kinds /\ fromLnc' = Append(fromLnc, m)
    <3>1. [tag |-> "TELEMETRY", id |-> reports'] \in Messages
      BY <1>3 DEF LncReport, TypeOK, HistoryTypes, Messages
    <3> QED
      BY <1>3, <3>1 DEF LncReport, Kinds
  <2>3. OnePaged(fromLnc) => Pages(fromLnc') = Pages(fromLnc) /\ OnePaged(fromLnc')
    BY <1>0, <2>2, PagesOfAppend
  <2>4. \A p : Fits(p)' = Fits(p)
    BY <2>1, FitsStays
  <2>5. Request' = Request
    BY <2>1 DEF Request, query
  <2>6. OnTheWay => OnTheWay'
    BY <2>1, <2>3, <2>4, <2>5 DEF OnTheWay
  <2>7. NoneOnTheWay => NoneOnTheWay'
    BY <2>1, <2>3 DEF NoneOnTheWay, Pages, OnePaged
  <2> QED
    BY <2>1, <2>6, <2>7, MovingKeepsPages
<1>4. CASE LncReboot \/ LoseFrame \/ Drop
  <2>1. UNCHANGED << pc, query, log, inbox >> /\ (toLnc' = toLnc \/ toLnc' = << >>)
    BY <1>4 DEF LncReboot, LoseFrame, Drop, fleet, lnc
  <2>2. OnePaged(fromLnc) => Pages(fromLnc') \subseteq Pages(fromLnc) /\ OnePaged(fromLnc')
    BY <1>0, <1>4, PagesOfRemoveAt DEF LncReboot, LoseFrame, Drop
  <2>3. \A m : Fits(m)' = Fits(m)
    BY <2>1, FitsStays
  <2>4. Request' = Request
    BY <2>1 DEF Request, query
  <2>5. OnTheWay => OnTheWay'
    BY <2>1, <2>2, <2>3, <2>4 DEF OnTheWay
  <2>6. NoneOnTheWay => NoneOnTheWay'
    BY <2>1, <2>2 DEF NoneOnTheWay, Pages, OnePaged
  <2> QED
    BY <2>1, <2>5, <2>6, MovingKeepsPages
<1>5. CASE Forward
  <2>1. UNCHANGED << pc, query, log, toLnc >> /\ fromLnc # << >> /\ fromLnc' = Tail(fromLnc)
        /\ Head(fromLnc) \in Messages
    BY <1>0, <1>5, TailElements DEF Forward, fleet, lnc
  <2>2. inbox' = inbox \/ inbox' = Append(inbox, Head(fromLnc))
    BY <1>5 DEF Forward
  <2>3. \A m : Fits(m)' = Fits(m)
    BY <2>1, FitsStays
  <2>4. Request' = Request
    BY <2>1 DEF Request, query
  <2>5. ASSUME OnTheWay PROVE OnTheWay' /\ (NoneOnTheWay => NoneOnTheWay')
    <3>1. /\ Pages(fromLnc') \subseteq Pages(fromLnc) /\ OnePaged(fromLnc')
          /\ Head(fromLnc).tag \in Kinds => Head(fromLnc) \in Pages(fromLnc) /\ Pages(fromLnc') = {}
      BY <1>0, <2>1, <2>5, PagesOfTail DEF OnTheWay
    <3>2. Head(fromLnc).tag \notin Kinds \/ Pages(inbox) = {}
      BY <2>5, <3>1 DEF OnTheWay
    <3>3. /\ Pages(inbox') = Pages(inbox) \cup
                (IF inbox' # inbox /\ Head(fromLnc).tag \in Kinds THEN {Head(fromLnc)} ELSE {})
          /\ OnePaged(inbox')
      <4>1. CASE inbox' = inbox
        BY <2>5, <4>1 DEF OnTheWay
      <4>2. CASE inbox' = Append(inbox, Head(fromLnc))
        <5>1. inbox' # inbox
          BY <1>0, <2>1, <4>2, AppendElements
        <5>2. /\ Pages(inbox') = Pages(inbox) \cup
                    (IF Head(fromLnc).tag \in Kinds THEN {Head(fromLnc)} ELSE {})
              /\ OnePaged(inbox')
          BY <1>0, <2>1, <2>5, <3>2, <4>2, PagesOfAppend DEF OnTheWay
        <5> QED
          BY <5>1, <5>2
      <4> QED
        BY <2>2, <4>1, <4>2
    <3>4. OnTheWay'
      BY <2>1, <2>3, <2>4, <2>5, <3>1, <3>3 DEF OnTheWay
    <3>5. NoneOnTheWay => NoneOnTheWay'
      BY <2>1, <3>1, <3>3 DEF NoneOnTheWay
    <3> QED
      BY <3>4, <3>5
  <2>6. NoneOnTheWay => OnTheWay
    BY NoneIsOnTheWay
  <2> QED
    BY <2>1, <2>5, <2>6, MovingKeepsPages
<1> QED
  BY <1>1, <1>2, <1>3, <1>4, <1>5 DEF Environment

(* A query begins: if nothing asked before is on its way, nothing is.        *)
LEMMA BeginKeepsPages ==
  ASSUME TypeOK, NEW k \in Kinds, NEW r \in Ranges, Begin(k, r),
         UNCHANGED << log, toLnc, fromLnc, inbox >>
  PROVE  PagesFollow'
<1> SUFFICES ASSUME alone' PROVE Told' /\ PageGoesOn' /\ NoneOnTheWay'
  BY NoneIsOnTheWay, PTL DEF PagesFollow
<1>1. /\ kind' = k /\ range' = r /\ cursor' = 0 /\ printed' = << >> /\ ended' = "no"
      /\ owed' = LET n == LastIn(k, r) - r[1] + 1 IN IF n > 0 THEN n ELSE 0
      /\ Quiet
  BY DEF Begin
<1>2. r[1] \in Nat /\ r[2] \in Nat /\ LastIn(k, r) \in Nat
  BY QueryPagingAssumption DEF LastIn, TypeOK, HistoryTypes
<1>3. LastIn(kind, range)' = LastIn(k, r)
  BY <1>1 DEF LastIn
<1>4. Told'
  BY <1>1 DEF Told
<1>5. PageGoesOn'
  BY <1>1, <1>2, <1>3 DEF PageGoesOn, From, Request
<1>6. NoneOnTheWay'
  BY <1>1, QuietIsNone DEF NoneOnTheWay, Pages
<1> QED
  BY <1>4, <1>5, <1>6

(* A page is read: it is the answer to the request, and nothing else is on   *)
(* its way.                                                                  *)
LEMMA PageRead ==
  ASSUME TypeOK, PagesFollow, alone, pc = "await", inbox # << >>, Head(inbox).tag \in Kinds
  PROVE  /\ Told /\ PageGoesOn /\ Fits(Head(inbox))
         /\ toLnc = << >> /\ Pages(fromLnc) = {} /\ Pages(Tail(inbox)) = {}
<1>1. inbox \in Seq(Messages)
  BY DEF TypeOK, LinkTypes
<1>2. Told /\ PageGoesOn /\ OnTheWay
  BY DEF PagesFollow
<1>3. Head(inbox) \in Pages(inbox) /\ Pages(Tail(inbox)) = {}
  BY <1>1, <1>2, PagesOfTail DEF OnTheWay
<1> QED
  BY <1>2, <1>3 DEF OnTheWay

(* A page is printed, and the next is asked for where it ends.               *)
LEMMA PrintKeepsPages ==
  ASSUME TypeOK, PagesFollow, RecvPage
  PROVE  PagesFollow'
<1> DEFINE m == Head(inbox)
<1>1. /\ pc = "await" /\ inbox # << >> /\ m.tag = kind /\ m.status = "SUCCESS"
      /\ inbox' = Tail(inbox) /\ printed' = printed \o m.records
      /\ IF m.cursor # 0
           THEN pc' = "send" /\ cursor' = m.cursor /\ UNCHANGED ended
           ELSE pc' \in {"events", "menu"} /\ ended' = "done" /\ UNCHANGED cursor
      /\ UNCHANGED << kind, range, alone, owed, log, toLnc, fromLnc >>
  BY DEF RecvPage, NextCursor, Caller, lnc
<1> SUFFICES ASSUME alone PROVE PagesFollow'
  BY <1>1 DEF PagesFollow
<1>2. /\ kind \in Kinds /\ range[1] \in Nat /\ owed \in Nat /\ printed \in Seq(Nat)
      /\ m \in Messages
  BY <1>1, QueryPagingAssumption, ReadTyped DEF TypeOK, FleetTypes, HistoryTypes
<1>3. m.records \in Seq(Nat) /\ m.cursor \in Nat
  BY <1>1, <1>2, MessageFields
<1>4. /\ Told /\ PageGoesOn /\ Fits(m)
      /\ toLnc = << >> /\ Pages(fromLnc) = {} /\ Pages(Tail(inbox)) = {}
  BY <1>1, <1>2, PageRead
<1> HIDE DEF m
<1>5. /\ printed' \in Seq(Nat) /\ Len(printed') = Len(printed) + Len(m.records)
      /\ Len(printed) \in Nat /\ Len(m.records) \in Nat
      /\ \A i \in 1..(Len(printed) + Len(m.records)) :
           printed'[i] = IF i <= Len(printed) THEN printed[i] ELSE m.records[i - Len(printed)]
  BY <1>1, <1>2, <1>3, ConcatProperties
<1>6. /\ From(Request) = range[1] + Len(printed)
      /\ \A i \in 1..Len(printed) : printed[i] = range[1] + i - 1
      /\ \A i \in 1..Len(m.records) : m.records[i] = From(Request) + i - 1
  BY <1>1, <1>4 DEF PageGoesOn, Told, Fits
<1>7. \A i \in 1..Len(printed') : printed'[i] = range[1] + i - 1
  <2> SUFFICES ASSUME NEW i \in 1..(Len(printed) + Len(m.records))
               PROVE  printed'[i] = range[1] + i - 1
    BY <1>5
  <2>1. CASE i <= Len(printed)
    BY <1>5, <1>6, <2>1
  <2>2. CASE ~(i <= Len(printed))
    <3>1. i - Len(printed) \in 1..Len(m.records) /\ printed'[i] = m.records[i - Len(printed)]
      BY <1>5, <2>2
    <3>2. printed'[i] = From(Request) + (i - Len(printed)) - 1
      BY <1>6, <3>1
    <3> QED
      BY <1>2, <1>5, <1>6, <3>2
  <2> QED
    BY <2>1, <2>2
<1>8. m.cursor = 0 => Len(printed') >= owed
  <2>1. m.cursor = 0 => From(Request) + Len(m.records) >= range[1] + owed
    BY <1>1, <1>4 DEF Fits
  <2> QED
    BY <1>2, <1>5, <1>6, <2>1
<1>9. Told'
  <2>1. ended = "no"
    BY <1>1 DEF TypeOK, OneConnection
  <2> QED
    BY <1>1, <1>7, <1>8, <2>1 DEF Told
<1>10. CASE m.cursor # 0
  <2>1. /\ m.cursor = From(Request) + Len(m.records)
        /\ m.cursor <= LastIn(kind, range)
        /\ owed = 0 \/ range[1] + owed <= LastIn(kind, range) + 1
    BY <1>1, <1>4, <1>10 DEF Fits, PageGoesOn
  <2>2. LastIn(kind, range)' = LastIn(kind, range)
    BY <1>1 DEF LastIn
  <2>3. From(Request)' = m.cursor
    BY <1>1, <1>10 DEF From, Request
  <2>4. m.cursor = range[1] + Len(printed')
    BY <1>2, <1>5, <1>6, <2>1
  <2>5. PageGoesOn'
    BY <1>1, <1>10, <2>1, <2>2, <2>3, <2>4 DEF PageGoesOn
  <2>6. NoneOnTheWay'
    BY <1>1, <1>4 DEF NoneOnTheWay, Pages
  <2>7. OnTheWay'
    BY <2>6, NoneIsOnTheWay, PTL
  <2> QED
    BY <1>9, <2>5, <2>6, <2>7 DEF PagesFollow
<1>11. CASE m.cursor = 0
  BY <1>1, <1>9, <1>11 DEF PagesFollow
<1> QED
  BY <1>10, <1>11

(* What oop_fleet does otherwise.                                            *)
LEMMA FleetKeepsPages ==
  ASSUME TypeOK, PagesFollow, User \/ Polling \/ Asking
  PROVE  PagesFollow'
<1>1. CASE Connect \/ Disconnect \/ Poll \/ PollMessage \/ PollEnds \/ Stop \/ Restart
  BY <1>1, OverStays
     DEF Connect, Disconnect, Poll, PollMessage, PollEnds, Stop, Dies, Restart, fleet, query
<1>2. CASE ViewHistoricalData
  BY <1>2, BeginKeepsPages DEF ViewHistoricalData, Kinds, lnc
<1>3. CASE QueryEvents
  BY <1>3, BeginKeepsPages DEF QueryEvents, Kinds, lnc, TypeOK, FleetTypes
<1>4. CASE SendRequest
  <2>1. UNCHANGED << kind, range, cursor, printed, ended, alone, owed, log, fromLnc >>
        /\ pc = "send" /\ pc' \in {"await", "dead"}
    BY <1>4 DEF SendRequest, Dies, query, lnc
  <2>2. CASE pc' = "dead"
    BY <2>1, <2>2, OverStays
  <2>3. CASE pc' = "await"
    <3>1. inbox' = inbox /\ (toLnc' = toLnc \/ toLnc' = Append(toLnc, Request))
      BY <1>4, <2>3 DEF SendRequest, Dies
    <3>2. PageGoesOn' = PageGoesOn /\ Told' = Told /\ Request' = Request
      BY <2>1 DEF PageGoesOn, Told, From, Request, LastIn
    <3>3. NoneOnTheWay => OnTheWay'
      BY <2>1, <3>1, <3>2 DEF NoneOnTheWay, OnTheWay, Pages, OnePaged
    <3> QED
      BY <2>1, <2>3, <3>2, <3>3 DEF PagesFollow
  <2> QED
    BY <2>1, <2>2, <2>3
<1>5. CASE RecvTelemetry
  <2>1. /\ UNCHANGED << pc, query, log, toLnc, fromLnc >>
        /\ inbox \in Seq(Messages) /\ inbox # << >> /\ inbox' = Tail(inbox)
    BY <1>5 DEF RecvTelemetry, lnc, TypeOK, LinkTypes
  <2>2. \A m : Fits(m)' = Fits(m)
    BY <2>1, FitsStays
  <2>3. Request' = Request
    BY <2>1 DEF Request, query
  <2>4. OnePaged(inbox) => Pages(inbox') \subseteq Pages(inbox) /\ OnePaged(inbox')
    BY <2>1, PagesOfTail
  <2>5. OnTheWay => OnTheWay'
    BY <2>1, <2>2, <2>3, <2>4 DEF OnTheWay
  <2>6. NoneOnTheWay => NoneOnTheWay'
    BY <2>1, <2>4 DEF NoneOnTheWay, Pages, OnePaged
  <2> QED
    BY <2>1, <2>5, <2>6, MovingKeepsPages
<1>6. CASE RecvPage
  BY <1>6, PrintKeepsPages
<1>7. CASE RecvOther
  <2>1. /\ pc = "await" /\ inbox # << >> /\ Head(inbox).tag \in Kinds
        /\ ended' = IF Head(inbox).tag = kind /\ Head(inbox).status = "NO_DATA"
                      THEN "no data" ELSE "failed"
        /\ pc' \in {"events", "menu"}
        /\ UNCHANGED << kind, range, printed, alone, owed >>
    BY <1>7 DEF RecvOther, Caller
  <2>2. alone => Told /\ Fits(Head(inbox))
    BY <2>1, PageRead
  <2>3. alone => Told'
    BY <2>1, <2>2 DEF Told, Fits
  <2> QED
    BY <2>1, <2>3 DEF PagesFollow
<1>8. CASE RecvEof
  BY <1>8, OverStays DEF RecvEof, AfterEof, Caller
<1> QED
  BY <1>1, <1>2, <1>3, <1>4, <1>5, <1>6, <1>7, <1>8 DEF User, Polling, Asking

(* A query that is not disturbed by an earlier one prints its range in       *)
(* order, each record once, and all that was there when it says it is done:  *)
(* management_command.cpp's cursor leads from page to page without a gap.    *)
THEOREM QueriesFollowPages == Spec => []PagesInOrder
<1>1. Init => PagesFollow
  BY DEF Init, PagesFollow
<1>2. TypeOK /\ PagesFollow /\ [Next]_vars => PagesFollow'
  <2> SUFFICES ASSUME TypeOK, PagesFollow, [Next]_vars PROVE PagesFollow'
    OBVIOUS
  <2>1. CASE Next
    BY <2>1, OutsideKeepsPages, FleetKeepsPages DEF Next
  <2>2. CASE UNCHANGED vars
    <3>1. UNCHANGED << pc, query, log, toLnc, fromLnc, inbox >>
      BY <2>2 DEF vars, fleet, lnc
    <3>2. Request' = Request /\ \A m : Fits(m)' = Fits(m)
      BY <3>1, FitsStays DEF Request, query
    <3>3. OnTheWay' = OnTheWay /\ NoneOnTheWay' = NoneOnTheWay
      BY <3>1, <3>2 DEF OnTheWay, NoneOnTheWay
    <3> QED
      BY <3>1, <3>3, MovingKeepsPages
  <2> QED
    BY <2>1, <2>2
<1>3. TypeOK /\ PagesFollow => PagesInOrder
  <2> SUFFICES ASSUME TypeOK, PagesFollow, alone
               PROVE  /\ printed = [i \in 1..Len(printed) |-> range[1] + i - 1]
                      /\ ended = "done" => Len(printed) >= owed
                      /\ ended = "no data" => owed = 0
    BY DEF PagesInOrder
  <2>1. Told /\ printed \in Seq(Nat)
    BY DEF PagesFollow, TypeOK, FleetTypes
  <2>2. printed = [i \in 1..Len(printed) |-> range[1] + i - 1]
    <3>1. printed = [i \in 1..Len(printed) |-> printed[i]]
      BY <2>1
    <3>2. \A i \in 1..Len(printed) : printed[i] = range[1] + i - 1
      BY <2>1 DEF Told
    <3> QED
      BY <3>1, <3>2, Zenon
  <2> QED
    BY <2>1, <2>2 DEF Told
<1> QED
  BY QueryTyping, <1>1, <1>2, <1>3, PTL DEF Spec

=============================================================================
