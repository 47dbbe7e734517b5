---------------------------- MODULE FleetProofs ----------------------------
(***************************************************************************)
(* What oop_fleet promises.  First the poll of one submarine's connection  *)
(* (TelemetryPoll), proved for payloads of any length, any limit of a poll *)
(* and any number of messages and connections, whatever arrives when; then *)
(* the menu (Fleet), for any set of serial numbers and any number of       *)
(* messages.                                                               *)
(***************************************************************************)
EXTENDS TelemetryPoll, Fleet, SequenceTheorems, TLAPS

-----------------------------------------------------------------------------
(* What is under way and what has been read *)

Byte == [id : Nat, pos : Nat]
Message == [len : Lens, measured : BOOLEAN]

(* The bytes that have not been read, in the order in which they will be.    *)
Stream == arrived \o coming

(* The position of a message's last byte. *)
End(messages, id) == 4 + messages[id].len

(* Bytes are those of the messages sent, *)
Inside(messages, s) ==
  \A i \in 1..Len(s) : s[i].id \in 1..Len(messages) /\ s[i].pos \in 1..End(messages, s[i].id)

(* what is left of a message follows byte by byte, *)
Runs(messages, s) ==
  \A i, j \in 1..Len(s) :
    i <= j /\ s[i].pos + (j - i) <= End(messages, s[i].id) =>
      s[j].id = s[i].id /\ s[j].pos = s[i].pos + (j - i)

(* then the next message from its beginning, *)
Follows(messages, s) ==
  \A i, j \in 1..Len(s) :
    s[i].pos + (j - i) = End(messages, s[i].id) + 1 => s[j].id = s[i].id + 1 /\ s[j].pos = 1

(* and only later ones, *)
Later(messages, s) ==
  \A i, j \in 1..Len(s) :
    i <= j /\ s[i].pos + (j - i) > End(messages, s[i].id) => s[j].id > s[i].id

(* to the end of the last. *)
Ends(messages, s) ==
  Len(s) > 0 =>
    s[Len(s)].id = Len(messages) /\ s[Len(s)].pos = End(messages, Len(messages))

Flow(messages, s) ==
  /\ Inside(messages, s) /\ Runs(messages, s) /\ Follows(messages, s)
  /\ Later(messages, s) /\ Ends(messages, s)

LinkTypes ==
  /\ sent \in Seq(Message) /\ Len(sent) <= MaxSent
  /\ arrived \in Seq(Byte) /\ coming \in Seq(Byte)
  /\ taken \in Seq(Nat) /\ (at = "payload" => len \in 1..MaxLen)

(* What has been polled was sent, and what is under way is behind it. *)
Passed ==
  \A k \in 1..Len(taken) :
    /\ taken[k] <= Len(sent)
    /\ taken[k] # 0 => \A i \in 1..Len(Stream) : Stream[i].id > taken[k]

(* The measurement cached is the last of those polled. *)
Cached ==
  haveLatest =>
    /\ connected
    /\ latest \in 1..Len(sent) /\ sent[latest].measured
    /\ \E k \in 1..Len(taken) : taken[k] = latest
    /\ \A k \in 1..Len(taken) : taken[k] > latest => ~sent[taken[k]].measured

(* The byte to be read next, as long as no poll has met part of a length. *)
NextByte ==
  ~split /\ connected =>
    IF at = "payload"
      THEN /\ Len(Stream) > 0 /\ Stream[1].id = Len(taken) + 1 /\ Stream[1].pos = 5
           /\ len = sent[Len(taken) + 1].len
      ELSE IF Len(Stream) = 0
             THEN Len(taken) = Len(sent)
             ELSE Stream[1].id = Len(taken) + 1 /\ Stream[1].pos = 1

InStep == ~split => \A k \in 1..Len(taken) : taken[k] = k

(* The inductive invariant. *)
PollInv ==
  /\ TypeOK /\ LinkTypes
  /\ Flow(sent, Stream)
  /\ Passed /\ Cached /\ NextByte /\ InStep

-----------------------------------------------------------------------------
(* Lemmas about what is under way *)

(* The lengths of payloads. *)
LEMMA LensAreLengths == \A n \in Lens : n \in 1..MaxLen /\ n \in Nat /\ n >= 1
<1>1. Lens \subseteq 1..MaxLen /\ MaxLen \in Nat
  BY TelemetryPollAssumption
<1> QED
  BY <1>1

(* The bytes of a sequence. *)
LEMMA ByteFields ==
  ASSUME NEW s \in Seq(Byte)
  PROVE  /\ Len(s) \in Nat
         /\ \A i \in 1..Len(s) : s[i] \in Byte /\ s[i].id \in Nat /\ s[i].pos \in Nat
<1>1. Len(s) \in Nat /\ \A i \in 1..Len(s) : s[i] \in Byte
  OBVIOUS
<1> QED
  BY <1>1 DEF Byte

(* A message has a payload, and its length fits. *)
LEMMA LengthsFit ==
  ASSUME NEW messages \in Seq(Message), NEW id \in 1..Len(messages)
  PROVE  /\ messages[id].len \in Lens /\ messages[id].len \in 1..MaxLen
         /\ messages[id].measured \in BOOLEAN
         /\ End(messages, id) \in Nat /\ End(messages, id) >= 5
<1>1. messages[id] \in Message
  BY ElementOfSeq
<1>2. messages[id].len \in Lens /\ messages[id].measured \in BOOLEAN
  BY <1>1 DEF Message
<1> QED
  BY <1>2, LensAreLengths DEF End

(* Reading some bytes from the front leaves the rest as it was. *)
LEMMA FlowDropped ==
  ASSUME NEW messages \in Seq(Message), NEW s \in Seq(Byte), NEW t \in Seq(Byte), NEW n \in Nat,
         Flow(messages, s), Len(s) = Len(t) + n, \A i \in 1..Len(t) : t[i] = s[i + n]
  PROVE  Flow(messages, t)
<1>1. Len(s) \in Nat /\ Len(t) \in Nat /\ \A i \in 1..Len(t) : i + n \in 1..Len(s)
  OBVIOUS
<1>2. \A i \in 1..Len(t) : t[i].id \in Nat /\ t[i].pos \in Nat
  BY ByteFields
<1>3. Inside(messages, t)
  BY <1>1 DEF Flow, Inside
<1>4. \A i, j \in 1..Len(t) : /\ (j + n) - (i + n) = j - i
                              /\ i <= j => i + n <= j + n
                              /\ t[i] = s[i + n] /\ t[j] = s[j + n]
                              /\ i + n \in 1..Len(s) /\ j + n \in 1..Len(s)
  BY <1>1
<1>5. Runs(messages, t)
  <2>1. Runs(messages, s)
    BY DEF Flow
  <2> SUFFICES ASSUME NEW i \in 1..Len(t), NEW j \in 1..Len(t), i <= j,
                      t[i].pos + (j - i) <= End(messages, t[i].id)
               PROVE  t[j].id = t[i].id /\ t[j].pos = t[i].pos + (j - i)
    BY DEF Runs
  <2>2. s[i + n].pos + ((j + n) - (i + n)) <= End(messages, s[i + n].id) =>
          s[j + n].id = s[i + n].id /\ s[j + n].pos = s[i + n].pos + ((j + n) - (i + n))
    BY <1>4, <2>1 DEF Runs
  <2> QED
    BY <1>4, <2>2
<1>6. Follows(messages, t)
  <2>1. Follows(messages, s)
    BY DEF Flow
  <2> SUFFICES ASSUME NEW i \in 1..Len(t), NEW j \in 1..Len(t),
                      t[i].pos + (j - i) = End(messages, t[i].id) + 1
               PROVE  t[j].id = t[i].id + 1 /\ t[j].pos = 1
    BY DEF Follows
  <2>2. s[i + n].pos + ((j + n) - (i + n)) = End(messages, s[i + n].id) + 1 =>
          s[j + n].id = s[i + n].id + 1 /\ s[j + n].pos = 1
    BY <1>4, <2>1 DEF Follows
  <2> QED
    BY <1>4, <2>2
<1>7. Later(messages, t)
  <2>1. Later(messages, s)
    BY DEF Flow
  <2> SUFFICES ASSUME NEW i \in 1..Len(t), NEW j \in 1..Len(t), i <= j,
                      t[i].pos + (j - i) > End(messages, t[i].id)
               PROVE  t[j].id > t[i].id
    BY DEF Later
  <2>2. s[i + n].pos + ((j + n) - (i + n)) > End(messages, s[i + n].id) => s[j + n].id > s[i + n].id
    BY <1>4, <2>1 DEF Later
  <2> QED
    BY <1>4, <2>2
<1>8. Ends(messages, t)
  BY <1>1 DEF Flow, Ends
<1> QED
  BY <1>3, <1>5, <1>6, <1>7, <1>8 DEF Flow

(* t is s with the first n bytes of a message behind it. *)
Behind(s, t, id, n) ==
  /\ t \in Seq(Byte)
  /\ Len(t) = Len(s) + n
  /\ \A i \in 1..Len(s) : t[i] = s[i]
  /\ \A i \in (Len(s) + 1)..(Len(s) + n) : t[i].id = id /\ t[i].pos = i - Len(s)

(* The bytes of a message behind those under way. *)
LEMMA BytesBehind ==
  ASSUME NEW s \in Seq(Byte), NEW id \in Nat, NEW n \in Nat
  PROVE  Bytes(id, n) \in Seq(Byte) /\ Behind(s, s \o Bytes(id, n), id, n)
<1>1. Bytes(id, n) \in Seq(Byte) /\ Len(Bytes(id, n)) = n
      /\ \A i \in 1..n : Bytes(id, n)[i] = [id |-> id, pos |-> i]
  BY DEF Bytes, Byte
<1>2. /\ s \o Bytes(id, n) \in Seq(Byte)
      /\ Len(s \o Bytes(id, n)) = Len(s) + n
      /\ \A i \in 1..(Len(s) + n) :
           (s \o Bytes(id, n))[i] = IF i <= Len(s) THEN s[i] ELSE Bytes(id, n)[i - Len(s)]
  <2>1. Bytes(id, n) \in Seq(Byte) /\ Len(Bytes(id, n)) = n
    BY <1>1
  <2> QED
    BY <2>1, ConcatProperties
<1>3. Len(s) \in Nat
  OBVIOUS
<1> QED
  BY <1>1, <1>2, <1>3 DEF Behind

(* A message is sent: it is the last of new, and its bytes are the last of t. *)
Appended(messages, s, new, t) ==
  /\ Len(new) = Len(messages) + 1
  /\ \A id \in 1..Len(messages) : new[id] = messages[id]
  /\ Len(t) = Len(s) + End(new, Len(new))
  /\ \A i \in 1..Len(s) : t[i] = s[i]
  /\ \A i \in (Len(s) + 1)..Len(t) : t[i].id = Len(new) /\ t[i].pos = i - Len(s)

(* A message that is sent follows the last. *)
LEMMA FlowSent ==
  ASSUME NEW messages \in Seq(Message), NEW s \in Seq(Byte), Flow(messages, s),
         NEW new \in Seq(Message), NEW t \in Seq(Byte), Appended(messages, s, new, t)
  PROVE  Flow(new, t)
<1>a. PICK last \in Nat, k \in Nat : last = Len(new) /\ k = End(new, last) /\ k >= 5
  <2>1. Len(new) \in Nat /\ Len(new) \in 1..Len(new)
    BY DEF Appended
  <2> QED
    BY <2>1, LengthsFit
<1>b. /\ last = Len(messages) + 1 /\ Len(new) = last /\ End(new, last) = k /\ k >= 5
      /\ \A id \in 1..Len(messages) : new[id] = messages[id]
      /\ Len(t) = Len(s) + k /\ \A i \in 1..Len(s) : t[i] = s[i]
      /\ \A i \in (Len(s) + 1)..Len(t) : t[i].id = last /\ t[i].pos = i - Len(s)
  BY <1>a DEF Appended
<1> USE <1>b
<1>1. Len(messages) \in Nat /\ Len(s) \in Nat /\ Len(t) \in Nat
  OBVIOUS
<1>2. \A id \in 1..Len(messages) : End(new, id) = End(messages, id)
  BY DEF End
<1>3. Len(t) = Len(s) + k /\ \A i \in 1..Len(t) : i <= Len(s) => t[i] = s[i]
  BY <1>1
<1>4. \A i \in 1..Len(s) : /\ s[i].id \in 1..Len(messages) /\ s[i].id < last
                           /\ s[i].pos \in 1..End(messages, s[i].id)
                           /\ End(new, s[i].id) = End(messages, s[i].id)
                           /\ End(messages, s[i].id) \in Nat
  BY <1>2, LengthsFit DEF Flow, Inside
<1>5. last = Len(messages) + 1
  OBVIOUS
<1>6. \A i \in 1..Len(t) : i \in 1..Len(s) \/ i \in (Len(s) + 1)..Len(t)
  BY <1>1, <1>3
<1>7. Inside(new, t)
  <2>1. ASSUME NEW i \in 1..Len(s)
        PROVE  t[i].id \in 1..Len(new) /\ t[i].pos \in 1..End(new, t[i].id)
    <3>1. t[i] = s[i] /\ s[i].id \in 1..Len(messages) /\ s[i].pos \in 1..End(messages, s[i].id)
          /\ End(new, s[i].id) = End(messages, s[i].id)
      BY <1>3, <1>4
    <3> QED
      BY <1>1, <1>2, <1>5, <3>1
  <2>2. \A i \in (Len(s) + 1)..Len(t) : t[i].id \in 1..Len(new) /\ t[i].pos \in 1..End(new, t[i].id)
    BY <1>1, <1>2, <1>3
  <2> QED
    BY <1>6, <2>1, <2>2 DEF Inside
(* A byte that is followed by new ones: how far it is from the last old one. *)
<1>8. ASSUME NEW i \in 1..Len(s), NEW j \in (Len(s) + 1)..Len(t)
      PROVE  /\ s[i].pos + (j - i) > End(messages, s[i].id)
             /\ s[i].pos + (j - i) = End(messages, s[i].id) + 1 =>
                  s[i].id = Len(messages) /\ j = Len(s) + 1
  <2>1. Len(s) \in 1..Len(s) /\ i <= Len(s)
    BY <1>3
  <2>2. s[Len(s)].id = Len(messages) /\ s[Len(s)].pos = End(messages, Len(messages))
    BY <1>3 DEF Flow, Ends
  <2>3. s[i].pos + (Len(s) - i) <= End(messages, s[i].id) =>
          s[Len(s)].id = s[i].id /\ s[Len(s)].pos = s[i].pos + (Len(s) - i)
    BY <2>1 DEF Flow, Runs
  <2>4. s[i].pos \in Nat /\ End(messages, s[i].id) \in Nat /\ j \in Nat /\ i \in Nat /\ j > Len(s)
    BY <1>3, <1>4
  <2>5. /\ s[i].pos + (j - i) <= End(messages, s[i].id) + 1 =>
             s[i].pos + (Len(s) - i) <= End(messages, s[i].id)
        /\ s[i].pos + (Len(s) - i) = End(messages, s[i].id) =>
             /\ s[i].pos + (j - i) > End(messages, s[i].id)
             /\ s[i].pos + (j - i) = End(messages, s[i].id) + 1 => j = Len(s) + 1
    <3>1. PICK p \in Nat : p = s[i].pos
      BY <2>4
    <3>2. PICK e \in Nat : e = End(messages, s[i].id)
      BY <2>4
    <3>3. PICK l \in Nat : l = Len(s)
      BY <1>1
    <3>4. i \in Nat /\ j \in Nat /\ i <= l /\ l < j
      BY <1>1, <2>1, <2>4, <3>3
    <3>5. /\ p + (j - i) <= e + 1 => p + (l - i) <= e
          /\ p + (l - i) = e => p + (j - i) > e /\ (p + (j - i) = e + 1 => j = l + 1)
      BY <3>4
    <3> QED
      BY <3>1, <3>2, <3>3, <3>5
  <2>6. s[i].pos + (j - i) \in Int
    <3>1. i \in Nat /\ j \in Nat
      BY <1>1, <2>1
    <3> QED
      BY <2>4, <3>1
  <2>7. CASE s[i].pos + (j - i) <= End(messages, s[i].id) + 1
    BY <2>2, <2>3, <2>5, <2>7
  <2>8. CASE s[i].pos + (j - i) > End(messages, s[i].id) + 1
    BY <2>4, <2>6, <2>8
  <2> QED
    BY <2>4, <2>6, <2>7, <2>8
<1>9. Runs(new, t)
  <2> SUFFICES ASSUME NEW i \in 1..Len(t), NEW j \in 1..Len(t), i <= j,
                      t[i].pos + (j - i) <= End(new, t[i].id)
               PROVE  t[j].id = t[i].id /\ t[j].pos = t[i].pos + (j - i)
    BY DEF Runs
  <2>1. CASE i \in 1..Len(s) /\ j \in 1..Len(s)
    <3>1. t[i] = s[i] /\ t[j] = s[j] /\ End(new, s[i].id) = End(messages, s[i].id)
      BY <1>4, <2>1
    <3>2. s[i].pos + (j - i) <= End(messages, s[i].id) =>
            s[j].id = s[i].id /\ s[j].pos = s[i].pos + (j - i)
      BY <2>1 DEF Flow, Runs
    <3> QED
      BY <3>1, <3>2
  <2>2. CASE i \in 1..Len(s) /\ j \in (Len(s) + 1)..Len(t)
    <3>1. s[i].pos + (j - i) > End(messages, s[i].id) /\ t[i] = s[i]
          /\ End(new, s[i].id) = End(messages, s[i].id)
      BY <1>3, <1>4, <1>8, <2>2
    <3>2. s[i].pos \in Nat /\ End(messages, s[i].id) \in Nat
      BY <1>4, <2>2
    <3> QED
      BY <3>1, <3>2
  <2>3. CASE i \in (Len(s) + 1)..Len(t) /\ j \in (Len(s) + 1)..Len(t)
    BY <1>3, <2>3
  <2>4. i \in (Len(s) + 1)..Len(t) => j \in (Len(s) + 1)..Len(t)
    BY <1>3
  <2> QED
    BY <1>6, <2>1, <2>2, <2>3, <2>4
<1>10. Follows(new, t)
  <2> SUFFICES ASSUME NEW i \in 1..Len(t), NEW j \in 1..Len(t),
                      t[i].pos + (j - i) = End(new, t[i].id) + 1
               PROVE  t[j].id = t[i].id + 1 /\ t[j].pos = 1
    BY DEF Follows
  <2>1. CASE i \in 1..Len(s) /\ j \in 1..Len(s)
    <3>1. t[i] = s[i] /\ t[j] = s[j] /\ End(new, s[i].id) = End(messages, s[i].id)
      BY <1>4, <2>1
    <3>2. s[i].pos + (j - i) = End(messages, s[i].id) + 1 => s[j].id = s[i].id + 1 /\ s[j].pos = 1
      BY <2>1 DEF Flow, Follows
    <3> QED
      BY <3>1, <3>2
  <2>2. CASE i \in 1..Len(s) /\ j \in (Len(s) + 1)..Len(t)
    <3>1. t[i] = s[i] /\ End(new, s[i].id) = End(messages, s[i].id)
      BY <1>3, <1>4, <2>2
    <3>2. s[i].pos + (j - i) = End(messages, s[i].id) + 1
      BY <3>1
    <3>3. s[i].id = Len(messages) /\ j = Len(s) + 1
      BY <1>8, <2>2, <3>2
    <3>4. t[j].id = last /\ t[j].pos = j - Len(s)
      BY <1>3, <2>2
    <3>5. t[j].pos = 1
      BY <1>1, <3>3, <3>4
    <3> QED
      BY <1>5, <3>1, <3>3, <3>4, <3>5
  <2>3. CASE i \in (Len(s) + 1)..Len(t)
    <3>1. t[i].id = last /\ t[i].pos = i - Len(s)
      BY <1>3, <2>3
    <3>2. j - Len(s) = k + 1
      BY <1>1, <1>2, <1>3, <3>1
    <3> QED
      BY <1>1, <1>3, <3>2
  <2> QED
    BY <1>6, <2>1, <2>2, <2>3
<1>11. Later(new, t)
  <2> SUFFICES ASSUME NEW i \in 1..Len(t), NEW j \in 1..Len(t), i <= j,
                      t[i].pos + (j - i) > End(new, t[i].id)
               PROVE  t[j].id > t[i].id
    BY DEF Later
  <2>1. CASE i \in 1..Len(s) /\ j \in 1..Len(s)
    <3>1. t[i] = s[i] /\ t[j] = s[j] /\ End(new, s[i].id) = End(messages, s[i].id)
      BY <1>4, <2>1
    <3>2. s[i].pos + (j - i) > End(messages, s[i].id) => s[j].id > s[i].id
      BY <2>1 DEF Flow, Later
    <3> QED
      BY <3>1, <3>2
  <2>2. CASE i \in 1..Len(s) /\ j \in (Len(s) + 1)..Len(t)
    BY <1>3, <1>4, <2>2
  <2>3. CASE i \in (Len(s) + 1)..Len(t)
    <3>1. t[i].id = last /\ t[i].pos = i - Len(s)
      BY <1>3, <2>3
    <3>2. j - Len(s) > k
      BY <1>1, <1>2, <1>3, <3>1
    <3> QED
      BY <1>1, <1>3, <3>2
  <2> QED
    BY <1>6, <2>1, <2>2, <2>3
<1>12. Ends(new, t)
  <2>1. Len(t) \in (Len(s) + 1)..Len(t) /\ Len(t) - Len(s) = k
    BY <1>1, <1>3
  <2>2. t[Len(t)].id = last /\ t[Len(t)].pos = k
    BY <1>3, <2>1
  <2> QED
    BY <1>2, <2>2 DEF Ends
<1> QED
  BY <1>7, <1>9, <1>10, <1>11, <1>12 DEF Flow

(* What has not been read: first what has arrived, then what is coming. *)
LEMMA StreamTypes ==
  ASSUME LinkTypes
  PROVE  /\ Stream \in Seq(Byte) /\ Len(Stream) \in Nat
         /\ Len(arrived) \in Nat /\ Len(coming) \in Nat
         /\ Len(Stream) = Len(arrived) + Len(coming)
         /\ \A i \in 1..Len(arrived) : Stream[i] = arrived[i] /\ i \in 1..Len(Stream)
         /\ \A i \in 1..Len(Stream) : Stream[i] \in Byte /\ Stream[i].id \in Nat /\ Stream[i].pos \in Nat
<1>1. arrived \in Seq(Byte) /\ coming \in Seq(Byte)
  BY DEF LinkTypes
<1>2. /\ Stream \in Seq(Byte)
      /\ Len(Stream) = Len(arrived) + Len(coming)
      /\ \A i \in 1..Len(arrived) + Len(coming) :
           Stream[i] = IF i <= Len(arrived) THEN arrived[i] ELSE coming[i - Len(arrived)]
  BY <1>1, ConcatProperties DEF Stream
<1>3. Len(arrived) \in Nat /\ Len(coming) \in Nat
  BY <1>1
<1>4. /\ Len(Stream) \in Nat
      /\ \A i \in 1..Len(Stream) : Stream[i] \in Byte /\ Stream[i].id \in Nat /\ Stream[i].pos \in Nat
  BY <1>2, ByteFields
<1> QED
  BY <1>2, <1>3, <1>4

(* The first n bytes of what has arrived are read. *)
LEMMA Rest ==
  ASSUME NEW a \in Seq(Byte), NEW c \in Seq(Byte), NEW n \in 0..Len(a)
  PROVE  /\ SubSeq(a, n + 1, Len(a)) \in Seq(Byte)
         /\ SubSeq(a, n + 1, Len(a)) \o c \in Seq(Byte)
         /\ Len(a \o c) = Len(SubSeq(a, n + 1, Len(a)) \o c) + n
         /\ \A i \in 1..Len(SubSeq(a, n + 1, Len(a)) \o c) :
              (SubSeq(a, n + 1, Len(a)) \o c)[i] = (a \o c)[i + n]
<1> DEFINE b == SubSeq(a, n + 1, Len(a))
<1>1. /\ Len(a) \in Nat /\ Len(c) \in Nat /\ n \in Nat /\ n <= Len(a)
      /\ n + 1 \in Int /\ Len(a) \in Int
  OBVIOUS
<1>2. \A i \in (n + 1)..Len(a) : a[i] \in Byte
  BY <1>1, ElementOfSeq
<1>3. /\ b \in Seq(Byte)
      /\ Len(b) = IF n + 1 <= Len(a) THEN Len(a) - (n + 1) + 1 ELSE 0
      /\ \A i \in 1..(Len(a) - (n + 1) + 1) : b[i] = a[(n + 1) + i - 1]
  BY ONLY <1>1, <1>2, SubSeqProperties
<1> HIDE DEF b
<1>4. Len(b) \in Nat /\ Len(b) = Len(a) - n /\ \A i \in 1..Len(b) : b[i] = a[i + n]
  BY <1>1, <1>3
<1>5. /\ Len(a \o c) = Len(a) + Len(c)
      /\ \A i \in 1..(Len(a) + Len(c)) : (a \o c)[i] = IF i <= Len(a) THEN a[i] ELSE c[i - Len(a)]
  BY ConcatProperties
<1>6. /\ b \o c \in Seq(Byte)
      /\ Len(b \o c) = Len(b) + Len(c)
      /\ \A i \in 1..(Len(b) + Len(c)) : (b \o c)[i] = IF i <= Len(b) THEN b[i] ELSE c[i - Len(b)]
  BY <1>3, ConcatProperties
<1>7. Len(a \o c) = Len(b \o c) + n
  BY <1>1, <1>4, <1>5, <1>6
<1>8. ASSUME NEW i \in 1..Len(b \o c) PROVE (b \o c)[i] = (a \o c)[i + n]
  <2>1. i \in 1..(Len(b) + Len(c)) /\ i + n \in 1..(Len(a) + Len(c))
    BY <1>1, <1>4, <1>6
  <2>2. CASE i <= Len(b)
    <3>1. (b \o c)[i] = b[i] /\ b[i] = a[i + n]
      BY <1>4, <1>6, <2>1, <2>2
    <3>2. i + n <= Len(a)
      BY <1>1, <1>4, <2>1, <2>2
    <3> QED
      BY <1>5, <2>1, <3>1, <3>2
  <2>3. CASE ~(i <= Len(b))
    <3>1. (b \o c)[i] = c[i - Len(b)]
      BY <1>6, <2>1, <2>3
    <3>2. ~(i + n <= Len(a)) /\ (i + n) - Len(a) = i - Len(b)
      BY <1>1, <1>4, <2>1, <2>3
    <3> QED
      BY <1>5, <2>1, <3>1, <3>2
  <2> QED
    BY <2>2, <2>3
<1> QED
  BY <1>3, <1>6, <1>7, <1>8 DEF b

(* What is left on the connection by a step that reads n bytes. *)
LEMMA Dropped ==
  ASSUME PollInv, NEW n \in 0..Len(arrived),
         arrived' = SubSeq(arrived, n + 1, Len(arrived)), sent' = sent, coming' = coming
  PROVE  /\ arrived' \in Seq(Byte) /\ Stream' \in Seq(Byte)
         /\ n \in Nat /\ Len(Stream') \in Nat
         /\ Len(Stream) = Len(Stream') + n
         /\ \A i \in 1..Len(Stream') : Stream'[i] = Stream[i + n] /\ i + n \in 1..Len(Stream)
         /\ Flow(sent, Stream)'
<1>1. arrived \in Seq(Byte) /\ coming \in Seq(Byte) /\ sent \in Seq(Message)
  BY DEF PollInv, LinkTypes
<1>2. Stream \in Seq(Byte) /\ Len(Stream) \in Nat /\ Len(arrived) \in Nat /\ Flow(sent, Stream)
  BY StreamTypes DEF PollInv
<1>3. n \in Nat
  BY <1>2
<1>4. /\ arrived' \in Seq(Byte) /\ Stream' \in Seq(Byte)
      /\ Len(Stream) = Len(Stream') + n
      /\ \A i \in 1..Len(Stream') : Stream'[i] = Stream[i + n]
  BY <1>1, Rest DEF Stream
<1>5. Len(Stream') \in Nat
  BY <1>4
<1>6. \A i \in 1..Len(Stream') : i + n \in 1..Len(Stream)
  BY <1>3, <1>4, <1>5
<1>7. Flow(sent, Stream')
  BY <1>1, <1>2, <1>3, <1>4, FlowDropped
<1> QED
  BY <1>3, <1>4, <1>5, <1>6, <1>7

(* Reading nothing but bytes changes nothing about what was polled. *)
LEMMA PassedDropped ==
  ASSUME PollInv, NEW n \in 0..Len(arrived),
         arrived' = SubSeq(arrived, n + 1, Len(arrived)), sent' = sent, coming' = coming,
         taken' = taken
  PROVE  Passed'
<1>1. \A i \in 1..Len(Stream') : Stream'[i] = Stream[i + n] /\ i + n \in 1..Len(Stream)
  BY Dropped
<1>2. ASSUME NEW k \in 1..Len(taken)
      PROVE  taken[k] <= Len(sent) /\ (taken[k] # 0 => \A i \in 1..Len(Stream) : Stream[i].id > taken[k])
  BY DEF PollInv, Passed
<1> QED
  BY <1>1, <1>2 DEF Passed

(* Some bytes of one message, from position i on. *)
LEMMA FirstOfMessage ==
  ASSUME PollInv, NEW n \in Nat, NEW p \in Nat, n <= Len(arrived),
         Len(Stream) > 0 => Stream[1].pos = p /\ p + n <= End(sent, Stream[1].id) + 1
  PROVE  Together(n, p)
<1>1. /\ Len(arrived) \in Nat
      /\ \A i \in 1..Len(arrived) : Stream[i] = arrived[i] /\ i \in 1..Len(Stream)
      /\ \A i \in 1..Len(Stream) : Stream[i] \in Byte
  BY StreamTypes DEF PollInv
<1>2. Flow(sent, Stream) /\ sent \in Seq(Message)
  BY DEF PollInv, LinkTypes
<1> SUFFICES ASSUME NEW k \in 1..n PROVE arrived[k] = [id |-> arrived[1].id, pos |-> p + k - 1]
  BY DEF Together
<1>3. k \in 1..Len(arrived) /\ 1 \in 1..Len(arrived) /\ k \in Nat /\ 1 <= k
  BY <1>1
<1>4. arrived[k] = Stream[k] /\ arrived[1] = Stream[1] /\ k \in 1..Len(Stream) /\ 1 \in 1..Len(Stream)
  BY <1>1, <1>3
<1>5. Stream[1].pos = p /\ p + n <= End(sent, Stream[1].id) + 1
  <2>1. Len(Stream) > 0
    BY <1>4
  <2> QED
    BY <2>1
<1>6. End(sent, Stream[1].id) \in Nat
  <2>1. Stream[1].id \in 1..Len(sent)
    BY <1>2, <1>4 DEF Flow, Inside
  <2> QED
    BY <1>2, <2>1, LengthsFit
<1>7. Stream[1].pos + (k - 1) <= End(sent, Stream[1].id)
  BY <1>3, <1>5, <1>6
<1>8. Stream[k].id = Stream[1].id /\ Stream[k].pos = Stream[1].pos + (k - 1)
  BY <1>2, <1>3, <1>4, <1>7 DEF Flow, Runs
<1>9. Stream[k] \in Byte
  BY <1>1, <1>4
<1>10. Stream[k] = [id |-> Stream[1].id, pos |-> p + k - 1]
  <2>1. Stream[k].pos = p + k - 1
    BY <1>3, <1>5, <1>8
  <2> QED
    BY <1>8, <1>9, <2>1 DEF Byte
<1> QED
  BY <1>4, <1>10

-----------------------------------------------------------------------------
(* The steps *)

(* There are no bytes to begin with. *)
LEMMA NoFlow ==
  ASSUME NEW s, s = << >>
  PROVE  Flow(<< >>, s)
<1>1. Len(s) = 0
  OBVIOUS
<1> QED
  BY <1>1 DEF Flow, Inside, Runs, Follows, Later, Ends

LEMMA EmptyStream ==
  << >> \o << >> = << >> /\ << >> \in Seq(Byte) /\ << >> \in Seq(Message) /\ << >> \in Seq(Nat)
BY ConcatEmptySeq

LEMMA InitHolds ==
  ASSUME Init
  PROVE  PollInv
<1>1. Stream = << >> /\ Len(Stream) = 0 /\ sent = << >> /\ taken = << >> /\ Len(taken) = 0 /\ Len(sent) = 0
  BY EmptyStream DEF Init, Stream
<1>2. TypeOK
  <2>1. 0 \in 0..PollLimit /\ 0 \in 0..(MaxLen + 1) /\ 0 \in 0..MaxSent
    BY TelemetryPollAssumption
  <2> QED
    BY <2>1 DEF Init, TypeOK
<1>3. LinkTypes
  BY <1>1, EmptyStream, TelemetryPollAssumption DEF Init, LinkTypes
<1>4. Flow(sent, Stream)
  BY <1>1, NoFlow
<1>5. Passed /\ InStep
  BY <1>1 DEF Passed, InStep
<1>6. Cached
  BY DEF Init, Cached
<1>7. NextByte
  BY DEF Init, NextByte
<1> QED
  BY <1>2, <1>3, <1>4, <1>5, <1>6, <1>7 DEF PollInv

(* The parts of the invariant besides the types. *)
Steady == LinkTypes /\ Flow(sent, Stream) /\ Passed /\ Cached /\ NextByte /\ InStep

(* A step that neither reads nor writes bytes. *)
LEMMA Quiet ==
  ASSUME PollInv, UNCHANGED link, taken' = taken, split' = split, latest' = latest, len' = len,
         connected' => connected, haveLatest' => haveLatest /\ connected',
         at' = "payload" <=> at = "payload"
  PROVE  Steady'
<1>1. /\ Stream' = Stream /\ sent' = sent /\ arrived' = arrived /\ coming' = coming
  BY DEF link, Stream
<1>2. LinkTypes'
  BY <1>1 DEF PollInv, LinkTypes
<1>3. Flow(sent, Stream)'
  BY <1>1 DEF PollInv
<1>4. Passed'
  BY <1>1 DEF PollInv, Passed
<1>5. Cached'
  BY <1>1 DEF PollInv, Cached
<1>6. NextByte'
  BY <1>1 DEF PollInv, NextByte
<1>7. InStep'
  BY <1>1 DEF PollInv, InStep
<1> QED
  BY <1>2, <1>3, <1>4, <1>5, <1>6, <1>7 DEF Steady

LEMMA QuietSteps ==
  ASSUME PollInv,
         Close \/ Disconnect \/ PollLatestTelemetry \/ PollEnds \/ RecvNothing \/ UNCHANGED vars
  PROVE  Steady'
<1>1. CASE Close
  <2>1. /\ taken' = taken /\ split' = split /\ latest' = latest /\ len' = len /\ at' = at
        /\ connected' = connected /\ haveLatest' = haveLatest
        /\ Stream' = Stream /\ sent' = sent /\ arrived' = arrived /\ coming' = coming
    BY <1>1 DEF Close, poll, history, Stream
  <2>2. LinkTypes' /\ Flow(sent, Stream)'
    BY <2>1 DEF PollInv, LinkTypes
  <2>3. Passed' /\ Cached'
    BY <2>1 DEF PollInv, Passed, Cached
  <2>4. NextByte' /\ InStep'
    BY <2>1 DEF PollInv, NextByte, InStep
  <2> QED
    BY <2>2, <2>3, <2>4 DEF Steady
<1>2. CASE Disconnect
  BY <1>2, Quiet DEF Disconnect, GiveUp, HaveAfterClose, link, poll, history
<1>3. CASE PollLatestTelemetry
  BY <1>3, Quiet DEF PollLatestTelemetry, link, history, PollInv, Cached
<1>4. CASE PollEnds
  BY <1>4, Quiet DEF PollEnds, Return, link, history, PollInv, Cached
<1>5. CASE RecvNothing
  <2>1. UNCHANGED link /\ taken' = taken /\ split' = split /\ latest' = latest /\ len' = len
        /\ at = "prefix" /\ at' = "idle"
    BY <1>5 DEF RecvNothing, Return, link, history
  <2>2. (connected' => connected) /\ (haveLatest' => haveLatest /\ connected')
    BY <1>5 DEF RecvNothing, GiveUp, HaveAfterClose, PollInv, Cached
  <2> QED
    BY <2>1, <2>2, Quiet
<1>6. CASE UNCHANGED vars
  BY <1>6, Quiet DEF vars, link, poll, history, PollInv, Cached
<1> QED
  BY <1>1, <1>2, <1>3, <1>4, <1>5, <1>6

(* A new connection. *)
LEMMA ConnectStep ==
  ASSUME PollInv, Connect
  PROVE  Steady'
<1>1. /\ sent' = << >> /\ coming' = << >> /\ arrived' = << >> /\ taken' = << >>
      /\ at' = "idle" /\ at = "idle"
  BY DEF Connect, poll
<1>2. Stream' = << >> /\ Len(Stream') = 0 /\ Len(taken') = 0 /\ Len(sent') = 0
  BY <1>1, EmptyStream DEF Stream
<1>3. LinkTypes'
  BY <1>1, EmptyStream, TelemetryPollAssumption DEF LinkTypes
<1>4. Flow(sent, Stream)'
  BY <1>1, <1>2, NoFlow
<1>5. Passed' /\ InStep'
  BY <1>2 DEF Passed, InStep
<1>6. Cached'
  <2>1. haveLatest' = FALSE
    BY DEF PollInv, TypeOK, Cached, Connect, HaveAfterClose
  <2> QED
    BY <2>1 DEF Cached
<1>7. NextByte'
  BY <1>1, <1>2 DEF NextByte
<1> QED
  BY <1>3, <1>4, <1>5, <1>6, <1>7 DEF Steady

(* Bytes arrive. *)
LEMMA ArriveStep ==
  ASSUME PollInv, Arrive
  PROVE  Steady'
<1>1. PICK k \in 1..Len(coming) :
        /\ arrived' = arrived \o SubSeq(coming, 1, k)
        /\ coming' = SubSeq(coming, k + 1, Len(coming))
  BY DEF Arrive
<1>2. arrived \in Seq(Byte) /\ coming \in Seq(Byte) /\ sent \in Seq(Message) /\ Len(coming) \in Nat
  BY DEF PollInv, LinkTypes
<1>3. /\ k \in Nat /\ 1 \in 1..(Len(coming) + 1) /\ k \in (1 - 1)..Len(coming)
      /\ Len(coming) \in k..Len(coming)
      /\ 1 \in Int /\ k \in Int /\ k + 1 \in Int /\ Len(coming) \in Int
  BY <1>2
<1>4. \A i \in 1..Len(coming) : coming[i] \in Byte
  BY <1>2
<1>5. (\A i \in 1..k : coming[i] \in Byte) /\ (\A i \in (k + 1)..Len(coming) : coming[i] \in Byte)
  BY <1>2, <1>3, <1>4
<1>6. SubSeq(coming, 1, k) \in Seq(Byte) /\ SubSeq(coming, k + 1, Len(coming)) \in Seq(Byte)
  BY ONLY <1>3, <1>5, SubSeqProperties
<1>7. SubSeq(coming, 1, k) \o SubSeq(coming, k + 1, Len(coming)) = coming
  <2>1. SubSeq(coming, 1, k) \o SubSeq(coming, k + 1, Len(coming)) = SubSeq(coming, 1, Len(coming))
    BY ONLY <1>2, <1>3, ConcatAdjacentSubSeq
  <2> QED
    BY <1>2, <2>1, SubSeqFull
<1>8. arrived' \in Seq(Byte) /\ coming' \in Seq(Byte)
  BY <1>1, <1>2, <1>6, ConcatProperties
<1>9. Stream' = Stream
  <2>1. PICK first \in Seq(Byte), rest \in Seq(Byte) :
          first = SubSeq(coming, 1, k) /\ rest = SubSeq(coming, k + 1, Len(coming))
    BY <1>6
  <2>2. (arrived \o first) \o rest = arrived \o (first \o rest)
    BY <1>2
  <2> QED
    BY <1>1, <1>7, <2>1, <2>2 DEF Stream
<1>10. /\ sent' = sent /\ taken' = taken /\ split' = split /\ latest' = latest /\ len' = len
       /\ connected' = connected /\ haveLatest' = haveLatest /\ at' = at
  BY DEF Arrive, poll, history
<1>11. LinkTypes'
  BY <1>8, <1>10 DEF PollInv, LinkTypes
<1>12. Flow(sent, Stream)'
  BY <1>9, <1>10 DEF PollInv
<1>13. Passed' /\ Cached'
  BY <1>9, <1>10 DEF PollInv, Passed, Cached
<1>14. NextByte' /\ InStep'
  BY <1>9, <1>10 DEF PollInv, NextByte, InStep
<1> QED
  BY <1>11, <1>12, <1>13, <1>14 DEF Steady

(* The bridge sends a message. *)
LEMMA SendStep ==
  ASSUME PollInv, Send
  PROVE  Steady'
<1>1. PICK n \in Lens, m \in BOOLEAN :
        /\ sent' = Append(sent, [len |-> n, measured |-> m])
        /\ coming' = coming \o Bytes(Len(sent'), 4 + n)
  BY DEF Send
<1>2. /\ arrived \in Seq(Byte) /\ coming \in Seq(Byte) /\ sent \in Seq(Message)
      /\ Flow(sent, Stream) /\ Len(sent) \in Nat /\ Len(sent) < MaxSent
  BY DEF PollInv, LinkTypes, Send
<1>3. n \in Nat /\ n >= 1 /\ 4 + n \in Nat /\ 4 + n >= 5
  BY LensAreLengths
<1>4. [len |-> n, measured |-> m] \in Message
  BY DEF Message
<1>5. /\ sent' \in Seq(Message) /\ Len(sent') = Len(sent) + 1 /\ Len(sent') \in Nat
      /\ \A id \in 1..Len(sent) : sent'[id] = sent[id]
      /\ sent'[Len(sent')] = [len |-> n, measured |-> m]
  BY <1>1, <1>2, <1>4
<1>6. Stream \in Seq(Byte) /\ Len(Stream) \in Nat
  BY StreamTypes DEF PollInv
<1>7. Bytes(Len(sent'), 4 + n) \in Seq(Byte)
  BY <1>3, <1>5, <1>6, BytesBehind
<1>8. coming' \in Seq(Byte) /\ arrived' = arrived
  BY <1>1, <1>2, <1>7, ConcatProperties DEF Send
<1>9. Stream' = Stream \o Bytes(Len(sent'), 4 + n)
  <2>1. (arrived \o coming) \o Bytes(Len(sent'), 4 + n) = arrived \o (coming \o Bytes(Len(sent'), 4 + n))
    BY ONLY <1>2, <1>7, ConcatAssociative
  <2> QED
    BY <1>1, <1>8, <2>1 DEF Stream
<1>10. /\ Stream' \in Seq(Byte) /\ Len(Stream') = Len(Stream) + (4 + n)
       /\ \A i \in 1..Len(Stream) : Stream'[i] = Stream[i]
       /\ \A i \in (Len(Stream) + 1)..Len(Stream') :
            Stream'[i].id = Len(sent') /\ Stream'[i].pos = i - Len(Stream)
  <2>1. PICK last \in Nat, k \in Nat : last = Len(sent') /\ k = 4 + n
    BY <1>3, <1>5
  <2>2. Stream' = Stream \o Bytes(last, k)
    BY <1>9, <2>1
  <2>3. Behind(Stream, Stream', last, k)
    BY <1>6, <2>1, <2>2, BytesBehind
  <2> QED
    BY <2>1, <2>3 DEF Behind
<1>11. End(sent', Len(sent')) = 4 + n
  BY <1>5 DEF End
<1>12. Flow(sent, Stream)'
  <2>1. Appended(sent, Stream, sent', Stream')
    BY <1>5, <1>10, <1>11 DEF Appended
  <2> QED
    BY <1>2, <1>5, <1>6, <1>10, <2>1, FlowSent
<1>13. /\ taken' = taken /\ split' = split /\ latest' = latest /\ len' = len
       /\ connected' = connected /\ haveLatest' = haveLatest /\ at' = at
  BY DEF Send, poll, history
<1>14. LinkTypes'
  BY <1>2, <1>5, <1>8, <1>13, TelemetryPollAssumption DEF PollInv, LinkTypes
<1>15. \A k \in 1..Len(taken) : taken[k] \in Nat /\ taken[k] <= Len(sent)
  <2>1. taken \in Seq(Nat)
    BY DEF PollInv, LinkTypes
  <2>2. \A k \in 1..Len(taken) : taken[k] \in Nat
    BY <2>1
  <2> QED
    BY <2>2 DEF PollInv, Passed
<1>16. \A i \in 1..Len(Stream') : i \in 1..Len(Stream) \/ i \in (Len(Stream) + 1)..Len(Stream')
  BY <1>3, <1>6, <1>10
<1>17. Passed'
  <2> SUFFICES ASSUME NEW k \in 1..Len(taken)
               PROVE  /\ taken[k] <= Len(sent')
                      /\ taken[k] # 0 => \A i \in 1..Len(Stream') : Stream'[i].id > taken[k]
    BY <1>13 DEF Passed
  <2>1. taken[k] <= Len(sent') /\ Len(sent') > taken[k]
    BY <1>2, <1>5, <1>15
  <2>2. taken[k] # 0 => \A i \in 1..Len(Stream) : Stream[i].id > taken[k]
    BY DEF PollInv, Passed
  <2> QED
    BY <1>10, <1>16, <2>1, <2>2
<1>18. Cached'
  <2>1. \A k \in 1..Len(taken) : taken[k] > latest /\ latest \in 1..Len(sent) => taken[k] \in 1..Len(sent)
    BY <1>2, <1>15
  <2> SUFFICES ASSUME haveLatest'
               PROVE  /\ connected'
                      /\ latest' \in 1..Len(sent') /\ sent'[latest'].measured
                      /\ \E k \in 1..Len(taken') : taken'[k] = latest'
                      /\ \A k \in 1..Len(taken') : taken'[k] > latest' => ~sent'[taken'[k]].measured
    BY DEF Cached
  <2>2. /\ connected
        /\ latest \in 1..Len(sent) /\ sent[latest].measured
        /\ \E k \in 1..Len(taken) : taken[k] = latest
        /\ \A k \in 1..Len(taken) : taken[k] > latest => ~sent[taken[k]].measured
    BY <1>13 DEF PollInv, Cached
  <2>3. latest \in 1..Len(sent') /\ sent'[latest].measured
    BY <1>2, <1>5, <2>2
  <2>4. \A k \in 1..Len(taken) : taken[k] > latest => ~sent'[taken[k]].measured
    BY <1>5, <2>1, <2>2
  <2> QED
    BY <1>13, <2>2, <2>3, <2>4
<1>19. NextByte'
  <2> SUFFICES ASSUME ~split, connected
               PROVE  IF at = "payload"
                        THEN /\ Len(Stream') > 0 /\ Stream'[1].id = Len(taken) + 1 /\ Stream'[1].pos = 5
                             /\ len = sent'[Len(taken) + 1].len
                        ELSE IF Len(Stream') = 0
                               THEN Len(taken) = Len(sent')
                               ELSE Stream'[1].id = Len(taken) + 1 /\ Stream'[1].pos = 1
    BY <1>13 DEF NextByte
  <2>1. /\ at = "payload" => /\ Len(Stream) > 0 /\ Stream[1].id = Len(taken) + 1 /\ Stream[1].pos = 5
                             /\ len = sent[Len(taken) + 1].len
        /\ at # "payload" /\ Len(Stream) = 0 => Len(taken) = Len(sent)
        /\ at # "payload" /\ Len(Stream) # 0 => Stream[1].id = Len(taken) + 1 /\ Stream[1].pos = 1
    BY DEF PollInv, NextByte
  <2>2. Len(Stream') > 0
    BY <1>3, <1>6, <1>10
  <2>3. CASE Len(Stream) > 0
    <3>1. 1 \in 1..Len(Stream) /\ Stream'[1] = Stream[1] /\ Len(Stream) # 0
      BY <1>6, <1>10, <2>3
    <3>2. sent'[Stream[1].id] = sent[Stream[1].id]
      BY <1>2, <1>5, <3>1 DEF Flow, Inside
    <3> QED
      BY <2>1, <2>2, <3>1, <3>2
  <2>4. CASE Len(Stream) = 0
    <3>1. 1 \in (Len(Stream) + 1)..Len(Stream')
      BY <1>3, <1>10, <2>4
    <3>2. Stream'[1].id = Len(sent') /\ Stream'[1].pos = 1
      BY <1>10, <2>4, <3>1
    <3>3. at # "payload" /\ Len(taken) = Len(sent)
      BY <2>1, <2>4
    <3> QED
      BY <1>5, <2>2, <3>2, <3>3
  <2> QED
    BY <1>6, <2>3, <2>4
<1>20. InStep'
  BY <1>13 DEF PollInv, InStep
<1> QED
  BY <1>12, <1>14, <1>17, <1>18, <1>19, <1>20 DEF Steady

(* All that has arrived is dropped. *)
LEMMA AllDropped ==
  ASSUME PollInv, arrived' = << >>, sent' = sent, coming' = coming, taken' = taken
  PROVE  /\ arrived' \in Seq(Byte) /\ Flow(sent, Stream)' /\ Passed'
<1>1. arrived \in Seq(Byte) /\ Len(arrived) \in Nat
  BY DEF PollInv, LinkTypes
<1>2. Len(arrived) \in 0..Len(arrived) /\ Len(arrived) + 1 \in Int /\ Len(arrived) \in Int
      /\ Len(arrived) < Len(arrived) + 1
  BY <1>1
<1>3. SubSeq(arrived, Len(arrived) + 1, Len(arrived)) = << >>
  BY ONLY <1>2, SubSeqEmpty
<1> QED
  BY <1>2, <1>3, Dropped, PassedDropped

(* Part of a length arrives, and is lost. *)
LEMMA PartOfPrefixStep ==
  ASSUME PollInv, RecvPartOfPrefix
  PROVE  Steady'
<1>1. /\ arrived' = << >> /\ sent' = sent /\ coming' = coming /\ taken' = taken
      /\ connected' = connected /\ haveLatest' = haveLatest /\ latest' = latest
      /\ at' = "idle" /\ split' = TRUE /\ len' = len
  BY DEF RecvPartOfPrefix, Return
<1>2. arrived' \in Seq(Byte) /\ Flow(sent, Stream)' /\ Passed'
  BY <1>1, AllDropped
<1>3. LinkTypes'
  BY <1>1, <1>2 DEF PollInv, LinkTypes
<1>4. Cached'
  BY <1>1 DEF PollInv, Cached
<1>5. NextByte' /\ InStep'
  BY <1>1 DEF NextByte, InStep
<1> QED
  BY <1>2, <1>3, <1>4, <1>5 DEF Steady

(* A payload is given up, and the connection with it. *)
LEMMA TimeoutStep ==
  ASSUME PollInv, RecvTimeout
  PROVE  Steady'
<1>1. /\ arrived' = << >> /\ sent' = sent /\ coming' = coming /\ taken' = taken
      /\ connected' = FALSE /\ haveLatest' = FALSE /\ at' = "idle" /\ split' = split
  BY DEF RecvTimeout, Return, PayloadMissing, GiveUp, HaveAfterClose, history
<1>2. arrived' \in Seq(Byte) /\ Flow(sent, Stream)' /\ Passed'
  BY <1>1, AllDropped
<1>3. LinkTypes'
  BY <1>1, <1>2 DEF PollInv, LinkTypes
<1>4. Cached' /\ NextByte'
  BY <1>1 DEF Cached, NextByte
<1>5. InStep'
  BY <1>1 DEF PollInv, InStep
<1> QED
  BY <1>2, <1>3, <1>4, <1>5 DEF Steady

(* What the first byte under way says of its message. *)
LEMMA FirstByte ==
  ASSUME PollInv, Len(arrived) > 0
  PROVE  /\ 1 \in 1..Len(arrived) /\ 1 \in 1..Len(Stream) /\ arrived[1] = Stream[1]
         /\ Stream[1].id \in 1..Len(sent)
         /\ sent[Stream[1].id].len \in 1..MaxLen
         /\ End(sent, Stream[1].id) \in Nat /\ End(sent, Stream[1].id) >= 5
         /\ Stream[1].pos \in Nat
<1>1. 1 \in 1..Len(arrived) /\ 1 \in 1..Len(Stream) /\ arrived[1] = Stream[1] /\ Stream[1].pos \in Nat
  BY StreamTypes DEF PollInv
<1>2. Stream[1].id \in 1..Len(sent)
  BY <1>1 DEF PollInv, Flow, Inside
<1>3. sent \in Seq(Message)
  BY DEF PollInv, LinkTypes
<1> QED
  BY <1>1, <1>2, <1>3, LengthsFit

(* A whole length is read: as long as none was split it is that of the next  *)
(* message, whose payload follows.                                           *)
LEMMA PrefixStep ==
  ASSUME PollInv, RecvPrefix
  PROVE  Steady'
<1>1. /\ arrived' = SubSeq(arrived, 5, Len(arrived)) /\ sent' = sent /\ coming' = coming
      /\ taken' = taken /\ split' = split /\ latest' = latest
      /\ connected' = connected /\ haveLatest' = haveLatest
      /\ at = "prefix" /\ Len(arrived) >= 4 /\ len' \in LengthRead
      /\ at' = IF len' = 0 \/ len' > MaxLen THEN "idle" ELSE "payload"
  BY DEF RecvPrefix, history
<1>2. Len(arrived) \in Nat /\ 4 \in 0..Len(arrived) /\ 4 + 1 = 5
  BY <1>1, StreamTypes DEF PollInv
<1>3. /\ arrived' \in Seq(Byte) /\ Flow(sent, Stream)' /\ Len(Stream') \in Nat
      /\ Len(Stream) = Len(Stream') + 4
      /\ \A i \in 1..Len(Stream') : Stream'[i] = Stream[i + 4] /\ i + 4 \in 1..Len(Stream)
  BY <1>1, <1>2, Dropped
<1>4. Passed'
  BY <1>1, <1>2, PassedDropped
<1>5. Cached'
  BY <1>1 DEF PollInv, Cached
<1>6. InStep'
  BY <1>1 DEF PollInv, InStep
<1>7. /\ 1 \in 1..Len(arrived) /\ 1 \in 1..Len(Stream) /\ arrived[1] = Stream[1]
      /\ Stream[1].id \in 1..Len(sent)
      /\ sent[Stream[1].id].len \in 1..MaxLen
      /\ End(sent, Stream[1].id) \in Nat /\ End(sent, Stream[1].id) >= 5
      /\ Stream[1].pos \in Nat
  BY <1>1, <1>2, FirstByte
<1>8. MaxLen \in Nat
  BY TelemetryPollAssumption
<1>9. len' \in 0..(MaxLen + 1)
  BY <1>1, <1>7, <1>8 DEF LengthRead
<1>10. LinkTypes'
  <2>1. at' = "payload" => len' \in 1..MaxLen
    BY <1>1, <1>8, <1>9
  <2> QED
    BY <1>1, <1>3, <2>1 DEF PollInv, LinkTypes
<1>11. NextByte'
  <2> SUFFICES ASSUME ~split, connected
               PROVE  /\ at' = "payload"
                      /\ Len(Stream') > 0 /\ Stream'[1].id = Len(taken) + 1 /\ Stream'[1].pos = 5
                      /\ len' = sent[Len(taken) + 1].len
    BY <1>1 DEF NextByte
  <2>1. Stream[1].id = Len(taken) + 1 /\ Stream[1].pos = 1
    BY <1>1, <1>7 DEF PollInv, NextByte
  <2>2. Together(4, 1)
    BY <1>1, <1>7, <2>1, FirstOfMessage
  <2>3. len' = sent[Len(taken) + 1].len
    BY <1>1, <1>7, <2>1, <2>2 DEF LengthRead
  <2>4. at' = "payload"
    BY <1>1, <1>7, <1>8, <2>1, <2>3
  <2>5. Runs(sent, Stream) /\ Ends(sent, Stream)
    BY DEF PollInv, Flow
  <2>6. Len(Stream) \in Nat /\ Len(Stream) >= 4
    BY <1>3
  <2>7. Len(Stream) # 4
    <3> SUFFICES ASSUME Len(Stream) = 4 PROVE FALSE
      OBVIOUS
    <3>1. 4 \in 1..Len(Stream) /\ 1 <= 4 /\ Stream[1].pos + (4 - 1) <= End(sent, Stream[1].id)
      BY <1>7, <2>1
    <3>2. Stream[4].id = Stream[1].id /\ Stream[4].pos = Stream[1].pos + (4 - 1)
      BY <1>7, <2>5, <3>1 DEF Runs
    <3>3. Stream[4].id = Len(sent) /\ Stream[4].pos = End(sent, Len(sent))
      BY <2>5 DEF Ends
    <3> QED
      BY <1>7, <2>1, <3>2, <3>3
  <2>8. 1 \in 1..Len(Stream') /\ Stream'[1] = Stream[5] /\ 5 \in 1..Len(Stream)
    BY <1>3, <2>6, <2>7
  <2>9. Stream[5].id = Stream[1].id /\ Stream[5].pos = 5
    <3>1. 1 <= 5 /\ Stream[1].pos + (5 - 1) <= End(sent, Stream[1].id)
      BY <1>7, <2>1
    <3>2. Stream[5].id = Stream[1].id /\ Stream[5].pos = Stream[1].pos + (5 - 1)
      BY <1>7, <2>5, <2>8, <3>1 DEF Runs
    <3> QED
      BY <2>1, <3>2
  <2> QED
    BY <1>3, <2>1, <2>3, <2>4, <2>8, <2>9
<1> QED
  BY <1>3, <1>4, <1>5, <1>6, <1>10, <1>11 DEF Steady

(* A message that is polled becomes the last of those taken. *)
LEMMA TakenGrows ==
  ASSUME NEW s \in Seq(Nat), NEW x \in Nat
  PROVE  /\ Append(s, x) \in Seq(Nat) /\ Len(s) \in Nat
         /\ Len(Append(s, x)) = Len(s) + 1
         /\ Append(s, x)[Len(s) + 1] = x
         /\ \A k \in 1..Len(s) : Append(s, x)[k] = s[k] /\ k \in 1..(Len(s) + 1)
         /\ \A k \in 1..(Len(s) + 1) : k \in 1..Len(s) \/ k = Len(s) + 1
OBVIOUS

(* What a payload is read as: a message that was sent and of which the       *)
(* payload is next, or nothing.                                              *)
LEMMA ReadIsSent ==
  ASSUME PollInv, at = "payload", Len(arrived) >= len
  PROVE  /\ len \in Nat /\ len >= 1 /\ len \in 0..Len(arrived)
         /\ MessageRead \in 0..Len(sent) /\ MessageRead \in Nat
         /\ MessageRead # 0 => /\ MessageRead = Stream[1].id /\ Stream[1].pos = 5
                               /\ sent[Stream[1].id].len = len
<1>1. len \in Nat /\ len >= 1 /\ Len(arrived) \in Nat /\ len \in 0..Len(arrived)
  <2>1. len \in 1..MaxLen /\ MaxLen \in Nat /\ Len(arrived) \in Nat
    BY StreamTypes, TelemetryPollAssumption DEF PollInv, LinkTypes
  <2> QED
    BY <2>1
<1>2. /\ arrived[1] = Stream[1] /\ Stream[1].id \in 1..Len(sent) /\ 1 \in 1..Len(arrived)
  BY <1>1, FirstByte
<1>3. Len(sent) \in Nat
  BY DEF PollInv, LinkTypes
<1>4. Together(len, 5) => Stream[1].pos = 5
  <2> SUFFICES ASSUME Together(len, 5) PROVE Stream[1].pos = 5
    OBVIOUS
  <2>1. 1 \in 1..len
    BY <1>1
  <2>2. arrived[1] = [id |-> arrived[1].id, pos |-> 5 + 1 - 1]
    BY <2>1 DEF Together
  <2>3. arrived[1].pos = 5 + 1 - 1
    BY <2>2
  <2> QED
    BY <1>2, <2>3
<1>5. MessageRead = IF Together(len, 5) /\ sent[Stream[1].id].len = len THEN Stream[1].id ELSE 0
  BY <1>2 DEF MessageRead
<1> QED
  BY <1>1, <1>2, <1>3, <1>4, <1>5

(* A whole payload is read: as long as no length was split it is that of the *)
(* next message, and the length after it is next.                            *)
LEMMA PayloadStep ==
  ASSUME PollInv, RecvPayload
  PROVE  Steady'
<1>1. /\ arrived' = SubSeq(arrived, len + 1, Len(arrived)) /\ sent' = sent /\ coming' = coming
      /\ taken' = Append(taken, MessageRead) /\ split' = split /\ len' = len
      /\ connected' = connected
      /\ at = "payload" /\ at' = "prefix" /\ Len(arrived) >= len
  BY DEF RecvPayload
<1>2. /\ len \in Nat /\ len >= 1 /\ len \in 0..Len(arrived)
      /\ MessageRead \in 0..Len(sent) /\ MessageRead \in Nat
      /\ MessageRead # 0 => /\ MessageRead = Stream[1].id /\ Stream[1].pos = 5
                            /\ sent[Stream[1].id].len = len
  BY <1>1, ReadIsSent
<1>3. /\ arrived' \in Seq(Byte) /\ Flow(sent, Stream)' /\ Len(Stream') \in Nat
      /\ Len(Stream) = Len(Stream') + len
      /\ \A i \in 1..Len(Stream') : Stream'[i] = Stream[i + len] /\ i + len \in 1..Len(Stream)
  BY <1>1, <1>2, Dropped
<1>4. Len(arrived) > 0
  <2>1. Len(arrived) \in Nat
    BY StreamTypes DEF PollInv
  <2> QED
    BY <1>1, <1>2, <2>1
<1>5. /\ 1 \in 1..Len(Stream) /\ Stream[1].id \in 1..Len(sent)
      /\ End(sent, Stream[1].id) \in Nat /\ Len(sent) \in Nat
      /\ End(sent, Stream[1].id) = 4 + sent[Stream[1].id].len
  BY <1>4, FirstByte DEF PollInv, LinkTypes, End
<1>6. taken \in Seq(Nat)
  BY DEF PollInv, LinkTypes
<1>7. /\ taken' \in Seq(Nat) /\ Len(taken) \in Nat /\ Len(taken') = Len(taken) + 1
      /\ taken'[Len(taken) + 1] = MessageRead
      /\ \A k \in 1..Len(taken) : taken'[k] = taken[k] /\ k \in 1..(Len(taken) + 1)
      /\ \A k \in 1..(Len(taken) + 1) : k \in 1..Len(taken) \/ k = Len(taken) + 1
  BY <1>1, <1>2, <1>6, TakenGrows
<1> HIDE DEF MessageRead
<1>8. LinkTypes'
  BY <1>1, <1>3, <1>7 DEF PollInv, LinkTypes
<1>9. \A k \in 1..Len(taken) :
        /\ taken[k] \in Nat /\ taken[k] <= Len(sent)
        /\ taken[k] # 0 => \A i \in 1..Len(Stream) : Stream[i].id > taken[k]
  <2>1. \A k \in 1..Len(taken) : taken[k] \in Nat
    BY <1>6
  <2> QED
    BY <2>1 DEF PollInv, Passed
<1>10. Passed'
  <2>1. ASSUME NEW k \in 1..Len(taken)
        PROVE  /\ taken'[k] <= Len(sent')
               /\ taken'[k] # 0 => \A i \in 1..Len(Stream') : Stream'[i].id > taken'[k]
    BY <1>1, <1>3, <1>7, <1>9
  <2>2. MessageRead # 0 => \A i \in 1..Len(Stream') : Stream'[i].id > MessageRead
    <3> SUFFICES ASSUME MessageRead # 0, NEW i \in 1..Len(Stream')
                 PROVE  Stream'[i].id > MessageRead
      OBVIOUS
    <3>1. i + len \in 1..Len(Stream) /\ Stream'[i] = Stream[i + len]
      BY <1>3
    <3>2. 1 <= i + len /\ Stream[1].pos + ((i + len) - 1) > End(sent, Stream[1].id)
      <4>1. PICK e \in Nat : e = End(sent, Stream[1].id) /\ e = 4 + len
        BY <1>2, <1>5
      <4>2. i \in Nat /\ i >= 1
        BY <1>3
      <4>3. 5 + ((i + len) - 1) > 4 + len /\ 1 <= i + len
        BY <1>2, <4>2
      <4> QED
        BY <1>2, <4>1, <4>3
    <3>3. Stream[i + len].id > Stream[1].id
      BY <1>5, <3>1, <3>2 DEF PollInv, Flow, Later
    <3> QED
      BY <1>2, <3>1, <3>3
  <2>3. MessageRead <= Len(sent')
    BY <1>1, <1>2, <1>5
  <2> QED
    BY <1>7, <2>1, <2>2, <2>3 DEF Passed
<1>11. Cached'
  <2>1. CASE MessageRead # 0 /\ sent[MessageRead].measured
    <3>1. latest' = MessageRead /\ haveLatest' = TRUE
      BY <2>1 DEF RecvPayload
    <3>2. connected
      BY <1>1 DEF PollInv, TypeOK
    <3>3. MessageRead \in 1..Len(sent) /\ Stream[1].id = MessageRead
      BY <1>2, <1>5, <2>1
    <3>4. \A k \in 1..Len(taken) : ~(taken[k] > MessageRead)
      <4> SUFFICES ASSUME NEW k \in 1..Len(taken) PROVE ~(taken[k] > MessageRead)
        OBVIOUS
      <4>1. taken[k] \in Nat /\ (taken[k] # 0 => Stream[1].id > taken[k])
        BY <1>5, <1>9
      <4> QED
        BY <1>2, <3>3, <4>1
    <3>5. \A k \in 1..Len(taken') : ~(taken'[k] > latest')
      BY <1>2, <1>7, <3>1, <3>4
    <3>6. \E k \in 1..Len(taken') : taken'[k] = latest'
      <4>1. Len(taken) + 1 \in 1..Len(taken')
        BY <1>7
      <4> QED
        BY <1>7, <3>1, <4>1
    <3> QED
      BY <1>1, <2>1, <3>1, <3>2, <3>3, <3>5, <3>6 DEF Cached
  <2>2. CASE ~(MessageRead # 0 /\ sent[MessageRead].measured)
    <3>1. latest' = latest /\ haveLatest' = haveLatest
      BY <2>2 DEF RecvPayload
    <3> SUFFICES ASSUME haveLatest
                 PROVE  /\ connected
                        /\ latest \in 1..Len(sent) /\ sent[latest].measured
                        /\ \E k \in 1..Len(taken') : taken'[k] = latest
                        /\ \A k \in 1..Len(taken') : taken'[k] > latest => ~sent[taken'[k]].measured
      BY <1>1, <3>1 DEF Cached
    <3>2. /\ connected
          /\ latest \in 1..Len(sent) /\ sent[latest].measured
          /\ \E k \in 1..Len(taken) : taken[k] = latest
          /\ \A k \in 1..Len(taken) : taken[k] > latest => ~sent[taken[k]].measured
      BY DEF PollInv, Cached
    <3>3. \E k \in 1..Len(taken') : taken'[k] = latest
      BY <1>7, <3>2
    <3>4. MessageRead > latest => ~sent[MessageRead].measured
      BY <1>2, <1>5, <2>2, <3>2
    <3>5. \A k \in 1..Len(taken') : taken'[k] > latest => ~sent[taken'[k]].measured
      BY <1>7, <3>2, <3>4
    <3> QED
      BY <3>2, <3>3, <3>5
  <2> QED
    BY <2>1, <2>2
<1>12. ASSUME ~split
       PROVE  /\ MessageRead = Len(taken) + 1
              /\ IF Len(Stream') = 0
                   THEN Len(taken) + 1 = Len(sent)
                   ELSE Stream'[1].id = (Len(taken) + 1) + 1 /\ Stream'[1].pos = 1
  <2>1. connected
    BY <1>1 DEF PollInv, TypeOK
  <2>2. /\ Stream[1].id = Len(taken) + 1 /\ Stream[1].pos = 5
        /\ len = sent[Len(taken) + 1].len
    BY <1>1, <1>12, <2>1 DEF PollInv, NextByte
  <2>3. End(sent, Stream[1].id) = 4 + len
    BY <1>5, <2>2
  <2>4. Together(len, 5)
    <3>1. len <= Len(arrived) /\ 5 \in Nat
      BY <1>1, <1>2
    <3>2. Stream[1].pos = 5 /\ 5 + len <= End(sent, Stream[1].id) + 1
      BY <1>2, <2>2, <2>3
    <3> QED
      BY <1>2, <3>1, <3>2, FirstOfMessage
  <2>5. MessageRead = Len(taken) + 1
    <3>1. arrived[1] = Stream[1]
      BY <1>4, FirstByte
    <3> QED
      BY <2>2, <2>4, <3>1 DEF MessageRead
  <2>6. CASE Len(Stream') = 0
    <3>1. Len(Stream) = len /\ len \in 1..Len(Stream) /\ 1 <= len
      BY <1>2, <1>3, <2>6
    <3>2. Stream[len].id = Stream[1].id
      <4>1. Stream[1].pos + (len - 1) <= End(sent, Stream[1].id)
        BY <1>2, <2>2, <2>3
      <4> QED
        BY <1>5, <3>1, <4>1 DEF PollInv, Flow, Runs
    <3>3. Stream[len].id = Len(sent)
      BY <1>2, <3>1 DEF PollInv, Flow, Ends
    <3> QED
      BY <2>2, <2>5, <2>6, <3>2, <3>3
  <2>7. CASE Len(Stream') # 0
    <3>1. 1 \in 1..Len(Stream')
      BY <1>3, <2>7
    <3>2. Stream'[1] = Stream[1 + len] /\ 1 + len \in 1..Len(Stream)
      BY <1>3, <3>1
    <3>3. Stream[1].pos + ((1 + len) - 1) = End(sent, Stream[1].id) + 1
      BY <1>2, <2>2, <2>3
    <3>4. Stream[1 + len].id = Stream[1].id + 1 /\ Stream[1 + len].pos = 1
      BY <1>5, <3>2, <3>3 DEF PollInv, Flow, Follows
    <3> QED
      BY <2>2, <2>5, <2>7, <3>2, <3>4
  <2> QED
    BY <2>6, <2>7
<1>13. NextByte'
  BY <1>1, <1>7, <1>12 DEF NextByte
<1>14. InStep'
  <2> SUFFICES ASSUME ~split, NEW k \in 1..Len(taken') PROVE taken'[k] = k
    BY <1>1 DEF InStep
  <2>1. \A j \in 1..Len(taken) : taken[j] = j
    BY DEF PollInv, InStep
  <2> QED
    BY <1>7, <1>12, <2>1
<1> QED
  BY <1>3, <1>8, <1>10, <1>11, <1>13, <1>14 DEF Steady

(* Every step keeps the types, *)
LEMMA TypesKept ==
  ASSUME PollInv, [Next]_vars
  PROVE  TypeOK'
<1>1. /\ TypeOK /\ PollLimit \in Nat /\ PollLimit > 0 /\ MaxLen \in Nat /\ MaxSent \in Nat
  BY TelemetryPollAssumption DEF PollInv
<1>2. CASE Send
  BY <1>1, <1>2 DEF Send, TypeOK, poll, history
<1>3. CASE Close
  BY <1>1, <1>3 DEF Close, TypeOK, poll, history
<1>4. CASE Arrive
  BY <1>1, <1>4 DEF Arrive, TypeOK, poll, history
<1>5. CASE Connect
  <2>1. connected' \in BOOLEAN /\ haveLatest' \in BOOLEAN
    BY <1>1, <1>5 DEF Connect, HaveAfterClose, TypeOK
  <2> QED
    BY <1>1, <1>5, <2>1 DEF Connect, TypeOK, poll
<1>6. CASE Disconnect
  BY <1>1, <1>6 DEF Disconnect, GiveUp, HaveAfterClose, TypeOK, poll, link, history
<1>7. CASE PollLatestTelemetry
  <2>1. turn' \in 0..PollLimit
    BY <1>1, <1>7 DEF PollLatestTelemetry
  <2> QED
    BY <1>1, <1>7, <2>1 DEF PollLatestTelemetry, TypeOK, link, history
<1>8. CASE PollEnds
  BY <1>1, <1>8 DEF PollEnds, Return, TypeOK, link, history
<1>9. CASE RecvNothing
  <2>1. connected' \in BOOLEAN /\ haveLatest' \in BOOLEAN
    BY <1>1, <1>9 DEF RecvNothing, GiveUp, HaveAfterClose, TypeOK
  <2> QED
    BY <1>1, <1>9, <2>1 DEF RecvNothing, Return, TypeOK, link, history
<1>10. CASE RecvPartOfPrefix
  BY <1>1, <1>10 DEF RecvPartOfPrefix, Return, TypeOK
<1>11. CASE RecvPrefix
  <2>1. Len(arrived) \in Nat /\ Len(arrived) >= 4
    BY <1>11, StreamTypes DEF RecvPrefix, PollInv
  <2>2. arrived[1] = Stream[1] /\ sent[Stream[1].id].len \in 1..MaxLen
    BY <2>1, FirstByte
  <2>3. len' \in 0..(MaxLen + 1)
    BY <1>1, <1>11, <2>2 DEF RecvPrefix, LengthRead
  <2>4. /\ at' \in {"idle", "payload"} /\ at # "idle" /\ connected' = connected
        /\ turn' = turn /\ turn < PollLimit /\ haveLatest' = haveLatest /\ latest' = latest
        /\ closed' = closed
    BY <1>11 DEF RecvPrefix, MayTakeMore
  <2> QED
    BY <1>1, <2>3, <2>4 DEF TypeOK
<1>12. CASE RecvPayload
  <2>1. MessageRead \in 0..MaxSent
    <3>1. MessageRead \in 0..Len(sent)
      BY <1>12, ReadIsSent DEF RecvPayload
    <3>2. Len(sent) \in Nat /\ Len(sent) <= MaxSent
      BY DEF PollInv, LinkTypes
    <3> QED
      BY <1>1, <3>1, <3>2
  <2>2. latest' \in 0..MaxSent
    BY <1>1, <1>12, <2>1 DEF RecvPayload, TypeOK
  <2>3. haveLatest' \in BOOLEAN
    BY <1>1, <1>12 DEF RecvPayload, TypeOK
  <2>4. turn' \in 0..PollLimit /\ turn' = turn + 1
    BY <1>1, <1>12 DEF RecvPayload, TypeOK
  <2>5. /\ at' = "prefix" /\ at = "payload" /\ connected' = connected /\ len' = len
        /\ closed' = closed
    BY <1>12 DEF RecvPayload
  <2> QED
    BY <1>1, <2>2, <2>3, <2>4, <2>5 DEF TypeOK
<1>13. CASE RecvTimeout
  BY <1>1, <1>13 DEF RecvTimeout, PayloadMissing, GiveUp, HaveAfterClose, Return, TypeOK, history
<1>14. CASE UNCHANGED vars
  BY <1>1, <1>14 DEF vars, poll, link, history, TypeOK
<1> QED
  BY <1>2, <1>3, <1>4, <1>5, <1>6, <1>7, <1>8, <1>9, <1>10, <1>11, <1>12, <1>13, <1>14 DEF Next

(* and the rest of the invariant. *)
LEMMA NextHolds ==
  ASSUME PollInv, [Next]_vars
  PROVE  PollInv'
<1>1. TypeOK'
  BY TypesKept
<1>2. Steady'
  BY QuietSteps, ConnectStep, ArriveStep, SendStep, PartOfPrefixStep, TimeoutStep, PrefixStep,
     PayloadStep DEF Next
<1> QED
  BY <1>1, <1>2 DEF PollInv, Steady

-----------------------------------------------------------------------------
(* Theorems *)

(* The inductive invariant of the polled connection. *)
THEOREM PollInvariant == Spec => []PollInv
<1>1. Init => PollInv
  BY InitHolds
<1>2. PollInv /\ [Next]_vars => PollInv'
  BY NextHolds
<1> QED
  BY <1>1, <1>2, PTL DEF Spec

(* The variables have their types. *)
THEOREM PollTyping == Spec => []TypeOK
<1>1. PollInv => TypeOK
  BY DEF PollInv
<1> QED
  BY <1>1, PollInvariant, PTL

(* As long as no poll has met part of a length, what is polled is the        *)
(* telemetry that was sent, message by message, however late its bytes are.  *)
THEOREM PollsInStep == Spec => []ReadsInStep
<1>1. PollInv => ReadsInStep
  <2> SUFFICES ASSUME PollInv, ~split PROVE taken = [i \in DOMAIN taken |-> i]
    BY DEF ReadsInStep
  <2>1. taken \in Seq(Nat) /\ \A k \in 1..Len(taken) : taken[k] = k
    BY DEF PollInv, LinkTypes, InStep
  <2> QED
    BY <2>1
<1> QED
  BY <1>1, PollInvariant, PTL

(* What is displayed as the last telemetry of a mission is the last          *)
(* measurement polled on its own connection.                                 *)
THEOREM LatestIsOfThisMission == Spec => []LatestOfThisMission
<1>1. PollInv => LatestOfThisMission
  <2> SUFFICES ASSUME PollInv, haveLatest
               PROVE  /\ connected
                      /\ latest \in ToSet(taken) /\ sent[latest].measured
                      /\ \A id \in ToSet(taken) : id > latest => ~sent[id].measured
    BY DEF LatestOfThisMission
  <2>1. taken \in Seq(Nat)
    BY DEF PollInv, LinkTypes
  <2>2. DOMAIN taken = 1..Len(taken)
    BY <2>1
  <2>3. ToSet(taken) = {taken[k] : k \in 1..Len(taken)}
    BY <2>2 DEF ToSet
  <2> QED
    BY <2>3 DEF PollInv, Cached
<1> QED
  BY <1>1, PollInvariant, PTL

-----------------------------------------------------------------------------
(* The menu: Fleet.  None of its invariants is inductive alone: that nobody  *)
(* lists a submarine whose mission has ended needs the lists to be mutual,   *)
(* because EndMission visits only the submarines on its own list, and needs  *)
(* them to name combat submarines only, because it visits no others.         *)

MenuInv == FleetTypeOK /\ Mutual /\ ParticipantsAssigned /\ ConnectedOnMission

(* No submarine, no list, no connection.                                     *)
LEMMA MenuInvInit == FleetInit => MenuInv
BY DEF FleetInit, MenuInv, FleetTypeOK, Mutual, ParticipantsAssigned, ConnectedOnMission,
       Submarines, Combat

(* A new submarine has nothing; the others do not know it.                   *)
LEMMA AddKeeps ==
  ASSUME MenuInv, NEW s \in Serials, AddSubmarine(s)
  PROVE  MenuInv'
<1>1. FleetTypeOK'
  BY DEF MenuInv, FleetTypeOK, AddSubmarine, Submarines
<1>2. Mutual'
  BY DEF MenuInv, Mutual, AddSubmarine
<1>3. ParticipantsAssigned' /\ ConnectedOnMission'
  BY DEF MenuInv, FleetTypeOK, ParticipantsAssigned, ConnectedOnMission, AddSubmarine, Submarines, Combat
<1> QED
  BY <1>1, <1>2, <1>3 DEF MenuInv

(* A mission begins without participants.                                    *)
LEMMA AssignKeeps ==
  ASSUME MenuInv, NEW s \in Serials, AssignMission(s)
  PROVE  MenuInv'
<1>1. FleetTypeOK'
  BY DEF MenuInv, FleetTypeOK, AssignMission, Submarines, Combat
<1>2. Mutual'
  BY DEF MenuInv, Mutual, AssignMission
<1>3. ParticipantsAssigned' /\ ConnectedOnMission'
  BY DEF MenuInv, FleetTypeOK, ParticipantsAssigned, ConnectedOnMission, AssignMission, Combat
<1> QED
  BY <1>1, <1>2, <1>3 DEF MenuInv

(* Unlinked takes a submarine off every list and empties its own, because    *)
(* the lists are mutual.                                                     *)
LEMMA UnlinkedFromAll ==
  ASSUME MenuInv, NEW s \in Serials
  PROVE  /\ Unlinked(s) \in [Serials -> SUBSET Serials]
         /\ Unlinked(s)[s] = {}
         /\ \A o \in Serials : s \notin Unlinked(s)[o]
         /\ \A o \in Serials \ {s} : Unlinked(s)[o] = participating[o] \ {s}
<1>1. \A o \in Serials : s \in participating[o] => o \in participating[s] /\ o \in Combat
  BY DEF MenuInv, Mutual, ParticipantsAssigned
<1>2. participating \in [Serials -> SUBSET Serials]
  BY DEF MenuInv, FleetTypeOK
<1> QED
  BY <1>1, <1>2 DEF Unlinked

(* Ending a mission unlinks the submarine from all that list it, and it from *)
(* all it lists.                                                             *)
LEMMA EndKeeps ==
  ASSUME MenuInv, NEW s \in Serials, EndMission(s)
  PROVE  MenuInv'
<1>1. CASE s \in Combat
  <2>1. /\ participating' = Unlinked(s)
        /\ linked' = [linked EXCEPT ![s] = FALSE]
        /\ assigned' = [assigned EXCEPT ![s] = FALSE]
        /\ UNCHANGED << type, received >>
    BY <1>1 DEF EndMission, Disconnected
  <2>2. FleetTypeOK'
    BY <2>1, UnlinkedFromAll DEF MenuInv, FleetTypeOK
  <2>3. Mutual'
    BY <2>1, UnlinkedFromAll DEF MenuInv, Mutual
  <2>4. ParticipantsAssigned'
    BY <2>1, UnlinkedFromAll DEF MenuInv, FleetTypeOK, ParticipantsAssigned, Combat
  <2>5. ConnectedOnMission'
    BY <2>1 DEF MenuInv, FleetTypeOK, ConnectedOnMission, Combat
  <2> QED
    BY <2>2, <2>3, <2>4, <2>5 DEF MenuInv
<1>2. CASE s \notin Combat
  <2>1. /\ assigned' = [assigned EXCEPT ![s] = FALSE]
        /\ UNCHANGED << type, received, participating, linked >>
    BY <1>2 DEF EndMission
  <2>2. FleetTypeOK' /\ Mutual'
    BY <2>1 DEF MenuInv, FleetTypeOK, Mutual
  <2>3. ParticipantsAssigned' /\ ConnectedOnMission'
    BY <1>2, <2>1 DEF MenuInv, FleetTypeOK, ParticipantsAssigned, ConnectedOnMission, Combat
  <2> QED
    BY <2>2, <2>3 DEF MenuInv
<1> QED
  BY <1>1, <1>2

(* Each of the two enters the other's list, unless they are one.             *)
LEMMA AssociateKeeps ==
  ASSUME MenuInv, NEW a \in Serials, NEW b \in Serials, AssociateCombatSubmarines(a, b)
  PROVE  MenuInv'
<1>1. /\ a \in Combat /\ b \in Combat /\ assigned[a] /\ assigned[b]
      /\ UNCHANGED << type, assigned, received, linked >>
  BY DEF AssociateCombatSubmarines, BothAssigned
<1>2. participating \in [Serials -> SUBSET Serials]
  BY DEF MenuInv, FleetTypeOK
<1>3. CASE a = b
  <2>1. participating' = participating
    BY <1>3 DEF AssociateCombatSubmarines, AddParticipant
  <2> QED
    BY <1>1, <2>1 DEF MenuInv, FleetTypeOK, Mutual, ParticipantsAssigned, ConnectedOnMission,
                      Combat
<1>4. CASE a # b
  <2>1. /\ participating' \in [Serials -> SUBSET Serials]
        /\ participating'[a] = participating[a] \cup {b}
        /\ participating'[b] = participating[b] \cup {a}
        /\ \A o \in Serials \ {a, b} : participating'[o] = participating[o]
    BY <1>2, <1>4 DEF AssociateCombatSubmarines, AddParticipant
  <2>2. FleetTypeOK'
    BY <1>1, <2>1 DEF MenuInv, FleetTypeOK, Combat
  <2>3. Mutual'
    BY <2>1 DEF MenuInv, Mutual
  <2>4. ParticipantsAssigned' /\ ConnectedOnMission'
    BY <1>1, <1>4, <2>1 DEF MenuInv, ParticipantsAssigned, ConnectedOnMission, Combat
  <2> QED
    BY <2>2, <2>3, <2>4 DEF MenuInv
<1> QED
  BY <1>3, <1>4

(* A message is appended to missions only.                                   *)
LEMMA SendKeeps ==
  ASSUME MenuInv, NEW s \in Serials, NEW r \in Serials, SendMessage(s, r)
  PROVE  MenuInv'
<1>1. FleetTypeOK'
  BY DEF MenuInv, FleetTypeOK, SendMessage, Combat
<1> QED
  BY <1>1 DEF MenuInv, Mutual, ParticipantsAssigned, ConnectedOnMission, SendMessage,
              Combat

(* Displaying changes nothing of who takes part.                             *)
LEMMA DisplayKeeps ==
  ASSUME MenuInv, NEW s \in Serials, Display(s)
  PROVE  MenuInv'
<1>1. FleetTypeOK'
  BY DEF MenuInv, FleetTypeOK, Display, Combat
<1>2. ConnectedOnMission'
  BY DEF MenuInv, FleetTypeOK, ConnectedOnMission, Display, Combat
<1> QED
  BY <1>1, <1>2 DEF MenuInv, Mutual, ParticipantsAssigned, Display, Combat

(* Every choice of the menu keeps the lists, the missions and the            *)
(* connections in agreement (fleet.cpp).                                     *)
THEOREM FleetInvariance == FleetSpec => []MenuInv
<1>1. MenuInv /\ [FleetNext]_fleet => MenuInv'
  <2> SUFFICES ASSUME MenuInv, [FleetNext]_fleet PROVE MenuInv'
    OBVIOUS
  <2>1. CASE UNCHANGED fleet
    BY <2>1 DEF fleet, MenuInv, FleetTypeOK, Mutual, ParticipantsAssigned, ConnectedOnMission,
                Combat
  <2>2. CASE FleetNext
    BY <2>2, AddKeeps, AssignKeeps, EndKeeps, DisplayKeeps, AssociateKeeps, SendKeeps DEF FleetNext
  <2> QED
    BY <2>1, <2>2
<1> QED
  BY MenuInvInit, <1>1, PTL DEF FleetSpec

(* The variables of Fleet keep their types, and research submarines have no  *)
(* participants, messages or connections.                                    *)
THEOREM FleetTyping == FleetSpec => []FleetTypeOK
<1>1. MenuInv => FleetTypeOK
  BY DEF MenuInv
<1> QED
  BY FleetInvariance, <1>1, PTL

(* Two submarines list each other or neither lists the other, after any      *)
(* sequence of associations and ends of missions.                            *)
THEOREM ListsAreMutual == FleetSpec => []Mutual
<1>1. MenuInv => Mutual
  BY DEF MenuInv
<1> QED
  BY FleetInvariance, <1>1, PTL

(* Nobody lists a submarine that has no mission, or itself: the list that    *)
(* Fleet::EndMission iterates over is none of those it changes.              *)
THEOREM OnlyAssignedAreListed == FleetSpec => []ParticipantsAssigned
<1>1. MenuInv => ParticipantsAssigned
  BY DEF MenuInv
<1> QED
  BY FleetInvariance, <1>1, PTL

(* An LNC connection does not outlive its mission.                           *)
THEOREM ConnectionsEnd == FleetSpec => []ConnectedOnMission
<1>1. MenuInv => ConnectedOnMission
  BY DEF MenuInv
<1> QED
  BY FleetInvariance, <1>1, PTL

=============================================================================
