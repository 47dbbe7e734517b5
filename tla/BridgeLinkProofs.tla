-------------------------- MODULE BridgeLinkProofs --------------------------
(***************************************************************************)
(* What BridgeLink promises of both directions, proved for every size of   *)
(* its buffers, all payloads and any number of connections and messages;   *)
(* and, of the bridge whose downlink writes to the UART, what becomes of   *)
(* the payloads there, with tty writes cut short any number of times.      *)
(***************************************************************************)
EXTENDS BridgeDownlink, FramingProofs

-----------------------------------------------------------------------------
(* What a stream of bytes carries *)

LinkPayloads == DownPayloads \cup UpPayloads

(* Where the messages from + 1 to upto end in s, which are all there is in   *)
(* it but for a tail.                                                        *)
Bounds(b, s, messages, from, upto, partial) ==
  /\ b[from] = 0 /\ b[upto] + Len(partial) = Len(s)
  /\ \A i, j \in from..upto : i <= j => b[i] <= b[j]
  /\ \A i \in (from + 1)..upto : b[i] = b[i - 1] + 4 + Len(messages[i])
  /\ \A i \in (from + 1)..upto : \A j \in 1..(4 + Len(messages[i])) :
       s[b[i - 1] + j] = Message(messages[i])[j]
  /\ \A j \in 1..Len(partial) : s[b[upto] + j] = partial[j]

Carries(s, messages, from, upto, partial) ==
  \E b \in [from..upto -> Int] : Bounds(b, s, messages, from, upto, partial)

(* A tail is nothing, or a length whose payload has not been sent. *)
LinkTails == {<< >>} \cup {Prefix(p) : p \in LinkPayloads}

-----------------------------------------------------------------------------
(* Lemmas about sequences of bytes *)

(* What is in a range from 1 is a number that is not greater than its end. *)
LEMMA InRange == \A a : \A n \in 1..a : n \in Nat /\ 1 <= n /\ n <= a
OBVIOUS

(* Adding bytes to bytes is associative. *)
LEMMA BytesAssociative ==
  ASSUME NEW a \in Seq(Byte), NEW b \in Seq(Byte), NEW c \in Seq(Byte)
  PROVE  (a \o b) \o c = a \o (b \o c)
<1> DEFINE B == Byte
<1>1. a \in Seq(B) /\ b \in Seq(B) /\ c \in Seq(B)
  OBVIOUS
<1> HIDE DEF B
<1> QED
  BY ONLY <1>1, ConcatAssociative

(* A payload is what fits the callers' buffers, and not empty. *)
LEMMA PayloadLengths ==
  ASSUME NEW p \in LinkPayloads
  PROVE  /\ p \in Seq(Byte) /\ Len(p) \in Nat /\ 1 <= Len(p)
         /\ Len(p) <= MaxLen /\ MaxLen \in Nat /\ Len(p) <= (256 * 256 - 1)
<1>1. MaxLen \in 1..(256 * 256 - 1) /\ p \in Seq(0..255) /\ Len(p) \in 1..MaxLen
  <2>1. p \in DownPayloads \cup UpPayloads
    BY DEF LinkPayloads
  <2>2. MaxLen \in 1..(256 * 256 - 1)
    BY BridgeLinkAssumption DEF BridgeLinkAssumption
  <2>3. \A q \in DownPayloads \cup UpPayloads : q \in Seq(0..255) /\ Len(q) \in 1..MaxLen
    BY BridgeLinkAssumption DEF BridgeLinkAssumption
  <2>4. p \in Seq(0..255) /\ Len(p) \in 1..MaxLen
    BY <2>1, <2>3, Zenon
  <2> QED
    BY <2>2, <2>4
<1>2. MaxLen \in Nat /\ MaxLen <= (256 * 256 - 1) /\ Len(p) \in Nat /\ 1 <= Len(p) /\ Len(p) <= MaxLen
  BY <1>1, InRange, Zenon
<1>3. Len(p) <= (256 * 256 - 1)
  BY ONLY <1>2
<1>4. p \in Seq(Byte)
  BY <1>1, Zenon DEF Byte
<1> QED
  BY <1>2, <1>3, <1>4, Zenon

(* A number of two bytes is its quotient by 256 and the remainder. *)
LEMMA TwoBytes ==
  ASSUME NEW n \in Nat, n <= (256 * 256 - 1)
  PROVE  /\ n \div (256 * 256 * 256) = 0 /\ (n \div (256 * 256)) % 256 = 0
         /\ (n \div 256) % 256 = n \div 256
         /\ n \div 256 \in Byte /\ n % 256 \in Byte
         /\ (n \div 256) * 256 + (n % 256) = n
<1>1. n = 256 * (n \div 256) + (n % 256)
  BY SMTT(30)
<1>2. n \div 256 \in Nat /\ n \div 256 <= 255 /\ n % 256 \in Nat /\ n % 256 <= 255
  OBVIOUS
<1>3. n \div (256 * 256 * 256) = 0 /\ n \div (256 * 256) = 0 /\ 0 % 256 = 0
  OBVIOUS
<1>4. (n \div 256) % 256 = n \div 256
  OBVIOUS
<1> QED
  BY <1>1, <1>2, <1>3, <1>4 DEF Byte

(* A length is four bytes, from which it can be read. *)
LEMMA PrefixRead ==
  ASSUME NEW p \in LinkPayloads
  PROVE  /\ Prefix(p) \in Seq(Byte) /\ Len(Prefix(p)) = 4
         /\ Prefix(p)[1] * (256 * 256 * 256) + Prefix(p)[2] * (256 * 256) + Prefix(p)[3] * 256 + Prefix(p)[4]
              = Len(p)
<1>1. Len(p) \in Nat /\ Len(p) <= (256 * 256 - 1)
  BY PayloadLengths
<1> DEFINE n == Len(p)
           q == n \div 256
           r == n % 256
<1>2. /\ n \div (256 * 256 * 256) = 0 /\ (n \div (256 * 256)) % 256 = 0 /\ q % 256 = q
      /\ q \in Byte /\ r \in Byte /\ q * 256 + r = n
  BY <1>1, TwoBytes
<1>3. Prefix(p) = << n \div (256 * 256 * 256), (n \div (256 * 256)) % 256, q % 256, r >>
  BY DEF Prefix, Protocol_PutU32
<1> HIDE DEF q, r, n
<1>4. Prefix(p) = << 0, 0, q, r >>
  BY <1>2, <1>3
<1>5. Prefix(p) \in Seq(Byte) /\ Len(Prefix(p)) = 4
      /\ Prefix(p)[1] = 0 /\ Prefix(p)[2] = 0 /\ Prefix(p)[3] = q /\ Prefix(p)[4] = r
  BY <1>2, <1>4 DEF Byte
<1>6. 0 * (256 * 256 * 256) + 0 * (256 * 256) + q * 256 + r = n
  BY <1>2 DEF Byte
<1> QED
  BY <1>5, <1>6 DEF n

(* The smaller of two numbers. *)
LEMMA MinOfTwo ==
  ASSUME NEW a \in Int, NEW b \in Int
  PROVE  Min({a, b}) = IF a <= b THEN a ELSE b
<1> DEFINE m == IF a <= b THEN a ELSE b
<1>1. m \in {a, b} /\ \A y \in {a, b} : m =< y
  OBVIOUS
<1>2. \A x \in {a, b} : (\A y \in {a, b} : x =< y) => x = m
  OBVIOUS
<1> QED
  BY <1>1, <1>2 DEF Min

(* What is left of a sequence without its first n elements. *)
LEMMA DropElements ==
  ASSUME NEW S, NEW s \in Seq(S), NEW n \in 0..Len(s)
  PROVE  /\ Drop(s, n) \in Seq(S) /\ Len(Drop(s, n)) = Len(s) - n
         /\ \A i \in 1..(Len(s) - n) : Drop(s, n)[i] = s[n + i]
<1>1. Len(s) \in Nat /\ n \in Nat /\ n <= Len(s) /\ \A i \in 1..Len(s) : s[i] \in S
  OBVIOUS
<1>2. \A i \in (n + 1)..Len(s) : s[i] \in S
  BY <1>1
<1>3. /\ SubSeq(s, n + 1, Len(s)) \in Seq(S)
      /\ Len(SubSeq(s, n + 1, Len(s))) = IF n + 1 <= Len(s) THEN Len(s) - (n + 1) + 1 ELSE 0
      /\ \A i \in 1..(Len(s) - (n + 1) + 1) : SubSeq(s, n + 1, Len(s))[i] = s[(n + 1) + i - 1]
  BY ONLY <1>1, <1>2, SubSeqProperties
<1> QED
  BY <1>1, <1>3 DEF Drop

(* Its first n elements. *)
LEMMA TakeElements ==
  ASSUME NEW S, NEW s \in Seq(S), NEW n \in 0..Len(s)
  PROVE  /\ SubSeq(s, 1, n) \in Seq(S) /\ Len(SubSeq(s, 1, n)) = n
         /\ \A i \in 1..n : SubSeq(s, 1, n)[i] = s[i]
<1>1. Len(s) \in Nat /\ n \in Nat /\ n <= Len(s) /\ \A i \in 1..Len(s) : s[i] \in S
  OBVIOUS
<1>2. \A i \in 1..n : s[i] \in S
  BY <1>1
<1>3. /\ SubSeq(s, 1, n) \in Seq(S)
      /\ Len(SubSeq(s, 1, n)) = IF 1 <= n THEN n - 1 + 1 ELSE 0
      /\ \A i \in 1..(n - 1 + 1) : SubSeq(s, 1, n)[i] = s[1 + i - 1]
  BY ONLY <1>1, <1>2, SubSeqProperties
<1> QED
  BY <1>1, <1>3

(* Two sequences put together, element by element. *)
LEMMA ConcatElements ==
  ASSUME NEW S, NEW s \in Seq(S), NEW t \in Seq(S)
  PROVE  /\ s \o t \in Seq(S) /\ Len(s \o t) = Len(s) + Len(t)
         /\ Len(s) \in Nat /\ Len(t) \in Nat
         /\ \A i \in 1..Len(s) : (s \o t)[i] = s[i]
         /\ \A i \in 1..Len(t) : (s \o t)[Len(s) + i] = t[i]
<1>1. /\ s \o t \in Seq(S) /\ Len(s \o t) = Len(s) + Len(t)
      /\ \A i \in 1..(Len(s) + Len(t)) :
           (s \o t)[i] = IF i <= Len(s) THEN s[i] ELSE t[i - Len(s)]
  BY ONLY ConcatProperties
<1>2. Len(s) \in Nat /\ Len(t) \in Nat
  OBVIOUS
<1> QED
  BY <1>1, <1>2

(* A message is its length and its payload. *)
LEMMA MessageElements ==
  ASSUME NEW p \in LinkPayloads
  PROVE  /\ Message(p) \in Seq(Byte) /\ Len(Message(p)) = 4 + Len(p)
         /\ \A i \in 1..4 : Message(p)[i] = Prefix(p)[i]
         /\ \A i \in 1..Len(p) : Message(p)[4 + i] = p[i]
<1>1. PICK f \in Seq(Byte), g \in Seq(Byte) : f = Prefix(p) /\ g = p /\ Len(f) = 4
  BY PayloadLengths, PrefixRead
<1>2. /\ f \o g \in Seq(Byte) /\ Len(f \o g) = Len(f) + Len(g)
      /\ \A i \in 1..Len(f) : (f \o g)[i] = f[i]
      /\ \A i \in 1..Len(g) : (f \o g)[Len(f) + i] = g[i]
  BY ConcatElements
<1> QED
  BY <1>1, <1>2 DEF Message

(* The length a stream begins with, computed from its first four bytes. *)
LEMMA HeadLenReads ==
  ASSUME NEW s \in Seq(Byte), Len(s) >= 4
  PROVE  HeadLen(s) = s[1] * (256 * 256 * 256) + s[2] * (256 * 256) + s[3] * 256 + s[4]
<1>1. 4 \in 0..Len(s)
  OBVIOUS
<1>2. \A i \in 1..4 : SubSeq(s, 1, 4)[i] = s[i]
  BY <1>1, TakeElements
<1> QED
  BY <1>2 DEF HeadLen, Protocol_GetU32

-----------------------------------------------------------------------------
(* What a stream carries when something is sent or read *)

(* A tail is a sequence of bytes. *)
LEMMA TailBytes ==
  ASSUME NEW partial \in LinkTails
  PROVE  partial \in Seq(Byte) /\ Len(partial) \in Nat
<1>1. CASE partial = << >>
  BY <1>1
<1>2. ASSUME NEW p \in LinkPayloads, partial = Prefix(p) PROVE partial \in Seq(Byte) /\ Len(partial) \in Nat
  BY <1>2, PrefixRead
<1> QED
  BY <1>1, <1>2 DEF LinkTails

(* A stream begins with a whole message only if it carries one, which is the *)
(* one; and without it carries the others.                                   *)
LEMMA HeadMessage ==
  ASSUME NEW s \in Seq(Byte), NEW messages \in Seq(LinkPayloads),
         NEW from \in Nat, NEW upto \in Nat, from <= upto, upto <= Len(messages),
         NEW partial \in LinkTails, Carries(s, messages, from, upto, partial), HasMessage(s)
  PROVE  /\ from < upto /\ HeadLen(s) = Len(messages[from + 1])
         /\ SubSeq(s, 5, 4 + HeadLen(s)) = messages[from + 1]
         /\ messages[from + 1] \in LinkPayloads
         /\ 4 + HeadLen(s) \in 0..Len(s)
         /\ Carries(Drop(s, 4 + HeadLen(s)), messages, from + 1, upto, partial)
<1>1. PICK b \in [from..upto -> Int] : Bounds(b, s, messages, from, upto, partial)
  BY DEF Carries
<1>2. /\ b[from] = 0 /\ b[upto] + Len(partial) = Len(s)
      /\ \A i, j \in from..upto : i <= j => b[i] <= b[j]
      /\ \A i \in (from + 1)..upto : b[i] = b[i - 1] + 4 + Len(messages[i])
      /\ \A i \in (from + 1)..upto : \A j \in 1..(4 + Len(messages[i])) :
           s[b[i - 1] + j] = Message(messages[i])[j]
      /\ \A j \in 1..Len(partial) : s[b[upto] + j] = partial[j]
  BY <1>1 DEF Bounds
<1>3. Len(s) \in Nat /\ Len(s) >= 4 /\ Len(s) >= 4 + HeadLen(s)
      /\ HeadLen(s) = s[1] * (256 * 256 * 256) + s[2] * (256 * 256) + s[3] * 256 + s[4]
  BY HeadLenReads DEF HasMessage
<1>4. from < upto
  <2> SUFFICES ASSUME from = upto PROVE FALSE
    OBVIOUS
  <2>1. CASE partial = << >>
    BY <1>2, <1>3, <2>1
  <2>2. ASSUME NEW p \in LinkPayloads, partial = Prefix(p) PROVE FALSE
    <3>1. /\ Len(partial) = 4 /\ Len(p) \in Nat /\ 1 <= Len(p)
          /\ partial[1] * (256 * 256 * 256) + partial[2] * (256 * 256) + partial[3] * 256 + partial[4] = Len(p)
      BY <2>2, PrefixRead, PayloadLengths
    <3>2. b[upto] = 0 /\ Len(s) = 4
      BY <1>2, <3>1
    <3>3. s[1] = partial[1] /\ s[2] = partial[2] /\ s[3] = partial[3] /\ s[4] = partial[4]
      BY <1>2, <3>1, <3>2
    <3> QED
      BY <1>3, <3>1, <3>2, <3>3
  <2> QED
    BY <2>1, <2>2 DEF LinkTails
<1>5. PICK m \in LinkPayloads : m = messages[from + 1]
  BY <1>4
<1>6. /\ m \in Seq(Byte) /\ Len(m) \in Nat /\ 1 <= Len(m)
      /\ \A i \in 1..4 : Message(m)[i] = Prefix(m)[i]
      /\ \A i \in 1..Len(m) : Message(m)[4 + i] = m[i]
      /\ Prefix(m)[1] * (256 * 256 * 256) + Prefix(m)[2] * (256 * 256) + Prefix(m)[3] * 256 + Prefix(m)[4]
           = Len(m)
  <2>1. m \in Seq(Byte) /\ Len(m) \in Nat /\ 1 <= Len(m)
    BY PayloadLengths
  <2>2. (\A i \in 1..4 : Message(m)[i] = Prefix(m)[i])
        /\ \A i \in 1..Len(m) : Message(m)[4 + i] = m[i]
    BY MessageElements
  <2> QED
    BY <2>1, <2>2, PrefixRead
<1>7. PICK k \in Nat : k = 4 + Len(m)
  BY <1>6
<1>8. \A i \in from..upto : b[i] \in Int
  OBVIOUS
<1>9. /\ \A j \in 1..k : s[j] = Message(m)[j]
      /\ b[from + 1] = k
  <2>1. from + 1 \in (from + 1)..upto /\ from + 1 - 1 = from
    BY <1>4
  <2>2. (\A j \in 1..(4 + Len(messages[from + 1])) :
           s[b[from + 1 - 1] + j] = Message(messages[from + 1])[j])
        /\ b[from + 1] = b[from + 1 - 1] + 4 + Len(messages[from + 1])
    BY ONLY <1>2, <2>1
  <2>3. b[from + 1 - 1] = 0
    BY ONLY <1>2, <2>1
  <2>4. (\A j \in 1..(4 + Len(m)) : s[0 + j] = Message(m)[j]) /\ b[from + 1] = 0 + 4 + Len(m)
    BY ONLY <1>5, <2>2, <2>3
  <2>5. \A j \in 1..k : 0 + j = j
    OBVIOUS
  <2> QED
    BY <1>6, <1>7, <2>4, <2>5
<1>10. HeadLen(s) = Len(m)
  <2>1. 1 \in 1..k /\ 2 \in 1..k /\ 3 \in 1..k /\ 4 \in 1..k
    BY <1>6, <1>7
  <2>2. /\ s[1] = Message(m)[1] /\ s[2] = Message(m)[2]
        /\ s[3] = Message(m)[3] /\ s[4] = Message(m)[4]
    BY ONLY <1>9, <2>1
  <2>3. /\ Message(m)[1] = Prefix(m)[1] /\ Message(m)[2] = Prefix(m)[2]
        /\ Message(m)[3] = Prefix(m)[3] /\ Message(m)[4] = Prefix(m)[4]
    BY ONLY <1>6
  <2>4. s[1] = Prefix(m)[1] /\ s[2] = Prefix(m)[2] /\ s[3] = Prefix(m)[3] /\ s[4] = Prefix(m)[4]
    BY ONLY <2>2, <2>3
  <2> QED
    BY <1>3, <1>6, <2>4
<1>11. k \in 0..Len(s) /\ k <= Len(s) /\ b[from + 1] = k
  BY <1>3, <1>6, <1>9, <1>10, <1>7
<1>12. SubSeq(s, 5, 4 + HeadLen(s)) = m
  <2>1. \A i \in 5..k : s[i] \in Byte
    BY <1>11
  <2>2. /\ SubSeq(s, 5, k) \in Seq(Byte)
        /\ Len(SubSeq(s, 5, k)) = IF 5 <= k THEN k - 5 + 1 ELSE 0
        /\ \A i \in 1..(k - 5 + 1) : SubSeq(s, 5, k)[i] = s[5 + i - 1]
    BY ONLY <1>11, <2>1, SubSeqProperties, SMTT(30)
  <2>3. k = 4 + Len(m)
    BY <1>7
  <2>4. Len(SubSeq(s, 5, k)) = Len(m)
    BY <1>6, <2>2, <2>3
  <2>5. ASSUME NEW i \in 1..Len(m) PROVE SubSeq(s, 5, k)[i] = m[i]
    BY <1>6, <1>9, <2>2, <2>3
  <2>6. SubSeq(s, 5, k) = m
    <3>1. PICK v \in Seq(Byte) : v = SubSeq(s, 5, k)
      BY <2>2
    <3>2. Len(v) = Len(m) /\ \A i \in 1..Len(m) : v[i] = m[i]
      BY <2>4, <2>5, <3>1
    <3>3. v = m
      BY ONLY <1>6, <3>2, SeqEqual, v \in Seq(Byte)
    <3> QED
      BY <3>1, <3>3
  <2> QED
    BY <1>10, <2>3, <2>6
<1>13. Carries(Drop(s, k), messages, from + 1, upto, partial)
  <2> DEFINE t == Drop(s, k)
             c == [i \in (from + 1)..upto |-> b[i] - k]
  <2>1. Len(t) = Len(s) - k /\ \A i \in 1..(Len(s) - k) : t[i] = s[k + i]
    BY <1>11, DropElements
  <2> HIDE DEF t
  <2>2. c \in [(from + 1)..upto -> Int] /\ \A i \in (from + 1)..upto : c[i] = b[i] - k
    <3>1. \A i \in (from + 1)..upto : b[i] \in Int
      BY <1>4, <1>8
    <3> QED
      BY <3>1
  <2> HIDE DEF c
  <2>3. \A i \in (from + 1)..upto : c[i] >= 0 /\ c[i] <= c[upto]
    <3>1. \A i \in (from + 1)..upto : b[i] \in Int /\ b[from + 1] <= b[i] /\ b[i] <= b[upto]
      BY <1>2, <1>4, <1>8
    <3>2. upto \in (from + 1)..upto
      BY <1>4
    <3>3. c[upto] = b[upto] - k /\ b[upto] \in Int
      BY <2>2, <3>1, <3>2
    <3>4. ASSUME NEW i \in (from + 1)..upto PROVE c[i] >= 0 /\ c[i] <= c[upto]
      <4>1. c[i] = b[i] - k /\ b[i] \in Int /\ k <= b[i] /\ b[i] <= b[upto]
        BY <1>11, <2>2, <3>1
      <4> QED
        BY <3>3, <4>1
    <3> QED
      BY <3>4
  <2>4. c[from + 1] = 0 /\ c[upto] + Len(partial) = Len(t)
    <3>1. Len(partial) = Len(s) - b[upto] /\ b[upto] \in Int /\ Len(partial) \in Int
      <4>1. Len(partial) \in Nat /\ Len(s) \in Nat
        BY <1>3, TailBytes
      <4>2. b[upto] \in Int
        BY <1>8
      <4>3. b[upto] + Len(partial) = Len(s)
        BY <1>2
      <4> QED
        BY ONLY <4>1, <4>2, <4>3
    <3>2. from + 1 \in (from + 1)..upto /\ upto \in (from + 1)..upto
      BY <1>4
    <3>3. c[from + 1] = b[from + 1] - k /\ c[upto] = b[upto] - k
      BY <2>2, <3>2
    <3> QED
      BY <1>3, <1>11, <2>1, <3>1, <3>3
  <2>5. Len(partial) \in Nat
    BY TailBytes
  <2>6. \A i, j \in (from + 1)..upto : i <= j => c[i] <= c[j]
    <3> SUFFICES ASSUME NEW i \in (from + 1)..upto, NEW j \in (from + 1)..upto, i <= j
                 PROVE  c[i] <= c[j]
      OBVIOUS
    <3>1. i \in from..upto /\ j \in from..upto
      OBVIOUS
    <3>2. b[i] \in Int /\ b[j] \in Int /\ b[i] <= b[j]
      BY <1>2, <1>8, <3>1
    <3>3. c[i] = b[i] - k /\ c[j] = b[j] - k
      BY <2>2
    <3> QED
      BY <3>2, <3>3
  <2>7. PICK e \in Int, n \in Nat, r \in Nat :
          e = c[upto] /\ n = Len(s) - k /\ r = Len(partial) /\ e + r = n /\ Len(t) = n
          /\ e >= 0 /\ b[upto] = k + e
    <3>1. upto \in (from + 1)..upto /\ upto \in from..upto
      BY <1>4
    <3>2. c[upto] = b[upto] - k /\ b[upto] \in Int /\ c[upto] >= 0
      BY <1>8, <2>2, <2>3, <3>1
    <3>3. c[upto] \in Int /\ b[upto] = k + c[upto]
      BY <3>2
    <3>4. Len(s) - k \in Nat
      BY <1>11
    <3>5. c[upto] + Len(partial) = Len(s) - k /\ Len(t) = Len(s) - k
      BY <2>1, <2>4
    <3> QED
      BY <2>5, <3>2, <3>3, <3>4, <3>5, Zenon
  <2>8. ASSUME NEW i \in (from + 2)..upto
        PROVE  /\ c[i] = c[i - 1] + 4 + Len(messages[i])
               /\ \A j \in 1..(4 + Len(messages[i])) : t[c[i - 1] + j] = Message(messages[i])[j]
    <3>1. i - 1 \in (from + 1)..upto /\ i \in (from + 1)..upto /\ i \in 1..Len(messages)
          /\ i - 1 \in from..upto /\ i \in from..upto
      OBVIOUS
    <3>2. messages[i] \in LinkPayloads
      BY <3>1
    <3>3. PICK x \in Int, y \in Int, l \in Nat :
            x = b[i - 1] /\ y = b[i] /\ l = Len(messages[i])
      BY <1>8, <3>1, <3>2, PayloadLengths
    <3>4. y = x + 4 + l
      BY <1>2, <3>1, <3>3
    <3>5. c[i] = y - k /\ c[i - 1] = x - k
      BY <2>2, <3>1, <3>3
    <3>6. x - k >= 0 /\ y - k <= e
      BY <2>3, <2>7, <3>1, <3>5
    <3>7. ASSUME NEW j \in 1..(4 + l)
          PROVE  t[(x - k) + j] = Message(messages[i])[j]
      <4>1. j \in Int /\ 1 <= j /\ j <= 4 + l /\ e <= n
        BY <2>7
      <4>2. (x - k) + j \in 1..n /\ k + ((x - k) + j) = x + j
        BY ONLY <3>4, <3>6, <4>1, x \in Int, y \in Int, l \in Nat, k \in Nat, e \in Int, n \in Nat
      <4>3. t[(x - k) + j] = s[k + ((x - k) + j)]
        BY <2>1, <2>7, <4>2
      <4>4. s[x + j] = Message(messages[i])[j]
        BY <1>2, <3>1, <3>3
      <4> QED
        BY <4>2, <4>3, <4>4
    <3>8. y - k = (x - k) + 4 + l
      BY <3>4
    <3> QED
      BY <3>3, <3>5, <3>7, <3>8
  <2>9. ASSUME NEW j \in 1..r PROVE t[e + j] = partial[j]
    <3>1. j \in Int /\ 1 <= j /\ j <= r /\ e + r = n /\ e >= 0
      BY <2>7
    <3>2. e + j \in 1..n /\ k + (e + j) = (k + e) + j
      BY ONLY <3>1, e \in Int, n \in Nat, r \in Nat, k \in Nat
    <3>3. t[e + j] = s[k + (e + j)]
      BY <2>1, <2>7, <3>2
    <3>4. s[b[upto] + j] = partial[j]
      BY <1>2, <2>7
    <3> QED
      BY <2>7, <3>2, <3>3, <3>4
  <2>10. Bounds(c, t, messages, from + 1, upto, partial)
    <3>1. from + 1 + 1 = from + 2
      OBVIOUS
    <3> QED
      BY <2>4, <2>6, <2>7, <2>8, <2>9, <3>1 DEF Bounds
  <2> QED
    BY <2>2, <2>10 DEF Carries, t
<1> QED
  BY <1>4, <1>5, <1>10, <1>11, <1>12, <1>13, <1>7

(* The messages of a stream are all inside it. *)
LEMMA MessagesInside ==
  ASSUME NEW s \in Seq(Byte), NEW messages \in Seq(LinkPayloads),
         NEW from \in Nat, NEW upto \in Nat, from <= upto, upto <= Len(messages),
         NEW partial \in LinkTails, NEW b \in [from..upto -> Int],
         Bounds(b, s, messages, from, upto, partial)
  PROVE  /\ b[upto] \in Nat /\ b[upto] + Len(partial) = Len(s)
         /\ \A i \in (from + 1)..upto :
              /\ messages[i] \in LinkPayloads /\ Len(messages[i]) \in Nat
              /\ b[i - 1] \in Nat
              /\ \A j \in 1..(4 + Len(messages[i])) :
                   b[i - 1] + j \in 1..Len(s) /\ b[i - 1] + j <= b[upto]
<1>1. /\ b[from] = 0 /\ b[upto] + Len(partial) = Len(s)
      /\ \A i, j \in from..upto : i <= j => b[i] <= b[j]
      /\ \A i \in (from + 1)..upto : b[i] = b[i - 1] + 4 + Len(messages[i])
  BY DEF Bounds
<1>2. \A i \in from..upto : b[i] \in Int
  OBVIOUS
<1>3. Len(partial) \in Nat /\ Len(s) \in Nat
  BY TailBytes
<1>4. b[upto] \in Nat
  <2>1. from \in from..upto /\ upto \in from..upto
    OBVIOUS
  <2> QED
    BY <1>1, <1>2, <2>1
<1>5. ASSUME NEW i \in (from + 1)..upto
      PROVE  /\ messages[i] \in LinkPayloads /\ Len(messages[i]) \in Nat
             /\ b[i - 1] \in Nat
             /\ \A j \in 1..(4 + Len(messages[i])) :
                  b[i - 1] + j \in 1..Len(s) /\ b[i - 1] + j <= b[upto]
  <2>1. /\ i \in 1..Len(messages) /\ i - 1 \in from..upto /\ i \in from..upto
        /\ from \in from..upto /\ upto \in from..upto
        /\ from <= i - 1 /\ i <= upto
    OBVIOUS
  <2>2. messages[i] \in LinkPayloads /\ Len(messages[i]) \in Nat
    BY <2>1, PayloadLengths
  <2>3. PICK x \in Int, y \in Int, z \in Int, l \in Nat :
          x = b[i - 1] /\ y = b[i] /\ z = b[upto] /\ l = Len(messages[i])
    BY <1>2, <2>1, <2>2
  <2>4. 0 <= x /\ y <= z
    BY <1>1, <2>1, <2>3
  <2>5. y = x + 4 + l
    BY <1>1, <2>3
  <2>6. z <= Len(s)
    BY <1>1, <1>3, <2>3
  <2>7. ASSUME NEW j \in 1..(4 + l) PROVE x + j \in 1..Len(s) /\ x + j <= z
    <3>1. j \in Int /\ 1 <= j /\ j <= 4 + l
      OBVIOUS
    <3> QED
      BY ONLY <1>3, <2>4, <2>5, <2>6, <3>1, x \in Int, y \in Int, z \in Int, l \in Nat
  <2> QED
    BY <2>2, <2>3, <2>4, <2>7
<1> QED
  BY <1>1, <1>4, <1>5

(* A stream of whole messages, to which the beginning of another is added,   *)
(* carries the same messages, whatever else is sent.                         *)
LEMMA Extended ==
  ASSUME NEW s \in Seq(Byte), NEW messages \in Seq(LinkPayloads), NEW longer \in Seq(LinkPayloads),
         NEW from \in Nat, NEW upto \in Nat, from <= upto, upto <= Len(messages),
         upto <= Len(longer), \A i \in 1..upto : longer[i] = messages[i],
         NEW partial \in LinkTails, Carries(s, messages, from, upto, << >>)
  PROVE  s \o partial \in Seq(Byte) /\ Carries(s \o partial, longer, from, upto, partial)
<1>1. PICK b \in [from..upto -> Int] : Bounds(b, s, messages, from, upto, << >>)
  BY DEF Carries
<1>2. << >> \in LinkTails /\ partial \in Seq(Byte) /\ Len(partial) \in Nat /\ Len(<< >>) = 0
  BY TailBytes DEF LinkTails
<1>3. /\ b[from] = 0
      /\ \A i, j \in from..upto : i <= j => b[i] <= b[j]
      /\ \A i \in (from + 1)..upto : b[i] = b[i - 1] + 4 + Len(messages[i])
      /\ \A i \in (from + 1)..upto : \A j \in 1..(4 + Len(messages[i])) :
           s[b[i - 1] + j] = Message(messages[i])[j]
  BY <1>1 DEF Bounds
<1>4. /\ b[upto] \in Nat /\ b[upto] + 0 = Len(s)
      /\ \A i \in (from + 1)..upto : \A j \in 1..(4 + Len(messages[i])) :
              b[i - 1] + j \in 1..Len(s)
  <2>1. /\ b[upto] \in Nat /\ b[upto] + Len(<< >>) = Len(s)
        /\ \A i \in (from + 1)..upto :
             /\ messages[i] \in LinkPayloads /\ Len(messages[i]) \in Nat
             /\ b[i - 1] \in Nat
             /\ \A j \in 1..(4 + Len(messages[i])) :
                  b[i - 1] + j \in 1..Len(s) /\ b[i - 1] + j <= b[upto]
    BY <1>1, <1>2, MessagesInside
  <2>2. b[upto] + 0 = Len(s)
    BY <1>2, <2>1
  <2> QED
    BY <2>1, <2>2
<1>5. PICK u \in Seq(Byte) : u = s \o partial
  BY <1>2, ConcatElements
<1>6. /\ Len(u) = Len(s) + Len(partial) /\ Len(s) \in Nat
      /\ \A i \in 1..Len(s) : u[i] = s[i]
      /\ \A i \in 1..Len(partial) : u[Len(s) + i] = partial[i]
  BY <1>2, <1>5, ConcatElements
<1>7. \A i \in (from + 1)..upto : longer[i] = messages[i]
  OBVIOUS
<1>8. ASSUME NEW i \in (from + 1)..upto
      PROVE  /\ b[i] = b[i - 1] + 4 + Len(longer[i])
             /\ \A j \in 1..(4 + Len(longer[i])) : u[b[i - 1] + j] = Message(longer[i])[j]
  <2>1. longer[i] = messages[i]
    BY <1>7
  <2>2. ASSUME NEW j \in 1..(4 + Len(messages[i]))
        PROVE  u[b[i - 1] + j] = Message(messages[i])[j]
    BY <1>3, <1>4, <1>6, <2>2
  <2> QED
    BY <1>3, <2>1, <2>2
<1>9. b[upto] + Len(partial) = Len(u) /\ \A j \in 1..Len(partial) : u[b[upto] + j] = partial[j]
  <2>1. b[upto] = Len(s)
    BY <1>4
  <2> QED
    BY <1>2, <1>6, <2>1
<1>10. Bounds(b, u, longer, from, upto, partial)
  BY <1>3, <1>8, <1>9 DEF Bounds
<1> QED
  BY <1>5, <1>10 DEF Carries

(* A stream to which the rest of a message is added carries that one too.    *)
LEMMA Completed ==
  ASSUME NEW s \in Seq(Byte), NEW messages \in Seq(LinkPayloads),
         NEW from \in Nat, NEW upto \in Nat, from <= upto, upto < Len(messages),
         NEW partial \in LinkTails, Carries(s, messages, from, upto, partial),
         NEW rest \in Seq(Byte), partial \o rest = Message(messages[upto + 1])
  PROVE  s \o rest \in Seq(Byte) /\ Carries(s \o rest, messages, from, upto + 1, << >>)
<1>1. PICK b \in [from..upto -> Int] : Bounds(b, s, messages, from, upto, partial)
  BY DEF Carries
<1>2. /\ b[from] = 0
      /\ \A i, j \in from..upto : i <= j => b[i] <= b[j]
      /\ \A i \in (from + 1)..upto : b[i] = b[i - 1] + 4 + Len(messages[i])
      /\ \A i \in (from + 1)..upto : \A j \in 1..(4 + Len(messages[i])) :
           s[b[i - 1] + j] = Message(messages[i])[j]
      /\ \A j \in 1..Len(partial) : s[b[upto] + j] = partial[j]
  BY <1>1 DEF Bounds
<1>3. /\ b[upto] \in Nat /\ b[upto] + Len(partial) = Len(s)
      /\ \A i \in (from + 1)..upto : \A j \in 1..(4 + Len(messages[i])) :
              b[i - 1] + j \in 1..Len(s)
  <2>1. /\ b[upto] \in Nat /\ b[upto] + Len(partial) = Len(s)
        /\ \A i \in (from + 1)..upto :
             /\ messages[i] \in LinkPayloads /\ Len(messages[i]) \in Nat
             /\ b[i - 1] \in Nat
             /\ \A j \in 1..(4 + Len(messages[i])) :
                  b[i - 1] + j \in 1..Len(s) /\ b[i - 1] + j <= b[upto]
    <3>1. upto <= Len(messages)
      OBVIOUS
    <3> QED
      BY <1>1, <3>1, MessagesInside
  <2> QED
    BY <2>1
<1>4. partial \in Seq(Byte) /\ Len(partial) \in Nat
  BY TailBytes
<1>5. PICK u \in Seq(Byte) : u = s \o rest
  BY ConcatElements
<1>6. /\ Len(u) = Len(s) + Len(rest) /\ Len(s) \in Nat /\ Len(rest) \in Nat
      /\ \A i \in 1..Len(s) : u[i] = s[i]
      /\ \A i \in 1..Len(rest) : u[Len(s) + i] = rest[i]
  BY <1>5, ConcatElements
<1>7. PICK m \in LinkPayloads : m = messages[upto + 1]
  OBVIOUS
<1>8. /\ Len(m) \in Nat /\ 4 + Len(m) = Len(partial) + Len(rest)
      /\ \A i \in 1..Len(partial) : Message(m)[i] = partial[i]
      /\ \A i \in 1..Len(rest) : Message(m)[Len(partial) + i] = rest[i]
  <2>1. Len(m) \in Nat /\ Message(m) \in Seq(Byte) /\ Len(Message(m)) = 4 + Len(m)
    BY MessageElements, PayloadLengths
  <2>2. /\ Len(partial \o rest) = Len(partial) + Len(rest)
        /\ \A i \in 1..Len(partial) : (partial \o rest)[i] = partial[i]
        /\ \A i \in 1..Len(rest) : (partial \o rest)[Len(partial) + i] = rest[i]
    BY <1>4, ConcatElements
  <2>3. partial \o rest = Message(m)
    BY <1>7
  <2> QED
    BY <2>1, <2>2, <2>3
<1>9. PICK e \in Nat, k \in Nat, n \in Nat, r \in Nat :
        /\ e = b[upto] /\ k = 4 + Len(m) /\ n = Len(partial) /\ r = Len(rest)
        /\ e + n = Len(s) /\ k = n + r /\ Len(u) = Len(s) + r
  <2>1. 4 + Len(m) \in Nat
    BY <1>8
  <2> QED
    BY <1>3, <1>4, <1>6, <1>8, <2>1, Zenon
<1> DEFINE c == [i \in from..(upto + 1) |-> IF i <= upto THEN b[i] ELSE e + k]
<1>10. /\ c \in [from..(upto + 1) -> Int]
      /\ \A i \in from..upto : c[i] = b[i] /\ b[i] \in Int
  <2>1. e + k \in Int
    OBVIOUS
  <2>2. \A i \in from..upto : b[i] \in Int /\ i <= upto /\ i \in from..(upto + 1)
    OBVIOUS
  <2>3. \A i \in from..(upto + 1) : i <= upto => i \in from..upto
    OBVIOUS
  <2> QED
    BY <2>1, <2>2, <2>3
<1>11. c[upto + 1] = e + k
  <2>1. upto + 1 \in from..(upto + 1) /\ ~(upto + 1 <= upto)
    OBVIOUS
  <2> QED
    BY <2>1
<1>12. e + k = Len(u) /\ e = b[upto] /\ k = 4 + Len(m)
  <2>1. k = n + r
    BY <1>9
  <2>2. e + k = (e + n) + r
    BY ONLY <2>1, e \in Nat, k \in Nat, n \in Nat, r \in Nat
  <2> QED
    BY <1>9, <2>2
<1> HIDE DEF c
<1>13. ASSUME NEW i \in from..(upto + 1), NEW j \in from..(upto + 1), i <= j
       PROVE  c[i] <= c[j]
  <2>1. CASE j <= upto
    <3>1. i \in from..upto /\ j \in from..upto
      BY <1>13, <2>1
    <3> QED
      BY <1>2, <1>10, <1>13, <3>1
  <2>2. CASE i <= upto /\ j = upto + 1
    <3>1. i \in from..upto /\ upto \in from..upto /\ i <= upto
      BY <2>2
    <3>2. c[i] = b[i] /\ b[i] \in Int
      BY <1>10, <3>1, Zenon
    <3>3. b[i] <= e
      BY <1>2, <1>12, <3>1, Zenon
    <3> QED
      BY ONLY <1>11, <2>2, <3>2, <3>3, k \in Nat, e \in Nat
  <2>3. CASE i = upto + 1 /\ j = upto + 1
    BY ONLY <1>11, <2>3, k \in Nat, e \in Nat
  <2> QED
    BY <1>13, <2>1, <2>2, <2>3
<1>14. ASSUME NEW i \in (from + 1)..upto
       PROVE  /\ c[i] = c[i - 1] + 4 + Len(messages[i])
              /\ \A j \in 1..(4 + Len(messages[i])) : u[c[i - 1] + j] = Message(messages[i])[j]
  <2>1. i \in from..upto /\ i - 1 \in from..upto
    OBVIOUS
  <2>2. c[i] = b[i] /\ c[i - 1] = b[i - 1]
    BY <1>10, <2>1
  <2>3. ASSUME NEW j \in 1..(4 + Len(messages[i]))
        PROVE  u[b[i - 1] + j] = Message(messages[i])[j]
    BY <1>2, <1>3, <1>6, <2>3
  <2> QED
    BY <1>2, <2>2, <2>3
<1>15. c[upto] = e /\ c[from] = 0
  <2>1. upto \in from..upto /\ from \in from..upto
    OBVIOUS
  <2> QED
    BY <1>2, <1>10, <1>12, <2>1
<1>16. ASSUME NEW j \in 1..k PROVE u[e + j] = Message(m)[j]
  <2>1. e + n = Len(s) /\ k = n + r /\ n = Len(partial) /\ r = Len(rest)
    BY <1>9
  <2>2. CASE j <= n
    <3>1. j \in 1..n /\ e + j \in 1..Len(s)
      BY ONLY <2>1, <2>2, j \in 1..k, e \in Nat, n \in Nat, r \in Nat
    <3> QED
      BY <1>2, <1>6, <1>8, <1>12, <2>1, <3>1
  <2>3. CASE j > n
    <3>1. j \in Int /\ 1 <= j /\ j <= k
      OBVIOUS
    <3>2. PICK i \in Int : i = j - n
      BY <3>1
    <3>3. i \in 1..r /\ e + j = (e + n) + i /\ j = n + i
      BY ONLY <2>1, <2>3, <3>1, <3>2, e \in Nat, n \in Nat, r \in Nat, k \in Nat
    <3> QED
      <4>1. u[e + j] = rest[i]
        BY ONLY <1>6, <2>1, <3>3
      <4>2. Message(m)[j] = rest[i]
        BY ONLY <1>8, <2>1, <3>3
      <4> QED
        BY <4>1, <4>2, Zenon
  <2> QED
    BY <1>12, <2>1, <2>2, <2>3
<1>17. ASSUME NEW i \in (from + 1)..(upto + 1)
       PROVE  /\ c[i] = c[i - 1] + 4 + Len(messages[i])
              /\ \A j \in 1..(4 + Len(messages[i])) : u[c[i - 1] + j] = Message(messages[i])[j]
  <2>1. CASE i \in (from + 1)..upto
    BY <1>14, <2>1
  <2>2. CASE i = upto + 1
    <3>1. i - 1 = upto /\ messages[i] = m /\ c[i] = e + k /\ c[i - 1] = e
      <4>1. i - 1 = upto
        BY ONLY <2>2, upto \in Nat
      <4>2. messages[i] = m
        BY <1>7, <2>2
      <4>3. c[i] = e + k
        BY <1>11, <2>2, Zenon
      <4>4. c[i - 1] = e
        BY <1>15, <4>1
      <4> QED
        BY <4>1, <4>2, <4>3, <4>4
    <3>2. e + k = e + 4 + Len(m)
      BY <1>8, <1>12
    <3>3. \A j \in 1..(4 + Len(m)) : u[e + j] = Message(m)[j]
      BY <1>12, <1>16
    <3> QED
      BY <3>1, <3>2, <3>3
  <2> QED
    BY <2>1, <2>2
<1>18. Bounds(c, u, messages, from, upto + 1, << >>)
  <2>1. c[upto + 1] + Len(<< >>) = Len(u)
    <3>1. Len(u) \in Nat /\ Len(<< >>) = 0
      BY LenProperties
    <3> QED
      BY ONLY <1>11, <1>12, <3>1
  <2>2. \A j \in 1..Len(<< >>) : u[c[upto + 1] + j] = << >>[j]
    OBVIOUS
  <2> QED
    BY <1>13, <1>15, <1>17, <2>1, <2>2 DEF Bounds
<1> QED
  BY <1>5, <1>10, <1>18 DEF Carries

(* An empty stream carries nothing. *)
LEMMA NothingIsCarried ==
  ASSUME NEW messages \in Seq(LinkPayloads), NEW n \in Nat
  PROVE  Carries(<< >>, messages, n, n, << >>)
<1> DEFINE b == [i \in n..n |-> 0]
<1>1. b \in [n..n -> Int] /\ \A i \in n..n : b[i] = 0
  OBVIOUS
<1>2. n \in n..n /\ (n + 1)..n = {} /\ Len(<< >>) = 0 /\ 1..0 = {}
  OBVIOUS
<1> HIDE DEF b
<1>3. Bounds(b, << >>, messages, n, n, << >>)
  <2>1. b[n] = 0 /\ b[n] + Len(<< >>) = Len(<< >>)
    BY <1>1, <1>2
  <2>2. \A i, j \in n..n : i <= j => b[i] <= b[j]
    BY <1>1
  <2> QED
    BY <1>2, <2>1, <2>2 DEF Bounds
<1> QED
  BY <1>1, <1>3 DEF Carries

-----------------------------------------------------------------------------
(* The bridge's buffer *)

(* The length at the head of a stream is a number. *)
LEMMA HeadLenNat ==
  ASSUME NEW s \in Seq(Byte), Len(s) >= 4
  PROVE  HeadLen(s) \in Nat
<1>1. HeadLen(s) = s[1] * (256 * 256 * 256) + s[2] * (256 * 256) + s[3] * 256 + s[4]
  BY HeadLenReads
<1>2. s[1] \in Nat /\ s[2] \in Nat /\ s[3] \in Nat /\ s[4] \in Nat
  <2>1. s[1] \in Byte /\ s[2] \in Byte /\ s[3] \in Byte /\ s[4] \in Byte
    OBVIOUS
  <2>2. \A i \in Byte : i \in Nat
    BY DEF Byte
  <2> QED
    BY <2>1, <2>2
<1>3. PICK a \in Nat, b \in Nat, c \in Nat, d \in Nat : a = s[1] /\ b = s[2] /\ c = s[3] /\ d = s[4]
  BY <1>2, Zenon
<1>4. a * (256 * 256 * 256) + b * (256 * 256) + c * 256 + d \in Nat
  OBVIOUS
<1> QED
  BY <1>1, <1>3, <1>4

(* A message whole in the buffer is the one at the head of all the bytes     *)
(* there are, in the buffer and under way.                                   *)
LEMMA BufferedMessage ==
  ASSUME NEW buf \in Seq(Byte), NEW rest \in Seq(Byte), NEW s \in Seq(Byte),
         s = buf \o rest, HasMessage(buf)
  PROVE  /\ HasMessage(s) /\ HeadLen(s) = HeadLen(buf) /\ 4 + HeadLen(buf) \in 0..Len(buf)
         /\ SubSeq(s, 5, 4 + HeadLen(s)) = SubSeq(buf, 5, 4 + HeadLen(buf))
         /\ Drop(s, 4 + HeadLen(s)) = Drop(buf, 4 + HeadLen(buf)) \o rest
<1>1. /\ Len(s) = Len(buf) + Len(rest) /\ Len(buf) \in Nat /\ Len(rest) \in Nat
      /\ \A i \in 1..Len(buf) : s[i] = buf[i]
      /\ \A i \in 1..Len(rest) : s[Len(buf) + i] = rest[i]
  BY ConcatElements
<1>2. PICK k \in Nat : k = 4 + HeadLen(buf) /\ 4 <= k /\ k <= Len(buf) /\ HeadLen(buf) \in Nat
  <2>1. HeadLen(buf) \in Nat /\ Len(buf) >= 4 + HeadLen(buf)
    BY HeadLenNat DEF HasMessage
  <2>2. 4 + HeadLen(buf) \in Nat /\ 4 <= 4 + HeadLen(buf) /\ 4 + HeadLen(buf) <= Len(buf)
    BY <1>1, <2>1
  <2> QED
    BY <2>1, <2>2
<1>3. HeadLen(s) = HeadLen(buf)
  <2>1. Len(s) >= 4 /\ Len(buf) >= 4
    BY <1>1, <1>2
  <2>2. s[1] = buf[1] /\ s[2] = buf[2] /\ s[3] = buf[3] /\ s[4] = buf[4]
    BY <1>1, <2>1
  <2> QED
    <3>1. HeadLen(s) = s[1] * (256 * 256 * 256) + s[2] * (256 * 256) + s[3] * 256 + s[4]
      BY ONLY <2>1, HeadLenReads, s \in Seq(Byte)
    <3>2. HeadLen(buf) = buf[1] * (256 * 256 * 256) + buf[2] * (256 * 256) + buf[3] * 256 + buf[4]
      BY ONLY <2>1, HeadLenReads, buf \in Seq(Byte)
    <3> QED
      BY ONLY <2>2, <3>1, <3>2, SMT
<1>4. HasMessage(s)
  <2>1. Len(s) >= 4 /\ Len(s) >= k /\ k = 4 + HeadLen(s)
    BY <1>1, <1>2, <1>3
  <2> QED
    BY ONLY <2>1 DEF HasMessage
<1>5. SubSeq(s, 5, k) = SubSeq(buf, 5, k)
  <2>1. k <= Len(buf) /\ k <= Len(s)
    BY <1>1, <1>2
  <2>2. (\A i \in 5..k : s[i] \in Byte) /\ \A i \in 5..k : buf[i] \in Byte
    <3>1. \A i \in 5..k : i \in 1..Len(s) /\ i \in 1..Len(buf)
      BY <1>1, <2>1
    <3> QED
      BY <3>1
  <2>3. /\ SubSeq(s, 5, k) \in Seq(Byte)
        /\ Len(SubSeq(s, 5, k)) = IF 5 <= k THEN k - 5 + 1 ELSE 0
        /\ \A i \in 1..(k - 5 + 1) : SubSeq(s, 5, k)[i] = s[5 + i - 1]
    BY ONLY <2>2, k \in Nat, SubSeqProperties
  <2>4. /\ SubSeq(buf, 5, k) \in Seq(Byte)
        /\ Len(SubSeq(buf, 5, k)) = IF 5 <= k THEN k - 5 + 1 ELSE 0
        /\ \A i \in 1..(k - 5 + 1) : SubSeq(buf, 5, k)[i] = buf[5 + i - 1]
    BY ONLY <2>2, k \in Nat, SubSeqProperties
  <2>5. PICK n \in Nat : n = k - 4 /\ n = IF 5 <= k THEN k - 5 + 1 ELSE 0
    <3>1. 4 <= k
      BY <1>2
    <3>2. k - 4 \in Nat /\ k - 4 = IF 5 <= k THEN k - 5 + 1 ELSE 0
      BY ONLY <3>1, k \in Nat
    <3> QED
      BY <3>2, Zenon
  <2>6. ASSUME NEW i \in 1..n PROVE SubSeq(s, 5, k)[i] = SubSeq(buf, 5, k)[i]
    <3>1. i \in 1..(k - 5 + 1) /\ 5 + i - 1 \in 1..Len(buf)
      BY <1>1, <1>2, <2>5
    <3> QED
      BY <1>1, <2>3, <2>4, <3>1
  <2> QED
    BY <2>3, <2>4, <2>5, <2>6, SeqEqual
<1>6. Drop(s, k) = Drop(buf, k) \o rest
  <2>1. k \in 0..Len(s) /\ k \in 0..Len(buf)
    BY <1>1, <1>2
  <2>2. PICK t \in Seq(Byte), u \in Seq(Byte) : t = Drop(s, k) /\ u = Drop(buf, k)
    BY <2>1, DropElements
  <2>3. /\ Len(t) = Len(s) - k /\ \A i \in 1..(Len(s) - k) : t[i] = s[k + i]
    BY <2>1, <2>2, DropElements
  <2>4. /\ Len(u) = Len(buf) - k /\ \A i \in 1..(Len(buf) - k) : u[i] = buf[k + i]
    BY <2>1, <2>2, DropElements
  <2>5. PICK v \in Seq(Byte) : v = u \o rest
    BY ConcatElements
  <2>6. /\ Len(v) = Len(u) + Len(rest)
        /\ \A i \in 1..Len(u) : v[i] = u[i]
        /\ \A i \in 1..Len(rest) : v[Len(u) + i] = rest[i]
    BY <2>5, ConcatElements
  <2>7. PICK n \in Nat, r \in Nat :
          n = Len(u) /\ r = Len(rest) /\ Len(buf) = k + n /\ Len(s) = k + n + r
    <3>1. Len(u) \in Nat /\ Len(buf) = k + Len(u) /\ Len(s) = k + Len(u) + Len(rest)
      <4>1. Len(u) \in Nat /\ Len(buf) \in Nat /\ Len(rest) \in Nat /\ Len(u) = Len(buf) - k
        BY <1>1, <2>4
      <4>2. Len(s) = Len(buf) + Len(rest)
        BY <1>1
      <4> QED
        BY ONLY <4>1, <4>2, k \in Nat
    <3> QED
      BY <1>1, <3>1, Zenon
  <2>8. Len(t) = n + r /\ Len(v) = n + r
    BY <2>3, <2>6, <2>7
  <2>9. ASSUME NEW i \in 1..(n + r) PROVE t[i] = v[i]
    <3>1. t[i] = s[k + i]
      <4>1. Len(s) - k = n + r
        BY ONLY <2>7, k \in Nat, n \in Nat, r \in Nat
      <4> QED
        BY <2>3, <4>1
    <3>2. CASE i <= n
      <4>1. i \in 1..n /\ k + i \in 1..(k + n)
        BY <3>2
      <4> QED
        BY <1>1, <2>4, <2>6, <2>7, <3>1, <4>1
    <3>3. CASE i > n
      <4>1. i - n \in 1..r /\ i = n + (i - n) /\ k + i = (k + n) + (i - n)
        BY ONLY <3>3, i \in 1..(n + r), n \in Nat, r \in Nat, k \in Nat
      <4>2. PICK j \in 1..r : i = n + j /\ k + i = (k + n) + j
        BY <4>1, Zenon
      <4> QED
        BY <1>1, <2>6, <2>7, <3>1, <4>2
    <3> QED
      BY <3>2, <3>3
  <2>10. t = v
    BY <2>8, <2>9, SeqEqual
  <2> QED
    BY <2>2, <2>5, <2>10
<1>7. 4 + HeadLen(buf) \in 0..Len(buf)
  BY <1>1, <1>2
<1> QED
  BY <1>2, <1>3, <1>4, <1>5, <1>6, <1>7

(* Bytes taken from those under way to the buffer are the same bytes. *)
LEMMA Moved ==
  ASSUME NEW buf \in Seq(Byte), NEW s \in Seq(Byte), NEW n \in 0..Len(s)
  PROVE  /\ buf \o SubSeq(s, 1, n) \in Seq(Byte) /\ Drop(s, n) \in Seq(Byte)
         /\ Len(buf \o SubSeq(s, 1, n)) = Len(buf) + n
         /\ (buf \o SubSeq(s, 1, n)) \o Drop(s, n) = buf \o s
<1>1. PICK t \in Seq(Byte), u \in Seq(Byte) : t = SubSeq(s, 1, n) /\ u = Drop(s, n)
  BY TakeElements, DropElements
<1>2. Len(t) = n /\ \A i \in 1..n : t[i] = s[i]
  BY <1>1, TakeElements
<1>3. Len(u) = Len(s) - n /\ \A i \in 1..(Len(s) - n) : u[i] = s[n + i]
  BY <1>1, DropElements
<1>4. t \o u = s
  <2>1. PICK v \in Seq(Byte) : v = t \o u
    BY ConcatElements
  <2>2. /\ Len(v) = Len(t) + Len(u) /\ Len(s) \in Nat
        /\ \A i \in 1..Len(t) : v[i] = t[i]
        /\ \A i \in 1..Len(u) : v[Len(t) + i] = u[i]
    BY <2>1, ConcatElements
  <2>3. PICK k \in Nat, r \in Nat : k = n /\ r = Len(u) /\ Len(s) = k + r /\ Len(v) = k + r
    <3>1. n \in Nat /\ Len(u) \in Nat /\ Len(s) = n + Len(u) /\ Len(v) = n + Len(u)
      BY <1>2, <1>3, <2>2
    <3> QED
      BY <3>1, Zenon
  <2>4. ASSUME NEW i \in 1..(k + r) PROVE v[i] = s[i]
    <3>1. CASE i <= k
      BY <1>2, <2>2, <2>3, <3>1
    <3>2. CASE i > k
      <4>1. i - k \in 1..r /\ i = k + (i - k)
        BY ONLY <3>2, i \in 1..(k + r), k \in Nat, r \in Nat
      <4>2. PICK j \in 1..r : i = k + j
        BY <4>1, Zenon
      <4>3. j \in 1..(Len(s) - n)
        BY <1>3, <2>3, <4>2
      <4> QED
        BY <1>2, <1>3, <2>2, <2>3, <4>2, <4>3
    <3> QED
      BY <3>1, <3>2
  <2> QED
    BY <2>1, <2>3, <2>4, SeqEqual
<1>5. (buf \o t) \o u = buf \o (t \o u)
  BY BytesAssociative, Zenon
<1>6. buf \o t \in Seq(Byte) /\ Len(buf \o t) = Len(buf) + Len(t)
  BY ConcatElements
<1> QED
  BY <1>1, <1>2, <1>4, <1>5, <1>6

-----------------------------------------------------------------------------
(* One direction of one connection *)

(* What is received is the beginning of what was sent. *)
Received(taken, given) == Len(taken) <= Len(given) /\ \A i \in 1..Len(taken) : taken[i] = given[i]

(* Under way to the bridge is all that has been sent and not handed over,    *)
(* and then what a core that crashed left behind.                            *)
DownFlow(s, given, taken, tails) ==
  \E partial \in tails : Carries(s, given, Len(taken), Len(given), partial)

(* Under way to the core are messages not yet received: all of them, unless  *)
(* the bridge has gone; and while it is between two sends the last one's     *)
(* length.                                                                   *)
UpFlow(s, given, taken, phase, p) ==
  \E upto \in Nat, partial \in LinkTails :
    /\ Len(taken) <= upto /\ upto <= Len(given)
    /\ Carries(s, given, Len(taken), upto, partial)
    /\ phase = "begun" => upto + 1 = Len(given) /\ given[upto + 1] = p /\ partial = Prefix(p)
    /\ phase = "whole" => upto = Len(given) /\ partial = << >>

(* One more is sent. *)
LEMMA AppendSent ==
  ASSUME NEW given \in Seq(LinkPayloads), NEW p \in LinkPayloads
  PROVE  /\ Append(given, p) \in Seq(LinkPayloads) /\ Len(Append(given, p)) = Len(given) + 1
         /\ Len(given) \in Nat /\ Append(given, p)[Len(given) + 1] = p
         /\ \A i \in 1..Len(given) : Append(given, p)[i] = given[i]
         /\ \A taken \in Seq(LinkPayloads) : Received(taken, given) => Received(taken, Append(given, p))
<1>1. /\ Append(given, p) \in Seq(LinkPayloads) /\ Len(Append(given, p)) = Len(given) + 1
      /\ Len(given) \in Nat /\ Append(given, p)[Len(given) + 1] = p
      /\ \A i \in 1..Len(given) : Append(given, p)[i] = given[i]
  BY AppendProperties
<1>2. ASSUME NEW taken \in Seq(LinkPayloads), Received(taken, given)
      PROVE  Received(taken, Append(given, p))
  <2>1. /\ Len(taken) \in Nat /\ Len(taken) <= Len(given) + 1
        /\ \A i \in 1..Len(taken) : i \in 1..Len(given)
    BY <1>1, <1>2 DEF Received
  <2> QED
    BY <1>1, <1>2, <2>1 DEF Received
<1> QED
  BY <1>1, <1>2

(* What is received once the next one is. *)
LEMMA AppendGot ==
  ASSUME NEW given \in Seq(LinkPayloads), NEW taken \in Seq(LinkPayloads), Received(taken, given),
         Len(taken) < Len(given)
  PROVE  /\ Append(taken, given[Len(taken) + 1]) \in Seq(LinkPayloads)
         /\ Len(Append(taken, given[Len(taken) + 1])) = Len(taken) + 1
         /\ Received(Append(taken, given[Len(taken) + 1]), given)
<1>1. PICK p \in LinkPayloads : p = given[Len(taken) + 1]
  OBVIOUS
<1>2. /\ Append(taken, p) \in Seq(LinkPayloads) /\ Len(Append(taken, p)) = Len(taken) + 1
      /\ Len(taken) \in Nat /\ Append(taken, p)[Len(taken) + 1] = p
      /\ \A i \in 1..Len(taken) : Append(taken, p)[i] = taken[i]
  BY AppendSent
<1>3. ASSUME NEW i \in 1..(Len(taken) + 1) PROVE Append(taken, p)[i] = given[i]
  <2>1. CASE i = Len(taken) + 1
    BY <1>1, <1>2, <2>1
  <2>2. CASE i \in 1..Len(taken)
    BY <1>2, <2>2 DEF Received
  <2> QED
    BY <1>2, <2>1, <2>2
<1>4. Len(taken) + 1 <= Len(given)
  BY <1>2
<1> QED
  BY <1>1, <1>2, <1>3, <1>4 DEF Received

(* The core sends a whole message. *)
LEMMA DownSent ==
  ASSUME NEW s \in Seq(Byte), NEW given \in Seq(LinkPayloads), NEW taken \in Seq(LinkPayloads),
         Received(taken, given), DownFlow(s, given, taken, {<< >>}), NEW p \in LinkPayloads
  PROVE  DownFlow(s \o Message(p), Append(given, p), taken, {<< >>})
<1>1. Carries(s, given, Len(taken), Len(given), << >>)
  BY DEF DownFlow
<1>2. PICK longer \in Seq(LinkPayloads), n \in Nat : longer = Append(given, p) /\ n = Len(given)
  BY AppendSent
<1>3. /\ Len(longer) = n + 1 /\ longer[n + 1] = p
      /\ \A i \in 1..n : longer[i] = given[i]
  BY <1>2, AppendSent
<1>4. Len(taken) \in Nat /\ Len(taken) <= n /\ << >> \in LinkTails /\ n <= Len(longer) /\ n <= Len(given)
      /\ n < Len(longer)
  BY <1>2, <1>3 DEF Received, LinkTails
<1>5. Carries(s \o << >>, longer, Len(taken), n, << >>)
  BY <1>1, <1>2, <1>3, <1>4, Extended
<1>6. s \o << >> = s
  OBVIOUS
<1>7. PICK m \in Seq(Byte) : m = Message(p)
  BY MessageElements
<1>8. << >> \o m = Message(longer[n + 1])
  BY <1>3, <1>7
<1>9. Carries(s, longer, Len(taken), n, << >>)
  BY <1>5, <1>6
<1>10. Carries(s \o m, longer, Len(taken), n + 1, << >>)
  BY ONLY <1>3, <1>4, <1>8, <1>9, Completed, s \in Seq(Byte), longer \in Seq(LinkPayloads),
          m \in Seq(Byte), n \in Nat
<1>11. Carries(s \o m, longer, Len(taken), Len(longer), << >>)
  BY <1>3, <1>10
<1> QED
  BY <1>2, <1>4, <1>7, <1>11 DEF DownFlow

(* The core is killed behind the length of a message. *)
LEMMA DownBroken ==
  ASSUME NEW s \in Seq(Byte), NEW given \in Seq(LinkPayloads), NEW taken \in Seq(LinkPayloads),
         Received(taken, given), DownFlow(s, given, taken, {<< >>}), NEW p \in LinkPayloads
  PROVE  DownFlow(s \o Prefix(p), given, taken, LinkTails)
<1>1. Carries(s, given, Len(taken), Len(given), << >>)
  BY DEF DownFlow
<1>2. PICK partial \in LinkTails : partial = Prefix(p)
  BY DEF LinkTails
<1>3. Len(taken) \in Nat /\ Len(given) \in Nat /\ Len(taken) <= Len(given) /\ Len(given) <= Len(given)
      /\ \A i \in 1..Len(given) : given[i] = given[i]
  BY DEF Received
<1>4. Carries(s \o partial, given, Len(taken), Len(given), partial)
  BY ONLY <1>1, <1>3, Extended, s \in Seq(Byte), given \in Seq(LinkPayloads), partial \in LinkTails
<1> QED
  BY <1>2, <1>4 DEF DownFlow

(* A message at the head of what is under way is the next one that was sent. *)
LEMMA DownTaken ==
  ASSUME NEW s \in Seq(Byte), NEW given \in Seq(LinkPayloads), NEW taken \in Seq(LinkPayloads),
         Received(taken, given), NEW tails \in SUBSET LinkTails, DownFlow(s, given, taken, tails),
         HasMessage(s), NEW m, m = SubSeq(s, 5, 4 + HeadLen(s))
  PROVE  /\ HeadLen(s) \in 1..MaxLen /\ m \in LinkPayloads
         /\ Append(taken, m) \in Seq(LinkPayloads) /\ Received(Append(taken, m), given)
         /\ DownFlow(Drop(s, 4 + HeadLen(s)), given, Append(taken, m), tails)
<1>1. PICK partial \in tails : Carries(s, given, Len(taken), Len(given), partial)
  BY DEF DownFlow
<1> partial \in LinkTails
  OBVIOUS
<1>2. Len(taken) \in Nat /\ Len(given) \in Nat /\ Len(taken) <= Len(given) /\ Len(given) <= Len(given)
  BY DEF Received
<1>3. /\ Len(taken) < Len(given) /\ HeadLen(s) = Len(given[Len(taken) + 1])
      /\ SubSeq(s, 5, 4 + HeadLen(s)) = given[Len(taken) + 1]
      /\ given[Len(taken) + 1] \in LinkPayloads
      /\ Carries(Drop(s, 4 + HeadLen(s)), given, Len(taken) + 1, Len(given), partial)
  BY <1>1, <1>2, HeadMessage
<1>4. m \in LinkPayloads /\ m = given[Len(taken) + 1] /\ HeadLen(s) = Len(m)
  BY <1>3
<1>5. HeadLen(s) \in 1..MaxLen
  <2>1. PICK p \in LinkPayloads : p = m
    BY <1>4
  <2>2. Len(p) \in Nat /\ 1 <= Len(p) /\ Len(p) <= MaxLen /\ MaxLen \in Nat
    BY ONLY p \in LinkPayloads, PayloadLengths
  <2>3. Len(p) \in 1..MaxLen
    BY ONLY <2>2
  <2> QED
    BY <1>4, <2>1, <2>3, Zenon
<1>6. /\ Append(taken, m) \in Seq(LinkPayloads) /\ Len(Append(taken, m)) = Len(taken) + 1
      /\ Received(Append(taken, m), given)
  BY <1>3, <1>4, AppendGot
<1>7. Carries(Drop(s, 4 + HeadLen(s)), given, Len(Append(taken, m)), Len(given), partial)
  BY <1>3, <1>6
<1> QED
  BY <1>1, <1>4, <1>5, <1>6, <1>7 DEF DownFlow

(* The same of what is under way to the core. *)
LEMMA UpTaken ==
  ASSUME NEW s \in Seq(Byte), NEW given \in Seq(LinkPayloads), NEW taken \in Seq(LinkPayloads),
         Received(taken, given), NEW phase, NEW p, UpFlow(s, given, taken, phase, p),
         HasMessage(s), NEW m, m = SubSeq(s, 5, 4 + HeadLen(s))
  PROVE  /\ 4 + HeadLen(s) \in 0..Len(s)
         /\ Append(taken, m) \in Seq(LinkPayloads) /\ Received(Append(taken, m), given)
         /\ UpFlow(Drop(s, 4 + HeadLen(s)), given, Append(taken, m), phase, p)
<1>1. PICK upto \in Nat, partial \in LinkTails :
        /\ Len(taken) <= upto /\ upto <= Len(given)
        /\ Carries(s, given, Len(taken), upto, partial)
        /\ phase = "begun" => upto + 1 = Len(given) /\ given[upto + 1] = p /\ partial = Prefix(p)
        /\ phase = "whole" => upto = Len(given) /\ partial = << >>
  BY DEF UpFlow
<1>2. Len(taken) \in Nat
  OBVIOUS
<1>3. /\ Len(taken) < upto
      /\ SubSeq(s, 5, 4 + HeadLen(s)) = given[Len(taken) + 1]
      /\ 4 + HeadLen(s) \in 0..Len(s)
      /\ Carries(Drop(s, 4 + HeadLen(s)), given, Len(taken) + 1, upto, partial)
  BY <1>1, <1>2, HeadMessage
<1>4. m = given[Len(taken) + 1] /\ Len(taken) < Len(given) /\ Len(taken) + 1 <= upto
  <2>1. Len(given) \in Nat
    OBVIOUS
  <2> QED
    BY <1>1, <1>2, <1>3, <2>1
<1>5. /\ Append(taken, m) \in Seq(LinkPayloads) /\ Len(Append(taken, m)) = Len(taken) + 1
      /\ Received(Append(taken, m), given)
  BY <1>4, AppendGot
<1>6. Carries(Drop(s, 4 + HeadLen(s)), given, Len(Append(taken, m)), upto, partial)
      /\ Len(Append(taken, m)) <= upto
  BY <1>3, <1>4, <1>5
<1> QED
  BY <1>1, <1>3, <1>5, <1>6 DEF UpFlow

(* BridgeServer_Send puts a length before its payload. *)
LEMMA UpBegun ==
  ASSUME NEW s \in Seq(Byte), NEW given \in Seq(LinkPayloads), NEW taken \in Seq(LinkPayloads),
         NEW q, UpFlow(s, given, taken, "whole", q), NEW p \in LinkPayloads
  PROVE  /\ UpFlow(s \o Prefix(p), Append(given, p), taken, "begun", p)
         /\ UpFlow(s, Append(given, p), taken, "gone", q)
<1>1. Carries(s, given, Len(taken), Len(given), << >>) /\ Len(taken) <= Len(given)
  BY DEF UpFlow
<1>2. PICK longer \in Seq(LinkPayloads), n \in Nat : longer = Append(given, p) /\ n = Len(given)
  BY AppendSent
<1>3. /\ Len(longer) = n + 1 /\ longer[n + 1] = p
      /\ \A i \in 1..n : longer[i] = given[i]
  BY <1>2, AppendSent
<1>4. Len(taken) \in Nat /\ Len(taken) <= n /\ << >> \in LinkTails /\ n <= Len(longer) /\ n <= Len(given)
      /\ Prefix(p) \in LinkTails
  BY <1>1, <1>2, <1>3 DEF LinkTails
<1>5. Carries(s \o << >>, longer, Len(taken), n, << >>)
  BY <1>1, <1>2, <1>3, <1>4, Extended
<1>6. s \o << >> = s
  OBVIOUS
<1>7. PICK partial \in LinkTails : partial = Prefix(p)
  BY <1>4
<1>8. Carries(s \o partial, longer, Len(taken), n, partial)
  BY <1>1, <1>2, <1>3, <1>4, Extended
<1>9. UpFlow(s \o partial, longer, taken, "begun", p)
  BY <1>3, <1>4, <1>7, <1>8 DEF UpFlow
<1>10. UpFlow(s, longer, taken, "gone", q)
  BY <1>3, <1>4, <1>5, <1>6 DEF UpFlow
<1> QED
  BY <1>2, <1>7, <1>9, <1>10

(* And then the payload. *)
LEMMA UpEnded ==
  ASSUME NEW s \in Seq(Byte), NEW given \in Seq(LinkPayloads), NEW taken \in Seq(LinkPayloads),
         NEW p \in LinkPayloads, UpFlow(s, given, taken, "begun", p), NEW q
  PROVE  UpFlow(s \o p, given, taken, "whole", q)
<1>1. PICK upto \in Nat, partial \in LinkTails :
        /\ Len(taken) <= upto /\ upto <= Len(given)
        /\ Carries(s, given, Len(taken), upto, partial)
        /\ upto + 1 = Len(given) /\ given[upto + 1] = p /\ partial = Prefix(p)
  BY DEF UpFlow
<1>2. Len(taken) \in Nat /\ upto < Len(given) /\ Len(taken) <= Len(given) /\ Len(given) \in Nat
  BY <1>1
<1>3. p \in Seq(Byte)
  BY PayloadLengths
<1>4. partial \o p = Message(given[upto + 1])
  BY <1>1 DEF Message
<1>5. Carries(s \o p, given, Len(taken), upto + 1, << >>)
  BY ONLY <1>1, <1>2, <1>3, <1>4, Completed, s \in Seq(Byte), given \in Seq(LinkPayloads),
          upto \in Nat, partial \in LinkTails
<1>6. Carries(s \o p, given, Len(taken), Len(given), << >>) /\ << >> \in LinkTails
      /\ Len(given) <= Len(given)
  BY <1>1, <1>2, <1>5 DEF LinkTails
<1> QED
  BY <1>2, <1>6 DEF UpFlow

-----------------------------------------------------------------------------
(* The invariant *)

States == {"open", "fin", "rst", "broken"}

BridgeTypes ==
  /\ clientFd \in 0..made
  /\ recvBuf \in Seq(Byte) /\ Len(recvBuf) <= RecvBufSize
  /\ at \in {"accept", "uplink", "payload", "downlink", "dead"}
  /\ sending \in UpPayloads \cup {None}
  /\ at = "payload" => clientFd # 0 /\ sending \in UpPayloads
  /\ at = "dead" => clientFd = 0

KernelTypes ==
  /\ made \in 0..MaxConns /\ fd \in 0..made
  /\ backlog \in Seq(Conns) /\ \A i \in 1..Len(backlog) : backlog[i] <= made
  /\ left \subseteq 1..made /\ short \subseteq 1..made
  /\ down \in [Conns -> Seq(Byte)] /\ up \in [Conns -> Seq(Byte)]
  /\ peer \in [Conns -> States]

HistoryTypes ==
  /\ sentDown \in [Conns -> Seq(LinkPayloads)] /\ gotDown \in [Conns -> Seq(LinkPayloads)]
  /\ sentUp \in [Conns -> Seq(LinkPayloads)] /\ gotUp \in [Conns -> Seq(Seq(Byte))]

(* No connection is waiting twice, or again once it has been accepted. *)
Queued ==
  /\ clientFd \notin left
  /\ \A i \in 1..Len(backlog) : backlog[i] \notin left /\ backlog[i] # clientFd
  /\ \A i, j \in 1..Len(backlog) : backlog[i] = backlog[j] => i = j

(* The core's end is open while it has it, and before there is one. *)
OpenToCore ==
  /\ fd # 0 => peer[fd] = "open"
  /\ \A c \in Conns : c > made => peer[c] = "open"

(* What the bridge has read from a connection and not handed over. *)
Buffered(c) == IF c = clientFd THEN recvBuf ELSE << >>

(* What may be at the end of a connection: nothing unless the core has left. *)
Ends(c) == IF fd = c \/ c > made THEN {<< >>} ELSE LinkTails

DownOK(c) ==
  /\ Received(gotDown[c], sentDown[c])
  /\ c \notin left => DownFlow(Buffered(c) \o down[c], sentDown[c], gotDown[c], Ends(c))

(* How far the bridge is with the last payload of a connection. *)
Phase(c) == IF c \in left THEN "gone"
            ELSE IF at = "payload" /\ c = clientFd THEN "begun" ELSE "whole"

UpOK(c) ==
  c \notin short => /\ gotUp[c] \in Seq(LinkPayloads) /\ Received(gotUp[c], sentUp[c])
                    /\ peer[c] = "open" => UpFlow(up[c], sentUp[c], gotUp[c], Phase(c), sending)

DownInv == \A c \in Conns : DownOK(c)
UpInv == \A c \in Conns : UpOK(c)

Types == BridgeTypes /\ KernelTypes /\ HistoryTypes
LinkInv == Types /\ Queued /\ OpenToCore /\ DownInv /\ UpInv

(* The bounds are numbers. *)
LEMMA BoundsAreNumbers ==
  /\ RecvBufSize \in Nat /\ MaxLen \in Nat /\ SendRoom \in Nat
  /\ MaxConns \in Nat /\ MaxDown \in Nat /\ MaxUp \in Nat
<1>1. MaxLen \in 1..(256 * 256 - 1)
  BY BridgeLinkAssumption DEF BridgeLinkAssumption
<1>2. MaxLen \in Nat
  BY <1>1, InRange, Zenon
<1>3. RecvBufSize \in Nat /\ SendRoom \in Nat /\ MaxConns \in Nat
  BY BridgeLinkAssumption DEF BridgeLinkAssumption
<1>4. MaxDown \in Nat /\ MaxUp \in Nat
  BY BridgeLinkAssumption DEF BridgeLinkAssumption
<1> QED
  BY <1>2, <1>3, <1>4, Zenon

(* A step that leaves a connection's downlink alone. *)
LEMMA DownStays ==
  ASSUME NEW c \in Conns, DownOK(c), sentDown'[c] = sentDown[c], gotDown'[c] = gotDown[c],
         down'[c] = down[c],
         c \notin left' => c \notin left /\ Buffered(c)' = Buffered(c) /\ Ends(c) \subseteq Ends(c)'
  PROVE  DownOK(c)'
<1>1. CASE c \in left'
  BY <1>1 DEF DownOK
<1>2. CASE c \notin left'
  <2>1. DownFlow(Buffered(c) \o down[c], sentDown[c], gotDown[c], Ends(c))
    BY <1>2 DEF DownOK
  <2>2. DownFlow(Buffered(c) \o down[c], sentDown[c], gotDown[c], Ends(c)')
    BY <1>2, <2>1 DEF DownFlow
  <2>3. DownFlow(Buffered(c)' \o down'[c], sentDown'[c], gotDown'[c], Ends(c)')
    BY <1>2, <2>2
  <2> QED
    BY <2>3 DEF DownOK
<1> QED
  BY <1>1, <1>2

(* A step that leaves its uplink alone. *)
LEMMA UpStays ==
  ASSUME NEW c \in Conns, UpOK(c), sentUp'[c] = sentUp[c], gotUp'[c] = gotUp[c], up'[c] = up[c],
         c \in short => c \in short', peer'[c] = "open" => peer[c] = "open",
         Phase(c)' = "gone" \/ Phase(c)' = Phase(c),
         Phase(c)' = "begun" => sending' = sending
  PROVE  UpOK(c)'
<1> SUFFICES ASSUME c \notin short' PROVE UpOK(c)'
  BY DEF UpOK
<1>1. CASE peer'[c] # "open"
  BY <1>1 DEF UpOK
<1>2. CASE peer'[c] = "open"
  <2>1. UpFlow(up[c], sentUp[c], gotUp[c], Phase(c), sending)
    BY <1>2 DEF UpOK
  <2>2. UpFlow(up[c], sentUp[c], gotUp[c], Phase(c)', sending')
    BY <2>1 DEF UpFlow
  <2>3. UpFlow(up'[c], sentUp'[c], gotUp'[c], Phase(c)', sending')
    BY <2>2
  <2> QED
    BY <2>3 DEF UpOK
<1> QED
  BY <1>1, <1>2

(* A core connects. *)
LEMMA ConnectKeeps ==
  ASSUME LinkInv, CcCore_LncConnect
  PROVE  LinkInv'
<1> USE BoundsAreNumbers
<1>1. made' = made + 1 /\ fd' = made + 1 /\ made' \in Conns /\ made \in Nat
  BY DEF LinkInv, Types, KernelTypes, CcCore_LncConnect, Conns
<1>2. BridgeTypes'
  BY <1>1 DEF LinkInv, Types, BridgeTypes, KernelTypes, CcCore_LncConnect, bridge
<1>3. /\ backlog' \in Seq(Conns) /\ Len(backlog') = Len(backlog) + 1 /\ Len(backlog) \in Nat
      /\ \A i \in 1..Len(backlog) : backlog'[i] = backlog[i]
      /\ backlog'[Len(backlog) + 1] = made + 1
  <2>1. backlog \in Seq(Conns) /\ made + 1 \in Conns /\ backlog' = Append(backlog, made + 1)
    BY <1>1 DEF LinkInv, Types, KernelTypes, CcCore_LncConnect
  <2> QED
    BY <2>1, AppendProperties
<1>4. KernelTypes'
  <2>1. \A i \in 1..Len(backlog') : backlog'[i] <= made'
    <3>1. \A i \in 1..Len(backlog) : backlog[i] \in Int /\ backlog[i] <= made
      <4>1. backlog \in Seq(1..MaxConns) /\ \A i \in 1..Len(backlog) : backlog[i] <= made
        BY DEF LinkInv, Types, KernelTypes, Conns
      <4>2. \A i \in 1..Len(backlog) : backlog[i] \in 1..MaxConns
        BY <4>1, ElementOfSeq, Zenon
      <4>3. \A c \in 1..MaxConns : c \in Int
        OBVIOUS
      <4> QED
        BY <4>1, <4>2, <4>3, Zenon
    <3>2. \A i \in 1..Len(backlog') : i \in 1..Len(backlog) \/ i = Len(backlog) + 1
      BY <1>3
    <3>3. \A i \in Int : i <= made => i <= made + 1
      BY <1>1
    <3> QED
      BY <1>1, <1>3, <3>1, <3>2, <3>3
  <2>2. made' \in 0..MaxConns /\ fd' \in 0..made'
    BY <1>1 DEF Conns
  <2> QED
    BY <1>1, <1>3, <2>1, <2>2 DEF LinkInv, Types, KernelTypes, CcCore_LncConnect, history
<1>5. HistoryTypes'
  BY DEF LinkInv, Types, HistoryTypes, CcCore_LncConnect, history
<1>6. Queued'
  <2>1. clientFd' = clientFd /\ left' = left /\ clientFd <= made /\ clientFd \in Int
        /\ left \subseteq 1..made
    BY <1>1 DEF LinkInv, Types, BridgeTypes, KernelTypes, CcCore_LncConnect, bridge
  <2>2. \A i \in 1..Len(backlog) : backlog[i] <= made /\ backlog[i] \in Nat
    <3>1. backlog \in Seq(1..MaxConns) /\ \A i \in 1..Len(backlog) : backlog[i] <= made
      BY DEF LinkInv, Types, KernelTypes, Conns
    <3>2. \A i \in 1..Len(backlog) : backlog[i] \in 1..MaxConns
      BY <3>1, ElementOfSeq, Zenon
    <3>3. \A c \in 1..MaxConns : c \in Nat
      OBVIOUS
    <3> QED
      BY <3>1, <3>2, <3>3, Zenon
  <2>3. made + 1 \notin left /\ made + 1 # clientFd
    BY <1>1, <2>1
  <2>4. \A i \in 1..Len(backlog') : backlog'[i] \notin left /\ backlog'[i] # clientFd
    BY <1>3, <2>3 DEF LinkInv, Queued
  <2>5. \A i, j \in 1..Len(backlog') : backlog'[i] = backlog'[j] => i = j
    BY <1>1, <1>3, <2>2 DEF LinkInv, Queued
  <2> QED
    BY <2>1, <2>4, <2>5 DEF LinkInv, Queued
<1>7. OpenToCore'
  BY <1>1 DEF LinkInv, OpenToCore, CcCore_LncConnect, Conns
<1>8. DownInv'
  <2> SUFFICES ASSUME NEW c \in Conns PROVE DownOK(c)'
    BY DEF DownInv
  <2>1. DownOK(c) /\ sentDown' = sentDown /\ gotDown' = gotDown /\ down' = down /\ left' = left
        /\ clientFd' = clientFd /\ recvBuf' = recvBuf
    BY DEF LinkInv, DownInv, CcCore_LncConnect, bridge, history
  <2>2. Ends(c) \subseteq Ends(c)'
    <3>1. fd = 0 /\ << >> \in LinkTails
      BY DEF CcCore_LncConnect, LinkTails
    <3>2. fd' = c \/ c > made' => c > made
      BY <1>1 DEF Conns
    <3> QED
      BY <3>1, <3>2 DEF Ends
  <2> QED
    BY <2>1, <2>2, DownStays DEF Buffered
<1>9. UpInv'
  <2> SUFFICES ASSUME NEW c \in Conns PROVE UpOK(c)'
    BY DEF UpInv
  <2>1. UpOK(c) /\ UNCHANGED << sentUp, gotUp, up, short, peer, left, at, clientFd, sending >>
    BY DEF LinkInv, UpInv, CcCore_LncConnect, bridge, history
  <2> QED
    BY <2>1, UpStays DEF Phase
<1> QED
  BY <1>2, <1>4, <1>5, <1>6, <1>7, <1>8, <1>9 DEF LinkInv, Types

(* The core's connection is one of those made, and open. *)
LEMMA FdOpen ==
  ASSUME LinkInv, fd # 0
  PROVE  fd \in Conns /\ fd <= made /\ made \in Nat /\ peer[fd] = "open"
BY BoundsAreNumbers DEF LinkInv, Types, KernelTypes, OpenToCore, Conns

(* What is buffered are bytes. *)
LEMMA BufferedBytes ==
  ASSUME LinkInv, NEW c
  PROVE  Buffered(c) \in Seq(Byte)
<1>1. recvBuf \in Seq(Byte)
  BY DEF LinkInv, Types, BridgeTypes
<1>2. << >> \in Seq(Byte)
  OBVIOUS
<1> QED
  BY <1>1, <1>2 DEF Buffered

(* Hanging up changes one end. *)
LEMMA HangupPeers ==
  ASSUME NEW c \in Conns, NEW unread, peer \in [Conns -> States]
  PROVE  /\ Hangup(c, unread) \in [Conns -> States] /\ Hangup(c, unread)[c] # "open"
         /\ \A d \in Conns \ {c} : Hangup(c, unread)[d] = peer[d]
BY DEF Hangup, States

(* The core sends a message. *)
LEMMA SendDownKeeps ==
  ASSUME LinkInv, CcCore_LncSend
  PROVE  LinkInv'
<1>1. fd # 0 /\ fd \notin left
  BY DEF CcCore_LncSend
<1>2. fd \in Conns /\ fd <= made /\ made \in Nat
  BY <1>1, FdOpen
<1>3. PICK p \in LinkPayloads : /\ down' = [down EXCEPT ![fd] = @ \o Message(p)]
                            /\ sentDown' = [sentDown EXCEPT ![fd] = Append(@, p)]
  BY DEF CcCore_LncSend, LinkPayloads
<1>4. /\ down \in [Conns -> Seq(Byte)] /\ sentDown \in [Conns -> Seq(LinkPayloads)]
      /\ gotDown \in [Conns -> Seq(LinkPayloads)]
  BY DEF LinkInv, Types, KernelTypes, HistoryTypes
<1>5. PICK s \in Seq(Byte), m \in Seq(Byte), given \in Seq(LinkPayloads), taken \in Seq(LinkPayloads),
           longer \in Seq(LinkPayloads) :
        s = down[fd] /\ m = Message(p) /\ given = sentDown[fd] /\ taken = gotDown[fd]
        /\ longer = Append(given, p)
  <2>1. down[fd] \in Seq(Byte) /\ sentDown[fd] \in Seq(LinkPayloads) /\ gotDown[fd] \in Seq(LinkPayloads)
    BY <1>2, <1>4
  <2>2. Message(p) \in Seq(Byte) /\ Append(sentDown[fd], p) \in Seq(LinkPayloads)
    BY <2>1, MessageElements, AppendSent
  <2> QED
    BY <2>1, <2>2, Zenon
<1>6. s \o m \in Seq(Byte)
  BY ConcatElements
<1>7. /\ down' \in [Conns -> Seq(Byte)] /\ sentDown' \in [Conns -> Seq(LinkPayloads)]
      /\ down'[fd] = s \o m /\ sentDown'[fd] = longer
      /\ \A c \in Conns \ {fd} : down'[c] = down[c] /\ sentDown'[c] = sentDown[c]
  BY <1>2, <1>3, <1>4, <1>5, <1>6
<1>8. /\ UNCHANGED << clientFd, recvBuf, at, sending, fd, made, backlog, up, peer, left >>
      /\ UNCHANGED << gotDown, sentUp, gotUp, short >>
  BY DEF CcCore_LncSend, bridge
<1>9. Types'
  BY <1>7, <1>8 DEF LinkInv, Types, BridgeTypes, KernelTypes, HistoryTypes
<1>10. Queued' /\ OpenToCore'
  BY <1>8 DEF LinkInv, Queued, OpenToCore
<1>11. DownInv'
  <2> SUFFICES ASSUME NEW c \in Conns PROVE DownOK(c)'
    BY DEF DownInv
  <2>1. DownOK(c)
    BY DEF LinkInv, DownInv
  <2>2. CASE c # fd
    BY <1>7, <1>8, <2>1, <2>2, DownStays DEF Buffered, Ends
  <2>3. CASE c = fd
    <3>1. PICK b \in Seq(Byte) : b = Buffered(c)
      BY BufferedBytes
    <3>2. Received(taken, given) /\ DownFlow(b \o s, given, taken, {<< >>})
      BY <1>1, <1>5, <2>1, <2>3, <3>1 DEF DownOK, Ends
    <3>3. b \o s \in Seq(Byte)
      BY ConcatElements
    <3>4. Received(taken, longer) /\ DownFlow((b \o s) \o m, longer, taken, {<< >>})
      BY <1>5, <3>2, <3>3, DownSent, AppendSent
    <3>5. (b \o s) \o m = b \o (s \o m)
      BY BytesAssociative, Zenon
    <3>6. Buffered(c)' = b /\ Ends(c)' = {<< >>}
      BY <1>8, <2>3, <3>1 DEF Buffered, Ends
    <3> QED
      BY <1>5, <1>7, <1>8, <2>3, <3>4, <3>5, <3>6 DEF DownOK
  <2> QED
    BY <2>2, <2>3
<1>12. UpInv'
  <2> SUFFICES ASSUME NEW c \in Conns PROVE UpOK(c)'
    BY DEF UpInv
  <2>1. UpOK(c)
    BY DEF LinkInv, UpInv
  <2> QED
    BY <1>8, <2>1, UpStays DEF Phase
<1> QED
  BY <1>9, <1>10, <1>11, <1>12 DEF LinkInv

(* It is killed behind the length of one. *)
LEMMA CrashKeeps ==
  ASSUME LinkInv, CcCore_CrashInSend
  PROVE  LinkInv'
<1>1. fd # 0 /\ fd \notin left
  BY DEF CcCore_CrashInSend
<1>2. fd \in Conns /\ fd <= made /\ made \in Nat
  BY <1>1, FdOpen
<1>3. PICK p \in LinkPayloads : down' = [down EXCEPT ![fd] = @ \o Prefix(p)]
  BY DEF CcCore_CrashInSend, LinkPayloads
<1>4. /\ down \in [Conns -> Seq(Byte)] /\ sentDown \in [Conns -> Seq(LinkPayloads)]
      /\ gotDown \in [Conns -> Seq(LinkPayloads)] /\ peer \in [Conns -> States]
  BY DEF LinkInv, Types, KernelTypes, HistoryTypes
<1>5. PICK s \in Seq(Byte), m \in Seq(Byte), given \in Seq(LinkPayloads), taken \in Seq(LinkPayloads) :
        s = down[fd] /\ m = Prefix(p) /\ given = sentDown[fd] /\ taken = gotDown[fd]
  <2>1. down[fd] \in Seq(Byte) /\ sentDown[fd] \in Seq(LinkPayloads) /\ gotDown[fd] \in Seq(LinkPayloads)
    BY <1>2, <1>4
  <2>2. Prefix(p) \in Seq(Byte)
    BY PrefixRead
  <2> QED
    BY <2>1, <2>2, Zenon
<1>6. s \o m \in Seq(Byte)
  BY ConcatElements
<1>7. /\ down' \in [Conns -> Seq(Byte)] /\ down'[fd] = s \o m
      /\ \A c \in Conns \ {fd} : down'[c] = down[c]
  BY <1>2, <1>3, <1>4, <1>5, <1>6
<1>8. /\ UNCHANGED << clientFd, recvBuf, at, sending, made, backlog, up, left >>
      /\ UNCHANGED << sentDown, gotDown, sentUp, gotUp, short >>
      /\ fd' = 0 /\ peer' = Hangup(fd, up[fd])
  BY DEF CcCore_CrashInSend, bridge, history
<1>9. peer' \in [Conns -> States] /\ peer'[fd] # "open"
      /\ \A c \in Conns \ {fd} : peer'[c] = peer[c]
  BY <1>2, <1>4, <1>8, HangupPeers
<1>10. Types'
  <2>1. BridgeTypes' /\ HistoryTypes'
    BY <1>8 DEF LinkInv, Types, BridgeTypes, HistoryTypes
  <2>2. fd' \in 0..made'
    BY <1>2, <1>8
  <2>3. KernelTypes'
    BY <1>7, <1>8, <1>9, <2>2 DEF LinkInv, Types, KernelTypes
  <2> QED
    BY <2>1, <2>3 DEF Types
<1>11. Queued' /\ OpenToCore'
  <2>1. \A c \in Conns : c > made => c # fd
    BY <1>2 DEF Conns
  <2> QED
    BY <1>8, <1>9, <2>1 DEF LinkInv, Queued, OpenToCore
<1>12. DownInv'
  <2> SUFFICES ASSUME NEW c \in Conns PROVE DownOK(c)'
    BY DEF DownInv
  <2>1. DownOK(c)
    BY DEF LinkInv, DownInv
  <2>2. CASE c # fd
    <3>1. Ends(c) \subseteq Ends(c)'
      BY <1>8, <2>2 DEF Ends, LinkTails, Conns
    <3> QED
      BY <1>7, <1>8, <2>1, <2>2, <3>1, DownStays DEF Buffered
  <2>3. CASE c = fd
    <3>1. PICK b \in Seq(Byte) : b = Buffered(c)
      BY BufferedBytes
    <3>2. Received(taken, given) /\ DownFlow(b \o s, given, taken, {<< >>})
      BY <1>1, <1>5, <2>1, <2>3, <3>1 DEF DownOK, Ends
    <3>3. b \o s \in Seq(Byte)
      BY ConcatElements
    <3>4. DownFlow((b \o s) \o m, given, taken, LinkTails)
      BY <1>5, <3>2, <3>3, DownBroken
    <3>5. (b \o s) \o m = b \o (s \o m)
      BY BytesAssociative, Zenon
    <3>6. Buffered(c)' = b /\ Ends(c)' = LinkTails
      BY <1>2, <1>8, <2>3, <3>1 DEF Buffered, Ends, Conns
    <3> QED
      BY <1>5, <1>7, <1>8, <2>3, <3>2, <3>4, <3>5, <3>6 DEF DownOK
  <2> QED
    BY <2>2, <2>3
<1>13. UpInv'
  <2> SUFFICES ASSUME NEW c \in Conns PROVE UpOK(c)'
    BY DEF UpInv
  <2>1. UpOK(c)
    BY DEF LinkInv, UpInv
  <2>2. peer'[c] = "open" => peer[c] = "open"
    BY <1>9
  <2> QED
    BY <1>8, <2>1, <2>2, UpStays DEF Phase
<1> QED
  BY <1>10, <1>11, <1>12, <1>13 DEF LinkInv

(* It receives a message. *)
LEMMA RecvUpKeeps ==
  ASSUME LinkInv, CcCore_LncRecv
  PROVE  LinkInv'
<1>1. fd # 0 /\ HasMessage(up[fd]) /\ HeadLen(up[fd]) \in 1..MaxLen
  BY DEF CcCore_LncRecv
<1>2. fd \in Conns /\ fd <= made /\ made \in Nat /\ peer[fd] = "open"
  BY <1>1, FdOpen
<1>3. up \in [Conns -> Seq(Byte)] /\ sentUp \in [Conns -> Seq(LinkPayloads)]
      /\ gotUp \in [Conns -> Seq(Seq(Byte))]
  BY DEF LinkInv, Types, KernelTypes, HistoryTypes
<1>4. PICK s \in Seq(Byte), given \in Seq(LinkPayloads), taken \in Seq(Seq(Byte)) :
        s = up[fd] /\ given = sentUp[fd] /\ taken = gotUp[fd]
  BY <1>2, <1>3
<1> DEFINE n == 4 + HeadLen(s)
           m == SubSeq(s, 5, 4 + HeadLen(s))
<1>5. up' = [up EXCEPT ![fd] = Drop(s, n)] /\ gotUp' = [gotUp EXCEPT ![fd] = Append(taken, m)]
  BY <1>2, <1>3, <1>4 DEF CcCore_LncRecv
<1>6. /\ UNCHANGED << clientFd, recvBuf, at, sending, fd, made, backlog, down, peer, left >>
      /\ UNCHANGED << sentDown, gotDown, sentUp, short >>
  BY DEF CcCore_LncRecv, bridge
<1>7. HasMessage(s) /\ n \in 0..Len(s) /\ Drop(s, n) \in Seq(Byte) /\ m \in Seq(Byte)
      /\ Append(taken, m) \in Seq(Seq(Byte))
  <2>1. HasMessage(s) /\ HeadLen(s) \in 1..MaxLen /\ MaxLen \in Nat /\ Len(s) \in Nat
    BY <1>1, <1>4, BoundsAreNumbers
  <2>2. PICK l \in Nat : l = n /\ l <= Len(s)
    BY <2>1 DEF HasMessage
  <2>3. l \in 0..Len(s) /\ \A i \in 5..l : s[i] \in Byte
    BY <2>1, <2>2
  <2>4. SubSeq(s, 5, l) \in Seq(Byte)
    BY ONLY <2>3, l \in Nat, SubSeqProperties
  <2>5. Drop(s, l) \in Seq(Byte)
    BY <2>3, DropElements
  <2>6. m = SubSeq(s, 5, l)
    BY <2>2
  <2> HIDE DEF m, n
  <2>7. Append(taken, m) \in Seq(Seq(Byte))
    BY <2>4, <2>6
  <2> QED
    BY <2>1, <2>2, <2>3, <2>4, <2>5, <2>6, <2>7
<1>8. fd \notin short =>
        /\ Append(taken, m) \in Seq(LinkPayloads) /\ Received(Append(taken, m), given)
        /\ UpFlow(Drop(s, n), given, Append(taken, m), Phase(fd), sending)
  <2> SUFFICES ASSUME fd \notin short
               PROVE  /\ Append(taken, m) \in Seq(LinkPayloads) /\ Received(Append(taken, m), given)
                      /\ UpFlow(Drop(s, n), given, Append(taken, m), Phase(fd), sending)
    OBVIOUS
  <2>1. taken \in Seq(LinkPayloads) /\ Received(taken, given) /\ UpFlow(s, given, taken, Phase(fd), sending)
    BY <1>2, <1>4 DEF LinkInv, UpInv, UpOK
  <2>2. PICK phase, p : phase = Phase(fd) /\ p = sending
    OBVIOUS
  <2>3. PICK g \in Seq(LinkPayloads) : g = taken
    BY <2>1
  <2>4. Received(g, given) /\ UpFlow(s, given, g, phase, p)
    BY <2>1, <2>2, <2>3
  <2>5. /\ Append(g, m) \in Seq(LinkPayloads) /\ Received(Append(g, m), given)
        /\ UpFlow(Drop(s, n), given, Append(g, m), phase, p)
    BY <1>7, <2>4, UpTaken
  <2> QED
    BY <2>2, <2>5, <2>3
<1> HIDE DEF n, m
<1>9. /\ up' \in [Conns -> Seq(Byte)] /\ gotUp' \in [Conns -> Seq(Seq(Byte))]
      /\ up'[fd] = Drop(s, n) /\ gotUp'[fd] = Append(taken, m)
      /\ \A c \in Conns \ {fd} : up'[c] = up[c] /\ gotUp'[c] = gotUp[c]
  BY <1>2, <1>3, <1>5, <1>7
<1>10. Types'
  BY <1>6, <1>9 DEF LinkInv, Types, BridgeTypes, KernelTypes, HistoryTypes
<1>11. Queued' /\ OpenToCore'
  BY <1>6 DEF LinkInv, Queued, OpenToCore
<1>12. DownInv'
  <2> SUFFICES ASSUME NEW c \in Conns PROVE DownOK(c)'
    BY DEF DownInv
  <2>1. DownOK(c)
    BY DEF LinkInv, DownInv
  <2> QED
    BY <1>6, <2>1, DownStays DEF Buffered, Ends
<1>13. UpInv'
  <2> SUFFICES ASSUME NEW c \in Conns PROVE UpOK(c)'
    BY DEF UpInv
  <2>1. UpOK(c)
    BY DEF LinkInv, UpInv
  <2>2. CASE c # fd
    BY <1>6, <1>9, <2>1, <2>2, UpStays DEF Phase
  <2>3. CASE c = fd
    <3>1. Phase(c)' = Phase(c) /\ sending' = sending
      BY <1>6 DEF Phase
    <3> QED
      BY <1>4, <1>6, <1>8, <1>9, <2>3, <3>1 DEF UpOK
  <2> QED
    BY <2>2, <2>3
<1> QED
  BY <1>10, <1>11, <1>12, <1>13 DEF LinkInv

(* It leaves, whatever it has not read. *)
LEMMA LeavingKeeps ==
  ASSUME LinkInv, fd # 0, fd' = 0,
         peer' \in [Conns -> States], peer'[fd] # "open",
         \A c \in Conns \ {fd} : peer'[c] = peer[c] /\ up'[c] = up[c],
         up' \in [Conns -> Seq(Byte)],
         UNCHANGED << bridge, made, backlog, down, left, history >>
  PROVE  LinkInv'
<1>1. fd \in Conns /\ fd <= made /\ made \in Nat
  BY FdOpen
<1>2. /\ UNCHANGED << clientFd, recvBuf, at, sending, made, backlog, down, left >>
      /\ UNCHANGED << sentDown, gotDown, sentUp, gotUp, short >>
  BY DEF bridge, history
<1>3. Types'
  <2>1. BridgeTypes' /\ HistoryTypes'
    BY <1>2 DEF LinkInv, Types, BridgeTypes, HistoryTypes
  <2>2. fd' \in 0..made'
    BY <1>1, <1>2
  <2>3. KernelTypes'
    BY <1>2, <2>2 DEF LinkInv, Types, KernelTypes
  <2> QED
    BY <2>1, <2>3 DEF Types
<1>4. Queued' /\ OpenToCore'
  <2>1. \A c \in Conns : c > made => c # fd
    BY <1>1 DEF Conns
  <2> QED
    BY <1>2, <2>1 DEF LinkInv, Queued, OpenToCore
<1>5. DownInv'
  <2> SUFFICES ASSUME NEW c \in Conns PROVE DownOK(c)'
    BY DEF DownInv
  <2>1. DownOK(c)
    BY DEF LinkInv, DownInv
  <2>2. Ends(c) \subseteq Ends(c)'
    BY <1>1, <1>2 DEF Ends, LinkTails, Conns
  <2> QED
    BY <1>2, <2>1, <2>2, DownStays DEF Buffered
<1>6. UpInv'
  <2> SUFFICES ASSUME NEW c \in Conns PROVE UpOK(c)'
    BY DEF UpInv
  <2>1. UpOK(c)
    BY DEF LinkInv, UpInv
  <2>2. CASE c # fd
    BY <1>2, <2>1, <2>2, UpStays DEF Phase
  <2>3. CASE c = fd
    BY <1>2, <2>1, <2>3 DEF UpOK
  <2> QED
    BY <2>2, <2>3
<1> QED
  BY <1>3, <1>4, <1>5, <1>6 DEF LinkInv

(* The core closes its end: what is still in the backlog or buffered stays   *)
(* for the bridge to find, the way to the core ends.                         *)
LEMMA CloseKeeps ==
  ASSUME LinkInv, CcCore_Close
  PROVE  LinkInv'
<1>1. fd # 0 /\ fd \in Conns /\ up \in [Conns -> Seq(Byte)] /\ peer \in [Conns -> States]
  BY FdOpen DEF CcCore_Close, LinkInv, Types, KernelTypes
<1>2. fd' = 0 /\ up' = up /\ peer' = Hangup(fd, up[fd])
      /\ UNCHANGED << bridge, made, backlog, down, left, history >>
  BY DEF CcCore_Close
<1>3. /\ Hangup(fd, up[fd]) \in [Conns -> States] /\ Hangup(fd, up[fd])[fd] # "open"
      /\ \A d \in Conns \ {fd} : Hangup(fd, up[fd])[d] = peer[d]
  BY <1>1, HangupPeers
<1> QED
  BY <1>1, <1>2, <1>3, LeavingKeeps

(* It leaves because of a length it does not admit. *)
LEMMA RecvFailsKeeps ==
  ASSUME LinkInv, CcCore_LncRecvFails
  PROVE  LinkInv'
<1>1. fd # 0 /\ fd \in Conns /\ up \in [Conns -> Seq(Byte)] /\ peer \in [Conns -> States]
  BY FdOpen DEF CcCore_LncRecvFails, LinkInv, Types, KernelTypes
<1>2. fd' = 0 /\ up' = [up EXCEPT ![fd] = Drop(@, 4)] /\ peer' = Hangup(fd, up'[fd])
      /\ UNCHANGED << bridge, made, backlog, down, left, history >> /\ Len(up[fd]) >= 4
  BY DEF CcCore_LncRecvFails
<1>3. /\ Hangup(fd, up'[fd]) \in [Conns -> States] /\ Hangup(fd, up'[fd])[fd] # "open"
      /\ \A d \in Conns \ {fd} : Hangup(fd, up'[fd])[d] = peer[d]
  BY <1>1, HangupPeers
<1>4. Drop(up[fd], 4) \in Seq(Byte)
  <2>1. up[fd] \in Seq(Byte) /\ 4 \in 0..Len(up[fd])
    BY <1>1, <1>2
  <2> QED
    BY <2>1, DropElements
<1>5. up' \in [Conns -> Seq(Byte)] /\ \A d \in Conns \ {fd} : up'[d] = up[d]
  BY <1>1, <1>2, <1>4
<1> QED
  BY <1>1, <1>2, <1>3, <1>5, LeavingKeeps

-----------------------------------------------------------------------------
(* The bridge's steps *)

(* The bridge's client is one of the connections made. *)
LEMMA ClientConn ==
  ASSUME LinkInv, clientFd # 0
  PROVE  clientFd \in Conns /\ clientFd <= made /\ made \in Nat /\ clientFd \notin left
BY BoundsAreNumbers DEF LinkInv, Types, KernelTypes, BridgeTypes, Queued, Conns

(* It has, or finds, nobody and nothing to accept. *)
LEMMA IdleKeeps ==
  ASSUME LinkInv, at' \in {"uplink", "downlink", "accept"}, at # "payload",
         UNCHANGED << clientFd, recvBuf, sending, fd, kernel, history >>
  PROVE  LinkInv'
<1>1. /\ UNCHANGED << clientFd, recvBuf, sending, fd, made, backlog, down, up, peer, left >>
      /\ UNCHANGED << sentDown, gotDown, sentUp, gotUp, short >>
  BY DEF kernel, history
<1>2. Types'
  BY <1>1 DEF LinkInv, Types, BridgeTypes, KernelTypes, HistoryTypes
<1>3. Queued' /\ OpenToCore'
  BY <1>1 DEF LinkInv, Queued, OpenToCore
<1>4. DownInv'
  <2> SUFFICES ASSUME NEW c \in Conns PROVE DownOK(c)'
    BY DEF DownInv
  <2>1. DownOK(c)
    BY DEF LinkInv, DownInv
  <2> QED
    BY <1>1, <2>1, DownStays DEF Buffered, Ends
<1>5. UpInv'
  <2> SUFFICES ASSUME NEW c \in Conns PROVE UpOK(c)'
    BY DEF UpInv
  <2>1. UpOK(c)
    BY DEF LinkInv, UpInv
  <2> QED
    BY <1>1, <2>1, UpStays DEF Phase
<1> QED
  BY <1>2, <1>3, <1>4, <1>5 DEF LinkInv

(* It accepts the connection that has waited longest. *)
LEMMA AcceptKeeps ==
  ASSUME LinkInv, BridgeServer_Accept
  PROVE  LinkInv'
<1>1. /\ UNCHANGED << sending, fd, made, down, up, peer, left >> /\ at = "accept" /\ at' = "uplink"
      /\ UNCHANGED << sentDown, gotDown, sentUp, gotUp, short >>
  BY DEF BridgeServer_Accept, history
<1>2. CASE ~(clientFd = 0 /\ backlog # << >>)
  <2>1. UNCHANGED << clientFd, recvBuf, sending, fd, kernel, history >>
    BY <1>1, <1>2 DEF BridgeServer_Accept, kernel, history
  <2> QED
    BY <1>1, <2>1, IdleKeeps
<1>3. CASE clientFd = 0 /\ backlog # << >>
  <2>1. clientFd' = Head(backlog) /\ backlog' = Tail(backlog) /\ recvBuf' = << >>
    BY <1>3 DEF BridgeServer_Accept, RecvBufOnAccept
  <2>2. /\ backlog \in Seq(Conns) /\ \A i \in 1..Len(backlog) : backlog[i] <= made
        /\ made \in 0..MaxConns
    BY DEF LinkInv, Types, KernelTypes
  <2>3. /\ clientFd' = backlog[1] /\ 1 \in 1..Len(backlog) /\ Len(backlog) \in Nat
        /\ backlog' \in Seq(Conns) /\ Len(backlog') = Len(backlog) - 1
        /\ \A i \in 1..Len(backlog') : backlog'[i] = backlog[i + 1]
    BY <1>3, <2>1, <2>2, HeadTailProperties
  <2>4. clientFd' \in Conns /\ clientFd' <= made /\ clientFd' \in 0..made
    BY <2>2, <2>3, BoundsAreNumbers DEF Conns
  <2>5. BridgeTypes'
    <3>1. << >> \in Seq(Byte) /\ Len(<< >>) <= RecvBufSize
      BY BoundsAreNumbers
    <3> QED
      BY <1>1, <2>1, <2>4, <3>1 DEF LinkInv, Types, BridgeTypes
  <2>6. KernelTypes' /\ HistoryTypes'
    <3>1. \A i \in 1..Len(backlog') : i + 1 \in 1..Len(backlog)
      BY <2>3
    <3>2. \A i \in 1..Len(backlog') : backlog'[i] <= made
      BY <2>2, <2>3, <3>1
    <3> QED
      BY <1>1, <2>3, <3>2 DEF LinkInv, Types, KernelTypes, HistoryTypes
  <2>7. Queued'
    <3>1. \A i \in 1..Len(backlog') : i + 1 \in 1..Len(backlog) /\ i + 1 # 1
      BY <2>3
    <3>2. /\ \A i \in 1..Len(backlog) : backlog[i] \notin left
          /\ \A i, j \in 1..Len(backlog) : backlog[i] = backlog[j] => i = j
      BY DEF LinkInv, Queued
    <3>3. \A i \in 1..Len(backlog') : backlog'[i] \notin left /\ backlog'[i] # backlog[1]
      BY <2>3, <3>1, <3>2
    <3>4. ASSUME NEW i \in 1..Len(backlog'), NEW j \in 1..Len(backlog'), backlog'[i] = backlog'[j]
          PROVE  i = j
      <4>1. i + 1 = j + 1
        BY <2>3, <3>1, <3>2, <3>4
      <4> QED
        BY <4>1
    <3> QED
      BY <1>1, <2>3, <3>2, <3>3, <3>4 DEF Queued
  <2>8. OpenToCore'
    BY <1>1 DEF LinkInv, OpenToCore
  <2>9. DownInv'
    <3> SUFFICES ASSUME NEW c \in Conns PROVE DownOK(c)'
      BY DEF DownInv
    <3>1. DownOK(c)
      BY DEF LinkInv, DownInv
    <3>2. c # clientFd
      BY <1>3 DEF Conns
    <3>3. Buffered(c)' = Buffered(c) /\ Ends(c)' = Ends(c)
      BY <1>1, <2>1, <3>2 DEF Buffered, Ends
    <3> QED
      BY <1>1, <3>1, <3>3, DownStays
  <2>10. UpInv'
    <3> SUFFICES ASSUME NEW c \in Conns PROVE UpOK(c)'
      BY DEF UpInv
    <3>1. UpOK(c)
      BY DEF LinkInv, UpInv
    <3> QED
      BY <1>1, <3>1, UpStays DEF Phase
  <2> QED
    BY <2>5, <2>6, <2>7, <2>8, <2>9, <2>10 DEF LinkInv, Types
<1> QED
  BY <1>2, <1>3

(* A bridge that died is started again. *)
LEMMA RestartKeeps ==
  ASSUME LinkInv, BridgeServer_Init
  PROVE  LinkInv'
<1>1. /\ UNCHANGED << clientFd, sending, fd, made, backlog, down, up, peer, left >>
      /\ UNCHANGED << sentDown, gotDown, sentUp, gotUp, short >>
      /\ at = "dead" /\ at' = "accept" /\ recvBuf' = << >>
  BY DEF BridgeServer_Init, kernel, history
<1>2. clientFd = 0
  BY <1>1 DEF LinkInv, Types, BridgeTypes
<1>3. Types'
  <2>1. << >> \in Seq(Byte) /\ Len(<< >>) <= RecvBufSize
    BY BoundsAreNumbers
  <2> QED
    BY <1>1, <2>1 DEF LinkInv, Types, BridgeTypes, KernelTypes, HistoryTypes
<1>4. Queued' /\ OpenToCore'
  BY <1>1 DEF LinkInv, Queued, OpenToCore
<1>5. DownInv'
  <2> SUFFICES ASSUME NEW c \in Conns PROVE DownOK(c)'
    BY DEF DownInv
  <2>1. DownOK(c)
    BY DEF LinkInv, DownInv
  <2>2. c # clientFd
    BY <1>2 DEF Conns
  <2> QED
    BY <1>1, <2>1, <2>2, DownStays DEF Buffered, Ends
<1>6. UpInv'
  <2> SUFFICES ASSUME NEW c \in Conns PROVE UpOK(c)'
    BY DEF UpInv
  <2>1. UpOK(c)
    BY DEF LinkInv, UpInv
  <2> QED
    BY <1>1, <2>1, UpStays DEF Phase
<1> QED
  BY <1>3, <1>4, <1>5, <1>6 DEF LinkInv

(* Nor is what it waits for none. *)
LEMMA WaitingConns ==
  ASSUME LinkInv
  PROVE  \A i \in 1..Len(backlog) : backlog[i] \in Conns /\ backlog[i] # 0
<1>1. backlog \in Seq(Conns)
  BY DEF LinkInv, Types, KernelTypes
<1>2. 0 \notin Conns
  BY DEF Conns
<1> QED
  BY <1>1, <1>2

(* The bridge drops its client, which has closed. *)
LEMMA ClosedKeeps ==
  ASSUME LinkInv, TryRecvClosed
  PROVE  LinkInv'
<1>1. /\ UNCHANGED << sending, fd, made, backlog, down, up, peer >>
      /\ UNCHANGED << sentDown, gotDown, sentUp, gotUp, short >>
      /\ at = "downlink" /\ at' = "accept" /\ recvBuf' = << >> /\ clientFd' = 0
      /\ clientFd # 0 /\ left' = left \cup {clientFd}
  BY DEF TryRecvClosed, Closed, history
<1>2. clientFd \in Conns /\ clientFd <= made /\ made \in Nat
  BY <1>1, ClientConn
<1>3. BridgeTypes'
  <2>1. << >> \in Seq(Byte) /\ Len(<< >>) <= RecvBufSize
    BY BoundsAreNumbers
  <2> QED
    BY <1>1, <1>2, <2>1 DEF LinkInv, Types, BridgeTypes
<1>4. KernelTypes' /\ HistoryTypes'
  <2>1. clientFd \in 1..made
    BY <1>2 DEF Conns
  <2> QED
    BY <1>1, <2>1 DEF LinkInv, Types, KernelTypes, HistoryTypes
<1>5. Queued' /\ OpenToCore'
  <2>1. 0 \notin left'
    BY <1>1, <1>2 DEF LinkInv, Types, KernelTypes, Conns
  <2>2. \A i \in 1..Len(backlog) : backlog[i] # 0
    BY WaitingConns
  <2> QED
    BY <1>1, <2>1, <2>2 DEF LinkInv, Queued, OpenToCore
<1>6. DownInv'
  <2> SUFFICES ASSUME NEW c \in Conns PROVE DownOK(c)'
    BY DEF DownInv
  <2>1. DownOK(c)
    BY DEF LinkInv, DownInv
  <2>2. c # 0 /\ Ends(c)' = Ends(c)
    BY <1>1 DEF Conns, Ends
  <2>3. c \notin left' => c \notin left /\ Buffered(c)' = Buffered(c)
    BY <1>1, <2>2 DEF Buffered
  <2> QED
    BY <1>1, <2>1, <2>2, <2>3, DownStays
<1>7. UpInv'
  <2> SUFFICES ASSUME NEW c \in Conns PROVE UpOK(c)'
    BY DEF UpInv
  <2>1. UpOK(c)
    BY DEF LinkInv, UpInv
  <2> QED
    BY <1>1, <2>1, UpStays DEF Phase
<1> QED
  BY <1>3, <1>4, <1>5, <1>6, <1>7 DEF LinkInv, Types

(* What taking a message makes of the client's downlink. *)
LEMMA Taken ==
  ASSUME LinkInv, clientFd # 0, NEW buf \in Seq(Byte), NEW rest \in Seq(Byte),
         Len(buf) <= RecvBufSize, buf \o rest = recvBuf \o down[clientFd], TakeMessage(buf)
  PROVE  /\ recvBuf' \in Seq(Byte) /\ Len(recvBuf') <= RecvBufSize
         /\ gotDown' \in [Conns -> Seq(LinkPayloads)]
         /\ \A c \in Conns \ {clientFd} : gotDown'[c] = gotDown[c]
         /\ Received(gotDown'[clientFd], sentDown[clientFd])
         /\ DownFlow(recvBuf' \o rest, sentDown[clientFd], gotDown'[clientFd], Ends(clientFd))
<1>1. PICK c \in Conns : c = clientFd /\ c \notin left
  BY ClientConn
<1>2. sentDown \in [Conns -> Seq(LinkPayloads)] /\ gotDown \in [Conns -> Seq(LinkPayloads)]
  BY DEF LinkInv, Types, HistoryTypes
<1>3. PICK s \in Seq(Byte), given \in Seq(LinkPayloads), taken \in Seq(LinkPayloads) :
        s = buf \o rest /\ given = sentDown[c] /\ taken = gotDown[c]
  <2>1. buf \o rest \in Seq(Byte) /\ sentDown[c] \in Seq(LinkPayloads) /\ gotDown[c] \in Seq(LinkPayloads)
    BY <1>1, <1>2, ConcatElements
  <2> QED
    BY <2>1, Zenon
<1>4. PICK tails \in SUBSET LinkTails : tails = Ends(c)
  BY DEF Ends, LinkTails
<1>5. Received(taken, given) /\ DownFlow(s, given, taken, tails)
  <2>1. DownOK(c) /\ Buffered(c) = recvBuf
    BY <1>1 DEF LinkInv, DownInv, Buffered
  <2> QED
    BY <1>1, <1>3, <1>4, <2>1 DEF DownOK
<1>6. CASE ~HasMessage(buf)
  <2>1. recvBuf' = buf /\ gotDown' = gotDown
    BY <1>6 DEF TakeMessage
  <2> QED
    BY <1>1, <1>2, <1>3, <1>4, <1>5, <2>1
<1>7. CASE HasMessage(buf)
  <2>1. /\ HasMessage(s) /\ HeadLen(s) = HeadLen(buf) /\ 4 + HeadLen(buf) \in 0..Len(buf)
        /\ SubSeq(s, 5, 4 + HeadLen(s)) = SubSeq(buf, 5, 4 + HeadLen(buf))
        /\ Drop(s, 4 + HeadLen(s)) = Drop(buf, 4 + HeadLen(buf)) \o rest
    <3>1. s = buf \o rest
      BY <1>3, Zenon
    <3> QED
      BY ONLY <1>7, <3>1, BufferedMessage, buf \in Seq(Byte), rest \in Seq(Byte), s \in Seq(Byte)
  <2>2. PICK m : m = SubSeq(s, 5, 4 + HeadLen(s))
    OBVIOUS
  <2>3. /\ HeadLen(s) \in 1..MaxLen /\ m \in LinkPayloads
        /\ Append(taken, m) \in Seq(LinkPayloads) /\ Received(Append(taken, m), given)
        /\ DownFlow(Drop(s, 4 + HeadLen(s)), given, Append(taken, m), tails)
    BY ONLY <1>5, <2>1, <2>2, DownTaken, s \in Seq(Byte), given \in Seq(LinkPayloads),
            taken \in Seq(LinkPayloads), tails \in SUBSET LinkTails
  <2>4. Min({HeadLen(buf), MaxLen}) = HeadLen(buf)
    <3>1. HeadLen(buf) \in Int /\ MaxLen \in Int /\ HeadLen(buf) <= MaxLen
      BY ONLY <2>1, <2>3, BoundsAreNumbers
    <3> QED
      BY ONLY <3>1, MinOfTwo
  <2>5. recvBuf' = Drop(buf, 4 + HeadLen(buf)) /\ gotDown' = [gotDown EXCEPT ![c] = Append(taken, m)]
    BY <1>1, <1>2, <1>3, <1>7, <2>1, <2>2, <2>4 DEF TakeMessage
  <2>6. recvBuf' \in Seq(Byte) /\ Len(recvBuf') <= RecvBufSize
    <3>1. /\ Drop(buf, 4 + HeadLen(buf)) \in Seq(Byte)
          /\ Len(Drop(buf, 4 + HeadLen(buf))) = Len(buf) - (4 + HeadLen(buf))
      BY <2>1, DropElements
    <3>2. PICK k \in Nat : k = 4 + HeadLen(buf) /\ Len(buf) - k <= Len(buf)
      BY <2>1
    <3>3. Len(buf) - k <= RecvBufSize
      BY <3>2, BoundsAreNumbers
    <3> QED
      BY <2>5, <3>1, <3>2, <3>3
  <2>7. /\ gotDown' \in [Conns -> Seq(LinkPayloads)] /\ gotDown'[c] = Append(taken, m)
        /\ \A d \in Conns \ {c} : gotDown'[d] = gotDown[d]
    BY <1>2, <2>3, <2>5
  <2>8. DownFlow(recvBuf' \o rest, given, Append(taken, m), tails)
    BY <2>1, <2>3, <2>5
  <2> QED
    BY <1>1, <1>3, <1>4, <2>3, <2>6, <2>7, <2>8
<1> QED
  BY <1>6, <1>7

(* Reading from the client and taking a message. *)
LEMMA TakingKeeps ==
  ASSUME LinkInv, clientFd # 0, NEW buf \in Seq(Byte), NEW rest \in Seq(Byte),
         Len(buf) <= RecvBufSize, buf \o rest = recvBuf \o down[clientFd], TakeMessage(buf),
         down' = [down EXCEPT ![clientFd] = rest], at = "downlink", at' = "accept",
         peer' \in [Conns -> States], OpenToCore',
         \A c \in Conns : peer'[c] = "open" => peer[c] = "open",
         UNCHANGED << clientFd, sending, fd, made, backlog, up, left, sentDown, sentUp, gotUp,
                      short >>
  PROVE  LinkInv'
<1>1. /\ recvBuf' \in Seq(Byte) /\ Len(recvBuf') <= RecvBufSize
      /\ gotDown' \in [Conns -> Seq(LinkPayloads)]
      /\ \A c \in Conns \ {clientFd} : gotDown'[c] = gotDown[c]
      /\ Received(gotDown'[clientFd], sentDown[clientFd])
      /\ DownFlow(recvBuf' \o rest, sentDown[clientFd], gotDown'[clientFd], Ends(clientFd))
  BY Taken
<1>2. clientFd \in Conns /\ down \in [Conns -> Seq(Byte)]
  BY ClientConn DEF LinkInv, Types, KernelTypes
<1>3. /\ down' \in [Conns -> Seq(Byte)] /\ down'[clientFd] = rest
      /\ \A c \in Conns \ {clientFd} : down'[c] = down[c]
  BY <1>2
<1>4. Types'
  <2>1. BridgeTypes'
    BY <1>1 DEF LinkInv, Types, BridgeTypes
  <2>2. KernelTypes' /\ HistoryTypes'
    BY <1>1, <1>3 DEF LinkInv, Types, KernelTypes, HistoryTypes
  <2> QED
    BY <2>1, <2>2 DEF Types
<1>5. Queued'
  BY DEF LinkInv, Queued
<1>6. DownInv'
  <2> SUFFICES ASSUME NEW c \in Conns PROVE DownOK(c)'
    BY DEF DownInv
  <2>1. DownOK(c)
    BY DEF LinkInv, DownInv
  <2>2. Ends(c)' = Ends(c)
    BY DEF Ends
  <2>3. CASE c # clientFd
    <3>1. Buffered(c)' = Buffered(c)
      BY <2>3 DEF Buffered
    <3> QED
      BY <1>1, <1>3, <2>1, <2>2, <2>3, <3>1, DownStays
  <2>4. CASE c = clientFd
    <3>1. Buffered(c)' = recvBuf'
      BY <2>4 DEF Buffered
    <3> QED
      BY <1>1, <1>3, <2>2, <2>4, <3>1 DEF DownOK
  <2> QED
    BY <2>3, <2>4
<1>7. UpInv'
  <2> SUFFICES ASSUME NEW c \in Conns PROVE UpOK(c)'
    BY DEF UpInv
  <2>1. UpOK(c)
    BY DEF LinkInv, UpInv
  <2> QED
    BY <2>1, UpStays DEF Phase
<1> QED
  BY <1>4, <1>5, <1>6, <1>7 DEF LinkInv

(* recv() has bytes, or none. *)
LEMMA BytesKeeps ==
  ASSUME LinkInv, TryRecvBytes
  PROVE  LinkInv'
<1>1. /\ UNCHANGED << clientFd, sending, fd, made, backlog, up, peer, left >>
      /\ UNCHANGED << sentDown, sentUp, gotUp, short >>
      /\ clientFd # 0 /\ at = "downlink" /\ at' = "accept"
  BY DEF TryRecvBytes
<1>2. clientFd \in Conns
  BY <1>1, ClientConn
<1>3. recvBuf \in Seq(Byte) /\ Len(recvBuf) <= RecvBufSize /\ down \in [Conns -> Seq(Byte)]
      /\ peer \in [Conns -> States]
  BY DEF LinkInv, Types, BridgeTypes, KernelTypes
<1>4. PICK b \in Seq(Byte), s \in Seq(Byte) : b = recvBuf /\ s = down[clientFd]
  BY <1>2, <1>3
<1> DEFINE most == Min({Len(s), RecvBufSize - Len(b)})
<1>5. PICK n \in Min({1, most})..most :
        TakeMessage(b \o SubSeq(s, 1, n)) /\ down' = [down EXCEPT ![clientFd] = Drop(s, n)]
  BY <1>2, <1>3, <1>4 DEF TryRecvBytes, RecvRoom
<1>6. n \in 0..Len(s) /\ Len(b) + n <= RecvBufSize
  <2>1. /\ Len(s) \in Nat /\ Len(b) \in Nat /\ RecvBufSize - Len(b) \in Nat
        /\ RecvBufSize \in Nat
    BY <1>3, <1>4, BoundsAreNumbers
  <2>2. most = IF Len(s) <= RecvBufSize - Len(b) THEN Len(s) ELSE RecvBufSize - Len(b)
    BY <2>1, MinOfTwo
  <2> HIDE DEF most
  <2>3. PICK x \in Nat : x = most /\ x <= Len(s) /\ x <= RecvBufSize - Len(b)
    BY <2>1, <2>2
  <2>4. Min({1, most}) = IF 1 <= x THEN 1 ELSE x
    BY <2>3, MinOfTwo
  <2>5. n \in Nat /\ n <= x
    BY <2>3, <2>4
  <2> QED
    BY <2>1, <2>3, <2>5
<1> HIDE DEF most
<1>7. /\ b \o SubSeq(s, 1, n) \in Seq(Byte) /\ Drop(s, n) \in Seq(Byte)
      /\ Len(b \o SubSeq(s, 1, n)) = Len(b) + n
      /\ (b \o SubSeq(s, 1, n)) \o Drop(s, n) = b \o s
  BY <1>6, Moved
<1>8. PICK buf \in Seq(Byte), rest \in Seq(Byte) : buf = b \o SubSeq(s, 1, n) /\ rest = Drop(s, n)
  BY <1>7, Zenon
<1>9. /\ Len(buf) <= RecvBufSize /\ buf \o rest = recvBuf \o down[clientFd]
      /\ TakeMessage(buf) /\ down' = [down EXCEPT ![clientFd] = rest]
  BY <1>4, <1>5, <1>6, <1>7, <1>8
<1>10. OpenToCore' /\ peer' \in [Conns -> States]
       /\ \A c \in Conns : peer'[c] = "open" => peer[c] = "open"
  BY <1>1, <1>3 DEF LinkInv, OpenToCore
<1> QED
  BY <1>1, <1>9, <1>10, TakingKeeps

(* recv() fails because of a reset. *)
LEMMA ResetKeeps ==
  ASSUME LinkInv, TryRecvReset
  PROVE  LinkInv'
<1>1. /\ UNCHANGED << clientFd, sending, fd, made, backlog, down, up, left >>
      /\ UNCHANGED << sentDown, sentUp, gotUp, short >>
      /\ clientFd # 0 /\ at = "downlink" /\ at' = "accept" /\ peer[clientFd] = "rst"
      /\ peer' = [peer EXCEPT ![clientFd] = "broken"] /\ TakeMessage(recvBuf)
  BY DEF TryRecvReset
<1>2. clientFd \in Conns /\ clientFd <= made /\ made \in Nat
  BY <1>1, ClientConn
<1>3. recvBuf \in Seq(Byte) /\ Len(recvBuf) <= RecvBufSize /\ down \in [Conns -> Seq(Byte)]
      /\ peer \in [Conns -> States]
  BY DEF LinkInv, Types, BridgeTypes, KernelTypes
<1>4. /\ peer' \in [Conns -> States] /\ peer'[clientFd] = "broken"
      /\ \A c \in Conns \ {clientFd} : peer'[c] = peer[c]
  BY <1>1, <1>2, <1>3 DEF States
<1>5. OpenToCore'
  <2>1. fd # 0 => fd \in Conns /\ fd # clientFd
    BY <1>1, FdOpen
  <2>2. \A c \in Conns : c > made => c # clientFd
    BY <1>2 DEF Conns
  <2> QED
    BY <1>1, <1>4, <2>1, <2>2 DEF LinkInv, OpenToCore
<1>6. \A c \in Conns : peer'[c] = "open" => peer[c] = "open"
  BY <1>4
<1>7. PICK rest \in Seq(Byte) : rest = down[clientFd]
  BY <1>2, <1>3
<1>8. down' = [down EXCEPT ![clientFd] = rest]
  BY <1>1, <1>2, <1>3, <1>7
<1>9. PICK buf \in Seq(Byte) : buf = recvBuf
  BY <1>3
<1> QED
  BY <1>1, <1>3, <1>4, <1>5, <1>6, <1>7, <1>8, <1>9, TakingKeeps

(* What becomes of the client's uplink in one of BridgeServer_Send's calls   *)
(* of send(): all of the bytes go out and the next call follows, the         *)
(* connection is given up, or nothing is promised of it any more.            *)
Outcome(bytes, next) ==
  \/ clientFd \in short' \/ peer'[clientFd] # "open"
  \/ /\ clientFd \in left' /\ at' = "downlink" /\ clientFd' = 0
     /\ up'[clientFd] = up[clientFd] /\ peer'[clientFd] = peer[clientFd]
  \/ /\ clientFd \notin left' /\ at' = next /\ clientFd' = clientFd
     /\ up'[clientFd] = up[clientFd] \o bytes /\ peer'[clientFd] = peer[clientFd]

(* What it does to the rest. *)
Elsewhere(next) ==
  /\ \/ at' = next /\ clientFd' = clientFd
     \/ at' \in {"downlink", "dead"} /\ clientFd' = 0
  /\ recvBuf' \in Seq(Byte) /\ Len(recvBuf') <= RecvBufSize
  /\ short \subseteq short' /\ left \subseteq left'
  /\ \A c \in Conns \ {clientFd} : up'[c] = up[c] /\ peer'[c] = peer[c]

(* A call of send() by the bridge touches the way up of its client only. *)
LEMMA SendingKeeps ==
  ASSUME LinkInv, clientFd # 0, NEW bytes \in Seq(Byte), NEW next \in {"payload", "downlink"},
         SendBytes(bytes, next), UNCHANGED << fd, made, down, sentDown, gotDown, gotUp >>
  PROVE  /\ KernelTypes' /\ Queued' /\ OpenToCore' /\ DownInv'
         /\ Outcome(bytes, next) /\ Elsewhere(next)
<1>1. PICK c \in Conns : c = clientFd /\ c \notin left /\ c <= made /\ made \in Nat /\ c # 0
  BY ClientConn
<1>2. /\ recvBuf \in Seq(Byte) /\ Len(recvBuf) <= RecvBufSize
      /\ up \in [Conns -> Seq(Byte)] /\ peer \in [Conns -> States]
      /\ left \subseteq 1..made /\ short \subseteq 1..made /\ c \in 1..made
      /\ backlog \in Seq(Conns) /\ \A i \in 1..Len(backlog) : backlog[i] <= made
  BY <1>1 DEF LinkInv, Types, BridgeTypes, KernelTypes, Conns
<1>3. 0 \notin left /\ \A i \in 1..Len(backlog) : backlog[i] # 0
  BY <1>1, <1>2, WaitingConns
(* All cases end here. *)
<1>4. ASSUME up' \in [Conns -> Seq(Byte)], peer' \in [Conns -> States],
             short \subseteq short', short' \subseteq short \cup {c},
             left \subseteq left', left' \subseteq 1..made,
             \A d \in Conns \ {c} : up'[d] = up[d] /\ peer'[d] = peer[d],
             peer'[c] = "open" \/ peer[c] # "open",
             recvBuf' = recvBuf \/ (recvBuf' = << >> /\ c \in left'),
             \/ at' = next /\ clientFd' = clientFd /\ left' = left /\ backlog' = backlog
             \/ /\ at' \in {"downlink", "dead"} /\ clientFd' = 0 /\ c \in left'
                /\ \/ backlog' = backlog /\ left' = left \cup {c}
                   \/ backlog' = << >>
      PROVE  KernelTypes' /\ Queued' /\ OpenToCore' /\ DownInv' /\ Elsewhere(next)
  <2>1. KernelTypes'
    <3>1. short' \subseteq 1..made
      BY <1>2, <1>4
    <3>2. backlog' \in Seq(Conns) /\ \A i \in 1..Len(backlog') : backlog'[i] <= made
      <4>1. CASE backlog' = backlog
        BY <1>2, <4>1
      <4>2. CASE backlog' = << >>
        BY <4>2
      <4> QED
        BY <1>4, <4>1, <4>2
    <3> QED
      BY <1>4, <3>1, <3>2 DEF LinkInv, Types, KernelTypes
  <2>2. Queued'
    <3>1. /\ \A i \in 1..Len(backlog) : backlog[i] \notin left /\ backlog[i] # clientFd
          /\ \A i, j \in 1..Len(backlog) : backlog[i] = backlog[j] => i = j
      BY DEF LinkInv, Queued
    <3>2. CASE clientFd' = clientFd /\ left' = left /\ backlog' = backlog
      BY <1>1, <3>1, <3>2 DEF Queued
    <3>3. CASE clientFd' = 0
      <4>1. 0 \notin left'
        BY <1>4
      <4>2. CASE backlog' = backlog /\ left' = left \cup {c}
        BY <1>1, <1>3, <3>1, <3>3, <4>1, <4>2 DEF Queued
      <4>3. CASE backlog' = << >>
        BY <3>3, <4>1, <4>3 DEF Queued
      <4> QED
        BY <1>1, <1>4, <3>2, <3>3, <4>2, <4>3
    <3> QED
      BY <1>4, <3>2, <3>3
  <2>3. OpenToCore'
    <3>1. fd # 0 => fd \in Conns
      BY FdOpen
    <3>2. \A d \in Conns : d > made => d # c
      BY <1>1 DEF Conns
    <3> QED
      BY <1>4, <3>1, <3>2 DEF LinkInv, OpenToCore
  <2>4. DownInv'
    <3> SUFFICES ASSUME NEW d \in Conns PROVE DownOK(d)'
      BY DEF DownInv
    <3>1. DownOK(d)
      BY DEF LinkInv, DownInv
    <3>2. Ends(d)' = Ends(d) /\ d # 0
      BY DEF Ends, Conns
    <3>3. d \notin left' => d \notin left /\ Buffered(d)' = Buffered(d)
      BY <1>1, <1>4, <3>2 DEF Buffered
    <3> QED
      BY <3>1, <3>2, <3>3, DownStays
  <2>5. Elsewhere(next)
    <3>1. recvBuf' \in Seq(Byte) /\ Len(recvBuf') <= RecvBufSize
      <4>1. << >> \in Seq(Byte) /\ Len(<< >>) <= RecvBufSize
        BY BoundsAreNumbers
      <4> QED
        BY <1>2, <1>4, <4>1
    <3> QED
      BY <1>1, <1>4, <3>1 DEF Elsewhere
  <2> QED
    BY <2>1, <2>2, <2>3, <2>4, <2>5
<1>5. CASE Written(bytes) /\ at' = next /\ UNCHANGED << clientFd, recvBuf, backlog, left >>
  <2>1. CASE /\ peer[c] = "open" /\ Writable > 0
             /\ up' = [up EXCEPT ![c] = @ \o SubSeq(bytes, 1, Min({Len(bytes), Writable}))]
             /\ short' = IF Writable < Len(bytes) THEN short \cup {c} ELSE short
             /\ peer' = peer
    <3>1. Writable \in Int /\ Len(bytes) \in Nat
      <4>1. Len(up[c]) \in Nat
        BY <1>2
      <4> QED
        BY <1>1, <4>1, BoundsAreNumbers DEF Writable
    <3>2. Min({Len(bytes), Writable}) = IF Len(bytes) <= Writable THEN Len(bytes) ELSE Writable
      BY <3>1, MinOfTwo
    <3>3. PICK n \in 0..Len(bytes) : /\ n = Min({Len(bytes), Writable})
                                     /\ Len(bytes) <= Writable => n = Len(bytes)
      BY <2>1, <3>1, <3>2
    <3>4. PICK t \in Seq(Byte), s \in Seq(Byte) :
            t = SubSeq(bytes, 1, n) /\ s = up[c] /\ (n = Len(bytes) => t = bytes)
      <4>1. /\ SubSeq(bytes, 1, n) \in Seq(Byte) /\ Len(SubSeq(bytes, 1, n)) = n
            /\ \A i \in 1..n : SubSeq(bytes, 1, n)[i] = bytes[i]
        BY TakeElements
      <4>2. up[c] \in Seq(Byte)
        BY <1>2
      <4>3. n = Len(bytes) => SubSeq(bytes, 1, n) = bytes
        BY <4>1, SeqEqual
      <4> QED
        BY <4>1, <4>2, <4>3, Zenon
    <3>5. s \o t \in Seq(Byte)
      BY ConcatElements
    <3>6. /\ up' \in [Conns -> Seq(Byte)] /\ up'[c] = s \o t
          /\ \A d \in Conns \ {c} : up'[d] = up[d]
      BY <1>2, <2>1, <3>3, <3>4, <3>5
    <3>7. short \subseteq short' /\ short' \subseteq short \cup {c}
      BY <2>1
    <3>8. c \in short' \/ Len(bytes) <= Writable
      BY <2>1, <3>1
    <3>9. Outcome(bytes, next)
      BY <1>1, <1>5, <2>1, <3>3, <3>4, <3>6, <3>8 DEF Outcome
    <3>10. /\ peer' \in [Conns -> States] /\ left' \subseteq 1..made /\ left \subseteq left'
           /\ \A d \in Conns \ {c} : up'[d] = up[d] /\ peer'[d] = peer[d]
           /\ peer'[c] = "open" \/ peer[c] # "open"
           /\ at' = next /\ clientFd' = clientFd /\ left' = left /\ backlog' = backlog
           /\ recvBuf' = recvBuf
      BY <1>2, <1>5, <2>1, <3>6
    <3> QED
      BY <1>4, <3>6, <3>7, <3>9, <3>10
  <2>2. CASE /\ peer[c] = "fin" /\ peer' \in {peer, [peer EXCEPT ![c] = "broken"]}
             /\ up' = up /\ short' = short
    <3>1. /\ peer' \in [Conns -> States] /\ peer'[c] # "open"
          /\ \A d \in Conns \ {c} : peer'[d] = peer[d]
      BY <1>2, <2>2 DEF States
    <3>2. Outcome(bytes, next)
      BY <1>1, <3>1 DEF Outcome
    <3>3. /\ up' \in [Conns -> Seq(Byte)] /\ left' \subseteq 1..made /\ left \subseteq left'
          /\ short \subseteq short' /\ short' \subseteq short \cup {c}
          /\ \A d \in Conns \ {c} : up'[d] = up[d] /\ peer'[d] = peer[d]
          /\ peer'[c] = "open" \/ peer[c] # "open"
          /\ at' = next /\ clientFd' = clientFd /\ left' = left /\ backlog' = backlog
          /\ recvBuf' = recvBuf
      BY <1>2, <1>5, <2>2, <3>1
    <3> QED
      BY <1>4, <3>1, <3>2, <3>3
  <2> QED
    BY <1>1, <1>5, <2>1, <2>2 DEF Written
<1>6. CASE SendFails /\ at' = "downlink"
  <2>1. /\ left' = left \cup {c} /\ clientFd' = 0
        /\ UNCHANGED << recvBuf, backlog, up, peer, short >>
    BY <1>1, <1>6 DEF SendFails, Closed
  <2>2. Outcome(bytes, next)
    BY <1>1, <1>6, <2>1 DEF Outcome
  <2> QED
    BY <1>2, <1>4, <1>6, <2>1, <2>2
<1>7. CASE SigPipe /\ at' = "dead"
  <2>1. /\ left' = left \cup {c} \cup ToSet(backlog) /\ clientFd' = 0 /\ recvBuf' = << >>
        /\ backlog' = << >> /\ UNCHANGED << up, peer, short >> /\ peer[c] = "broken"
    BY <1>1, <1>7 DEF SigPipe
  <2>2. ToSet(backlog) \subseteq 1..made
    <3>1. ASSUME NEW i \in 1..Len(backlog) PROVE backlog[i] \in 1..made
      <4>1. backlog[i] \in Conns /\ backlog[i] <= made
        BY <1>2
      <4>2. backlog[i] \in Int /\ 1 <= backlog[i]
        BY <4>1 DEF Conns
      <4> QED
        BY <1>1, <4>1, <4>2
    <3>2. DOMAIN backlog = 1..Len(backlog)
      BY <1>2
    <3> QED
      BY <3>1, <3>2 DEF ToSet
  <2>3. left \subseteq left' /\ left' \subseteq 1..made /\ c \in left'
    BY <1>2, <2>1, <2>2
  <2>4. Outcome(bytes, next)
    BY <1>1, <2>1 DEF Outcome
  <2> QED
    BY <1>2, <1>4, <1>7, <2>1, <2>3, <2>4
<1> QED
  BY <1>5, <1>6, <1>7 DEF SendBytes

(* A payload's length is sent. *)
LEMMA PrefixKeeps ==
  ASSUME LinkInv, SendPrefix
  PROVE  LinkInv'
<1>1. /\ at = "uplink" /\ clientFd # 0
      /\ UNCHANGED << fd, made, down, sentDown, gotDown, gotUp >>
  BY DEF SendPrefix
<1>2. PICK p \in UpPayloads :
        /\ SendBytes(Prefix(p), "payload")
        /\ sending' = IF at' = "payload" THEN p ELSE None
        /\ sentUp' = [sentUp EXCEPT ![clientFd] = Append(@, p)]
  BY DEF SendPrefix
<1>3. PICK bytes \in Seq(Byte) : bytes = Prefix(p) /\ p \in LinkPayloads
  BY PrefixRead DEF LinkPayloads
<1>4. /\ KernelTypes' /\ Queued' /\ OpenToCore' /\ DownInv'
      /\ Outcome(bytes, "payload") /\ Elsewhere("payload")
  BY <1>1, <1>2, <1>3, SendingKeeps
<1>5. PICK c \in Conns : c = clientFd /\ c \notin left /\ c # 0
  BY <1>1, ClientConn
<1>6. sentUp \in [Conns -> Seq(LinkPayloads)]
  BY DEF LinkInv, Types, HistoryTypes
<1>7. PICK given \in Seq(LinkPayloads), longer \in Seq(LinkPayloads) :
        given = sentUp[c] /\ longer = Append(given, p)
  <2>1. sentUp[c] \in Seq(LinkPayloads) /\ Append(sentUp[c], p) \in Seq(LinkPayloads)
    BY <1>3, <1>6, AppendSent
  <2> QED
    BY <2>1, Zenon
<1>8. /\ sentUp' \in [Conns -> Seq(LinkPayloads)] /\ sentUp'[c] = longer
      /\ \A d \in Conns \ {c} : sentUp'[d] = sentUp[d]
  BY <1>2, <1>5, <1>6, <1>7
<1>9. BridgeTypes'
  <2>1. clientFd' \in 0..made' /\ clientFd \in 0..made
    BY <1>1, <1>4 DEF LinkInv, Types, BridgeTypes, KernelTypes, Elsewhere
  <2>2. \/ at' = "payload" /\ clientFd' # 0 /\ sending' = p
        \/ at' \in {"downlink", "dead"} /\ clientFd' = 0 /\ sending' = None
    BY <1>1, <1>2, <1>4 DEF Elsewhere
  <2> QED
    BY <1>4, <2>1, <2>2 DEF BridgeTypes, Elsewhere
<1>10. HistoryTypes'
  BY <1>1, <1>8 DEF LinkInv, Types, HistoryTypes
<1>11. UpInv'
  <2> SUFFICES ASSUME NEW d \in Conns PROVE UpOK(d)'
    BY DEF UpInv
  <2>1. UpOK(d)
    BY DEF LinkInv, UpInv
  <2>2. CASE d # c
    <3>1. Phase(d)' = "gone" \/ Phase(d)' = Phase(d)
      BY <1>1, <1>4, <1>5, <2>2 DEF Phase, Elsewhere, Conns
    <3>2. Phase(d)' # "begun"
      BY <1>1, <1>4, <1>5, <2>2 DEF Phase, Elsewhere, Conns
    <3> QED
      BY <1>1, <1>4, <1>5, <1>8, <2>1, <2>2, <3>1, <3>2, UpStays DEF Elsewhere
  <2>3. CASE d = c
    <3> SUFFICES ASSUME c \notin short' PROVE UpOK(c)'
      BY <2>3 DEF UpOK
    <3>1. PICK taken \in Seq(LinkPayloads) : taken = gotUp[c] /\ Received(taken, given)
      BY <1>4, <1>7, <2>1, <2>3 DEF UpOK, Elsewhere
    <3>2. Received(taken, longer)
      BY <1>3, <1>7, <3>1, AppendSent
    <3>3. CASE peer'[c] # "open"
      BY <1>1, <1>8, <3>1, <3>2, <3>3 DEF UpOK
    <3>4. CASE peer'[c] = "open"
      <4>1. PICK q : q = sending'
        OBVIOUS
      <4>2. PICK s \in Seq(Byte) : s = up[c]
        BY <1>5 DEF LinkInv, Types, KernelTypes
      <4>3. peer[c] = "open" /\ Phase(c) = "whole"
        BY <1>1, <1>4, <1>5, <3>4 DEF Outcome, Phase
      <4>4. UpFlow(s, given, taken, "whole", q)
        <5>1. UpFlow(s, given, taken, "whole", sending)
          BY <1>4, <1>7, <2>1, <2>3, <3>1, <4>2, <4>3 DEF UpOK, Elsewhere
        <5> QED
          BY <5>1 DEF UpFlow
      <4>5. /\ UpFlow(s \o bytes, longer, taken, "begun", p)
            /\ UpFlow(s, longer, taken, "gone", q)
        BY <1>3, <1>7, <4>4, UpBegun
      <4>6. CASE c \in left' /\ up'[c] = up[c]
        <5>1. Phase(c)' = "gone"
          BY <4>6 DEF Phase
        <5> QED
          BY <1>1, <1>8, <3>1, <3>2, <4>1, <4>2, <4>5, <4>6, <5>1 DEF UpOK
      <4>7. CASE c \notin left' /\ at' = "payload" /\ clientFd' = c /\ up'[c] = up[c] \o bytes
        <5>1. Phase(c)' = "begun" /\ sending' = p
          BY <1>2, <4>7 DEF Phase
        <5> QED
          BY <1>1, <1>8, <3>1, <3>2, <4>2, <4>5, <4>7, <5>1 DEF UpOK
      <4> QED
        BY <1>4, <1>5, <3>4, <4>6, <4>7 DEF Outcome
    <3> QED
      BY <3>3, <3>4
  <2> QED
    BY <2>2, <2>3
<1> QED
  BY <1>4, <1>9, <1>10, <1>11 DEF LinkInv, Types

(* And then itself. *)
LEMMA PayloadKeeps ==
  ASSUME LinkInv, SendPayload
  PROVE  LinkInv'
<1>1. /\ at = "payload" /\ sending' = None /\ SendBytes(sending, "downlink")
      /\ UNCHANGED << fd, made, down, sentDown, gotDown, sentUp, gotUp >>
  BY DEF SendPayload
<1>2. clientFd # 0 /\ sending \in UpPayloads
  BY <1>1 DEF LinkInv, Types, BridgeTypes
<1>3. PICK p \in LinkPayloads : p = sending /\ p \in Seq(Byte)
  BY <1>2, PayloadLengths DEF LinkPayloads
<1>4. /\ KernelTypes' /\ Queued' /\ OpenToCore' /\ DownInv'
      /\ Outcome(p, "downlink") /\ Elsewhere("downlink")
  BY <1>1, <1>2, <1>3, SendingKeeps
<1>5. PICK c \in Conns : c = clientFd /\ c \notin left /\ c # 0
  BY <1>2, ClientConn
<1>6. PICK given \in Seq(LinkPayloads), s \in Seq(Byte) : given = sentUp[c] /\ s = up[c]
  BY <1>5 DEF LinkInv, Types, HistoryTypes, KernelTypes
<1>7. BridgeTypes'
  <2>1. clientFd' \in 0..made' /\ clientFd \in 0..made
    BY <1>1, <1>4 DEF LinkInv, Types, BridgeTypes, KernelTypes, Elsewhere
  <2>2. at' = "downlink" \/ (at' = "dead" /\ clientFd' = 0)
    BY <1>4 DEF Elsewhere
  <2> QED
    BY <1>1, <1>4, <2>1, <2>2 DEF BridgeTypes, Elsewhere
<1>8. HistoryTypes'
  BY <1>1 DEF LinkInv, Types, HistoryTypes
<1>9. UpInv'
  <2> SUFFICES ASSUME NEW d \in Conns PROVE UpOK(d)'
    BY DEF UpInv
  <2>1. UpOK(d)
    BY DEF LinkInv, UpInv
  <2>2. CASE d # c
    <3>1. Phase(d)' = "gone" \/ Phase(d)' = Phase(d)
      BY <1>1, <1>4, <1>5, <2>2 DEF Phase, Elsewhere
    <3>2. Phase(d)' # "begun"
      BY <1>1, <1>4, <1>5, <2>2 DEF Phase, Elsewhere
    <3> QED
      BY <1>1, <1>4, <1>5, <2>1, <2>2, <3>1, <3>2, UpStays DEF Elsewhere
  <2>3. CASE d = c
    <3> SUFFICES ASSUME c \notin short' PROVE UpOK(c)'
      BY <2>3 DEF UpOK
    <3>1. PICK taken \in Seq(LinkPayloads) : taken = gotUp[c] /\ Received(taken, given)
      BY <1>4, <1>6, <2>1, <2>3 DEF UpOK, Elsewhere
    <3>2. CASE peer'[c] # "open"
      BY <1>1, <1>6, <3>1, <3>2 DEF UpOK
    <3>3. CASE peer'[c] = "open"
      <4>1. peer[c] = "open" /\ Phase(c) = "begun"
        BY <1>1, <1>4, <1>5, <3>3 DEF Outcome, Phase
      <4>2. UpFlow(s, given, taken, "begun", p)
        BY <1>3, <1>4, <1>6, <2>1, <2>3, <3>1, <4>1 DEF UpOK, Elsewhere
      <4>3. CASE c \in left' /\ up'[c] = up[c]
        <5>1. Phase(c)' = "gone"
          BY <4>3 DEF Phase
        <5>2. UpFlow(s, given, taken, "gone", sending')
          BY <4>2 DEF UpFlow
        <5> QED
          BY <1>1, <1>6, <3>1, <4>3, <5>1, <5>2 DEF UpOK
      <4>4. CASE c \notin left' /\ at' = "downlink" /\ clientFd' = c /\ up'[c] = up[c] \o p
        <5>1. Phase(c)' = "whole"
          BY <4>4 DEF Phase
        <5>2. PICK q : q = sending'
          OBVIOUS
        <5>3. UpFlow(s \o p, given, taken, "whole", q)
          BY <4>2, UpEnded
        <5> QED
          BY <1>1, <1>6, <3>1, <4>4, <5>1, <5>2, <5>3 DEF UpOK
      <4> QED
        BY <1>4, <1>5, <3>3, <4>3, <4>4 DEF Outcome
    <3> QED
      BY <3>2, <3>3
  <2> QED
    BY <2>2, <2>3
<1> QED
  BY <1>4, <1>7, <1>8, <1>9 DEF LinkInv, Types

-----------------------------------------------------------------------------
(* The theorems *)

(* What is the beginning of a sequence is a prefix of it. *)
LEMMA ReceivedIsPrefix ==
  ASSUME NEW taken \in Seq(LinkPayloads), NEW given \in Seq(LinkPayloads), Received(taken, given)
  PROVE  IsPrefix(taken, given)
<1>1. PICK n \in Nat : n = Len(taken) /\ n \in 0..Len(given) /\ n \in 0..Len(taken)
  BY DEF Received
<1>2. /\ SubSeq(given, 1, n) \in Seq(LinkPayloads) /\ Len(SubSeq(given, 1, n)) = n
      /\ \A i \in 1..n : SubSeq(given, 1, n)[i] = given[i]
  BY <1>1, TakeElements
<1>3. /\ SubSeq(taken, 1, n) \in Seq(LinkPayloads) /\ Len(SubSeq(taken, 1, n)) = n
      /\ \A i \in 1..n : SubSeq(taken, 1, n)[i] = taken[i]
  BY <1>1, TakeElements
<1>4. \A i \in 1..n : taken[i] = given[i]
  BY <1>1 DEF Received
<1>5. SubSeq(taken, 1, n) = SubSeq(given, 1, n)
  BY <1>2, <1>3, <1>4, SeqEqual
<1> QED
  BY <1>1, <1>5 DEF IsPrefix, Received

(* No connection has been made, nothing sent. *)
LEMMA LinkInvInit ==
  ASSUME Init
  PROVE  LinkInv
<1> USE BoundsAreNumbers
<1>1. /\ clientFd = 0 /\ recvBuf = << >> /\ at = "accept" /\ sending = None
      /\ fd = 0 /\ made = 0 /\ backlog = << >> /\ left = {} /\ short = {}
      /\ down = [c \in Conns |-> << >>] /\ up = [c \in Conns |-> << >>]
      /\ peer = [c \in Conns |-> "open"]
      /\ sentDown = [c \in Conns |-> << >>] /\ gotDown = [c \in Conns |-> << >>]
      /\ sentUp = [c \in Conns |-> << >>] /\ gotUp = [c \in Conns |-> << >>]
  BY DEF Init
<1>2. /\ << >> \in Seq(Byte) /\ << >> \in Seq(LinkPayloads) /\ << >> \in Seq(Seq(Byte))
      /\ << >> \in Seq(Conns) /\ Len(<< >>) = 0 /\ << >> \o << >> = << >>
  OBVIOUS
<1>3. Types
  <2>1. BridgeTypes
    BY <1>1, <1>2 DEF BridgeTypes
  <2>2. KernelTypes
    BY <1>1, <1>2 DEF KernelTypes, States
  <2>3. HistoryTypes
    BY <1>1, <1>2 DEF HistoryTypes
  <2> QED
    BY <2>1, <2>2, <2>3 DEF Types
<1>4. Queued /\ OpenToCore
  BY <1>1 DEF Queued, OpenToCore
<1>5. /\ Received(<< >>, << >>) /\ << >> \in LinkTails
      /\ Carries(<< >>, << >>, 0, 0, << >>)
  <2>1. Received(<< >>, << >>)
    BY <1>2 DEF Received
  <2>2. PICK e \in Seq(LinkPayloads) : e = << >>
    BY <1>2
  <2>3. Carries(<< >>, e, 0, 0, << >>)
    BY NothingIsCarried
  <2> QED
    BY <2>1, <2>2, <2>3 DEF LinkTails
<1>6. ASSUME NEW c \in Conns PROVE DownOK(c) /\ UpOK(c)
  <2>1. /\ Buffered(c) = << >> /\ down[c] = << >> /\ sentDown[c] = << >> /\ gotDown[c] = << >>
        /\ sentUp[c] = << >> /\ gotUp[c] = << >> /\ up[c] = << >> /\ Phase(c) = "whole"
    BY <1>1 DEF Buffered, Phase
  <2>2. << >> \in Ends(c)
    BY <1>5 DEF Ends
  <2>3. DownFlow(<< >>, << >>, << >>, Ends(c))
    BY <1>2, <1>5, <2>2 DEF DownFlow
  <2>4. UpFlow(<< >>, << >>, << >>, "whole", sending)
    BY <1>2, <1>5 DEF UpFlow
  <2> QED
    BY <1>2, <1>5, <2>1, <2>3, <2>4 DEF DownOK, UpOK
<1> QED
  BY <1>3, <1>4, <1>6 DEF LinkInv, DownInv, UpInv

(* One step of anybody. *)
LEMMA LinkInvNext ==
  ASSUME LinkInv, [Next]_vars
  PROVE  LinkInv'
<1>1. CASE CcCore_LncConnect
  BY <1>1, ConnectKeeps
<1>2. CASE CcCore_LncSend
  BY <1>2, SendDownKeeps
<1>3. CASE CcCore_LncRecv
  BY <1>3, RecvUpKeeps
<1>4. CASE CcCore_LncRecvFails
  BY <1>4, RecvFailsKeeps
<1>5. CASE CcCore_Close
  BY <1>5, CloseKeeps
<1>6. CASE CcCore_CrashInSend
  BY <1>6, CrashKeeps
<1>7. CASE BridgeServer_Accept
  BY <1>7, AcceptKeeps
<1>8. CASE NothingToForward
  BY <1>8, IdleKeeps DEF NothingToForward
<1>9. CASE SendPrefix
  BY <1>9, PrefixKeeps
<1>10. CASE SendPayload
  BY <1>10, PayloadKeeps
<1>11. CASE TryRecvBytes
  BY <1>11, BytesKeeps
<1>12. CASE TryRecvClosed
  BY <1>12, ClosedKeeps
<1>13. CASE TryRecvReset
  BY <1>13, ResetKeeps
<1>14. CASE NoClient
  BY <1>14, IdleKeeps DEF NoClient
<1>15. CASE BridgeServer_Init
  BY <1>15, RestartKeeps
<1>16. CASE UNCHANGED vars
  <2>1. /\ UNCHANGED << clientFd, recvBuf, at, sending, fd, made, backlog, down, up, peer, left >>
        /\ UNCHANGED << sentDown, gotDown, sentUp, gotUp, short >>
    BY <1>16 DEF vars, bridge, kernel, history
  <2>2. Types' /\ Queued' /\ OpenToCore'
    BY <2>1 DEF LinkInv, Types, BridgeTypes, KernelTypes, HistoryTypes, Queued, OpenToCore
  <2>3. DownInv' /\ UpInv'
    BY <2>1, DownStays, UpStays DEF LinkInv, DownInv, UpInv, Buffered, Ends, Phase
  <2> QED
    BY <2>2, <2>3 DEF LinkInv
<1> QED
  BY <1>1, <1>2, <1>3, <1>4, <1>5, <1>6, <1>7, <1>8, <1>9, <1>10, <1>11, <1>12, <1>13,
     <1>14, <1>15, <1>16 DEF Next, Core, Turn

(* What the invariant says to those who use the link. *)
LEMMA LinkInvMeans ==
  ASSUME LinkInv
  PROVE  TypeOK /\ DownInOrder /\ UpInOrder
<1>1. DownInOrder
  <2> SUFFICES ASSUME NEW c \in Conns PROVE IsPrefix(gotDown[c], sentDown[c])
    BY DEF DownInOrder
  <2>1. PICK taken \in Seq(LinkPayloads), given \in Seq(LinkPayloads) : taken = gotDown[c] /\ given = sentDown[c]
    BY DEF LinkInv, Types, HistoryTypes
  <2>2. Received(taken, given)
    BY <2>1 DEF LinkInv, DownInv, DownOK
  <2> QED
    BY <2>1, <2>2, ReceivedIsPrefix
<1>2. UpInOrder
  <2> SUFFICES ASSUME NEW c \in Conns, c \notin short PROVE IsPrefix(gotUp[c], sentUp[c])
    BY DEF UpInOrder
  <2>1. PICK given \in Seq(LinkPayloads) : given = sentUp[c]
    BY DEF LinkInv, Types, HistoryTypes
  <2>2. PICK taken \in Seq(LinkPayloads) : taken = gotUp[c] /\ Received(taken, given)
    BY <2>1 DEF LinkInv, UpInv, UpOK
  <2> QED
    BY <2>1, <2>2, ReceivedIsPrefix
<1>3. TypeOK
  <2>1. /\ clientFd \in 0..made /\ fd \in 0..made /\ made \in 0..MaxConns
        /\ recvBuf \in Seq(0..255) /\ Len(recvBuf) <= RecvBufSize
        /\ at \in {"accept", "uplink", "payload", "downlink", "dead"}
        /\ sending \in UpPayloads \cup {None}
    BY DEF LinkInv, Types, BridgeTypes, KernelTypes, Byte
  <2>2. /\ left \subseteq 1..made /\ short \subseteq 1..made
        /\ \A c \in Conns : /\ down[c] \in Seq(0..255) /\ up[c] \in Seq(0..255)
                            /\ peer[c] \in {"open", "fin", "rst", "broken"}
    BY DEF LinkInv, Types, KernelTypes, Byte, States
  <2>3. /\ backlog \in Seq(Conns) /\ DOMAIN backlog = 1..Len(backlog) /\ Len(backlog) \in Nat
        /\ \A i \in 1..Len(backlog) : backlog[i] <= made
    BY DEF LinkInv, Types, KernelTypes
  <2>4. backlog \in Seq(1..made)
    <3>1. ASSUME NEW i \in 1..Len(backlog) PROVE backlog[i] \in 1..made
      <4>1. backlog[i] \in Conns /\ made \in Int
        BY <2>1, <2>3, BoundsAreNumbers
      <4>2. backlog[i] \in Int /\ 1 <= backlog[i]
        BY <4>1 DEF Conns
      <4> QED
        BY <2>3, <4>1, <4>2
    <3>2. backlog \in [1..Len(backlog) -> 1..made]
      BY <2>3, <3>1
    <3>3. backlog \in UNION {[1..n -> 1..made] : n \in Nat}
      BY <2>3, <3>2, Zenon
    <3>4. Seq(1..made) = UNION {[1..n -> 1..made] : n \in Nat}
      BY SeqDef, Zenon
    <3> QED
      BY <3>3, <3>4, Zenon
  <2>5. clientFd \notin left \cup ToSet(backlog)
    BY <2>3 DEF LinkInv, Queued, ToSet
  <2> QED
    BY <2>1, <2>2, <2>4, <2>5 DEF TypeOK
<1> QED
  BY <1>1, <1>2, <1>3

(* The types of the link's variables: the bridge's buffer is never overrun   *)
(* and its client is none it has given up.                                   *)
THEOREM LinkTyping == Spec => []TypeOK
<1>1. Init => LinkInv
  BY LinkInvInit
<1>2. LinkInv /\ [Next]_vars => LinkInv'
  BY LinkInvNext
<1>3. LinkInv => TypeOK
  BY LinkInvMeans
<1> QED
  BY <1>1, <1>2, <1>3, PTL DEF Spec

(* What BridgeServer_TryRecv hands over are its clients' messages, each      *)
(* client's own, whole and in order.                                         *)
THEOREM DownlinkInOrder == Spec => []DownInOrder
<1>1. Init => LinkInv
  BY LinkInvInit
<1>2. LinkInv /\ [Next]_vars => LinkInv'
  BY LinkInvNext
<1>3. LinkInv => DownInOrder
  BY LinkInvMeans
<1> QED
  BY <1>1, <1>2, <1>3, PTL DEF Spec

(* What CcCore_LncRecv returns are the payloads BridgeServer_Send was given  *)
(* for that connection, whole and in order, as long as send() has not        *)
(* written a part of what it was given.                                      *)
THEOREM UplinkInOrder == Spec => []UpInOrder
<1>1. Init => LinkInv
  BY LinkInvInit
<1>2. LinkInv /\ [Next]_vars => LinkInv'
  BY LinkInvNext
<1>3. LinkInv => UpInOrder
  BY LinkInvMeans
<1> QED
  BY <1>1, <1>2, <1>3, PTL DEF Spec

(* The same of the bridge whose downlink writes to the UART. *)
THEOREM WithDownlink == DownlinkSpec => [](TypeOK /\ DownInOrder /\ UpInOrder)
<1>1. DownlinkInit => LinkInv
  BY LinkInvInit DEF DownlinkInit
<1>2. [DownlinkNext]_<< vars, line >> => [Next]_vars
  BY DEF DownlinkNext, Next, Turn
<1>3. LinkInv /\ [DownlinkNext]_<< vars, line >> => LinkInv'
  BY <1>2, LinkInvNext
<1>4. LinkInv => TypeOK /\ DownInOrder /\ UpInOrder
  BY LinkInvMeans
<1> QED
  BY <1>1, <1>3, <1>4, PTL DEF DownlinkSpec

(* The bridge, while it lives, gives up a connection only when the core has, *)
(* or has left unread all that the kernel keeps for it.                      *)
THEOREM KeptWhileCoreStays == Spec => ClosedOnlyIfCoreLeft
<1> DEFINE A == at' # "dead" =>
                  \A c \in left' \ left : peer[c] # "open" \/ Len(up[c]) >= SendRoom
<1>1. Init => LinkInv
  BY LinkInvInit
<1>2. LinkInv /\ [Next]_vars => LinkInv'
  BY LinkInvNext
<1>3. LinkInv /\ [Next]_vars => [A]_vars
  <2> SUFFICES ASSUME LinkInv, Next, at' # "dead", NEW c \in left' \ left
               PROVE  peer[c] # "open" \/ Len(up[c]) >= SendRoom
    BY Zenon
  <2>1. ASSUME SendFails PROVE peer[c] # "open" \/ Len(up[c]) >= SendRoom
    <3>1. c = clientFd
      BY <2>1 DEF SendFails
    <3>2. c # 0
      <4>1. left' \subseteq 1..made'
        BY LinkInvNext DEF LinkInv, Types, KernelTypes
      <4> QED
        BY <4>1
    <3>3. CASE peer[c] = "open" /\ Writable <= 0
      <4>1. c \in Conns /\ up[c] \in Seq(Byte)
        <5>1. c \in Conns
          BY <3>1, <3>2, ClientConn
        <5> QED
          BY <5>1 DEF LinkInv, Types, KernelTypes
      <4>2. Len(up[c]) \in Nat /\ SendRoom \in Nat /\ SendRoom - Len(up[c]) <= 0
        BY <3>1, <3>3, <4>1, BoundsAreNumbers DEF Writable
      <4> QED
        BY ONLY <4>2
    <3>4. CASE peer[c] = "rst"
      BY <3>4
    <3> QED
      BY <2>1, <3>1, <3>3, <3>4 DEF SendFails
  <2>2. CASE Core \/ BridgeServer_Init \/ BridgeServer_Accept \/ NothingToForward
               \/ TryRecvBytes \/ TryRecvReset \/ NoClient
    BY <2>2 DEF Core, CcCore_LncConnect, CcCore_LncSend, CcCore_LncRecv, CcCore_LncRecvFails,
                CcCore_Close, CcCore_CrashInSend, BridgeServer_Init, BridgeServer_Accept,
                NothingToForward, TryRecvBytes, TryRecvReset, NoClient, kernel
  <2>3. CASE TryRecvClosed
    BY <2>3 DEF TryRecvClosed, Eof
  <2>4. CASE SendPrefix
    <3>1. PICK p \in UpPayloads : SendBytes(Prefix(p), "payload")
      BY <2>4 DEF SendPrefix
    <3>2. left' = left \/ SendFails
      BY <3>1 DEF SendBytes
    <3> QED
      BY <2>1, <3>2
  <2>5. CASE SendPayload
    <3>1. left' = left \/ SendFails
      BY <2>5 DEF SendPayload, SendBytes
    <3> QED
      BY <2>1, <3>1
  <2> QED
    BY <2>2, <2>3, <2>4, <2>5 DEF Next, Turn
<1> QED
  BY <1>1, <1>2, <1>3, PTL DEF Spec, ClosedOnlyIfCoreLeft

-----------------------------------------------------------------------------
(* The LNC's buffer *)

(* Every payload of the core can be framed, and is not empty.                *)
LEMMA DownFramable ==
  ASSUME NEW p \in DownPayloads
  PROVE  Framable(p) /\ p # << >> /\ p \in LinkPayloads /\ Len(p) \in Nat
<1>1. p \in LinkPayloads
  BY DEF LinkPayloads
<1>2. p \in Seq(Byte) /\ Len(p) \in Nat /\ 1 <= Len(p) /\ Len(p) <= (256 * 256 - 1)
  BY <1>1, PayloadLengths
<1>3. p # << >>
  BY <1>2
<1>4. Len(p) \in U16 /\ Crc(Protocol_PutU16(Len(p)) \o p) \in U16
  BY BridgeDownlinkAssumption DEF BridgeDownlinkAssumption
<1> QED
  BY <1>1, <1>2, <1>3, <1>4 DEF Framable

(* START and no other behind it, if anything. *)
Marked(f) == f = << >> \/ \E r \in Seq(Byte \ {START}) : f = << START >> \o r

(* What reaches the LNC of a frame is that. *)
LEMMA PieceMarked ==
  ASSUME NEW p \in DownPayloads, NEW f \in PiecesOf(p)
  PROVE  f \in Seq(Byte) /\ Marked(f)
<1>1. PICK r \in Seq(Byte \ {START}) : Frame(p) = << START >> \o r
  <2>1. Body(p) \in Seq(Byte)
    BY DownFramable, FrameLengths
  <2>2. Stuffed(Body(p)) \in Seq(Byte \ {START})
    BY <2>1, StuffedBytes
  <2> QED
    BY <2>2 DEF Frame
<1>2. PICK N : N = Byte \ {START}
  OBVIOUS
<1>3. START \in Byte
  BY DEF START, Byte
<1>4. CASE f = Frame(p)
  <2>1. Frame(p) \in Seq(Byte)
    BY DownFramable, FrameLengths
  <2> QED
    BY <1>1, <1>4, <2>1 DEF Marked
<1>5. ASSUME NEW k \in Nat, k < Len(Frame(p)), f = SubSeq(Frame(p), 1, k)
      PROVE  f \in Seq(Byte) /\ Marked(f)
  <2>1. PICK s \in Seq(Byte) : s = Frame(p)
    BY DownFramable, FrameLengths
  <2>2. k \in 0..Len(s)
    BY <1>5, <2>1, LenProperties
  <2>3. f \in Seq(Byte)
    BY <1>5, <2>1, <2>2, SplitBytes
  <2>4. CASE k = 0
    BY <1>5, <2>1, <2>3, <2>4, SubSeqEmpty DEF Marked
  <2>5. CASE k # 0
    <3>1. r \in Seq(N) /\ Len(r) \in Nat /\ Len(s) = 1 + Len(r)
      <4>1. r \in Seq(N)
        BY <1>2
      <4> QED
        BY ONLY <4>1, <1>1, <2>1
    <3>2. k - 1 \in 0..Len(r)
      BY <2>2, <2>5, <3>1
    <3>3. PICK u \in Seq(N), v \in Seq(N) : u = SubSeq(r, 1, k - 1) /\ Len(u) = k - 1 /\ r = u \o v
      <4>1. PICK j \in 0..Len(r) : j = k - 1
        BY <3>2
      <4>2. /\ SubSeq(r, 1, j) \in Seq(N) /\ Len(SubSeq(r, 1, j)) = j
            /\ SubSeq(r, j + 1, Len(r)) \in Seq(N)
            /\ r = SubSeq(r, 1, j) \o SubSeq(r, j + 1, Len(r))
        BY ONLY <3>1, Split, j \in 0..Len(r)
      <4> QED
        BY <4>1, <4>2, Zenon
    <3>4. u \in Seq(Byte) /\ v \in Seq(Byte) /\ << START >> \in Seq(Byte)
      BY <1>2, <1>3, <3>3
    <3>5. s = (<< START >> \o u) \o v
      BY <1>1, <2>1, <3>3, <3>4, BytesAssociate
    <3>6. Len(<< START >> \o u) = k /\ << START >> \o u \in Seq(Byte)
      <4>1. Len(<< START >> \o u) = 1 + Len(u) /\ Len(u) \in Nat
        BY <3>4, ConcatLength
      <4> QED
        BY <3>3, <3>4, <4>1, JoinedBytes
    <3>7. f = << START >> \o u
      <4>1. PICK h \in Seq(Byte) : h = << START >> \o u /\ Len(h) = k
        BY <3>6
      <4>2. SubSeq(h \o v, 1, Len(h)) = h
        BY <3>4, Parts
      <4> QED
        BY <1>5, <2>1, <3>5, <4>1, <4>2
    <3> QED
      BY <1>2, <2>3, <3>3, <3>7 DEF Marked
  <2> QED
    BY <2>4, <2>5
<1> QED
  BY <1>4, <1>5, BridgeDownlinkAssumption DEF PiecesOf, CutFrames, BridgeDownlinkAssumption

(* So many of what has been sent have been received, or left out: some of    *)
(* the first m, in order.                                                    *)
Drawn(taken, given, m) ==
  \E from \in [1..Len(taken) -> 1..m] :
    /\ \A i, j \in 1..Len(taken) : i < j => from[i] < from[j]
    /\ \A i \in 1..Len(taken) : taken[i] = given[from[i]]

(* And of each of the others a piece, at least, is in the buffer behind what *)
(* is left of an earlier one.                                                *)
InPieces(b, given, m, z, fs) ==
  /\ Len(fs) = Len(given) - m
  /\ \A i \in 1..Len(fs) : fs[i] \in PiecesOf(given[m + i])
  /\ b = z \o FlattenSeq(fs)

Holds(b, taken, given, m, z, fs) ==
  /\ m \in 0..Len(given) /\ z \in Seq(Byte \ {START}) /\ fs \in Seq(Seq(Byte))
  /\ InPieces(b, given, m, z, fs) /\ Drawn(taken, given, m)

Held(b, taken, given) == \E m, z, fs : Holds(b, taken, given, m, z, fs)

(* Nothing has been sent. *)
LEMMA HeldNothing == Held(<< >>, << >>, << >>)
<1>1. Drawn(<< >>, << >>, 0)
  <2>1. PICK from : from = << >>
    OBVIOUS
  <2>2. Len(<< >>) = 0 /\ from \in [1..0 -> 1..0]
    BY <2>1
  <2>3. \A i \in 1..0 : FALSE
    OBVIOUS
  <2> QED
    BY <2>2, <2>3 DEF Drawn
<1>2. Len(<< >>) = 0 /\ << >> \in Seq(Byte \ {START}) /\ << >> \in Seq(Seq(Byte)) /\ 0 \in 0..0
  OBVIOUS
<1>3. << >> = << >> \o FlattenSeq(<< >>)
  <2>1. << >> \o << >> = << >>
    BY ConcatEmptySeq
  <2> QED
    BY <2>1, FlattenNothing
<1>4. InPieces(<< >>, << >>, 0, << >>, << >>)
  <2>1. \A i \in 1..0 : FALSE
    OBVIOUS
  <2> QED
    BY <1>2, <1>3, <2>1 DEF InPieces
<1>5. Holds(<< >>, << >>, << >>, 0, << >>, << >>)
  BY <1>1, <1>2, <1>4 DEF Holds
<1> QED
  BY <1>5 DEF Held

(* One more may be left out, or received. *)
LEMMA DrawnOn ==
  ASSUME NEW D, NEW taken \in Seq(D), NEW given \in Seq(D), NEW m \in Nat, m + 1 <= Len(given),
         Drawn(taken, given, m)
  PROVE  Drawn(taken, given, m + 1) /\ Drawn(Append(taken, given[m + 1]), given, m + 1)
<1>1. PICK from \in [1..Len(taken) -> 1..m] :
        /\ \A i, j \in 1..Len(taken) : i < j => from[i] < from[j]
        /\ \A i \in 1..Len(taken) : taken[i] = given[from[i]]
  BY DEF Drawn
<1>2. Len(taken) \in Nat /\ Len(given) \in Nat
  BY LenProperties
<1>3. Drawn(taken, given, m + 1)
  <2>1. from \in [1..Len(taken) -> 1..(m + 1)]
    BY <1>1, <1>2
  <2> QED
    BY <1>1, <2>1 DEF Drawn
<1>4. PICK n \in Nat, e \in D : n = Len(taken) /\ e = given[m + 1]
  <2>1. m + 1 \in 1..Len(given)
    BY <1>2
  <2>2. given[m + 1] \in D
    BY <2>1, ElementOfSeq
  <2> QED
    BY <1>2, <2>2
<1>5. PICK longer : /\ longer = Append(taken, e) /\ Len(longer) = n + 1
                    /\ longer[n + 1] = e /\ \A i \in 1..n : longer[i] = taken[i]
  <2>1. /\ Len(Append(taken, e)) = Len(taken) + 1 /\ Append(taken, e)[Len(taken) + 1] = e
        /\ \A i \in 1..Len(taken) : Append(taken, e)[i] = taken[i]
    BY ONLY AppendElements, taken \in Seq(D), e \in D
  <2> QED
    BY <1>4, <2>1, Zenon
<1> DEFINE g == [i \in 1..(n + 1) |-> IF i = n + 1 THEN m + 1 ELSE from[i]]
<1>6. \A i \in 1..n : from[i] \in 1..m
  BY <1>1, <1>4
<1>7. g \in [1..(n + 1) -> 1..(m + 1)]
  BY <1>4, <1>6
<1>8. ASSUME NEW i \in 1..(n + 1) PROVE longer[i] = given[g[i]]
  BY <1>1, <1>4, <1>5
<1>9. ASSUME NEW i \in 1..(n + 1), NEW j \in 1..(n + 1), i < j PROVE g[i] < g[j]
  <2>1. i \in 1..n /\ i # n + 1
    BY <1>9
  <2>2. CASE j = n + 1
    BY <1>6, <2>1, <2>2
  <2>3. CASE j # n + 1
    <3>1. j \in 1..n
      BY <2>3
    <3> QED
      BY <1>1, <1>4, <1>9, <2>1, <2>3, <3>1
  <2> QED
    BY <2>2, <2>3
<1>10. Drawn(longer, given, m + 1)
  BY <1>5, <1>7, <1>8, <1>9 DEF Drawn
<1> QED
  BY <1>3, <1>4, <1>5, <1>10

(* What is drawn from some is drawn from all, and stays so when more is sent. *)
LEMMA DrawnKept ==
  ASSUME NEW D, NEW taken \in Seq(D), NEW given \in Seq(D), NEW m \in 0..Len(given), NEW e \in D,
         Drawn(taken, given, m)
  PROVE  Drawn(taken, Append(given, e), m) /\ DownPipe!Subsequence(taken, given)
<1>1. PICK from \in [1..Len(taken) -> 1..m] :
        /\ \A i, j \in 1..Len(taken) : i < j => from[i] < from[j]
        /\ \A i \in 1..Len(taken) : taken[i] = given[from[i]]
  BY DEF Drawn
<1>2. Len(given) \in Nat /\ \A i \in 1..Len(given) : Append(given, e)[i] = given[i]
  BY AppendElements
<1>3. \A i \in 1..Len(taken) : from[i] \in 1..m /\ from[i] \in 1..Len(given)
  BY <1>1, <1>2
<1>4. Drawn(taken, Append(given, e), m)
  <2>1. \A i \in 1..Len(taken) : taken[i] = Append(given, e)[from[i]]
    BY <1>1, <1>2, <1>3
  <2> QED
    BY <1>1, <2>1 DEF Drawn
<1>5. DOMAIN taken = 1..Len(taken) /\ DOMAIN given = 1..Len(given)
  OBVIOUS
<1>6. from \in [1..Len(taken) -> 1..Len(given)]
  BY <1>1, <1>3
<1>7. DownPipe!Subsequence(taken, given)
  BY <1>1, <1>5, <1>6 DEF DownPipe!Subsequence
<1> QED
  BY <1>4, <1>7

(* The first piece f, and the others behind it. *)
FirstOf(b, given, m, z, f, others) ==
  /\ m \in Nat /\ m + 1 <= Len(given) /\ given[m + 1] \in DownPayloads
  /\ f \in PiecesOf(given[m + 1]) /\ f \in Seq(Byte) /\ Marked(f)
  /\ others \in Seq(Seq(Byte)) /\ Len(others) = Len(given) - (m + 1)
  /\ \A i \in 1..Len(others) : others[i] \in PiecesOf(given[(m + 1) + i])
  /\ others \in Seq(Pieces) /\ FlattenSeq(others) \in Seq(Byte)
  /\ b = z \o (f \o FlattenSeq(others))

(* There are these if there are any. *)
LEMMA FirstPiece ==
  ASSUME NEW b, NEW taken, NEW given \in Seq(DownPayloads), NEW m, NEW z, NEW fs,
         Holds(b, taken, given, m, z, fs), fs # << >>
  PROVE  FirstOf(b, given, m, z, Head(fs), Tail(fs))
<1>1. /\ m \in 0..Len(given) /\ fs \in Seq(Seq(Byte)) /\ Len(fs) = Len(given) - m
      /\ \A i \in 1..Len(fs) : fs[i] \in PiecesOf(given[m + i])
      /\ b = z \o FlattenSeq(fs)
  BY DEF Holds, InPieces
<1>2. PICK SB : SB = Seq(Byte)
  OBVIOUS
<1>3. PICK f \in SB, rest \in Seq(SB), n \in Nat :
        /\ f = Head(fs) /\ f = fs[1] /\ rest = Tail(fs) /\ n = Len(rest) /\ Len(fs) = n + 1
        /\ \A i \in 1..n : rest[i] = fs[i + 1]
  <2>1. fs \in Seq(SB)
    BY <1>1, <1>2
  <2>2. /\ Head(fs) \in SB /\ Head(fs) = fs[1] /\ Tail(fs) \in Seq(SB)
        /\ Len(fs) \in Nat \ {0} /\ Len(Tail(fs)) = Len(fs) - 1
        /\ \A i \in 1..(Len(fs) - 1) : Tail(fs)[i] = fs[i + 1]
    BY ONLY <2>1, TailElements, fs # << >>
  <2>3. Len(Tail(fs)) \in Nat /\ Len(fs) = Len(Tail(fs)) + 1 /\ Len(fs) - 1 = Len(Tail(fs))
    BY ONLY <2>2
  <2> QED
    BY <2>2, <2>3, Zenon
<1>4. Len(given) \in Nat /\ m \in Nat /\ n = Len(given) - (m + 1) /\ m + 1 \in 1..Len(given)
  <2>1. Len(given) \in Nat
    BY LenProperties
  <2> QED
    BY ONLY <1>1, <1>3, <2>1, n \in Nat
<1>5. given[m + 1] \in DownPayloads
  BY <1>4, ElementOfSeq
<1>6. f \in PiecesOf(given[m + 1])
  <2>1. 1 \in 1..Len(fs)
    BY <1>3
  <2> QED
    BY <1>1, <1>3, <2>1
<1>7. f \in Seq(Byte) /\ Marked(f)
  BY <1>5, <1>6, PieceMarked
<1>8. \A i \in 1..n : rest[i] \in PiecesOf(given[(m + 1) + i])
  <2> SUFFICES ASSUME NEW i \in 1..n PROVE rest[i] \in PiecesOf(given[(m + 1) + i])
    OBVIOUS
  <2>1. i + 1 \in 1..Len(fs) /\ m + (i + 1) = (m + 1) + i
    BY <1>3, <1>4
  <2> QED
    BY <1>1, <1>3, <2>1
<1>9. rest \in Seq(Pieces)
  <2>1. \A i \in 1..n : rest[i] \in Pieces
    <3> SUFFICES ASSUME NEW i \in 1..n PROVE rest[i] \in Pieces
      OBVIOUS
    <3>1. (m + 1) + i \in 1..Len(given)
      BY <1>4
    <3>2. given[(m + 1) + i] \in DownPayloads
      BY <3>1, ElementOfSeq
    <3> QED
      BY <1>8, <3>2 DEF Pieces
  <2>2. rest \in [1..n -> Pieces]
    <3>1. DOMAIN rest = 1..n
      BY <1>3
    <3> QED
      BY <2>1, <3>1
  <2>3. rest \in UNION {[1..k -> Pieces] : k \in Nat}
    BY <1>3, <2>2, Zenon
  <2>4. Seq(Pieces) = UNION {[1..k -> Pieces] : k \in Nat}
    BY SeqDef, Zenon
  <2> QED
    BY <2>3, <2>4, Zenon
<1>10. FlattenSeq(rest) \in Seq(Byte) /\ FlattenSeq(fs) = f \o FlattenSeq(rest)
  BY <1>1, <1>3, FlattenHead
<1>11. rest \in Seq(Seq(Byte)) /\ m + 1 <= Len(given)
  BY <1>2, <1>4
<1>12. FirstOf(b, given, m, z, f, rest)
  BY <1>1, <1>3, <1>4, <1>5, <1>6, <1>7, <1>8, <1>9, <1>10, <1>11, Zenon DEF FirstOf
<1> QED
  BY <1>3, <1>12

(* Without it, the others are held. *)
LEMMA OthersHeld ==
  ASSUME NEW b, NEW taken \in Seq(DownPayloads), NEW given \in Seq(DownPayloads), NEW m, NEW z,
         NEW fs, Holds(b, taken, given, m, z, fs), fs # << >>, NEW x \in Seq(Byte \ {START}),
         NEW more \in {taken, Append(taken, given[m + 1])}
  PROVE  Holds(x \o FlattenSeq(Tail(fs)), more, given, m + 1, x, Tail(fs))
<1>1. /\ m \in Nat /\ m + 1 <= Len(given) /\ Tail(fs) \in Seq(Seq(Byte))
      /\ Len(Tail(fs)) = Len(given) - (m + 1)
      /\ \A i \in 1..Len(Tail(fs)) : Tail(fs)[i] \in PiecesOf(given[(m + 1) + i])
  <2>1. FirstOf(b, given, m, z, Head(fs), Tail(fs))
    BY FirstPiece
  <2> QED
    BY ONLY <2>1 DEF FirstOf
<1>2. Drawn(taken, given, m)
  BY DEF Holds
<1>3. Drawn(more, given, m + 1)
  BY <1>1, <1>2, DrawnOn
<1>4. m + 1 \in 0..Len(given)
  <2>1. Len(given) \in Nat
    BY LenProperties
  <2> QED
    BY <1>1, <2>1
<1> QED
  BY <1>1, <1>3, <1>4 DEF Holds, InPieces

(* What is held is held so that the first piece, if any, is not empty.       *)
LEMMA FirstNotEmpty ==
  ASSUME NEW b, NEW taken \in Seq(DownPayloads), NEW given \in Seq(DownPayloads),
         Held(b, taken, given)
  PROVE  \E m, z, fs : Holds(b, taken, given, m, z, fs) /\ (fs = << >> \/ Head(fs) # << >>)
<1> DEFINE Rep(n) == \E m, z, fs : Holds(b, taken, given, m, z, fs) /\ n = Len(fs)
           S == {n \in Nat : Rep(n)}
<1>1. \A m, z, fs : Holds(b, taken, given, m, z, fs) => Len(fs) \in S
  <2> SUFFICES ASSUME NEW m, NEW z, NEW fs, Holds(b, taken, given, m, z, fs) PROVE Len(fs) \in S
    OBVIOUS
  <2>1. Len(fs) \in Nat
    <3>1. fs \in Seq(Seq(Byte))
      BY DEF Holds
    <3> QED
      BY <3>1, LenProperties
  <2> QED
    BY <2>1
<1>2. S # {} /\ S \in SUBSET Nat
  <2>1. PICK m, z, fs : Holds(b, taken, given, m, z, fs)
    BY DEF Held
  <2>2. Len(fs) \in S
    BY ONLY <1>1, <2>1, Zenon
  <2> QED
    BY <2>2
<1>3. PICK n \in S : \A d \in S : n <= d
  BY ONLY <1>2, LeastNumber
<1>4. PICK m, z, fs : Holds(b, taken, given, m, z, fs) /\ n = Len(fs)
  BY <1>3
<1> HIDE DEF S
<1>5. ASSUME fs # << >>, Head(fs) = << >> PROVE FALSE
  <2>1. /\ Tail(fs) \in Seq(Seq(Byte)) /\ FlattenSeq(Tail(fs)) \in Seq(Byte)
        /\ b = z \o (Head(fs) \o FlattenSeq(Tail(fs)))
    <3>1. FirstOf(b, given, m, z, Head(fs), Tail(fs))
      BY <1>4, <1>5, FirstPiece
    <3> QED
      BY ONLY <3>1 DEF FirstOf
  <2>2. << >> \o FlattenSeq(Tail(fs)) = FlattenSeq(Tail(fs))
    BY <2>1, ConcatEmptySeq
  <2>3. z \in Seq(Byte \ {START})
    BY <1>4 DEF Holds
  <2>4. Holds(z \o FlattenSeq(Tail(fs)), taken, given, m + 1, z, Tail(fs))
    BY <1>4, <1>5, <2>3, OthersHeld
  <2>5. Holds(b, taken, given, m + 1, z, Tail(fs))
    BY <1>5, <2>1, <2>2, <2>4
  <2>6. n <= Len(Tail(fs))
    BY ONLY <1>1, <1>3, <2>5, Zenon
  <2>7. Len(Tail(fs)) = Len(fs) - 1 /\ Len(fs) \in Nat
    <3>1. fs \in Seq(Seq(Byte))
      BY <1>4 DEF Holds
    <3>2. PICK SB : SB = Seq(Byte)
      OBVIOUS
    <3> QED
      BY <1>5, <3>1, <3>2, TailElements
  <2> QED
    BY <1>4, <2>6, <2>7
<1> QED
  BY <1>4, <1>5

(* Without its first byte, a buffer still holds the same or less.            *)
LEMMA DropOne ==
  ASSUME NEW b, NEW taken \in Seq(DownPayloads), NEW given \in Seq(DownPayloads),
         Held(b, taken, given), b # << >>
  PROVE  Held(Tail(b), taken, given)
<1>1. PICK m, z, fs : Holds(b, taken, given, m, z, fs) /\ (fs = << >> \/ Head(fs) # << >>)
  BY FirstNotEmpty
<1>2. /\ m \in 0..Len(given) /\ z \in Seq(Byte \ {START}) /\ fs \in Seq(Seq(Byte))
      /\ InPieces(b, given, m, z, fs) /\ Drawn(taken, given, m) /\ b = z \o FlattenSeq(fs)
  BY <1>1 DEF Holds, InPieces
<1>3. PICK F \in Seq(Byte) : F = FlattenSeq(fs)
  BY <1>2, FlattenType
<1>4. CASE z # << >>
  <2>1. PICK N : N = Byte \ {START}
    OBVIOUS
  <2>2. Tail(z) \in Seq(N) /\ z \in Seq(N)
    BY <1>2, <1>4, <2>1, TailElements
  <2>3. Tail(z) \in Seq(Byte) /\ z \in Seq(Byte)
    BY <2>1, <2>2
  <2>4. Tail(z \o F) = Tail(z) \o F
    BY ONLY <1>4, <2>3, F \in Seq(Byte), TailOfJoined
  <2>5. Holds(Tail(b), taken, given, m, Tail(z), fs)
    BY <1>2, <1>3, <2>1, <2>2, <2>4 DEF Holds, InPieces
  <2> QED
    BY <2>5 DEF Held
<1>5. CASE z = << >>
  <2>1. fs # << >>
    <3> SUFFICES ASSUME fs = << >> PROVE FALSE
      OBVIOUS
    <3>1. b = << >> \o << >>
      BY <1>2, <1>5, FlattenNothing
    <3> QED
      BY <3>1, ConcatEmptySeq
  <2>2. PICK f \in Seq(Byte), G \in Seq(Byte) :
          f = Head(fs) /\ G = FlattenSeq(Tail(fs)) /\ Marked(f) /\ b = z \o (f \o G)
    <3>1. FirstOf(b, given, m, z, Head(fs), Tail(fs))
      BY <1>1, <2>1, FirstPiece
    <3> QED
      BY ONLY <3>1 DEF FirstOf
  <2>3. PICK r \in Seq(Byte \ {START}) : f = << START >> \o r
    BY <1>1, <2>1, <2>2 DEF Marked
  <2>4. << START >> \in Seq(Byte) /\ r \in Seq(Byte)
    BY DEF START, Byte
  <2>5. b = << START >> \o (r \o G)
    <3>1. f \o G \in Seq(Byte) /\ << >> \o (f \o G) = f \o G
      BY JoinedBytes, ConcatEmptySeq
    <3>2. (<< START >> \o r) \o G = << START >> \o (r \o G)
      BY <2>4, BytesAssociate
    <3> QED
      BY <1>5, <2>2, <2>3, <3>1, <3>2
  <2>6. Tail(b) = r \o G
    <3>1. r \o G \in Seq(Byte)
      BY <2>4, JoinedBytes
    <3> QED
      BY ONLY <2>5, <3>1
  <2>7. Holds(r \o G, taken, given, m + 1, r, Tail(fs))
    BY <1>1, <2>1, <2>2, OthersHeld
  <2> QED
    BY <2>6, <2>7 DEF Held
<1> QED
  BY <1>4, <1>5

(* So does what is left of it, however much is consumed.                     *)
LEMMA DropSome ==
  ASSUME NEW b \in Seq(Byte), NEW taken \in Seq(DownPayloads), NEW given \in Seq(DownPayloads),
         Held(b, taken, given), NEW n \in 0..Len(b)
  PROVE  Held(SubSeq(b, n + 1, Len(b)), taken, given)
<1> DEFINE U(k) == SubSeq(b, k + 1, Len(b))
           T == {k \in 0..Len(b) : Held(U(k), taken, given)}
<1>1. Len(b) \in Nat
  BY LenProperties
<1>2. 0 \in T
  <2>1. SubSeq(b, 1, Len(b)) = b
    OBVIOUS
  <2>2. 0 \in 0..Len(b) /\ 0 + 1 = 1
    BY <1>1
  <2> QED
    BY <2>1, <2>2
<1>3. ASSUME NEW k \in 0..(Len(b) - 1), k \in T PROVE k + 1 \in T
  <2>1. k + 1 \in 0..Len(b) /\ k \in 0..Len(b)
    BY <1>1
  <2>2. PICK B : B = Byte
    OBVIOUS
  <2>3. b \in Seq(B)
    BY <2>2
  <2>4. U(k) # << >> /\ Tail(U(k)) = U(k + 1)
    BY ONLY <2>3, k \in 0..(Len(b) - 1), TailOfRest
  <2> QED
    BY <1>3, <2>1, <2>4, DropOne
<1> HIDE DEF T
<1>4. \A k \in 0..Len(b) : k \in T
  <2>1. \A k \in 0..(Len(b) - 1) : k \in T => k + 1 \in T
    BY <1>3
  <2> QED
    BY <1>1, <1>2, <2>1, UpTo
<1> QED
  BY <1>4 DEF T

-----------------------------------------------------------------------------
(* The LNC decodes *)

(* Frame_Decode skips what comes before START.                               *)
LEMMA NoiseSkipped ==
  ASSUME NEW z \in Seq(Byte \ {START}), NEW r \in Seq(Byte), NEW cap
  PROVE  Frame_Decode(z \o (<< START >> \o r), cap).res = Frame_Decode(<< START >> \o r, cap).res
<1>1. PICK b, c : b = z \o (<< START >> \o r) /\ c = << >> \o (<< START >> \o r)
  OBVIOUS
<1>2. << >> \in Seq(Byte \ {START}) /\ Len(z) \in Nat /\ Len(<< >>) = 0
  BY LenProperties
<1>3. c = << START >> \o r
  <2>1. << START >> \o r \in Seq(Byte)
    <3>1. << START >> \in Seq(Byte)
      BY DEF START, Byte
    <3> QED
      BY <3>1, JoinedBytes
  <2> QED
    BY <1>1, <2>1, ConcatEmptySeq
<1>4. StartsAt(b, Len(z), r) /\ StartsAt(c, Len(<< >>), r)
  BY <1>1, <1>2, StartFound
<1>5. PICK d : d = Destuff(r)
  OBVIOUS
<1>6. PICK i, j : /\ i = StartOf(b) /\ i # 0 /\ SubSeq(b, i + 1, Len(b)) = r
                  /\ j = StartOf(c) /\ j # 0 /\ SubSeq(c, j + 1, Len(c)) = r
  <2>1. StartOf(b) = Len(z) + 1 /\ SubSeq(b, Len(z) + 2, Len(b)) = r
    BY <1>4 DEF StartsAt
  <2>2. StartOf(c) = 1 /\ SubSeq(c, 2, Len(c)) = r
    BY <1>2, <1>4 DEF StartsAt
  <2>3. Len(z) + 1 # 0 /\ (Len(z) + 1) + 1 = Len(z) + 2 /\ 1 + 1 = 2
    BY <1>2
  <2>4. SubSeq(b, (Len(z) + 1) + 1, Len(b)) = r /\ SubSeq(c, 1 + 1, Len(c)) = r /\ 1 # 0
    BY <2>1, <2>2, <2>3
  <2> QED
    BY <2>1, <2>2, <2>3, <2>4, Zenon
<1> DEFINE n == Protocol_GetU16(d.bytes[1], d.bytes[2])
           Answered(k) == IF Len(d.bytes) < 2    THEN Result("INCOMPLETE", << >>, 0)
                       ELSE IF n > cap           THEN Result("BUFFER_TOO_SMALL", << >>, 0)
                       ELSE IF Len(d.bytes) < n + 4    THEN Result("INCOMPLETE", << >>, 0)
                       ELSE IF ~CrcMatches(d.bytes, n) THEN Result("MALFORMED", << >>, k + d.ends[n + 4])
                       ELSE Result("OK", SubSeq(d.bytes, 3, n + 2), k + d.ends[n + 4])
<1>7. Frame_Decode(b, cap) = Answered(i)
  BY <1>5, <1>6, Decoding
<1>8. Frame_Decode(c, cap) = Answered(j)
  BY <1>5, <1>6, Decoding
<1>9. Answered(i).res = Answered(j).res
  BY DEF Result
<1> QED
  BY <1>1, <1>3, <1>7, <1>8, <1>9

(* The frame of p behind noise, with F behind it.                            *)
Ahead(b, z, p, F) == b = z \o (Frame(p) \o F)

(* If anything is decoded it is p, and F is left.                            *)
DecodesHead(b, p, F) ==
  LET d == Frame_Decode(b, LncCap)
  IN  d.res = "OK" => d.payload = p /\ SubSeq(b, d.consumed + 1, Len(b)) = F

(* A whole frame behind noise is what is decoded, if anything.               *)
LEMMA HeadDecoded ==
  ASSUME NEW p \in DownPayloads, NEW z \in Seq(Byte \ {START}), NEW F \in Seq(Byte),
         NEW b, Ahead(b, z, p, F)
  PROVE  DecodesHead(b, p, F)
<1>1. PICK f \in Seq(Byte), zz \in Seq(Byte) : f = Frame(p) /\ zz = z
  BY DownFramable, FrameLengths
<1>2. PICK g \in Seq(Byte) : g = zz \o f /\ Len(g) = Len(z) + Len(Frame(p))
  <2>1. zz \o f \in Seq(Byte) /\ Len(zz \o f) = Len(zz) + Len(f)
    BY JoinedBytes, ConcatLength
  <2> QED
    BY <1>1, <2>1
<1>3. b = g \o F /\ b \in Seq(Byte)
  <2>1. (zz \o f) \o F = zz \o (f \o F)
    BY BytesAssociate
  <2> QED
    BY <1>1, <1>2, <2>1, JoinedBytes DEF Ahead
<1>4. SameJoined(b, << >>, z \o Frame(p), F)
  <2>1. b \o << >> = b
    BY <1>3, JoinedBytes
  <2> QED
    BY <1>1, <1>2, <1>3, <2>1 DEF SameJoined
<1>5. LncCap \in Nat /\ << >> \in Seq(Byte) /\ Framable(p)
  BY BridgeDownlinkAssumption, DownFramable DEF BridgeDownlinkAssumption
<1>6. Frame_Decode(b, LncCap) = Answer(p, Len(z), Len(b), LncCap)
  BY ONLY <1>3, <1>4, <1>5, DecodeFrame, z \in Seq(Byte \ {START}), F \in Seq(Byte)
<1>7. Answer(p, Len(z), Len(b), LncCap).res = "OK" =>
        Answer(p, Len(z), Len(b), LncCap) = Result("OK", p, Len(g))
  BY <1>2 DEF Answer, Result
<1>8. SubSeq(g \o F, Len(g) + 1, Len(g \o F)) = F
  BY Parts
<1> QED
  <2> SUFFICES ASSUME Frame_Decode(b, LncCap).res = "OK"
               PROVE  /\ Frame_Decode(b, LncCap).payload = p
                      /\ SubSeq(b, Frame_Decode(b, LncCap).consumed + 1, Len(b)) = F
    BY DEF DecodesHead
  <2>1. Frame_Decode(b, LncCap) = Result("OK", p, Len(g))
    BY <1>6, <1>7
  <2>2. Frame_Decode(b, LncCap).payload = p /\ Frame_Decode(b, LncCap).consumed = Len(g)
    BY ONLY <2>1 DEF Result
  <2> QED
    BY <1>3, <1>8, <2>2

(* The LNC, with what it has and has yet to decode of what has been sent.    *)
Receiver == [rx : Seq(Byte), got : Seq(DownPayloads)]

Behind(lncs, given) == {l \in lncs : Held(l.rx, l.got, given)}

(* One call of Frame_Decode takes nothing for a payload that was not sent.   *)
LEMMA DecodeHeld ==
  ASSUME CutsAreNoticed(Seq(Pieces)), NEW given \in Seq(DownPayloads),
         NEW l \in Behind(Receiver, given)
  PROVE  DecodeOnce(l) \in Behind(Receiver, given)
<1>1. PICK b \in Seq(Byte), taken \in Seq(DownPayloads) :
        b = l.rx /\ taken = l.got /\ l = [rx |-> b, got |-> taken] /\ Held(b, taken, given)
  BY DEF Behind, Receiver
<1>2. PICK d : d = Frame_Decode(b, LncCap)
  OBVIOUS
<1>3. /\ d.res \in {"INCOMPLETE", "BUFFER_TOO_SMALL", "MALFORMED", "OK"}
      /\ d.res \in {"MALFORMED", "OK"} => d.consumed \in 1..Len(b)
  BY <1>2, DecodeType
<1>4. ASSUME NEW c \in Seq(Byte), NEW more \in Seq(DownPayloads), Held(c, more, given)
      PROVE  [rx |-> c, got |-> more] \in Behind(Receiver, given)
  BY <1>4 DEF Behind, Receiver
<1>5. CASE b = << >> \/ d.res = "INCOMPLETE"
  <2>1. DecodeOnce(l) = l
    BY <1>1, <1>2, <1>5 DEF DecodeOnce
  <2> QED
    BY <2>1
<1>6. ASSUME NEW n \in 0..Len(b)
      PROVE  [rx |-> SubSeq(b, n + 1, Len(b)), got |-> taken] \in Behind(Receiver, given)
  <2>1. SubSeq(b, n + 1, Len(b)) \in Seq(Byte)
    BY SplitBytes
  <2>2. Held(SubSeq(b, n + 1, Len(b)), taken, given)
    BY <1>1, DropSome
  <2> QED
    BY <1>4, <2>1, <2>2
<1>7. CASE b # << >> /\ d.res = "BUFFER_TOO_SMALL"
  <2>1. DecodeOnce(l) = [rx |-> << >>, got |-> taken]
    BY <1>1, <1>2, <1>7 DEF DecodeOnce
  <2>2. Len(b) \in 0..Len(b) /\ SubSeq(b, Len(b) + 1, Len(b)) = << >>
    <3>1. Len(b) \in Nat
      BY LenProperties
    <3> QED
      BY <3>1, SubSeqEmpty
  <2> QED
    BY <1>6, <2>1, <2>2
<1>8. CASE b # << >> /\ d.res = "MALFORMED"
  <2>1. DecodeOnce(l) = [rx |-> SubSeq(b, d.consumed + 1, Len(b)), got |-> taken]
    BY <1>1, <1>2, <1>8 DEF DecodeOnce
  <2>2. d.consumed \in 0..Len(b)
    BY <1>3, <1>8
  <2> QED
    BY <1>6, <2>1, <2>2
<1>9. CASE b # << >> /\ d.res = "OK"
  <2>1. DecodeOnce(l) = [rx |-> SubSeq(b, d.consumed + 1, Len(b)), got |-> Append(taken, d.payload)]
    BY <1>1, <1>2, <1>9 DEF DecodeOnce
  <2>2. PICK m, z, fs : Holds(b, taken, given, m, z, fs) /\ (fs = << >> \/ Head(fs) # << >>)
    BY <1>1, FirstNotEmpty
  <2>3. z \in Seq(Byte \ {START}) /\ b = z \o FlattenSeq(fs)
    BY <2>2 DEF Holds, InPieces
  <2>4. fs # << >>
    <3> SUFFICES ASSUME fs = << >> PROVE FALSE
      OBVIOUS
    <3>1. z \in Seq(Byte) /\ << >> \in Seq(Byte)
      BY <2>3
    <3>2. b = z \o << >> /\ z \o << >> = z
      BY <2>3, <3>1, FlattenNothing, JoinedBytes
    <3>3. z = b \o << >>
      BY <3>2
    <3>4. d = Result("INCOMPLETE", << >>, 0)
      BY <1>2, <2>3, <3>1, <3>3, NothingButNoise
    <3> QED
      BY <1>9, <3>4 DEF Result
  <2>5. PICK p, f, others : /\ FirstOf(b, given, m, z, f, others) /\ p = given[m + 1]
                            /\ f = Head(fs) /\ others = Tail(fs)
    BY <2>2, <2>4, FirstPiece
  <2>6. /\ p \in DownPayloads /\ f \in PiecesOf(p) /\ f \in Seq(Byte) /\ Marked(f) /\ f # << >>
        /\ others \in Seq(Pieces) /\ FlattenSeq(others) \in Seq(Byte)
        /\ b = z \o (f \o FlattenSeq(others))
    BY <2>2, <2>4, <2>5 DEF FirstOf
  <2>7. CASE f = Frame(p)
    <3>1. PICK F \in Seq(Byte) : F = FlattenSeq(others)
      BY <2>6
    <3>2. d.payload = p /\ SubSeq(b, d.consumed + 1, Len(b)) = F
      <4>1. Ahead(b, z, p, F)
        BY <2>6, <2>7, <3>1 DEF Ahead
      <4>2. Frame_Decode(b, LncCap).res = "OK"
        BY <1>2, <1>9
      <4>3. DecodesHead(b, p, F)
        BY <2>3, <2>6, <4>1, HeadDecoded
      <4> QED
        BY ONLY <1>2, <4>2, <4>3 DEF DecodesHead
    <3>3. << >> \in Seq(Byte \ {START}) /\ << >> \o F = F
      BY ConcatEmptySeq
    <3>4. Holds(<< >> \o F, Append(taken, p), given, m + 1, << >>, others)
      BY <2>2, <2>4, <2>5, <3>1, <3>3, OthersHeld
    <3>5. Held(F, Append(taken, p), given)
      BY <3>3, <3>4 DEF Held
    <3>6. Append(taken, p) \in Seq(DownPayloads)
      BY <2>6, AppendElements
    <3> QED
      BY <1>4, <2>1, <3>2, <3>5, <3>6
  <2>8. CASE f \in CutFrames(p)
    <3>1. PICK r \in Seq(Byte \ {START}) : f = << START >> \o r
      BY <2>6 DEF Marked
    <3>2. PICK F \in Seq(Byte), rr \in Seq(Byte) : F = FlattenSeq(others) /\ rr = r
      BY <2>6
    <3>3. PICK t \in Seq(Byte) : t = rr \o F /\ f \o F = << START >> \o t
      <4>1. << START >> \in Seq(Byte)
        BY DEF START, Byte
      <4>2. (<< START >> \o rr) \o F = << START >> \o (rr \o F)
        BY <4>1, BytesAssociate
      <4>3. rr \o F \in Seq(Byte)
        BY JoinedBytes
      <4> QED
        BY <3>1, <3>2, <4>2, <4>3
    <3>4. d.res = Frame_Decode(f \o F, LncCap).res
      <4>1. b = z \o (<< START >> \o t)
        BY <2>6, <3>2, <3>3
      <4>2. Frame_Decode(z \o (<< START >> \o t), LncCap).res
              = Frame_Decode(<< START >> \o t, LncCap).res
        BY <2>3, NoiseSkipped
      <4> QED
        BY <1>2, <3>3, <4>1, <4>2
    <3>5. Frame_Decode(f \o F, LncCap).res # "OK"
      BY <2>6, <2>8, <3>2 DEF CutsAreNoticed
    <3> QED
      BY <1>9, <3>4, <3>5
  <2> QED
    BY <2>6, <2>7, <2>8 DEF PiecesOf
<1> QED
  BY <1>3, <1>5, <1>7, <1>8, <1>9

(* Whatever one call preserves, all of them do, and if there is anything to  *)
(* decode the last of them returns what is left.                             *)
LEMMA AllDecoded ==
  ASSUME NEW D, NEW raw \in Seq(Byte), [rx |-> raw, got |-> lncGot] \in D,
         \A l \in D : DecodeOnce(l) \in D
  PROVE  /\ DecodeAll(raw) \in D
         /\ raw # << >> => \E l \in D : DecodeAll(raw) = DecodeOnce(l)
<1>1. PICK first \in D : first = [rx |-> raw, got |-> lncGot]
  OBVIOUS
<1>2. PICK m \in Nat : m = Len(raw)
  BY LenProperties
<1> DEFINE G == [k \in 1..m |-> [l \in D |-> DecodeOnce(l)]]
<1>3. G \in [1..m -> [D -> D]]
  OBVIOUS
<1>4. \A k \in 1..m, l \in D : G[k][l] = DecodeOnce(l)
  OBVIOUS
<1> HIDE DEF G
<1>5. PICK f : f \in [0..m -> D] /\ f[0] = first /\ \A k \in 1..m : f[k] = G[k][f[k - 1]]
  <2>1. G \in StepFunctions(m, D)
    BY <1>3 DEF StepFunctions
  <2>2. \E f : Iterates(f, m, D, first, G)
    BY <2>1, Iterated, Zenon
  <2> QED
    BY <2>2 DEF Iterates
<1>6. \A k \in 1..m : f[k] = DecodeOnce(f[k - 1])
  <2> SUFFICES ASSUME NEW k \in 1..m PROVE f[k] = DecodeOnce(f[k - 1])
    OBVIOUS
  <2>1. k - 1 \in 0..m
    BY <1>2
  <2> QED
    BY <1>4, <1>5, <2>1
<1> DEFINE Rec(h) == [n \in 0..m |-> IF n = 0 THEN first ELSE DecodeOnce(h[n - 1])]
           after == CHOOSE h : h = Rec(h)
<1>7. f = Rec(f)
  <2>1. f = [k \in 0..m |-> f[k]]
    BY <1>5
  <2>2. \A k \in 0..m : f[k] = IF k = 0 THEN first ELSE DecodeOnce(f[k - 1])
    BY <1>2, <1>5, <1>6
  <2> QED
    BY <2>1, <2>2
<1>8. after = Rec(after)
  BY <1>7, Zenon
<1>9. DecodeAll(raw) = after[m]
  BY <1>1, <1>2 DEF DecodeAll
<1> HIDE DEF after
<1> DEFINE T == {k \in 0..m : after[k] = f[k]}
<1>10. 0 \in T
  <2>1. 0 \in 0..m
    BY <1>2
  <2>2. after[0] = first
    BY <1>8, <2>1
  <2> QED
    BY <1>5, <2>1, <2>2
<1>11. ASSUME NEW k \in 0..(m - 1), k \in T PROVE k + 1 \in T
  <2>1. k + 1 \in 1..m /\ k + 1 \in 0..m /\ (k + 1) - 1 = k /\ k + 1 # 0
    BY <1>2
  <2>2. after[k + 1] = DecodeOnce(after[(k + 1) - 1])
    BY <1>8, <2>1
  <2>3. f[k + 1] = DecodeOnce(f[(k + 1) - 1])
    BY <1>6, <2>1
  <2> QED
    BY <1>11, <2>1, <2>2, <2>3
<1> HIDE DEF T
<1>12. m \in T
  <2>1. \A k \in 0..(m - 1) : k \in T => k + 1 \in T
    BY <1>11
  <2>2. m \in 0..m
    BY <1>2
  <2> QED
    BY <1>2, <1>10, <2>1, <2>2, UpTo
<1>13. DecodeAll(raw) = f[m] /\ m \in 0..m
  BY <1>2, <1>9, <1>12 DEF T
<1>14. ASSUME raw # << >> PROVE \E l \in D : DecodeAll(raw) = DecodeOnce(l)
  <2>1. m \in 1..m /\ m - 1 \in 0..m
    BY <1>2, <1>14
  <2> QED
    BY <1>5, <1>6, <1>13, <2>1
<1> QED
  BY <1>5, <1>13, <1>14

(* A whole frame, when there is nothing else, is decoded at once.            *)
LEMMA WholeArrives ==
  ASSUME NEW p \in DownPayloads, Len(p) <= LncCap, lncRx = << >>, LncReceives(Frame(p))
  PROVE  lncRx' = << >> /\ lncGot' = Append(lncGot, p)
<1>1. PICK b \in Seq(Byte) : b = Frame(p)
  BY DownFramable, FrameLengths
<1>2. LncCap \in Nat /\ Framable(p) /\ << >> \in Seq(Byte) /\ << >> \in Seq(Byte \ {START})
  BY BridgeDownlinkAssumption, DownFramable DEF BridgeDownlinkAssumption
<1>3. b \o << >> = b /\ << >> \o b = b /\ Len(<< >>) = 0 /\ Len(b) \in Nat
  BY JoinedBytes, LenProperties, <1>2
<1>4. b # << >>
  <2>1. Len(Frame(p)) = 1 + Len(Stuffed(Body(p))) /\ Len(Stuffed(Body(p))) \in Nat
    BY <1>2, FrameLengths, LenProperties
  <2> QED
    BY <1>1, <1>3, <2>1
<1>5. SameJoined(b, << >>, << >> \o Frame(p), << >>)
  BY <1>1, <1>3 DEF SameJoined
<1>6. Frame_Decode(b, LncCap) = Answer(p, Len(<< >>), Len(b), LncCap)
  BY ONLY <1>2, <1>5, DecodeFrame, b \in Seq(Byte)
<1>7. Answer(p, 0, Len(b), LncCap) = Result("OK", p, Len(b))
  <2>1. LengthKnown(p) \in Nat /\ LengthKnown(p) <= Len(b)
    BY <1>1, <1>2, LengthFirst
  <2>2. Len(p) \in Nat
    BY DownFramable
  <2>3. 0 + Len(b) = Len(b) /\ ~(Len(b) < 0 + LengthKnown(p)) /\ ~(Len(p) > LncCap)
        /\ ~(Len(b) < 0 + Len(b))
    BY <1>2, <1>3, <2>1, <2>2
  <2> QED
    BY <1>1, <2>3 DEF Answer
<1>8. SubSeq(b, Len(b) + 1, Len(b)) = << >>
  BY <1>3, SubSeqEmpty
<1>9. PICK start, end : start = [rx |-> b, got |-> lncGot]
                        /\ end = [rx |-> << >>, got |-> Append(lncGot, p)]
  OBVIOUS
<1>10. DecodeOnce(start) = end
  <2>1. PICK d : d = Frame_Decode(b, LncCap)
    OBVIOUS
  <2>2. d = Result("OK", p, Len(b))
    BY <1>3, <1>6, <1>7, <2>1
  <2>3. d.res = "OK" /\ d.payload = p /\ d.consumed = Len(b)
    BY <2>2 DEF Result
  <2>4. SubSeq(b, d.consumed + 1, Len(b)) = << >>
    BY <1>8, <2>3
  <2>5. DecodeOnce(start) = [rx |-> SubSeq(b, d.consumed + 1, Len(b)), got |-> Append(lncGot, d.payload)]
    BY <1>4, <1>9, <2>1, <2>3 DEF DecodeOnce
  <2> QED
    BY <1>9, <2>3, <2>4, <2>5
<1>11. DecodeOnce(end) = end
  BY <1>9 DEF DecodeOnce
<1>12. DecodeAll(b) = end
  <2>1. PICK D : D = {start, end}
    OBVIOUS
  <2>2. [rx |-> b, got |-> lncGot] \in D /\ \A l \in D : DecodeOnce(l) \in D
    BY <1>9, <1>10, <1>11, <2>1
  <2>3. \E l \in D : DecodeAll(b) = DecodeOnce(l)
    BY ONLY <1>4, <2>2, AllDecoded, b \in Seq(Byte)
  <2> QED
    BY <1>10, <1>11, <2>1, <2>3
<1>13. lncRx \o Frame(p) = b
  BY <1>1, <1>3
<1> QED
  BY <1>9, <1>12, <1>13 DEF LncReceives

(* What is held when one more payload has been sent, and a piece of its      *)
(* frame has come.                                                           *)
LEMMA PieceHeld ==
  ASSUME NEW b \in Seq(Byte), NEW taken \in Seq(DownPayloads), NEW given \in Seq(DownPayloads),
         Held(b, taken, given), NEW p \in DownPayloads, NEW f \in PiecesOf(p)
  PROVE  Held(b \o f, taken, Append(given, p))
<1>1. PICK m, z, fs : Holds(b, taken, given, m, z, fs)
  BY DEF Held
<1>2. /\ m \in 0..Len(given) /\ z \in Seq(Byte \ {START}) /\ fs \in Seq(Seq(Byte))
      /\ Len(fs) = Len(given) - m /\ Drawn(taken, given, m)
      /\ \A i \in 1..Len(fs) : fs[i] \in PiecesOf(given[m + i])
      /\ b = z \o FlattenSeq(fs)
  BY <1>1 DEF Holds, InPieces
<1>3. f \in Seq(Byte)
  BY PieceMarked
<1>4. PICK SB : SB = Seq(Byte)
  OBVIOUS
<1>5. PICK more, n : /\ more = Append(given, p) /\ n = Len(given) /\ n \in Nat /\ Len(more) = n + 1
                     /\ more[n + 1] = p /\ \A i \in 1..n : more[i] = given[i]
  <2>1. /\ Len(Append(given, p)) = Len(given) + 1 /\ Append(given, p)[Len(given) + 1] = p
        /\ \A i \in 1..Len(given) : Append(given, p)[i] = given[i]
    BY AppendElements
  <2>2. Len(given) \in Nat
    BY LenProperties
  <2> QED
    BY <2>1, <2>2, Zenon
<1>6. PICK gs, k : /\ gs = Append(fs, f) /\ k = Len(fs) /\ k \in Nat /\ Len(gs) = k + 1
                   /\ gs \in Seq(SB) /\ gs[k + 1] = f /\ \A i \in 1..k : gs[i] = fs[i]
  <2>1. fs \in Seq(SB) /\ f \in SB
    BY <1>2, <1>3, <1>4
  <2>2. /\ Len(Append(fs, f)) = Len(fs) + 1 /\ Append(fs, f)[Len(fs) + 1] = f
        /\ \A i \in 1..Len(fs) : Append(fs, f)[i] = fs[i] /\ Append(fs, f) \in Seq(SB)
    BY ONLY <2>1, AppendElements
  <2>3. Len(fs) \in Nat
    BY ONLY <2>1, LenProperties
  <2>4. Append(fs, f) \in Seq(SB)
    BY ONLY <2>1, AppendElements
  <2> QED
    BY <2>2, <2>3, <2>4, Zenon
<1>7. m \in Nat /\ k = n - m /\ m \in 0..Len(more) /\ Len(gs) = Len(more) - m
  BY <1>2, <1>5, <1>6
<1>8. ASSUME NEW i \in 1..Len(gs) PROVE gs[i] \in PiecesOf(more[m + i])
  <2>1. CASE i = k + 1
    <3>1. m + i = n + 1
      BY <1>7, <2>1, <1>5
    <3> QED
      BY <1>5, <1>6, <2>1, <3>1
  <2>2. CASE i # k + 1
    <3>1. PICK j \in Nat : j = i /\ 1 <= j /\ j <= k + 1 /\ j # k + 1
      BY <1>6, <2>2
    <3>2. j <= k /\ 1 <= m + j /\ m + j <= n /\ m + j \in Nat
      <4>1. j \in Nat /\ k \in Nat /\ m \in Nat /\ n \in Nat /\ k = n - m
        BY <1>5, <1>6, <1>7
      <4> QED
        BY ONLY <3>1, <4>1
    <3>3. i \in 1..k /\ m + i \in 1..n
      BY <1>5, <1>6, <3>1, <3>2
    <3> QED
      BY <1>2, <1>5, <1>6, <3>3
  <2> QED
    BY <2>1, <2>2
<1>9. b \o f = z \o FlattenSeq(gs)
  <2>1. PICK F \in Seq(Byte), zz \in Seq(Byte) : F = FlattenSeq(fs) /\ zz = z
    BY <1>2, FlattenType
  <2>2. FlattenSeq(gs) = F \o f
    BY <1>2, <1>3, <1>6, <2>1, FlattenAppend
  <2>3. (zz \o F) \o f = zz \o (F \o f)
    BY <1>3, BytesAssociate
  <2> QED
    BY <1>2, <2>1, <2>2, <2>3
<1>10. Drawn(taken, more, m)
  BY <1>2, <1>5, DrawnKept
<1>11. Holds(b \o f, taken, more, m, z, gs)
  BY <1>2, <1>4, <1>6, <1>7, <1>8, <1>9, <1>10 DEF Holds, InPieces
<1> QED
  BY <1>5, <1>11 DEF Held

(* The LNC decodes what it has then.                                         *)
LEMMA PieceArrives ==
  ASSUME CutsAreNoticed(Seq(Pieces)), NEW given \in Seq(DownPayloads),
         lncRx \in Seq(Byte), lncGot \in Seq(DownPayloads), Held(lncRx, lncGot, given),
         NEW p \in DownPayloads, NEW f \in PiecesOf(p), LncReceives(f)
  PROVE  lncRx' \in Seq(Byte) /\ lncGot' \in Seq(DownPayloads)
         /\ Held(lncRx', lncGot', Append(given, p))
<1>1. PICK more \in Seq(DownPayloads) : more = Append(given, p)
  BY AppendElements
<1>2. PICK raw \in Seq(Byte) : raw = lncRx \o f
  BY PieceMarked, JoinedBytes
<1>3. Held(raw, lncGot, more)
  BY <1>1, <1>2, PieceHeld
<1>4. PICK D : D = Behind(Receiver, more)
  OBVIOUS
<1>5. [rx |-> raw, got |-> lncGot] \in D
  BY <1>3, <1>4 DEF Behind, Receiver
<1>6. \A l \in D : DecodeOnce(l) \in D
  BY <1>4, DecodeHeld
<1>7. DecodeAll(raw) \in D
  BY <1>5, <1>6, AllDecoded
<1>8. lncRx' = DecodeAll(raw).rx /\ lncGot' = DecodeAll(raw).got
  BY <1>2 DEF LncReceives
<1> QED
  BY <1>1, <1>4, <1>7, <1>8 DEF Behind, Receiver

-----------------------------------------------------------------------------
(* In the order of the connections *)

(* What the core has sent are payloads it may send. *)
SentTypes == sentDown \in [Conns -> Seq(DownPayloads)]

(* Connections are accepted in the order they are made, and given up before  *)
(* the next is accepted; none hands anything over until it is accepted.      *)
HandedToClients == \A c \in Conns : gotDown[c] # << >> => c = clientFd \/ c \in left

WaitingAreLater == \A i \in 1..Len(backlog) : \A c \in left \cup {clientFd} : c < backlog[i]

WaitingInOrder == \A i, j \in 1..Len(backlog) : i < j => backlog[i] < backlog[j]

ClientIsLast == clientFd # 0 => \A c \in left : c < clientFd

InTurn == HandedToClients /\ WaitingAreLater /\ WaitingInOrder /\ ClientIsLast

(* The parts of LinkInv that the order depends on. *)
LEMMA Numbered ==
  ASSUME LinkInv
  PROVE  /\ made \in Nat /\ clientFd \in 0..made /\ left \subseteq 1..made
         /\ backlog \in Seq(Conns) /\ Len(backlog) \in Nat
         /\ \A i \in 1..Len(backlog) : backlog[i] \in 1..made
         /\ gotDown \in [Conns -> Seq(LinkPayloads)] /\ Conns \subseteq Nat \ {0}
<1>1. made \in 0..MaxConns /\ MaxConns \in Nat
  BY BoundsAreNumbers DEF LinkInv, Types, KernelTypes
<1>2. made \in Nat
  BY <1>1
<1>3. backlog \in Seq(Conns) /\ \A i \in 1..Len(backlog) : backlog[i] <= made
  BY DEF LinkInv, Types, KernelTypes
<1>4. Conns \subseteq Nat \ {0}
  BY <1>1 DEF Conns
<1>5. Len(backlog) \in Nat /\ \A i \in 1..Len(backlog) : backlog[i] \in Conns
  BY <1>3, ElementOfSeq
<1>6. \A i \in 1..Len(backlog) : backlog[i] \in 1..made
  <2> SUFFICES ASSUME NEW i \in 1..Len(backlog) PROVE backlog[i] \in 1..made
    OBVIOUS
  <2>1. backlog[i] \in Nat \ {0} /\ backlog[i] <= made
    BY <1>3, <1>4, <1>5
  <2> QED
    BY <1>2, <2>1
<1> QED
  BY <1>2, <1>3, <1>4, <1>5, <1>6 DEF LinkInv, Types, KernelTypes, BridgeTypes, HistoryTypes

(* Nothing has been accepted or handed over. *)
LEMMA InTurnInit ==
  ASSUME Init
  PROVE  InTurn /\ SentTypes
<1>1. clientFd = 0 /\ backlog = << >> /\ left = {} /\ gotDown = [c \in Conns |-> << >>]
      /\ sentDown = [c \in Conns |-> << >>]
  BY DEF Init
<1>2. Len(<< >>) = 0 /\ << >> \in Seq(DownPayloads)
  OBVIOUS
<1> QED
  BY <1>1, <1>2 DEF InTurn, SentTypes, HandedToClients, WaitingAreLater, WaitingInOrder, ClientIsLast

(* A step that neither accepts nor gives up a connection. *)
LEMMA InTurnStays ==
  ASSUME InTurn, UNCHANGED << clientFd, backlog, left >>,
         \A c \in Conns : c # clientFd => gotDown'[c] = gotDown[c]
  PROVE  InTurn'
<1>1. HandedToClients'
  BY DEF InTurn, HandedToClients
<1>2. WaitingAreLater' /\ WaitingInOrder' /\ ClientIsLast'
  BY DEF InTurn, WaitingAreLater, WaitingInOrder, ClientIsLast
<1> QED
  BY <1>1, <1>2 DEF InTurn

(* A connection is made. *)
LEMMA ConnectInTurn ==
  ASSUME LinkInv, InTurn, CcCore_LncConnect
  PROVE  InTurn'
<1>1. UNCHANGED << clientFd, left, gotDown >> /\ made' = made + 1 /\ backlog' = Append(backlog, made')
  BY DEF CcCore_LncConnect, bridge, history
<1>2. /\ made \in Nat /\ clientFd \in 0..made /\ left \subseteq 1..made
      /\ backlog \in Seq(Conns) /\ \A i \in 1..Len(backlog) : backlog[i] \in 1..made
  BY Numbered
<1>3. PICK n : /\ n = Len(backlog) /\ n \in Nat /\ Len(backlog') = n + 1 /\ backlog'[n + 1] = made + 1
               /\ \A i \in 1..n : backlog'[i] = backlog[i]
  <2>1. made + 1 \in Conns
    BY <1>2, BoundsAreNumbers DEF CcCore_LncConnect, Conns
  <2>2. /\ Len(Append(backlog, made + 1)) = Len(backlog) + 1
        /\ Append(backlog, made + 1)[Len(backlog) + 1] = made + 1
        /\ \A i \in 1..Len(backlog) : Append(backlog, made + 1)[i] = backlog[i]
    BY <1>2, <2>1, AppendElements
  <2>3. Len(backlog) \in Nat
    BY <1>2, LenProperties
  <2> QED
    BY <1>1, <2>2, <2>3
<1>4. HandedToClients' /\ ClientIsLast'
  BY <1>1 DEF InTurn, HandedToClients, ClientIsLast
<1>5. WaitingAreLater'
  <2> SUFFICES ASSUME NEW i \in 1..(n + 1), NEW c \in left \cup {clientFd} PROVE c < backlog'[i]
    BY <1>1, <1>3 DEF WaitingAreLater
  <2>1. CASE i = n + 1
    BY <1>2, <1>3, <2>1
  <2>2. CASE i # n + 1
    <3>1. i \in 1..n
      BY <1>3, <2>2
    <3> QED
      BY <1>3, <3>1 DEF InTurn, WaitingAreLater
  <2> QED
    BY <2>1, <2>2
<1>6. WaitingInOrder'
  <2> SUFFICES ASSUME NEW i \in 1..(n + 1), NEW j \in 1..(n + 1), i < j PROVE backlog'[i] < backlog'[j]
    BY <1>3 DEF WaitingInOrder
  <2>1. i \in 1..n /\ backlog'[i] = backlog[i] /\ backlog[i] \in 1..made
    BY <1>2, <1>3
  <2>2. CASE j = n + 1
    BY <1>2, <1>3, <2>1, <2>2
  <2>3. CASE j # n + 1
    <3>1. j \in 1..n
      BY <1>3, <2>3
    <3> QED
      BY <1>3, <2>1, <3>1 DEF InTurn, WaitingInOrder
  <2> QED
    BY <2>2, <2>3
<1> QED
  BY <1>4, <1>5, <1>6 DEF InTurn

(* The one that has waited longest is accepted. *)
LEMMA AcceptInTurn ==
  ASSUME LinkInv, InTurn, BridgeServer_Accept
  PROVE  InTurn'
<1>1. UNCHANGED << left, gotDown >>
  BY DEF BridgeServer_Accept, history
<1>2. CASE ~(clientFd = 0 /\ backlog # << >>)
  <2>1. UNCHANGED << clientFd, backlog >>
    BY <1>2 DEF BridgeServer_Accept
  <2> QED
    BY <1>1, <2>1, InTurnStays
<1>3. CASE clientFd = 0 /\ backlog # << >>
  <2>1. clientFd' = Head(backlog) /\ backlog' = Tail(backlog)
    BY <1>3 DEF BridgeServer_Accept
  <2>2. PICK n : /\ n = Len(backlog) /\ n \in Nat /\ 1 <= n /\ clientFd' = backlog[1]
                 /\ Len(backlog') = n - 1 /\ \A i \in 1..(n - 1) : backlog'[i] = backlog[i + 1]
    <3>1. backlog \in Seq(Conns)
      BY Numbered
    <3>2. Len(backlog) \in Nat /\ 1 <= Len(backlog)
      BY <1>3, <3>1
    <3>3. /\ Head(backlog) = backlog[1] /\ Len(Tail(backlog)) = Len(backlog) - 1
          /\ \A i \in 1..(Len(backlog) - 1) : Tail(backlog)[i] = backlog[i + 1]
      BY <1>3, <3>1, TailElements
    <3> QED
      BY <2>1, <3>2, <3>3
  <2>3. HandedToClients'
    <3>1. \A c \in Conns : c # 0
      BY Numbered
    <3> QED
      BY <1>1, <1>3, <3>1 DEF InTurn, HandedToClients
  <2>4. ClientIsLast'
    <3>1. 1 \in 1..n
      BY <2>2
    <3> QED
      BY <1>1, <2>2, <3>1 DEF InTurn, ClientIsLast, WaitingAreLater
  <2>5. ASSUME NEW i \in 1..(n - 1)
        PROVE  i + 1 \in 1..n /\ backlog'[i] = backlog[i + 1]
    BY <2>2
  <2>6. WaitingAreLater'
    <3> SUFFICES ASSUME NEW i \in 1..(n - 1), NEW c \in left \cup {clientFd'} PROVE c < backlog'[i]
      BY <1>1, <2>2 DEF WaitingAreLater
    <3>1. CASE c \in left
      BY <2>2, <2>5, <3>1 DEF InTurn, WaitingAreLater
    <3>2. CASE c = clientFd'
      <4>1. 1 \in 1..n /\ 1 < i + 1
        BY <2>2
      <4> QED
        BY <2>2, <2>5, <3>2, <4>1 DEF InTurn, WaitingInOrder
    <3> QED
      BY <3>1, <3>2
  <2>7. WaitingInOrder'
    <3> SUFFICES ASSUME NEW i \in 1..(n - 1), NEW j \in 1..(n - 1), i < j PROVE backlog'[i] < backlog'[j]
      BY <2>2 DEF WaitingInOrder
    <3>1. i + 1 < j + 1
      OBVIOUS
    <3> QED
      BY <2>2, <2>5, <3>1 DEF InTurn, WaitingInOrder
  <2> QED
    BY <2>3, <2>4, <2>6, <2>7 DEF InTurn
<1> QED
  BY <1>2, <1>3

(* The client is given up, and with the bridge all who are waiting. *)
LEMMA GivenUpInTurn ==
  ASSUME LinkInv, InTurn, clientFd' = 0, UNCHANGED gotDown,
         \/ left' = left \cup {clientFd} /\ UNCHANGED backlog
         \/ left' = left \cup {clientFd} \cup ToSet(backlog) /\ backlog' = << >>
  PROVE  InTurn'
<1>1. HandedToClients'
  BY DEF InTurn, HandedToClients
<1>2. ClientIsLast'
  BY DEF ClientIsLast
<1>3. WaitingAreLater' /\ WaitingInOrder'
  <2>1. CASE left' = left \cup {clientFd} /\ UNCHANGED backlog
    <3>1. \A i \in 1..Len(backlog) : 0 < backlog[i]
      BY Numbered
    <3> QED
      BY <2>1, <3>1 DEF InTurn, WaitingAreLater, WaitingInOrder
  <2>2. CASE backlog' = << >>
    <3>1. Len(<< >>) = 0
      OBVIOUS
    <3> QED
      BY <2>2, <3>1 DEF WaitingAreLater, WaitingInOrder
  <2> QED
    BY <2>1, <2>2
<1> QED
  BY <1>1, <1>2, <1>3 DEF InTurn

(* A send on the client's socket. *)
LEMMA SendInTurn ==
  ASSUME LinkInv, InTurn, NEW bytes, NEW next, SendBytes(bytes, next), UNCHANGED gotDown
  PROVE  InTurn'
<1>1. CASE Written(bytes) /\ UNCHANGED << clientFd, recvBuf, backlog, left >>
  BY <1>1, InTurnStays
<1>2. CASE SendFails
  BY <1>2, GivenUpInTurn DEF SendFails, Closed
<1>3. CASE SigPipe
  BY <1>3, GivenUpInTurn DEF SigPipe
<1> QED
  BY <1>1, <1>2, <1>3 DEF SendBytes

(* What a step hands over: nothing, or a payload from the client.            *)
Nobody == UNCHANGED gotDown

Handed(p) == gotDown' = [gotDown EXCEPT ![clientFd] = Append(gotDown[clientFd], p)]

(* A call of BridgeServer_TryRecv that reads hands over one of the core's    *)
(* payloads, if any.                                                         *)
LEMMA Takes ==
  ASSUME LinkInv, SentTypes, TryRecvBytes \/ TryRecvReset
  PROVE  Nobody \/ \E p \in DownPayloads : Handed(p)
<1>1. LinkInv'
  BY BytesKeeps, ResetKeeps
<1>2. clientFd # 0 /\ UNCHANGED << clientFd, sentDown >>
  BY DEF TryRecvBytes, TryRecvReset
<1>3. PICK c \in Conns : c = clientFd
  BY <1>2, ClientConn
<1>4. gotDown \in [Conns -> Seq(LinkPayloads)]
  BY Numbered
<1>5. PICK p : Nobody \/ Handed(p)
  <2>1. PICK buf : TakeMessage(buf)
    BY DEF TryRecvBytes, TryRecvReset
  <2> QED
    BY <2>1 DEF TakeMessage, Nobody, Handed
<1>6. ASSUME Handed(p) PROVE p \in DownPayloads
  <2>1. PICK s \in Seq(LinkPayloads), t \in Seq(DownPayloads) : s = gotDown[c] /\ t = sentDown[c]
    BY <1>3, <1>4 DEF SentTypes
  <2>2. gotDown'[c] = Append(s, p)
    BY <1>3, <1>4, <1>6, <2>1 DEF Handed
  <2>3. Received(Append(s, p), t)
    BY <1>1, <1>2, <2>1, <2>2 DEF LinkInv, DownInv, DownOK
  <2>4. s \in Seq(LinkPayloads) /\ Len(s) \in Nat
    BY <1>4, <2>1
  <2>5. Len(Append(s, p)) = Len(s) + 1 /\ Append(s, p)[Len(s) + 1] = p
    BY <2>4
  <2>6. Len(s) + 1 \in 1..Len(t) /\ t[Len(s) + 1] = p
    BY <2>3, <2>4, <2>5 DEF Received
  <2> QED
    BY <2>6, ElementOfSeq
<1> QED
  BY <1>5, <1>6

(* One step, of anybody, leaves the connections in order.                    *)
LEMMA InTurnNext ==
  ASSUME LinkInv, InTurn, SentTypes, [Next]_vars
  PROVE  InTurn' /\ SentTypes'
<1>1. SentTypes'
  <2>1. CASE CcCore_LncSend
    <3>1. PICK p \in DownPayloads : sentDown' = [sentDown EXCEPT ![fd] = Append(@, p)]
      BY <2>1 DEF CcCore_LncSend
    <3>2. \A s \in Seq(DownPayloads) : Append(s, p) \in Seq(DownPayloads)
      BY AppendElements
    <3> QED
      BY <3>1, <3>2 DEF SentTypes
  <2>2. CASE ~CcCore_LncSend
    <3>1. UNCHANGED sentDown
      BY <2>2 DEF Next, Core, Turn, CcCore_LncConnect, CcCore_LncRecv, CcCore_LncRecvFails, CcCore_Close,
                  CcCore_CrashInSend, BridgeServer_Accept, NothingToForward, SendPrefix, SendPayload,
                  TryRecvBytes, TryRecvClosed, TryRecvReset, NoClient, BridgeServer_Init, history, vars
    <3> QED
      BY <3>1 DEF SentTypes
  <2> QED
    BY <2>1, <2>2
<1>2. CASE CcCore_LncConnect
  BY <1>1, <1>2, ConnectInTurn
<1>3. CASE \/ CcCore_LncSend \/ CcCore_LncRecv \/ CcCore_LncRecvFails \/ CcCore_Close
           \/ CcCore_CrashInSend \/ NothingToForward \/ NoClient \/ BridgeServer_Init \/ UNCHANGED vars
  <2>1. UNCHANGED << clientFd, backlog, left, gotDown >>
    BY <1>3 DEF CcCore_LncSend, CcCore_LncRecv, CcCore_LncRecvFails, CcCore_Close, CcCore_CrashInSend,
                NothingToForward, NoClient, BridgeServer_Init, bridge, kernel, history, vars
  <2> QED
    BY <1>1, <2>1, InTurnStays
<1>4. CASE BridgeServer_Accept
  BY <1>1, <1>4, AcceptInTurn
<1>5. CASE SendPrefix \/ SendPayload
  <2>1. UNCHANGED gotDown
    BY <1>5 DEF SendPrefix, SendPayload
  <2>2. \E bytes, next : SendBytes(bytes, next)
    BY <1>5 DEF SendPrefix, SendPayload
  <2> QED
    BY <1>1, <2>1, <2>2, SendInTurn
<1>6. CASE TryRecvClosed
  <2>1. /\ clientFd' = 0 /\ UNCHANGED << gotDown, backlog >> /\ left' = left \cup {clientFd}
    BY <1>6 DEF TryRecvClosed, Closed, history
  <2> QED
    BY <1>1, <2>1, GivenUpInTurn
<1>7. CASE TryRecvBytes \/ TryRecvReset
  <2>1. UNCHANGED << clientFd, backlog, left >>
    BY <1>7 DEF TryRecvBytes, TryRecvReset
  <2>2. \A c \in Conns : c # clientFd => gotDown'[c] = gotDown[c]
    <3>1. gotDown \in [Conns -> Seq(LinkPayloads)]
      BY Numbered
    <3> QED
      BY <1>7, <3>1, Takes DEF Nobody, Handed
  <2> QED
    BY <1>1, <2>1, <2>2, InTurnStays
<1> QED
  BY <1>1, <1>2, <1>3, <1>4, <1>5, <1>6, <1>7 DEF Next, Core, Turn

(* All that has been handed over are payloads of the core's.                 *)
LEMMA GotTypes ==
  ASSUME LinkInv, SentTypes
  PROVE  /\ gotDown \in Seq(Seq(DownPayloads)) /\ Len(gotDown) = MaxConns
         /\ FlattenSeq(gotDown) \in Seq(DownPayloads)
<1>1. PICK D : D = Seq(DownPayloads)
  OBVIOUS
<1>2. gotDown \in [Conns -> Seq(LinkPayloads)] /\ Conns = 1..MaxConns /\ MaxConns \in Nat
  BY Numbered, BoundsAreNumbers DEF Conns
<1>3. ASSUME NEW c \in Conns PROVE gotDown[c] \in D
  <2>1. PICK s \in Seq(LinkPayloads), t \in Seq(DownPayloads) : s = gotDown[c] /\ t = sentDown[c]
    BY <1>2 DEF SentTypes
  <2>2. Received(s, t)
    BY <2>1 DEF LinkInv, DownInv, DownOK
  <2>3. Len(s) \in Nat /\ DOMAIN s = 1..Len(s) /\ s = [i \in 1..Len(s) |-> s[i]]
    BY <2>1
  <2>4. \A i \in 1..Len(s) : s[i] \in DownPayloads
    <3> SUFFICES ASSUME NEW i \in 1..Len(s) PROVE s[i] \in DownPayloads
      OBVIOUS
    <3>1. i \in 1..Len(t) /\ s[i] = t[i]
      BY <2>2, <2>3, LenProperties DEF Received
    <3> QED
      BY <3>1, ElementOfSeq
  <2>5. s \in [1..Len(s) -> DownPayloads]
    BY <2>3, <2>4
  <2>6. s \in UNION {[1..n -> DownPayloads] : n \in Nat}
    BY <2>3, <2>5, Zenon
  <2>7. Seq(DownPayloads) = UNION {[1..n -> DownPayloads] : n \in Nat}
    BY SeqDef, Zenon
  <2> QED
    BY <1>1, <2>1, <2>6, <2>7, Zenon
<1>4. gotDown \in [1..MaxConns -> D]
  <2>1. gotDown = [c \in Conns |-> gotDown[c]]
    BY <1>2
  <2> QED
    BY <1>2, <1>3, <2>1
<1>5. gotDown \in Seq(D)
  <2>1. gotDown \in UNION {[1..n -> D] : n \in Nat}
    BY <1>2, <1>4, Zenon
  <2>2. Seq(D) = UNION {[1..n -> D] : n \in Nat}
    BY SeqDef, Zenon
  <2> QED
    BY <2>1, <2>2, Zenon
<1>6. Len(gotDown) = MaxConns
  BY <1>2, <1>4, <1>5, LenProperties
<1>7. gotDown \in Seq(Seq(DownPayloads))
  BY <1>1, <1>5
<1> QED
  BY <1>6, <1>7, FlattenType

(* One payload more behind all the others handed over.                       *)
JoinedWith(p) == FlattenSeq(gotDown') = Append(FlattenSeq(gotDown), p)

(* That is where it stands, since no later connection has handed anything    *)
(* over.                                                                     *)
LEMMA OnePayloadMore ==
  ASSUME NEW p \in DownPayloads, LinkInv, SentTypes, InTurn, clientFd # 0, Handed(p)
  PROVE  JoinedWith(p)
<1>1. gotDown \in Seq(Seq(DownPayloads)) /\ Len(gotDown) = MaxConns
  BY GotTypes
<1>2. PICK c \in 1..Len(gotDown) : c = clientFd
  BY <1>1, ClientConn DEF Conns
<1>3. \A d \in 1..Len(gotDown) : c < d => gotDown[d] = << >>
  <2> SUFFICES ASSUME NEW d \in 1..Len(gotDown), c < d, gotDown[d] # << >> PROVE FALSE
    OBVIOUS
  <2>1. d \in Conns /\ d \in Nat /\ c \in Nat
    BY <1>1, BoundsAreNumbers DEF Conns
  <2>2. d # c /\ ~(d < c)
    BY <2>1
  <2>3. d \in left
    BY <1>2, <2>1, <2>2 DEF InTurn, HandedToClients
  <2> QED
    BY <1>2, <2>2, <2>3 DEF InTurn, ClientIsLast
<1>4. gotDown' = [gotDown EXCEPT ![c] = Append(gotDown[c], p)]
  BY <1>2 DEF Handed
<1>5. PICK s, t : s = gotDown /\ t = gotDown' /\ s \in Seq(Seq(DownPayloads))
  BY <1>1
<1>6. /\ t = [s EXCEPT ![c] = Append(s[c], p)] /\ c \in 1..Len(s)
      /\ \A d \in 1..Len(s) : c < d => s[d] = << >>
  BY <1>3, <1>4, <1>5
<1>7. FlattenSeq(t) = Append(FlattenSeq(s), p)
  <2>1. ExtendedAt(t, s, c, p) /\ c \in 1..Len(s)
    BY <1>6 DEF ExtendedAt
  <2> QED
    BY ONLY <1>5, <2>1, FlattenLater, p \in DownPayloads
<1> QED
  BY <1>5, <1>7 DEF JoinedWith

(* A turn of the loop that reads writes the frame of what is handed over, or *)
(* nothing.                                                                  *)
LEMMA WrittenToUart ==
  ASSUME DownlinkFits, LinkInv, SentTypes, TryRecvBytes \/ TryRecvReset, Downlink
  PROVE  (Nobody /\ UNCHANGED line) \/ \E p \in DownPayloads : Handed(p) /\ Transport_Send(Frame(p))
<1>1. gotDown \in [Conns -> Seq(LinkPayloads)]
  BY Numbered
<1>2. clientFd \in Conns
  BY ClientConn DEF TryRecvBytes, TryRecvReset
<1>3. \A c \in Conns : Len(gotDown[c]) \in Nat
  BY <1>1, LenProperties
<1>4. CASE Nobody
  <2>1. ~\E d \in Conns : Len(gotDown'[d]) > Len(gotDown[d])
    BY <1>3, <1>4 DEF Nobody
  <2>2. HandedOver = {}
    BY <2>1 DEF HandedOver
  <2> QED
    BY <1>4, <2>2 DEF Downlink
<1>5. ASSUME NEW p \in DownPayloads, Handed(p)
      PROVE  Transport_Send(Frame(p))
  <2>1. PICK s \in Seq(LinkPayloads) : s = gotDown[clientFd]
    BY <1>1, <1>2
  <2>2. p \in LinkPayloads /\ p # << >>
    BY DownFramable
  <2>3. Len(s) \in Nat /\ Len(Append(s, p)) = Len(s) + 1 /\ Append(s, p)[Len(s) + 1] = p
    BY <2>2, AppendElements, LenProperties
  <2>4. gotDown'[clientFd] = Append(s, p) /\ \A d \in Conns : d # clientFd => gotDown'[d] = gotDown[d]
    BY <1>1, <1>2, <1>5, <2>1 DEF Handed
  <2>5. \A d \in Conns : Len(gotDown'[d]) > Len(gotDown[d]) <=> d = clientFd
    <3>1. Len(gotDown'[clientFd]) > Len(gotDown[clientFd])
      BY <2>1, <2>3, <2>4
    <3> QED
      BY <1>3, <2>4, <3>1
  <2>6. Last(gotDown'[clientFd]) = p
    BY <2>3, <2>4 DEF Last
  <2>7. HandedOver = {p}
    BY <1>2, <2>5, <2>6 DEF HandedOver
  <2>8. Envelope(p) = Frame(p)
    <3>1. Len(Frame(p)) \in Nat /\ Len(Frame(p)) <= FramedSize /\ FramedSize \in Nat
      <4>1. Frame(p) \in Seq(Byte)
        BY DownFramable, FrameLengths
      <4>2. Len(Frame(p)) \in Nat
        BY <4>1, LenProperties
      <4> QED
        BY <4>2, BridgeDownlinkAssumption DEF DownlinkFits, BridgeDownlinkAssumption
    <3>2. ~(Len(Frame(p)) > FramedSize)
      BY <3>1
    <3> QED
      BY <3>2 DEF Envelope, Frame_Encode
  <2> QED
    BY <2>2, <2>7, <2>8 DEF Downlink
<1>6. Nobody \/ \E p \in DownPayloads : Handed(p)
  BY Takes
<1> QED
  BY <1>4, <1>5, <1>6

(* A step writes the frame of what is handed over, or nothing. *)
LEMMA LineStep ==
  ASSUME DownlinkFits, LinkInv, SentTypes, [DownlinkNext]_<< vars, line >>
  PROVE  \/ Nobody /\ UNCHANGED line
         \/ \E p \in DownPayloads : clientFd # 0 /\ Handed(p) /\ Transport_Send(Frame(p))
<1>1. CASE UNCHANGED line /\ (Core \/ BridgeServer_Init \/ BridgeServer_Accept \/ NothingToForward
                               \/ SendPrefix \/ SendPayload \/ TryRecvClosed \/ NoClient)
  <2>1. UNCHANGED gotDown
    BY <1>1 DEF Core, CcCore_LncConnect, CcCore_LncSend, CcCore_LncRecv, CcCore_LncRecvFails, CcCore_Close,
                CcCore_CrashInSend, BridgeServer_Accept, NothingToForward, SendPrefix, SendPayload,
                TryRecvClosed, NoClient, BridgeServer_Init, history
  <2> QED
    BY <1>1, <2>1 DEF Nobody
<1>2. CASE (TryRecvBytes \/ TryRecvReset) /\ Downlink
  <2>1. clientFd # 0
    BY <1>2 DEF TryRecvBytes, TryRecvReset
  <2>2. (Nobody /\ UNCHANGED line) \/ \E p \in DownPayloads : Handed(p) /\ Transport_Send(Frame(p))
    BY <1>2, WrittenToUart
  <2> QED
    BY <2>1, <2>2
<1>3. CASE UNCHANGED << vars, line >>
  BY <1>3 DEF vars, history, Nobody
<1> QED
  BY <1>1, <1>2, <1>3 DEF DownlinkNext

-----------------------------------------------------------------------------
(* What arrives *)

(* The link's own invariant, and the order in which it hands over. *)
LinkOrder == LinkInv /\ SentTypes /\ InTurn

(* Every step keeps them. *)
LEMMA LinkOrderNext ==
  ASSUME LinkOrder, [DownlinkNext]_<< vars, line >>
  PROVE  LinkOrder'
<1>1. [Next]_vars
  BY DEF DownlinkNext, Next, Turn
<1> QED
  BY <1>1, LinkInvNext, InTurnNext DEF LinkOrder

(* Nothing has been handed over at first. *)
LEMMA LinkOrderInit ==
  ASSUME DownlinkInit
  PROVE  LinkOrder /\ FlattenSeq(gotDown) = << >>
<1>1. LinkOrder
  BY LinkInvInit, InTurnInit DEF DownlinkInit, LinkOrder
<1>2. gotDown \in Seq(Seq(DownPayloads)) /\ Len(gotDown) = MaxConns
  BY <1>1, GotTypes DEF LinkOrder
<1>3. \A c \in 1..Len(gotDown) : gotDown[c] = << >>
  BY <1>2 DEF DownlinkInit, Init, Conns
<1>4. FlattenSeq(gotDown) = << >>
  BY ONLY <1>2, <1>3, FlattenEmpty
<1> QED
  BY <1>1, <1>4

(* As long as no frame has been cut nothing is left to decode.               *)
Whole == cuts \in Nat /\ (cuts = 0 => lncRx = << >> /\ lncGot = FlattenSeq(gotDown))

(* Every step keeps that, one that cuts a frame included. *)
LEMMA WholeNext ==
  ASSUME DownlinkFits, LinkOrder, Whole, [DownlinkNext]_<< vars, line >>
  PROVE  Whole'
<1>1. CASE Nobody /\ UNCHANGED line
  BY <1>1 DEF Whole, Nobody, line
<1>2. ASSUME NEW p \in DownPayloads, clientFd # 0, Handed(p), Transport_Send(Frame(p))
      PROVE  Whole'
  <2>1. FlattenSeq(gotDown') = Append(FlattenSeq(gotDown), p)
    <3>1. JoinedWith(p)
      BY <1>2, OnePayloadMore DEF LinkOrder
    <3> QED
      BY <3>1 DEF JoinedWith
  <2>2. CASE LncReceives(Frame(p)) /\ UNCHANGED cuts
    <3>1. ASSUME cuts = 0 PROVE lncRx' = << >> /\ lncGot' = Append(lncGot, p)
      BY <2>2, <3>1, WholeArrives DEF DownlinkFits, Whole
    <3> QED
      BY <2>1, <2>2, <3>1 DEF Whole
  <2>3. CASE cuts' = cuts + 1
    <3>1. cuts' \in Nat /\ cuts' # 0
      BY <2>3 DEF Whole
    <3> QED
      BY <3>1 DEF Whole
  <2> QED
    BY <1>2, <2>2, <2>3 DEF Transport_Send
<1> QED
  BY <1>1, <1>2, LineStep DEF LinkOrder

(* What has been sent and is not decoded is in the buffer, in whole or in    *)
(* part, or has been left out.                                               *)
InPart == lncRx \in Seq(Byte) /\ lncGot \in Seq(DownPayloads) /\ Held(lncRx, lncGot, FlattenSeq(gotDown))

(* Every step keeps that. *)
LEMMA InPartNext ==
  ASSUME DownlinkFits, CutsAreNoticed(Seq(Pieces)), LinkOrder, InPart, [DownlinkNext]_<< vars, line >>
  PROVE  InPart'
<1>1. CASE Nobody /\ UNCHANGED line
  BY <1>1 DEF InPart, Nobody, line
<1>2. ASSUME NEW p \in DownPayloads, clientFd # 0, Handed(p), Transport_Send(Frame(p))
      PROVE  InPart'
  <2>1. PICK given \in Seq(DownPayloads) :
          given = FlattenSeq(gotDown) /\ FlattenSeq(gotDown') = Append(given, p)
    <3>1. JoinedWith(p) /\ FlattenSeq(gotDown) \in Seq(DownPayloads)
      BY <1>2, OnePayloadMore, GotTypes DEF LinkOrder
    <3> QED
      BY <3>1 DEF JoinedWith
  <2>2. PICK f \in PiecesOf(p) : LncReceives(f)
    BY <1>2 DEF Transport_Send, PiecesOf, CutFrames
  <2>3. /\ lncRx' \in Seq(Byte) /\ lncGot' \in Seq(DownPayloads)
        /\ Held(lncRx', lncGot', Append(given, p))
    BY <2>1, <2>2, PieceArrives DEF InPart
  <2> QED
    BY <2>1, <2>3 DEF InPart
<1> QED
  BY <1>1, <1>2, LineStep DEF LinkOrder

(* So what has been decoded is some of what has been sent, in order. *)
LEMMA HeldSubsequence ==
  ASSUME NEW b \in Seq(Byte), NEW taken \in Seq(DownPayloads), NEW given \in Seq(DownPayloads),
         Held(b, taken, given)
  PROVE  DownPipe!Subsequence(taken, given)
<1>1. PICK m, z, fs : Holds(b, taken, given, m, z, fs)
  BY DEF Held
<1>2. m \in 0..Len(given) /\ Drawn(taken, given, m)
  BY <1>1 DEF Holds
<1>3. CASE given = << >>
  <2>1. m = 0 /\ Len(<< >>) = 0
    BY <1>2, <1>3
  <2>2. PICK from \in [1..Len(taken) -> 1..0] : TRUE
    BY <1>2, <2>1 DEF Drawn
  <2>3. \A i \in 1..Len(taken) : FALSE
    BY <2>2
  <2>4. DOMAIN taken = 1..Len(taken) /\ DOMAIN given = 1..0
    BY <1>3
  <2> QED
    BY <2>2, <2>3, <2>4 DEF DownPipe!Subsequence
<1>4. CASE given # << >>
  <2>1. PICK e \in DownPayloads : e = Head(given)
    BY <1>4
  <2> QED
    BY <1>2, DrawnKept
<1> QED
  BY <1>3, <1>4

(* Nothing has been sent, and nothing received. *)
LEMMA LineInit ==
  ASSUME DownlinkInit
  PROVE  LinkOrder /\ Whole /\ InPart
<1>1. LinkOrder /\ FlattenSeq(gotDown) = << >>
  BY LinkOrderInit
<1>2. lncRx = << >> /\ lncGot = << >> /\ cuts = 0
  BY DEF DownlinkInit
<1>3. << >> \in Seq(Byte) /\ << >> \in Seq(DownPayloads)
  OBVIOUS
<1> QED
  BY <1>1, <1>2, <1>3, HeldNothing DEF Whole, InPart

(* The buffers are large enough if the LNC's has room for the longest        *)
(* payload and "framed" for twice as much and 9 bytes: with 256 and 600, as *)
(* in the bridge, they are.                                                  *)
THEOREM BuffersAreLarge ==
  ASSUME MaxLen <= LncCap, 2 * MaxLen + 9 <= FramedSize
  PROVE  DownlinkFits
<1> SUFFICES ASSUME NEW p \in DownPayloads
             PROVE  Len(p) <= LncCap /\ Len(Frame(p)) <= FramedSize
  BY DEF DownlinkFits
<1>1. /\ Body(p) \in Seq(Byte) /\ Len(p) \in Nat /\ Len(Body(p)) = Len(p) + 4
      /\ Stuffed(Body(p)) \in Seq(Byte) /\ Len(Frame(p)) = 1 + Len(Stuffed(Body(p)))
  BY DownFramable, FrameLengths
<1>2. Len(Stuffed(Body(p))) <= 2 * Len(Body(p)) /\ Len(Stuffed(Body(p))) \in Nat
  BY <1>1, StuffedBytes, LenProperties
<1>3. Len(p) \in 1..MaxLen
  BY BridgeLinkAssumption DEF BridgeLinkAssumption
<1>4. Len(p) <= MaxLen /\ MaxLen \in Nat
  BY <1>3, BoundsAreNumbers
<1>5. LncCap \in Nat /\ FramedSize \in Nat
  BY BridgeDownlinkAssumption DEF BridgeDownlinkAssumption
<1>6. PICK n, k, len, frame : n = Len(p) /\ k = Len(Stuffed(Body(p))) /\ len = Len(Body(p))
                              /\ frame = Len(Frame(p))
  OBVIOUS
<1>7. n <= LncCap /\ frame <= FramedSize
  BY ONLY <1>1, <1>2, <1>4, <1>5, <1>6, MaxLen <= LncCap, 2 * MaxLen + 9 <= FramedSize
<1> QED
  BY <1>6, <1>7

(* As long as the tty takes frames whole, and the buffers are large enough   *)
(* for them, the LNC has decoded all that the bridge has handed over, at     *)
(* once and in order.                                                        *)
THEOREM WholeFramesArrive ==
  ASSUME DownlinkFits
  PROVE  DownlinkSpec => [](cuts = 0 => lncRx = << >> /\ lncGot = FlattenSeq(gotDown))
<1>1. DownlinkInit => LinkOrder /\ Whole
  BY LineInit
<1>2. LinkOrder /\ Whole /\ [DownlinkNext]_<< vars, line >> => LinkOrder' /\ Whole'
  BY LinkOrderNext, WholeNext
<1>3. Whole => (cuts = 0 => lncRx = << >> /\ lncGot = FlattenSeq(gotDown))
  BY DEF Whole
<1> QED
  BY <1>1, <1>2, <1>3, PTL DEF DownlinkSpec

(* When it does not, and the checksum tells what is left of the frame from a *)
(* whole one, the LNC still receives nothing that was not sent, nothing      *)
(* twice and nothing out of order.                                           *)
THEOREM LncReceivesInOrder ==
  ASSUME DownlinkFits, CutsAreNoticed(Seq(Pieces))
  PROVE  DownlinkSpec => []LncGetsWhatWasSent
<1>1. DownlinkInit => LinkOrder /\ Whole /\ InPart
  BY LineInit
<1>2. LinkOrder /\ Whole /\ InPart /\ [DownlinkNext]_<< vars, line >> => LinkOrder' /\ Whole' /\ InPart'
  BY LinkOrderNext, WholeNext, InPartNext
<1>3. LinkOrder /\ Whole /\ InPart => LncGetsWhatWasSent
  BY HeldSubsequence, GotTypes DEF Whole, InPart, LinkOrder, LncGetsWhatWasSent
<1> QED
  BY <1>1, <1>2, <1>3, PTL DEF DownlinkSpec

=============================================================================
