--------------------------- MODULE FramingProofs ---------------------------
(***************************************************************************)
(* The frame codec is right for every payload: proofs about FrameTransfer  *)
(* for any sets of payloads, noises and tails, any buffer sizes and any    *)
(* 16-bit checksum; that its loops compute the operators of FrameCodec;    *)
(* and what follows for BridgeUplink, which uses the operators.            *)
(***************************************************************************)
EXTENDS FrameTransfer, BridgeUplink, SequenceLemmas

(* A 16-bit number is two bytes, and those two bytes are the number. *)
LEMMA U16RoundTrip ==
  ASSUME NEW n \in U16
  PROVE  /\ n \div 256 \in Byte
         /\ n % 256 \in Byte
         /\ Protocol_GetU16(n \div 256, n % 256) = n
BY SMTT(30) DEF U16, Byte, Protocol_GetU16

(* Stuffing yields one or two bytes, none of them START, from which          *)
(* de-stuffing recovers the byte.                                            *)
LEMMA StuffProperties ==
  ASSUME NEW b \in Byte
  PROVE  /\ Stuff(b) \in Seq(Byte)
         /\ b \in {START, ESCAPE} => /\ Len(Stuff(b)) = 2
                                    /\ Stuff(b)[1] = ESCAPE
                                    /\ Stuff(b)[2] \in Byte \ {START}
                                    /\ EscapeXor(Stuff(b)[2]) = b
         /\ b \notin {START, ESCAPE} => Len(Stuff(b)) = 1 /\ Stuff(b)[1] = b
<1>1. CASE b = START
  BY <1>1 DEF Stuff, EscapeXor, START, ESCAPE, Byte
<1>2. CASE b = ESCAPE
  BY <1>2 DEF Stuff, EscapeXor, START, ESCAPE, Byte
<1>3. CASE b \notin {START, ESCAPE}
  BY <1>3 DEF Stuff
<1>4. QED
  BY <1>1, <1>2, <1>3

(* What a part of a sequence of bytes is. *)
LEMMA PartOfBytes ==
  ASSUME NEW s, NEW m \in Int, NEW k \in Int,
         \A i \in m .. k : s[i] \in Byte
  PROVE  /\ SubSeq(s, m, k) \in Seq(Byte)
         /\ Len(SubSeq(s, m, k)) = IF m <= k THEN k - m + 1 ELSE 0
         /\ \A i \in 1 .. k - m + 1 : SubSeq(s, m, k)[i] = s[m + i - 1]
BY SubSeqProperties

(* Indexing a concatenation with a two-byte header and a two-byte trailer.    *)
LEMMA Enclosed ==
  ASSUME NEW h \in Seq(Byte), NEW p \in Seq(Byte), NEW t \in Seq(Byte),
         Len(h) = 2, Len(t) = 2
  PROVE  /\ h \o p \o t \in Seq(Byte)
         /\ Len(h \o p \o t) = Len(p) + 4
         /\ (h \o p \o t)[1] = h[1] /\ (h \o p \o t)[2] = h[2]
         /\ \A i \in 1..Len(p) : (h \o p \o t)[i + 2] = p[i]
         /\ (h \o p \o t)[Len(p) + 3] = t[1] /\ (h \o p \o t)[Len(p) + 4] = t[2]
<1> DEFINE hp == h \o p
           all == hp \o t
<1>1. /\ hp \in Seq(Byte) /\ Len(hp) = Len(p) + 2
      /\ \A i \in 1..(Len(p) + 2) : hp[i] = IF i <= 2 THEN h[i] ELSE p[i - 2]
  <2>1. /\ h \o p \in Seq(Byte)
        /\ Len(h \o p) = Len(h) + Len(p)
        /\ \A i \in 1 .. Len(h) + Len(p) :
             (h \o p)[i] = IF i <= Len(h) THEN h[i] ELSE p[i - Len(h)]
    BY ConcatProperties
  <2>2. Len(h) + Len(p) = Len(p) + 2
    BY LenProperties
  <2>3. QED
    BY <2>1, <2>2
<1> HIDE DEF hp
<1>2. /\ all \in Seq(Byte)
      /\ Len(all) = Len(p) + 4
      /\ \A i \in 1..(Len(p) + 4) :
           all[i] = IF i <= Len(p) + 2 THEN hp[i] ELSE t[i - (Len(p) + 2)]
  <2>1. /\ hp \o t \in Seq(Byte)
        /\ Len(hp \o t) = Len(hp) + Len(t)
        /\ \A i \in 1 .. Len(hp) + Len(t) :
             (hp \o t)[i] = IF i <= Len(hp) THEN hp[i] ELSE t[i - Len(hp)]
    BY <1>1, ConcatProperties
  <2>2. QED
    BY <2>1, <1>1
<1> HIDE DEF all
<1>3. Len(p) \in Nat
  OBVIOUS
<1>4. all[1] = h[1] /\ all[2] = h[2] /\ \A i \in 1..Len(p) : all[i + 2] = p[i]
  <2>1. all[1] = h[1] /\ all[2] = h[2]
    BY <1>1, <1>2, <1>3
  <2>2. ASSUME NEW i \in 1..Len(p)
        PROVE  all[i + 2] = p[i]
    <3>1. i + 2 \in 1..(Len(p) + 2) /\ i + 2 \in 1..(Len(p) + 4) /\ ~(i + 2 <= 2)
          /\ (i + 2) - 2 = i
      BY <1>3
    <3>2. QED
      BY <3>1, <1>1, <1>2
  <2>3. QED
    BY <2>1, <2>2
<1>5. all[Len(p) + 3] = t[1] /\ all[Len(p) + 4] = t[2]
  <2>1. \A i \in {1, 2} : /\ Len(p) + 2 + i \in 1..(Len(p) + 4)
                         /\ ~(Len(p) + 2 + i <= Len(p) + 2)
                         /\ (Len(p) + 2 + i) - (Len(p) + 2) = i
    BY <1>3
  <2>2. \A i \in {1, 2} : all[Len(p) + 2 + i] = t[i]
    BY <2>1, <1>2
  <2>3. Len(p) + 2 + 1 = Len(p) + 3 /\ Len(p) + 2 + 2 = Len(p) + 4
    BY <1>3
  <2>4. QED
    BY <2>2, <2>3
<1>6. QED
  BY <1>2, <1>4, <1>5 DEF all, hp

(* What a frame can carry: bytes, as many as a 16-bit length tells, with a   *)
(* 16-bit checksum.                                                          *)
Framable(p) ==
  p \in Seq(Byte) /\ Len(p) \in U16 /\ Crc(Protocol_PutU16(Len(p)) \o p) \in U16

(* Every payload of the two models is. *)
LEMMA PayloadsFramable ==
  /\ \A p \in FramePayloads : Framable(p)
  /\ \A p \in Payloads : Framable(p)
BY PayloadsAssumption, BridgeUplinkAssumption DEF Framable

(* The body of a payload: its length, the payload, its checksum. *)
LEMMA BodyProperties ==
  ASSUME NEW p, Framable(p)
  PROVE  LET n == Len(p)
             crc == Crc(Protocol_PutU16(n) \o p)
         IN  /\ n \in U16 /\ crc \in U16
             /\ p \in Seq(Byte)
             /\ Body(p) \in Seq(Byte)
             /\ Len(Body(p)) = n + 4
             /\ Body(p)[1] = n \div 256 /\ Body(p)[2] = n % 256
             /\ \A i \in 1..n : Body(p)[i + 2] = p[i]
             /\ Body(p)[n + 3] = crc \div 256 /\ Body(p)[n + 4] = crc % 256
<1> DEFINE n == Len(p)
           h == Protocol_PutU16(n)
           c == Crc(h \o p)
           t == Protocol_PutU16(c)
<1>1. p \in Seq(Byte) /\ n \in U16 /\ c \in U16
  BY DEF Framable
<1>2. h \in Seq(Byte) /\ Len(h) = 2 /\ h[1] = n \div 256 /\ h[2] = n % 256
  BY <1>1, U16RoundTrip DEF Protocol_PutU16
<1>3. t \in Seq(Byte) /\ Len(t) = 2 /\ t[1] = c \div 256 /\ t[2] = c % 256
  BY <1>1, U16RoundTrip DEF Protocol_PutU16
<1>4. Body(p) = h \o p \o t
  BY DEF Body
<1> HIDE DEF n, h, c, t
<1>5. /\ Body(p) \in Seq(Byte)
      /\ Len(Body(p)) = Len(p) + 4
      /\ Body(p)[1] = h[1] /\ Body(p)[2] = h[2]
      /\ \A i \in 1..Len(p) : Body(p)[i + 2] = p[i]
      /\ Body(p)[Len(p) + 3] = t[1] /\ Body(p)[Len(p) + 4] = t[2]
  <2>1. p \in Seq(Byte) /\ h \in Seq(Byte) /\ t \in Seq(Byte) /\ Len(h) = 2 /\ Len(t) = 2
    BY <1>1, <1>2, <1>3
  <2>2. /\ h \o p \o t \in Seq(Byte)
        /\ Len(h \o p \o t) = Len(p) + 4
        /\ (h \o p \o t)[1] = h[1] /\ (h \o p \o t)[2] = h[2]
        /\ \A i \in 1..Len(p) : (h \o p \o t)[i + 2] = p[i]
        /\ (h \o p \o t)[Len(p) + 3] = t[1] /\ (h \o p \o t)[Len(p) + 4] = t[2]
    BY <2>1, Enclosed
  <2>3. QED
    BY <2>2, <1>4
<1>6. QED
  BY <1>1, <1>2, <1>3, <1>5 DEF n, h, c, t

(* Whoever has read the body of a frame has its length, its payload and the  *)
(* checksum that was sent.                                                   *)
LEMMA WholeBody ==
  ASSUME NEW p, Framable(p), NEW g \in Seq(Byte), Len(g) >= Len(p) + 4,
         \A i \in 1..(Len(p) + 4) : g[i] = Body(p)[i]
  PROVE  /\ SubSeq(g, 3, Len(p) + 2) = p
         /\ CrcMatches(g, Len(p))
<1> DEFINE n == Len(p)
           h == Protocol_PutU16(n)
           c == Crc(h \o p)
<1>1. /\ n \in Nat /\ n \in U16 /\ c \in U16 /\ p \in Seq(Byte)
      /\ Len(Body(p)) = n + 4
      /\ Body(p)[1] = n \div 256 /\ Body(p)[2] = n % 256
      /\ \A i \in 1..n : Body(p)[i + 2] = p[i]
      /\ Body(p)[n + 3] = c \div 256 /\ Body(p)[n + 4] = c % 256
  <2>1. n \in Nat
    BY LenProperties DEF Framable
  <2> QED
    BY <2>1, BodyProperties
<1>2. Len(g) \in Nat /\ Len(g) >= n + 4 /\ \A i \in 1..(n + 4) : g[i] = Body(p)[i] /\ g[i] \in Byte
  <2>1. Len(g) \in Nat /\ \A i \in 1..Len(g) : g[i] \in Byte
    BY LenProperties, ElementOfSeq
  <2> QED
    BY <1>1, <2>1
<1> HIDE DEF n, c
<1>3. SubSeq(g, 3, n + 2) = p
  <2> DEFINE data == SubSeq(g, 3, n + 2)
  <2>1. \A i \in 3..(n + 2) : g[i] \in Byte
    BY <1>1, <1>2
  <2>2. /\ data \in Seq(Byte)
        /\ Len(data) = IF 3 <= n + 2 THEN (n + 2) - 3 + 1 ELSE 0
        /\ \A i \in 1 .. (n + 2) - 3 + 1 : data[i] = g[3 + i - 1]
    <3>1. 3 \in Int /\ n + 2 \in Int
      BY <1>1
    <3> QED
      BY ONLY <2>1, <3>1, PartOfBytes
  <2> HIDE DEF data
  <2>3. Len(data) = n
    BY <2>2, <1>1
  <2>4. ASSUME NEW i \in 1..n PROVE data[i] = p[i]
    <3>1. /\ i \in 1 .. (n + 2) - 3 + 1 /\ 3 + i - 1 = i + 2
          /\ i + 2 \in 1..(n + 4)
      BY <1>1
    <3>2. data[i] = g[3 + i - 1]
      BY <3>1, <2>2
    <3>3. g[i + 2] = Body(p)[i + 2]
      BY <3>1, <1>2
    <3>4. Body(p)[i + 2] = p[i]
      BY <1>1
    <3> QED
      BY <3>1, <3>2, <3>3, <3>4
  <2>5. data = p
    <3>1. Len(data) = Len(p) /\ \A i \in 1..Len(data) : data[i] = p[i]
      BY <2>3, <2>4 DEF n
    <3> QED
      BY <3>1, <2>2, <1>1, SeqEqual
  <2> QED
    BY <2>5 DEF data
<1>4. SubSeq(g, 1, n + 2) = h \o p
  <2> DEFINE head == SubSeq(g, 1, n + 2)
             hp == h \o p
  <2>1. h \in Seq(Byte) /\ Len(h) = 2 /\ h[1] = n \div 256 /\ h[2] = n % 256
    BY <1>1, U16RoundTrip DEF Protocol_PutU16
  <2>2. hp \in Seq(Byte) /\ Len(hp) = Len(h) + n
        /\ \A i \in 1 .. Len(h) + n : hp[i] = IF i <= Len(h) THEN h[i] ELSE p[i - Len(h)]
    <3>1. h \in Seq(Byte) /\ p \in Seq(Byte)
      BY <2>1, <1>1
    <3>2. /\ hp \in Seq(Byte) /\ Len(hp) = Len(h) + Len(p)
          /\ \A i \in 1 .. Len(h) + Len(p) :
               hp[i] = IF i <= Len(h) THEN h[i] ELSE p[i - Len(h)]
      BY <3>1, ConcatProperties
    <3> QED
      BY <3>2 DEF n
  <2>3. \A i \in 1..(n + 2) : g[i] \in Byte
    BY <1>1, <1>2
  <2>4. /\ head \in Seq(Byte)
        /\ Len(head) = IF 1 <= n + 2 THEN (n + 2) - 1 + 1 ELSE 0
        /\ \A i \in 1 .. (n + 2) - 1 + 1 : head[i] = g[1 + i - 1]
    <3>1. 1 \in Int /\ n + 2 \in Int
      BY <1>1
    <3> QED
      BY ONLY <2>3, <3>1, PartOfBytes
  <2> HIDE DEF head, hp
  <2>5. Len(head) = n + 2 /\ Len(hp) = n + 2
    BY <2>1, <2>2, <2>4, <1>1
  <2>6. ASSUME NEW i \in 1..(n + 2) PROVE head[i] = hp[i]
    <3>1. head[i] = Body(p)[i]
      <4>1. i \in 1 .. (n + 2) - 1 + 1 /\ 1 + i - 1 = i /\ i \in 1..(n + 4)
        BY <1>1
      <4> QED
        BY <4>1, <2>4, <1>2
    <3>2. CASE i = 1 \/ i = 2
      <4>1. i \in 1 .. Len(h) + n /\ i <= Len(h)
        BY <3>2, <2>1, <1>1
      <4> QED
        BY <4>1, <3>1, <3>2, <2>1, <2>2, <1>1
    <3>3. CASE i > 2
      <4>1. /\ i - 2 \in 1..n /\ (i - 2) + 2 = i
            /\ i \in 1 .. Len(h) + n /\ ~(i <= Len(h)) /\ i - Len(h) = i - 2
        BY <3>3, <2>1, <1>1
      <4>2. Body(p)[i] = p[i - 2]
        BY <4>1, <1>1
      <4>3. hp[i] = p[i - 2]
        BY <4>1, <2>2
      <4> QED
        BY <4>2, <4>3, <3>1
    <3>4. i = 1 \/ i = 2 \/ i > 2
      BY <1>1
    <3> QED
      BY <3>2, <3>3, <3>4
  <2>7. head = hp
    BY <2>2, <2>4, <2>5, <2>6, SeqEqual
  <2> QED
    BY <2>7 DEF head, hp
<1>5. Protocol_GetU16(g[n + 3], g[n + 4]) = c
  <2>1. n + 3 \in 1..(n + 4) /\ n + 4 \in 1..(n + 4)
    BY <1>1
  <2>2. g[n + 3] = c \div 256 /\ g[n + 4] = c % 256
    BY <2>1, <1>1, <1>2
  <2> QED
    BY <2>2, <1>1, U16RoundTrip
<1> QED
  BY <1>3, <1>4, <1>5 DEF n, c, CrcMatches

-----------------------------------------------------------------------------
(* Type correctness *)

(* What the type invariant says of the bytes on the line. *)
LEMMA LineProperties ==
  ASSUME TransferTypeOK
  PROVE  /\ noise \in Seq(Byte) /\ tail \in Seq(Byte)
         /\ Len(noise) \in Nat /\ Len(outBuf) \in Nat /\ Len(tail) \in Nat
         /\ Line \in Seq(Byte)
         /\ Len(Line) = Len(noise) + Len(outBuf) + Len(tail)
         /\ \A i \in 1..Len(noise) : Line[i] = noise[i] /\ noise[i] # START
         /\ \A i \in 1..Len(outBuf) : Line[Len(noise) + i] = outBuf[i]
<1> DEFINE nw == noise \o outBuf
<1>1. noise \in Seq(Byte \ {START}) /\ tail \in Seq(Byte) /\ outBuf \in Seq(Byte)
  BY PayloadsAssumption DEF TransferTypeOK
<1>2. noise \in Seq(Byte) /\ \A i \in 1..Len(noise) : noise[i] # START
  <2>1. \A i \in 1..Len(noise) : noise[i] \in Byte \ {START}
    BY <1>1, ElementOfSeq
  <2>2. QED
    BY <2>1, <1>1
<1>3. Len(noise) \in Nat /\ Len(outBuf) \in Nat /\ Len(tail) \in Nat
  BY <1>1, LenProperties
<1>4. /\ nw \in Seq(Byte)
      /\ Len(nw) = Len(noise) + Len(outBuf)
      /\ \A i \in 1 .. Len(noise) + Len(outBuf) :
           nw[i] = IF i <= Len(noise) THEN noise[i] ELSE outBuf[i - Len(noise)]
  BY <1>1, <1>2, ConcatProperties
<1> HIDE DEF nw
<1>5. /\ nw \o tail \in Seq(Byte)
      /\ Len(nw \o tail) = Len(nw) + Len(tail)
      /\ \A i \in 1 .. Len(nw) + Len(tail) :
           (nw \o tail)[i] = IF i <= Len(nw) THEN nw[i] ELSE tail[i - Len(nw)]
  <2>1. nw \in Seq(Byte) /\ tail \in Seq(Byte)
    BY <1>1, <1>4
  <2>2. QED
    BY <2>1, ConcatProperties
<1>6. Line = nw \o tail
  BY DEF Line, nw
<1> DEFINE all == nw \o tail
<1> HIDE DEF all
<1>7. /\ all \in Seq(Byte)
      /\ Len(all) = Len(noise) + Len(outBuf) + Len(tail)
      /\ \A i \in 1 .. Len(noise) + Len(outBuf) : all[i] = nw[i]
  <2>1. /\ all \in Seq(Byte)
        /\ Len(all) = Len(nw) + Len(tail)
        /\ \A i \in 1 .. Len(nw) + Len(tail) :
             all[i] = IF i <= Len(nw) THEN nw[i] ELSE tail[i - Len(nw)]
    BY <1>5 DEF all
  <2>2. QED
    BY <2>1, <1>3, <1>4
<1>8. ASSUME NEW i \in 1..Len(noise)
      PROVE  all[i] = noise[i]
  <2>1. i \in 1 .. Len(noise) + Len(outBuf) /\ i <= Len(noise)
    BY <1>3
  <2>2. QED
    BY <2>1, <1>4, <1>7
<1>9. ASSUME NEW i \in 1..Len(outBuf)
      PROVE  all[Len(noise) + i] = outBuf[i]
  <2>1. /\ Len(noise) + i \in 1 .. Len(noise) + Len(outBuf)
        /\ ~(Len(noise) + i <= Len(noise))
        /\ Len(noise) + i - Len(noise) = i
    BY <1>3
  <2>2. QED
    BY <2>1, <1>4, <1>7
<1>10. Line = all
  BY <1>6 DEF all
<1>11. QED
  BY <1>1, <1>2, <1>3, <1>7, <1>8, <1>9, <1>10

(* Undoing an escape yields a byte, whatever was escaped. *)
LEMMA EscapeXorType ==
  ASSUME NEW b \in Byte
  PROVE  EscapeXor(b) \in Byte
BY DEF Byte, EscapeXor

(* The length of what is on the line. *)
LEMMA ConcatLength ==
  ASSUME NEW n \in Seq(Byte), NEW w \in Seq(Byte), NEW t \in Seq(Byte)
  PROVE  Len(n \o w \o t) = Len(n) + Len(w) + Len(t)
<1>1. n \o w \in Seq(Byte) /\ Len(n \o w) = Len(n) + Len(w)
  BY ConcatProperties
<1>2. QED
  BY <1>1, ConcatProperties

(* Every variable stays of its type: TransferTypeOK is inductive as it       *)
(* stands, because Frame_Decode's reads are bounded by inLen.                *)
LEMMA TypeInit == TransferInit => TransferTypeOK
<1> SUFFICES ASSUME TransferInit PROVE TransferTypeOK
  OBVIOUS
<1> USE DEF TransferInit
<1>1. /\ pc \in {"encode", "arrive", "scan", "read", "done"}
      /\ payload \in FramePayloads /\ noise \in Noises /\ tail \in Tails
      /\ written \in Nat /\ idx \in Nat /\ got \in Seq(Byte)
      /\ result.consumed \in Nat /\ result.res = "NONE"
  BY DEF NoResult
<1>2. outBuf \in Seq(Byte)
  BY DEF START, Byte
<1>3. filled \in [0..written -> Nat]
  BY 0..0 = {0}
<1>4. avail \in 0..Len(Line)
  <2>1. noise \in Seq(Byte \ {START}) /\ tail \in Seq(Byte)
    BY PayloadsAssumption
  <2>2. noise \in Seq(Byte)
    BY <2>1
  <2>3. Line \in Seq(Byte)
    BY <1>2, <2>1, <2>2 DEF Line
  <2>4. QED
    BY <2>3, LenProperties
<1>5. QED
  BY <1>1, <1>2, <1>3, <1>4 DEF TransferTypeOK

(* Every step keeps the types.                                               *)
LEMMA TypeNext ==
  ASSUME TransferTypeOK, [TransferNext]_transfer
  PROVE  TransferTypeOK'
<1> USE DEF TransferTypeOK
<1>0. /\ Body(payload) \in Seq(Byte)
      /\ Line \in Seq(Byte) /\ Len(Line) \in Nat
      /\ \A i \in 1..Len(Line) : Line[i] \in Byte
  <2>1. Body(payload) \in Seq(Byte)
    BY PayloadsFramable, BodyProperties
  <2>2. Line \in Seq(Byte)
    BY LineProperties
  <2>3. QED
    BY <2>1, <2>2, LenProperties, ElementOfSeq
<1>1. CASE WriteByte
  <2> DEFINE raw == Stuff(Body(payload)[written + 1])
  <2>1. raw \in Seq(Byte)
    <3>1. Body(payload)[written + 1] \in Byte
      BY <1>0, <1>1, LenProperties, ElementOfSeq DEF WriteByte
    <3>2. QED
      BY <3>1, StuffProperties
  <2>2. outBuf' = outBuf \o raw /\ outBuf' \in Seq(Byte)
    BY <1>1, <2>1 DEF WriteByte
  <2>3. Len(outBuf) \in Nat /\ Len(raw) \in Nat
    BY <2>1, LenProperties
  <2>4. filled' \in [0..written' -> Nat]
    BY <1>1, <2>3 DEF WriteByte
  <2>5. avail' \in 0..Len(Line')
    <3>1. noise \in Seq(Byte) /\ tail \in Seq(Byte) /\ outBuf \in Seq(Byte)
      BY LineProperties
    <3>2. Len(Line') = Len(noise) + Len(outBuf') + Len(tail)
      BY <3>1, <2>2, <1>1, ConcatLength DEF Line, WriteByte
    <3>3. Len(Line) = Len(noise) + Len(outBuf) + Len(tail)
      BY <3>1, ConcatLength DEF Line
    <3>4. Len(outBuf') = Len(outBuf) + Len(raw)
      BY <2>1, <2>2, <3>1, ConcatProperties
    <3>5. Len(noise) \in Nat /\ Len(tail) \in Nat
      BY <3>1, LenProperties
    <3>6. Len(Line') = Len(Line) + Len(raw)
      BY <3>2, <3>3, <3>4, <3>5, <2>3
    <3>7. avail' = avail
      BY <1>1 DEF WriteByte, decoder
    <3>8. QED
      BY <3>6, <3>7, <2>3, <1>0
  <2>6. QED
    BY <1>1, <2>2, <2>4, <2>5 DEF WriteByte, decoder
<1>2. CASE WriteFails
  BY <1>2 DEF WriteFails, encoder, decoder, Line
<1>3. CASE Encoded
  BY <1>3 DEF Encoded, encoder, decoder, Line
<1>4. CASE Arrive
  BY <1>4, <1>0 DEF Arrive, encoder, Line
<1>5. CASE ScanNoise
  BY <1>5 DEF ScanNoise, encoder, Line
<1>6. CASE ScanStart
  BY <1>6 DEF ScanStart, encoder, Line
<1>7. CASE ScanFails
  BY <1>7 DEF ScanFails, Return, encoder, decoder, Line
<1>8. CASE ReadByte
  <2>1. ASSUME Escaped
        PROVE  got' \in Seq(Byte) /\ idx' \in Nat
    <3>1. idx + 2 \in 1..Len(Line)
      BY <1>8, <2>1, <1>0 DEF ReadByte, CanRead
    <3>2. EscapeXor(Line[idx + 2]) \in Byte
      BY <3>1, <1>0, EscapeXorType
    <3>3. got' = Append(got, EscapeXor(Line[idx + 2])) /\ idx' = idx + 2
      BY <1>8, <2>1 DEF ReadByte
    <3>4. QED
      BY <3>2, <3>3
  <2>2. ASSUME ~Escaped
        PROVE  got' \in Seq(Byte) /\ idx' \in Nat
    <3>1. idx + 1 \in 1..Len(Line)
      BY <1>8, <2>2, <1>0 DEF ReadByte, CanRead
    <3>2. Line[idx + 1] \in Byte
      BY <3>1, <1>0
    <3>3. got' = Append(got, Line[idx + 1]) /\ idx' = idx + 1
      BY <1>8, <2>2 DEF ReadByte
    <3>4. QED
      BY <3>2, <3>3
  <2>3. got' \in Seq(Byte) /\ idx' \in Nat
    BY <2>1, <2>2
  <2>4. QED
    BY <2>3, <1>8 DEF ReadByte, encoder, Line
<1>9. CASE ReadFails
  BY <1>9 DEF ReadFails, Return, encoder, decoder, Line
<1>10. CASE RejectLength
  BY <1>10 DEF RejectLength, Return, encoder, decoder, Line
<1>11. CASE CheckCrc
  BY <1>11 DEF CheckCrc, Return, encoder, decoder, Line
<1>12. CASE UNCHANGED transfer
  BY <1>12 DEF transfer, encoder, decoder, Line
<1>13. QED
  BY <1>1, <1>2, <1>3, <1>4, <1>5, <1>6, <1>7, <1>8, <1>9, <1>10, <1>11, <1>12 DEF TransferNext

(* The variables have their types in every reachable state. *)
THEOREM Typing == TransferSpec => []TransferTypeOK
<1>1. TransferInit => TransferTypeOK
  BY TypeInit
<1>2. TransferTypeOK /\ [TransferNext]_transfer => TransferTypeOK'
  BY TypeNext
<1>3. QED
  BY <1>1, <1>2, PTL DEF TransferSpec

-----------------------------------------------------------------------------
(* The encoder *)

(* The lengths of a payload and of its body.                                 *)
LEMMA BodyOfPayload ==
  ASSUME TransferTypeOK
  PROVE  /\ payload \in FramePayloads
         /\ Len(payload) \in Nat /\ Len(payload) \in U16
         /\ Body(payload) \in Seq(Byte)
         /\ Len(Body(payload)) = Len(payload) + 4
         /\ Protocol_GetU16(Body(payload)[1], Body(payload)[2]) = Len(payload)
<1>1. payload \in FramePayloads
  BY DEF TransferTypeOK
<1>2. /\ Len(payload) \in U16
      /\ Body(payload) \in Seq(Byte)
      /\ Len(Body(payload)) = Len(payload) + 4
      /\ Body(payload)[1] = Len(payload) \div 256
      /\ Body(payload)[2] = Len(payload) % 256
  BY <1>1, PayloadsFramable, BodyProperties
<1>3. Protocol_GetU16(Len(payload) \div 256, Len(payload) % 256) = Len(payload)
  BY <1>2, U16RoundTrip
<1>4. Len(payload) \in Nat
  <2>1. payload \in Seq(Byte)
    BY <1>1, PayloadsAssumption
  <2>2. QED
    BY <2>1, LenProperties
<1>5. Protocol_GetU16(Body(payload)[1], Body(payload)[2]) = Len(payload)
  BY <1>2, <1>3
<1>6. QED
  BY <1>1, <1>2, <1>4, <1>5

(* One more byte of the body, laid out behind the ones before it: outBuf     *)
(* still holds the body so far and START is still only its first byte.       *)
LEMMA WriteByteStep ==
  ASSUME TransferTypeOK, Inductive, WriteByte
  PROVE  WireHoldsBody' /\ OnlyFirstIsStart' /\ EncodeFits'
<1> DEFINE b   == Body(payload)[written + 1]
           raw == Stuff(b)
           L   == Len(outBuf)
           R   == Len(raw)
<1>1. /\ Body(payload) \in Seq(Byte) /\ Len(Body(payload)) = Len(payload) + 4
      /\ Len(payload) \in Nat
  BY BodyOfPayload
<1>2. written \in Nat /\ written + 1 <= Len(Body(payload)) /\ written' = written + 1
  <2>1. Len(Body(payload)) \in Nat
    BY <1>1
  <2>2. QED
    BY <2>1 DEF WriteByte, TransferTypeOK
<1>3. b \in Byte
  BY <1>1, <1>2, ElementOfSeq
<1>4. /\ raw \in Seq(Byte) /\ R \in 1..2
      /\ \A i \in 1..R : raw[i] # START
  BY <1>3, StuffProperties DEF START, ESCAPE
<1>5. outBuf \in Seq(Byte) /\ L \in Nat /\ filled \in [0..written -> Nat]
  BY LenProperties DEF TransferTypeOK
<1>6. outBuf' = outBuf \o raw
  BY DEF WriteByte
<1>7. filled' = [k \in 0..(written + 1) |-> IF k <= written THEN filled[k] ELSE L + R]
  BY DEF WriteByte
<1>8. payload' = payload /\ result' = result /\ pc' = "encode" /\ pc = "encode"
  BY DEF WriteByte
<1> HIDE DEF raw, b
<1>9. /\ Len(outBuf') = L + R
      /\ \A i \in 1..(L + R) : outBuf'[i] = IF i <= L THEN outBuf[i] ELSE raw[i - L]
  BY <1>4, <1>5, <1>6, ConcatProperties
<1>10. /\ filled[0] = 1 /\ filled[written] = L /\ \A k \in 1..written : LaidOut(k)
       /\ \A j, k \in 0..written :
            j <= k => filled[j] + (k - j) <= filled[k] /\ filled[k] <= filled[j] + 2 * (k - j)
  BY DEF Inductive, WireHoldsBody
<1>11. /\ \A k \in 0..written : filled'[k] = filled[k] /\ filled[k] \in Nat
       /\ filled'[written + 1] = L + R
  BY <1>2, <1>5, <1>7
<1>12. ASSUME NEW k \in 1..(written + 1)
       PROVE  LaidOut(k)'
  <2>1. CASE k <= written
    <3>1. k \in 1..written /\ k - 1 \in 0..written /\ k \in 0..written
      BY <1>2, <2>1
    <3> DEFINE s == Stuff(Body(payload)[k])
    <3>2. filled[k] = filled[k - 1] + Len(s) /\ \A i \in 1..Len(s) : outBuf[filled[k - 1] + i] = s[i]
      BY <3>1, <1>10 DEF LaidOut
    <3>3. Body(payload)[k] \in Byte
      BY <3>1, <1>1, <1>2, ElementOfSeq
    <3>4. Len(s) \in Nat
      BY <3>3, StuffProperties, LenProperties
    <3>5. filled[k] <= L
      <4>1. written \in 0..written
        BY <1>2
      <4>2. filled[k] + (written - k) <= filled[written]
        BY <4>1, <3>1, <2>1, <1>10
      <4>3. filled[k] \in Nat /\ filled[written] = L
        BY <3>1, <1>10, <1>11
      <4>4. QED
        BY <4>2, <4>3, <3>1, <2>1, <1>2, <1>5
    <3> HIDE DEF s
    <3>6. ASSUME NEW i \in 1..Len(s)
          PROVE  outBuf'[filled'[k - 1] + i] = s[i]
      <4>1. filled[k - 1] + i \in 1..L
        BY <3>1, <3>2, <3>4, <3>5, <1>5, <1>11
      <4>2. outBuf'[filled[k - 1] + i] = outBuf[filled[k - 1] + i]
        BY <4>1, <1>4, <1>5, <1>9
      <4>3. QED
        BY <4>2, <3>1, <3>2, <1>11
    <3>7. QED
      BY <3>1, <3>2, <3>6, <1>8, <1>11 DEF LaidOut, s
  <2>2. CASE k = written + 1
    <3>1. k - 1 = written /\ written \in 0..written
      BY <2>2, <1>2
    <3>2. filled'[k - 1] = L /\ filled'[k] = L + R
      BY <3>1, <2>2, <1>10, <1>11
    <3>3. ASSUME NEW i \in 1..R
          PROVE  outBuf'[L + i] = raw[i]
      <4>1. L + i \in 1..(L + R) /\ ~(L + i <= L) /\ L + i - L = i
        BY <1>4, <1>5
      <4>2. QED
        BY <4>1, <1>9
    <3>4. QED
      BY <3>2, <3>3, <2>2, <1>8 DEF LaidOut, raw, b
  <2>3. QED
    BY <2>1, <2>2, <1>2
<1>13. \A j, k \in 0..(written + 1) :
         j <= k => filled'[j] + (k - j) <= filled'[k] /\ filled'[k] <= filled'[j] + 2 * (k - j)
  <2> SUFFICES ASSUME NEW j \in 0..(written + 1), NEW k \in 0..(written + 1), j <= k
               PROVE  filled'[j] + (k - j) <= filled'[k] /\ filled'[k] <= filled'[j] + 2 * (k - j)
    OBVIOUS
  <2>1. CASE k <= written
    <3>1. j \in 0..written /\ k \in 0..written
      BY <2>1, <1>2
    <3>2. filled[j] + (k - j) <= filled[k] /\ filled[k] <= filled[j] + 2 * (k - j)
      BY <3>1, <1>10
    <3>3. filled'[j] = filled[j] /\ filled'[k] = filled[k]
      BY <3>1, <1>11
    <3>4. QED
      BY <3>2, <3>3
  <2>2. CASE k = written + 1 /\ j <= written
    <3>1. j \in 0..written /\ written \in 0..written /\ j <= written
      BY <2>2, <1>2
    <3>2. filled[j] + (written - j) <= filled[written] /\ filled[written] <= filled[j] + 2 * (written - j)
      BY <3>1, <1>10
    <3>3. filled'[j] = filled[j] /\ filled[j] \in Nat /\ filled'[k] = L + R /\ filled[written] = L
      BY <2>2, <3>1, <1>10, <1>11
    <3>4. k - j = (written - j) + 1
      BY <2>2, <3>1, <1>2
    <3>5. written - j \in Int
      BY <3>1, <1>2
    <3> HIDE DEF L, R
    <3>6. QED
      BY <3>2, <3>3, <3>4, <3>5, <1>4, <1>5, SMTT(30)
  <2>3. CASE k = written + 1 /\ j = written + 1
    BY <2>3, <1>2, <1>4, <1>5, <1>11
  <2>4. QED
    BY <2>1, <2>2, <2>3, <1>2
<1>14. WireHoldsBody'
  <2>1. written' <= Len(Body(payload'))
    BY <1>2, <1>8
  <2>2. filled'[0] = 1
    <3>1. 0 \in 0..written
      BY <1>2
    <3>2. QED
      BY <3>1, <1>10, <1>11
  <2>3. filled'[written'] = Len(outBuf')
    BY <1>2, <1>9, <1>11
  <2>4. \A k \in 1..written' : LaidOut(k)'
    BY <1>2, <1>12
  <2>5. \A j, k \in 0..written' :
          j <= k => filled'[j] + (k - j) <= filled'[k] /\ filled'[k] <= filled'[j] + 2 * (k - j)
    BY <1>2, <1>13
  <2>6. QED
    BY <2>1, <2>2, <2>3, <2>4, <2>5 DEF WireHoldsBody
<1>15. OnlyFirstIsStart'
  <2>1. L >= 1
    BY <1>2, <1>5, <1>10
  <2>2. \A i \in 1..L : outBuf[i] = START <=> i = 1
    BY DEF Inductive, OnlyFirstIsStart
  <2>3. ASSUME NEW i \in 1..(L + R)
        PROVE  outBuf'[i] = START <=> i = 1
    <3>1. CASE i <= L
      BY <3>1, <2>2, <1>4, <1>5, <1>9
    <3>2. CASE i > L
      <4>1. i - L \in 1..R
        BY <3>2, <1>4, <1>5
      <4>2. outBuf'[i] = raw[i - L]
        BY <3>2, <1>4, <1>5, <1>9
      <4>3. QED
        BY <4>1, <4>2, <3>2, <2>1, <1>4, <1>5
    <3>3. QED
      BY <3>1, <3>2, <1>4, <1>5
  <2>4. QED
    BY <2>3, <1>9 DEF OnlyFirstIsStart
<1>16. EncodeFits'
  <2>1. L <= 1 + 2 * written
    <3>1. 0 \in 0..written /\ written \in 0..written
      BY <1>2
    <3>2. QED
      BY <3>1, <1>2, <1>10
  <2>2. L + R <= 1 + 2 * (Len(payload) + 4)
    <3>1. written + 1 <= Len(payload) + 4
      BY <1>1, <1>2
    <3> HIDE DEF L, R
    <3>2. QED
      BY <2>1, <3>1, <1>1, <1>2, <1>4, <1>5
  <2>3. result'.res # "ENCODE_TOO_SMALL"
    BY <1>8 DEF Inductive, GotIsPrefix
  <2>4. QED
    BY <2>2, <2>3, <1>8, <1>9 DEF EncodeFits, WorstCase
<1>17. QED
  BY <1>14, <1>15, <1>16

-----------------------------------------------------------------------------
(* The decoder *)

(* Once the two length bytes are read, the length is the payload's. *)
LEMMA DeclaredIsLength ==
  ASSUME TransferTypeOK, Inductive, pc = "read", Len(got) >= 2
  PROVE  DeclaredLen = Len(payload)
<1>1. Len(got) \in Nat
  BY LenProperties DEF TransferTypeOK
<1>2. got[1] = Body(payload)[1] /\ got[2] = Body(payload)[2]
  BY <1>1 DEF Inductive, GotIsPrefix
<1>3. QED
  BY <1>2, BodyOfPayload DEF DeclaredLen

(* While there is a byte left to read, the raw bytes behind idx are the      *)
(* stuffed next byte of the body, and the frame does not end before them.    *)
LEMMA NextByte ==
  ASSUME TransferTypeOK, Inductive, pc = "read", ~TooLarge, Len(got) < Needed
  PROVE  LET m == Len(got)
             raw == Stuff(Body(payload)[m + 1])
         IN  /\ m \in Nat /\ m + 1 \in 1..written
             /\ Body(payload)[m + 1] \in Byte
             /\ idx = Len(noise) + filled[m]
             /\ filled[m + 1] = filled[m] + Len(raw)
             /\ \A i \in 1..Len(raw) : Line[idx + i] = raw[i]
             /\ idx + Len(raw) <= FramedLen
             /\ filled[m] \in Nat
<1> DEFINE m == Len(got)
           b == Body(payload)[m + 1]
           raw == Stuff(b)
<1>1. m \in Nat /\ written \in Nat /\ outBuf \in Seq(Byte) /\ Len(outBuf) \in Nat
      /\ filled \in [0..written -> Nat]
  BY LenProperties DEF TransferTypeOK
<1>2. written = Len(Body(payload)) /\ idx = Len(noise) + filled[m]
  BY DEF Inductive, GotIsPrefix
<1>3. m + 1 \in 1..written
  <2>1. CASE m < 2
    BY <2>1, <1>1, <1>2, BodyOfPayload
  <2>2. CASE m >= 2
    <3>1. Needed = Len(payload) + 4
      BY <2>2, <1>1, DeclaredIsLength DEF Needed
    <3>2. QED
      BY <3>1, <1>1, <1>2, BodyOfPayload
  <2>3. QED
    BY <2>1, <2>2, <1>1
<1>4. b \in Byte
  BY <1>2, <1>3, BodyOfPayload, ElementOfSeq
<1>5. raw \in Seq(Byte) /\ Len(raw) \in 1..2
  BY <1>4, StuffProperties
<1>6. m + 1 - 1 = m
  BY <1>1
<1>7. filled[m + 1] = filled[m] + Len(raw) /\ \A i \in 1..Len(raw) : outBuf[filled[m] + i] = raw[i]
  <2>1. LaidOut(m + 1)
    BY <1>3 DEF Inductive, WireHoldsBody
  <2>2. QED
    BY <2>1, <1>6 DEF LaidOut
<1>8. filled[m] \in Nat /\ filled[m + 1] \in Nat
  BY <1>1, <1>3
<1>9. filled[m + 1] <= Len(outBuf)
  <2>1. written \in 0..written /\ m + 1 \in 0..written /\ m + 1 <= written
    BY <1>1, <1>3
  <2>2. filled[m + 1] + (written - (m + 1)) <= filled[written] /\ filled[written] = Len(outBuf)
    BY <2>1 DEF Inductive, WireHoldsBody
  <2>3. QED
    BY <2>1, <2>2, <1>1, <1>8
<1> HIDE DEF raw, b, m
<1>10. ASSUME NEW i \in 1..Len(raw)
       PROVE  Line[idx + i] = raw[i]
  <2>1. filled[m] + i \in 1..Len(outBuf)
    BY <1>1, <1>5, <1>7, <1>8, <1>9, SMTT(30)
  <2>2. Line[Len(noise) + (filled[m] + i)] = outBuf[filled[m] + i]
    BY <2>1, LineProperties
  <2>3. Len(noise) + (filled[m] + i) = idx + i
    BY <1>2, <1>5, <1>8, LineProperties
  <2>4. QED
    BY <2>2, <2>3, <1>7
<1>11. idx + Len(raw) <= FramedLen
  BY <1>1, <1>2, <1>5, <1>7, <1>8, <1>9, LineProperties, SMTT(30) DEF FramedLen
<1>12. QED
  BY <1>1, <1>2, <1>3, <1>4, <1>7, <1>8, <1>10, <1>11 DEF raw, b, m

(* destuff_read_byte yields the next byte of the body. *)
LEMMA ReadByteStep ==
  ASSUME TransferTypeOK, Inductive, ReadByte
  PROVE  GotIsPrefix'
<1> DEFINE m == Len(got)
           b == Body(payload)[m + 1]
           raw == Stuff(b)
<1>1. pc = "read" /\ ~TooLarge /\ m < Needed
  BY DEF ReadByte
<1>2. /\ m \in Nat /\ m + 1 \in 1..written /\ b \in Byte
      /\ idx = Len(noise) + filled[m]
      /\ filled[m + 1] = filled[m] + Len(raw) /\ filled[m] \in Nat
      /\ \A i \in 1..Len(raw) : Line[idx + i] = raw[i]
      /\ Len(noise) \in Nat
  BY <1>1, NextByte, LineProperties
<1>3. /\ Len(raw) \in 1..2
      /\ Len(raw) = 2 <=> raw[1] = ESCAPE
      /\ Len(raw) = 2 => EscapeXor(raw[2]) = b
      /\ Len(raw) = 1 => raw[1] = b
  BY <1>2, StuffProperties
<1>4. Len(raw) = 2 <=> Escaped
  BY <1>2, <1>3 DEF Escaped
<1>5. got' = Append(got, b) /\ idx' = idx + Len(raw)
  <2>1. CASE Escaped
    <3>1. Len(raw) = 2 /\ Line[idx + 1] = raw[1] /\ Line[idx + 2] = raw[2] /\ EscapeXor(raw[2]) = b
      BY <2>1, <1>2, <1>3, <1>4
    <3> HIDE DEF raw, b
    <3>2. QED
      BY <2>1, <3>1 DEF ReadByte
  <2>2. CASE ~Escaped
    <3>1. Len(raw) = 1 /\ Line[idx + 1] = raw[1] /\ raw[1] = b
      BY <2>2, <1>2, <1>3, <1>4
    <3> HIDE DEF raw, b
    <3>2. QED
      BY <2>2, <3>1 DEF ReadByte
  <2>3. QED
    BY <2>1, <2>2
<1>6. /\ pc' = "read" /\ payload' = payload /\ written' = written /\ filled' = filled
      /\ outBuf' = outBuf /\ noise' = noise /\ avail' = avail /\ result' = result
  BY <1>1 DEF ReadByte, encoder
<1>7. got \in Seq(Byte)
  BY DEF TransferTypeOK
<1> HIDE DEF raw, b
<1>8. got' \in Seq(Byte) /\ Len(got') = m + 1
      /\ \A i \in 1..(m + 1) : got'[i] = IF i <= m THEN got[i] ELSE b
  BY <1>2, <1>5, <1>7
<1>9. ASSUME NEW i \in 1..(m + 1)
      PROVE  got'[i] = Body(payload)[i]
  <2>1. CASE i <= m
    BY <2>1, <1>1, <1>2, <1>8 DEF Inductive, GotIsPrefix
  <2>2. CASE i = m + 1
    BY <2>2, <1>2, <1>8 DEF b
  <2>3. QED
    BY <2>1, <2>2, <1>2
<1>10. idx' <= avail
  <2>1. idx < avail /\ (Escaped => idx + 1 < avail)
    BY DEF ReadByte, CanRead
  <2>2. idx \in Nat /\ avail \in Nat
    BY LineProperties DEF TransferTypeOK
  <2>3. CASE Escaped
    <3>1. idx' = idx + 2 /\ idx + 1 < avail
      BY <2>3, <2>1, <1>3, <1>4, <1>5
    <3>2. QED
      BY <3>1, <2>2
  <2>4. CASE ~Escaped
    <3>1. idx' = idx + 1 /\ idx < avail
      <4>1. Len(raw) = 1
        BY <2>4, <1>3, <1>4
      <4>2. QED
        BY <4>1, <2>1, <1>5
    <3>2. QED
      BY <3>1, <2>2
  <2>5. QED
    BY <2>3, <2>4
<1>11. Len(got') <= Needed' \/ TooLarge'
  <2>1. CASE m >= 2
    <3>1. got'[1] = got[1] /\ got'[2] = got[2]
      BY <2>1, <1>2, <1>8
    <3>2. Needed' = Needed
      BY <2>1, <3>1, <1>2, <1>8 DEF Needed, DeclaredLen
    <3>3. Needed \in Nat
      BY <2>1, <1>1, <1>2, DeclaredIsLength, BodyOfPayload DEF Needed
    <3>4. QED
      BY <3>2, <3>3, <1>1, <1>2, <1>8
  <2>2. CASE m = 1
    <3>1. 1 \in 1..(m + 1) /\ 2 \in 1..(m + 1)
      BY <2>2
    <3>2. got'[1] = Body(payload)[1] /\ got'[2] = Body(payload)[2]
      BY <3>1, <1>9
    <3>3. DeclaredLen' = Len(payload)
      BY <3>2, BodyOfPayload DEF DeclaredLen
    <3>4. Needed' = Len(payload) + 4
      BY <2>2, <3>3, <1>8 DEF Needed
    <3>5. QED
      BY <3>4, <2>2, <1>8, BodyOfPayload
  <2>3. CASE m = 0
    <3>1. Len(got') = 1
      BY <2>3, <1>8
    <3>2. Needed' = IF Len(got') < 2 THEN 2 ELSE DeclaredLen' + 4
      BY DEF Needed
    <3>3. Needed' = 2
      BY <3>1, <3>2
    <3>4. Len(got') <= Needed'
      BY <3>1, <3>3
    <3>5. QED
      BY <3>4
  <2>4. m \in Nat
    BY <1>2
  <2>5. m >= 2 \/ m = 1 \/ m = 0
    BY <2>4
  <2>6. QED
    BY <2>1, <2>2, <2>3, <2>5
<1>12. written = Len(Body(payload)) /\ avail > 0
       /\ result.res \in {"NONE", "INCOMPLETE"}
  BY <1>1 DEF Inductive, GotIsPrefix
<1>13. idx' = Len(noise) + filled[m + 1]
  BY <1>2, <1>3, <1>5
<1>14. QED
  BY <1>2, <1>6, <1>8, <1>9, <1>10, <1>11, <1>12, <1>13 DEF GotIsPrefix

(* When the loops have read all they need, they have read the body, up to    *)
(* the last byte of the frame, and the checksum they compare is the one that *)
(* was sent.                                                                 *)
LEMMA AllRead ==
  ASSUME TransferTypeOK, Inductive, pc = "read", ~TooLarge, Len(got) = Needed
  PROVE  /\ SubSeq(got, 3, Len(got) - 2) = payload
         /\ idx = FramedLen
         /\ DeclaredLen = Len(payload)
         /\ CrcMatches(got, DeclaredLen)
<1>1. Len(got) >= 2
  <2>1. CASE Len(got) < 2
    BY <2>1 DEF Needed
  <2>2. Len(got) \in Nat
    BY LenProperties DEF TransferTypeOK
  <2>3. QED
    BY <2>1, <2>2
<1>2. DeclaredLen = Len(payload)
  BY <1>1, DeclaredIsLength
<1>3. Len(got) = Len(payload) + 4
  <2>1. Needed = Len(payload) + 4
    <3>1. ~(Len(got) < 2)
      BY <1>1, LenProperties DEF TransferTypeOK
    <3>2. QED
      BY <3>1, <1>2 DEF Needed
  <2>2. QED
    BY <2>1
<1>4. Len(payload) \in Nat /\ Len(Body(payload)) = Len(payload) + 4 /\ Framable(payload)
  BY BodyOfPayload, PayloadsFramable
<1>5. got \in Seq(Byte) /\ \A i \in 1..(Len(payload) + 4) : got[i] = Body(payload)[i]
  BY <1>3 DEF TransferTypeOK, Inductive, GotIsPrefix
<1>6. SubSeq(got, 3, Len(payload) + 2) = payload /\ CrcMatches(got, Len(payload))
  <2>1. Len(got) >= Len(payload) + 4
    BY <1>3, <1>4
  <2> QED
    BY <1>4, <1>5, <2>1, WholeBody
<1>7. Len(got) - 2 = Len(payload) + 2
  BY <1>3, <1>4
<1>8. idx = FramedLen
  <2>1. idx = Len(noise) + filled[Len(got)] /\ written = Len(Body(payload))
    BY DEF Inductive, GotIsPrefix
  <2>2. filled[written] = Len(outBuf)
    BY DEF Inductive, WireHoldsBody
  <2>3. Len(got) = written
    BY <1>3, <1>4, <2>1
  <2>4. QED
    BY <2>1, <2>2, <2>3 DEF FramedLen
<1>9. QED
  BY <1>2, <1>6, <1>7, <1>8

(* An answer leaves the buffers alone: of Inductive, only what is said of    *)
(* the answer itself is at stake.                                            *)
LEMMA BuffersUnchanged ==
  ASSUME TransferTypeOK, Inductive, UNCHANGED << encoder, noise, tail >>,
         result'.res # "ENCODE_TOO_SMALL" \/ result' = result
  PROVE  WireHoldsBody' /\ OnlyFirstIsStart' /\ EncodeFits'
<1>1. /\ payload' = payload /\ outBuf' = outBuf /\ written' = written /\ filled' = filled
  BY DEF encoder
<1>2. WireHoldsBody'
  BY <1>1 DEF Inductive, WireHoldsBody, LaidOut
<1>3. OnlyFirstIsStart'
  BY <1>1 DEF Inductive, OnlyFirstIsStart
<1>4. EncodeFits'
  BY <1>1 DEF Inductive, EncodeFits
<1>5. QED
  BY <1>2, <1>3, <1>4

-----------------------------------------------------------------------------
(* The whole *)

(* Nothing has been received at first.                                       *)
LEMMA InductiveInit == TransferInit => Inductive
<1> SUFFICES ASSUME TransferInit PROVE Inductive
  OBVIOUS
<1>1. /\ pc = "encode" /\ outBuf = << START >> /\ written = 0 /\ filled = [k \in {0} |-> 1]
      /\ payload \in FramePayloads /\ result.res = "NONE"
  BY DEF TransferInit, NoResult
<1>2. Len(outBuf) = 1 /\ outBuf[1] = START /\ filled[0] = 1
  BY <1>1
<1>3. Len(Body(payload)) = Len(payload) + 4 /\ Len(payload) \in Nat
  <2>1. Len(Body(payload)) = Len(payload) + 4 /\ Len(payload) \in U16
    BY <1>1, PayloadsFramable, BodyProperties
  <2>2. \A n \in U16 : n \in Nat
    BY SMTT(30) DEF U16
  <2>3. QED
    BY <2>1, <2>2
<1>4. WireHoldsBody
  BY <1>1, <1>2, <1>3 DEF WireHoldsBody
<1>5. OnlyFirstIsStart
  BY <1>2 DEF OnlyFirstIsStart
<1>6. GotIsPrefix
  BY <1>1 DEF GotIsPrefix
<1>7. RoundTrip
  BY <1>1 DEF RoundTrip
<1>8. EncodeFits
  BY <1>1, <1>2, <1>3 DEF EncodeFits, WorstCase
<1>9. QED
  BY <1>4, <1>5, <1>6, <1>7, <1>8 DEF Inductive

(* Every step keeps the invariant.                                           *)
LEMMA InductiveNext ==
  ASSUME TransferTypeOK, Inductive, [TransferNext]_transfer
  PROVE  Inductive'
<1> USE DEF Inductive
<1>1. CASE WriteByte
  <2>1. WireHoldsBody' /\ OnlyFirstIsStart' /\ EncodeFits'
    BY <1>1, WriteByteStep
  <2>2. pc' = "encode" /\ result' = result /\ pc = "encode"
    BY <1>1 DEF WriteByte
  <2>3. GotIsPrefix'
    BY <2>2 DEF GotIsPrefix
  <2>4. RoundTrip'
    BY <2>2 DEF GotIsPrefix, RoundTrip
  <2>5. QED
    BY <2>1, <2>3, <2>4
<1>2. CASE WriteFails
  <2> DEFINE b == Body(payload)[written + 1]
  <2>1. /\ UNCHANGED << encoder, noise, tail >> /\ pc' = "done"
        /\ result'.res = "ENCODE_TOO_SMALL" /\ payload' = payload /\ outBuf' = outBuf
        /\ written' = written /\ filled' = filled
        /\ written < Len(Body(payload)) /\ Len(outBuf) + Len(Stuff(b)) > OutBufCap
    BY <1>2 DEF WriteFails, encoder
  <2>2. WireHoldsBody' /\ OnlyFirstIsStart'
    BY <2>1 DEF WireHoldsBody, LaidOut, OnlyFirstIsStart
  <2>3. written \in Nat /\ Len(outBuf) \in Nat /\ OutBufCap \in Nat
        /\ filled \in [0..written -> Nat]
    BY LineProperties, PayloadsAssumption DEF TransferTypeOK
  <2>4. Len(outBuf) <= 1 + 2 * written
    <3>1. 0 \in 0..written /\ written \in 0..written /\ 0 <= written
      BY <2>3
    <3>2. filled[written] <= filled[0] + 2 * (written - 0) /\ filled[0] = 1 /\ filled[written] = Len(outBuf)
      BY <3>1 DEF WireHoldsBody
    <3>3. QED
      BY <3>2, <2>3
  <2>5. written + 1 <= Len(payload) + 4 /\ Len(payload) \in Nat
    BY <2>1, <2>3, BodyOfPayload
  <2>6. Len(Stuff(b)) \in 1..2
    <3>1. b \in Byte
      BY <2>1, <2>3, BodyOfPayload, ElementOfSeq
    <3>2. QED
      BY <3>1, StuffProperties
  <2> HIDE DEF b
  <2>7. EncodeFits'
    <3>1. Len(outBuf) <= 1 + 2 * (Len(payload) + 4)
      BY <2>3, <2>4, <2>5
    <3>2. OutBufCap < 1 + 2 * (Len(payload) + 4)
      <4>1. Len(outBuf) + Len(Stuff(b)) <= 1 + 2 * written + 2
        <5>1. PICK w \in Nat, k \in 1..2 : w = Len(outBuf) /\ k = Len(Stuff(b))
          BY <2>3, <2>6
        <5>2. w <= 1 + 2 * written => w + k <= 1 + 2 * written + 2
          BY <2>3, <5>1
        <5> QED
          BY <2>4, <5>1, <5>2
      <4>2. 1 + 2 * written + 2 <= 1 + 2 * (Len(payload) + 4)
        BY <2>3, <2>5
      <4>3. Len(Stuff(b)) \in Nat
        BY <2>6
      <4>4. QED
        BY <4>1, <4>2, <4>3, <2>1, <2>3, <2>5
    <3>3. QED
      BY <2>1, <3>1, <3>2 DEF EncodeFits, WorstCase
  <2>8. GotIsPrefix' /\ RoundTrip'
    BY <2>1 DEF GotIsPrefix, RoundTrip
  <2>9. QED
    BY <2>2, <2>7, <2>8
<1>3. CASE Encoded
  <2>1. WireHoldsBody' /\ OnlyFirstIsStart' /\ EncodeFits'
    BY <1>3, BuffersUnchanged DEF Encoded
  <2>2. /\ pc' = "arrive" /\ result' = result /\ result.res = "NONE"
        /\ written' = written /\ payload' = payload /\ written = Len(Body(payload))
    BY <1>3 DEF Encoded, encoder, GotIsPrefix
  <2>3. GotIsPrefix' /\ RoundTrip'
    BY <2>2 DEF GotIsPrefix, RoundTrip
  <2>4. QED
    BY <2>1, <2>3
<1>4. CASE Arrive
  <2>1. WireHoldsBody' /\ OnlyFirstIsStart' /\ EncodeFits'
    BY <1>4, BuffersUnchanged DEF Arrive
  <2>2. /\ pc' = "scan" /\ result' = result /\ pc = "arrive" /\ idx' = 0 /\ got' = << >>
        /\ noise' = noise
        /\ written' = written /\ payload' = payload /\ written = Len(Body(payload))
    BY <1>4 DEF Arrive, encoder, GotIsPrefix
  <2>3. avail' > 0 /\ Len(noise) \in Nat
    BY <1>4, LineProperties DEF Arrive, TransferTypeOK
  <2>4. GotIsPrefix' /\ RoundTrip'
    BY <2>2, <2>3 DEF GotIsPrefix, RoundTrip
  <2>5. QED
    BY <2>1, <2>4
<1>5. CASE ScanNoise
  <2>1. WireHoldsBody' /\ OnlyFirstIsStart' /\ EncodeFits'
    BY <1>5, BuffersUnchanged DEF ScanNoise
  <2>2. /\ pc' = "scan" /\ result' = result /\ pc = "scan" /\ idx' = idx + 1
        /\ noise' = noise /\ avail' = avail /\ got' = got
        /\ written' = written /\ payload' = payload
    BY <1>5 DEF ScanNoise, encoder
  <2>3. idx # Len(noise)
    <3>1. Line[Len(noise) + 1] = outBuf[1] /\ outBuf[1] = START
      <4>1. 1 \in 1..Len(outBuf)
        <5>1. written \in Nat /\ filled \in [0..written -> Nat] /\ Len(outBuf) \in Nat
          BY LineProperties DEF TransferTypeOK
        <5>2. 0 \in 0..written /\ written \in 0..written /\ 0 <= written
          BY <5>1
        <5>3. filled[0] + (written - 0) <= filled[written] /\ filled[0] = 1 /\ filled[written] = Len(outBuf)
          BY <5>2 DEF WireHoldsBody
        <5>4. QED
          BY <5>1, <5>3
      <4>2. QED
        BY <4>1, LineProperties DEF OnlyFirstIsStart
    <3>2. QED
      BY <3>1, <1>5 DEF ScanNoise
  <2>4. idx + 1 <= Len(noise)
    BY <2>2, <2>3, LineProperties DEF GotIsPrefix, TransferTypeOK
  <2>5. GotIsPrefix' /\ RoundTrip'
    BY <2>2, <2>4 DEF GotIsPrefix, RoundTrip
  <2>6. QED
    BY <2>1, <2>5
<1>6. CASE ScanStart
  <2>1. WireHoldsBody' /\ OnlyFirstIsStart' /\ EncodeFits'
    BY <1>6, BuffersUnchanged DEF ScanStart
  <2>2. /\ pc' = "read" /\ result' = result /\ pc = "scan" /\ idx' = idx + 1 /\ filled' = filled
        /\ noise' = noise /\ avail' = avail /\ got' = got
        /\ written' = written /\ payload' = payload
    BY <1>6 DEF ScanStart, encoder
  <2>3. idx = Len(noise)
    <3>1. CASE idx < Len(noise)
      <4>1. idx + 1 \in 1..Len(noise)
        BY <3>1, LineProperties DEF TransferTypeOK
      <4>2. QED
        BY <4>1, <1>6, LineProperties DEF ScanStart
    <3>2. QED
      BY <3>1, <2>2, LineProperties DEF GotIsPrefix, TransferTypeOK
  <2>4. /\ got = << >> /\ Len(got) = 0 /\ filled[0] = 1 /\ idx + 1 <= avail
        /\ written = Len(Body(payload)) /\ avail > 0
    <3>1. idx \in Nat /\ avail \in Nat /\ idx < avail
      BY <1>6, LineProperties DEF TransferTypeOK, ScanStart
    <3>2. QED
      BY <2>2, <3>1 DEF GotIsPrefix, WireHoldsBody
  <2>5. Needed' = 2
    <3>1. Needed' = IF Len(got') < 2 THEN 2 ELSE DeclaredLen' + 4
      BY DEF Needed
    <3>2. QED
      BY <3>1, <2>2, <2>4
  <2>6. Len(got') = 0 /\ idx' = Len(noise) + filled'[0] /\ Len(Body(payload)) >= 4
    BY <2>2, <2>3, <2>4, BodyOfPayload
  <2>7. GotIsPrefix'
    BY <2>2, <2>4, <2>5, <2>6 DEF GotIsPrefix
  <2>8. RoundTrip'
    BY <2>2 DEF GotIsPrefix, RoundTrip
  <2>9. QED
    BY <2>1, <2>7, <2>8
<1>7. CASE ScanFails
  <2>1. /\ result'.res = "INCOMPLETE" /\ pc' = "arrive" /\ pc = "scan"
        /\ UNCHANGED << encoder, noise, tail, decoder >>
    BY <1>7 DEF ScanFails, Return
  <2>2. WireHoldsBody' /\ OnlyFirstIsStart' /\ EncodeFits'
    BY <2>1, BuffersUnchanged
  <2>3. avail < FramedLen
    <3>1. avail \in Nat /\ idx \in Nat /\ avail <= idx /\ idx <= Len(noise)
      BY <1>7, LineProperties DEF ScanFails, GotIsPrefix, TransferTypeOK
    <3>2. Len(outBuf) >= 1
      <4>1. written \in Nat /\ filled \in [0..written -> Nat] /\ Len(outBuf) \in Nat
        BY LineProperties DEF TransferTypeOK
      <4>2. 0 \in 0..written /\ written \in 0..written /\ 0 <= written
        BY <4>1
      <4>3. filled[0] + (written - 0) <= filled[written] /\ filled[0] = 1 /\ filled[written] = Len(outBuf)
        BY <4>2 DEF WireHoldsBody
      <4>4. QED
        BY <4>1, <4>3
    <3>3. QED
      BY <3>1, <3>2, LineProperties DEF FramedLen
  <2>4. FramedLen' = FramedLen /\ avail' = avail /\ payload' = payload /\ written' = written
    BY <2>1 DEF FramedLen, encoder, decoder
  <2>5. GotIsPrefix' /\ RoundTrip'
    BY <2>1, <2>3, <2>4 DEF GotIsPrefix, RoundTrip
  <2>6. QED
    BY <2>2, <2>5
<1>8. CASE ReadByte
  <2>1. WireHoldsBody' /\ OnlyFirstIsStart' /\ EncodeFits'
    BY <1>8, BuffersUnchanged DEF ReadByte
  <2>2. GotIsPrefix'
    BY <1>8, ReadByteStep
  <2>3. RoundTrip'
    BY <1>8 DEF ReadByte, GotIsPrefix, RoundTrip
  <2>4. QED
    BY <2>1, <2>2, <2>3
<1>9. CASE ReadFails
  <2>1. /\ result'.res = "INCOMPLETE" /\ pc' = "arrive" /\ pc = "read"
        /\ UNCHANGED << encoder, noise, tail, decoder >>
        /\ ~TooLarge /\ Len(got) < Needed /\ ~CanRead
    BY <1>9 DEF ReadFails, Return
  <2>2. WireHoldsBody' /\ OnlyFirstIsStart' /\ EncodeFits'
    BY <2>1, BuffersUnchanged
  <2>3. avail < FramedLen
    <3> DEFINE b == Body(payload)[Len(got) + 1]
               raw == Stuff(b)
    <3>1. /\ b \in Byte
          /\ \A i \in 1..Len(raw) : Line[idx + i] = raw[i]
          /\ idx + Len(raw) <= FramedLen
      BY <2>1, NextByte
    <3>2. Len(raw) \in 1..2 /\ (Len(raw) = 2 <=> raw[1] = ESCAPE)
      <4> HIDE DEF b
      <4>1. CASE b \in {START, ESCAPE}
        BY <3>1, <4>1, StuffProperties
      <4>2. CASE b \notin {START, ESCAPE}
        BY <3>1, <4>2, StuffProperties
      <4>3. QED
        BY <4>1, <4>2
    <3>3. Escaped <=> Len(raw) = 2
      BY <3>1, <3>2 DEF Escaped
    <3>4. avail \in Nat /\ idx \in Nat /\ FramedLen \in Nat
      BY LineProperties DEF TransferTypeOK, FramedLen
    <3> HIDE DEF raw
    <3>5. CASE ~(idx < avail)
      BY <3>1, <3>2, <3>4, <3>5
    <3>6. CASE Escaped /\ ~(idx + 1 < avail)
      <4>1. Len(raw) = 2 /\ avail <= idx + 1
        BY <3>3, <3>4, <3>6
      <4>2. QED
        BY <4>1, <3>1, <3>4
    <3>7. QED
      BY <2>1, <3>5, <3>6 DEF CanRead
  <2>4. FramedLen' = FramedLen /\ avail' = avail /\ payload' = payload /\ written' = written
    BY <2>1 DEF FramedLen, encoder, decoder
  <2>5. GotIsPrefix' /\ RoundTrip'
    BY <2>1, <2>3, <2>4 DEF GotIsPrefix, RoundTrip
  <2>6. QED
    BY <2>2, <2>5
<1>10. CASE RejectLength
  <2>1. /\ result'.res = "BUFFER_TOO_SMALL" /\ pc' = "done" /\ pc = "read" /\ TooLarge
        /\ UNCHANGED << encoder, noise, tail, decoder >>
    BY <1>10 DEF RejectLength, Return
  <2>2. WireHoldsBody' /\ OnlyFirstIsStart' /\ EncodeFits'
    BY <2>1, BuffersUnchanged
  <2>3. Len(payload) > OutPayloadCap
    BY <2>1, DeclaredIsLength DEF TooLarge
  <2>4. payload' = payload
    BY <2>1 DEF encoder
  <2>5. GotIsPrefix' /\ RoundTrip'
    BY <2>1, <2>3, <2>4 DEF GotIsPrefix, RoundTrip
  <2>6. QED
    BY <2>2, <2>5
<1>11. CASE CheckCrc
  <2>1. /\ pc' = "done" /\ pc = "read" /\ ~TooLarge /\ Len(got) = Needed
        /\ UNCHANGED << encoder, noise, tail, decoder >>
    BY <1>11 DEF CheckCrc, Return
  <2>2. /\ SubSeq(got, 3, Len(got) - 2) = payload
        /\ idx = FramedLen
        /\ CrcMatches(got, DeclaredLen)
    BY <2>1, AllRead
  <2>3. result' = [res |-> "OK", consumed |-> FramedLen]
    BY <1>11, <2>2 DEF CheckCrc, Return
  <2>4. WireHoldsBody' /\ OnlyFirstIsStart' /\ EncodeFits'
    BY <2>1, <2>3, BuffersUnchanged
  <2>5. /\ FramedLen' = FramedLen /\ avail' = avail /\ payload' = payload /\ got' = got
        /\ avail >= FramedLen
    BY <2>1, <2>2, LineProperties DEF FramedLen, encoder, decoder, GotIsPrefix, TransferTypeOK
  <2>6. GotIsPrefix' /\ RoundTrip'
    BY <2>1, <2>2, <2>3, <2>5 DEF GotIsPrefix, RoundTrip
  <2>7. QED
    BY <2>4, <2>6
<1>12. CASE UNCHANGED transfer
  <2>1. WireHoldsBody' /\ OnlyFirstIsStart' /\ EncodeFits'
    BY <1>12, BuffersUnchanged DEF transfer
  <2>2. GotIsPrefix' /\ RoundTrip'
    BY <1>12 DEF transfer, encoder, decoder, GotIsPrefix, RoundTrip, FramedLen,
                 Needed, TooLarge, DeclaredLen
  <2>3. QED
    BY <2>1, <2>2
<1>13. QED
  BY <1>1, <1>2, <1>3, <1>4, <1>5, <1>6, <1>7, <1>8, <1>9, <1>10, <1>11, <1>12 DEF TransferNext

(* The inductive invariant, from which the properties below follow. *)
THEOREM Invariance == TransferSpec => []Inductive
<1>1. TransferInit => TransferTypeOK /\ Inductive
  BY TypeInit, InductiveInit
<1>2. (TransferTypeOK /\ Inductive) /\ [TransferNext]_transfer => (TransferTypeOK /\ Inductive)'
  BY TypeNext, InductiveNext
<1>3. QED
  BY <1>1, <1>2, PTL DEF TransferSpec

(* Every payload a frame can carry is given back byte for byte, and exactly  *)
(* the noise and the frame are consumed, however the bytes are split on      *)
(* arrival and whatever follows; an undamaged frame is never MALFORMED.      *)
THEOREM FrameRoundTrip == TransferSpec => []RoundTrip
BY Invariance, PTL DEF Inductive

(* No byte of a frame but its first is START, whatever the payload.          *)
THEOREM StartMarksFrames == TransferSpec => []OnlyFirstIsStart
BY Invariance, PTL DEF Inductive

(* 1 + 2 * (n + 4) bytes are enough to frame n bytes: 521 for the bridge's   *)
(* largest payload, in a buffer of 600.                                      *)
THEOREM BufferSuffices == TransferSpec => []EncodeFits
BY Invariance, PTL DEF Inductive

-----------------------------------------------------------------------------
(* Stuffing and de-stuffing whole sequences *)

(* Sequences of bytes, put together. *)
LEMMA BytesAssociate ==
  ASSUME NEW a \in Seq(Byte), NEW b \in Seq(Byte), NEW c \in Seq(Byte)
  PROVE  (a \o b) \o c = a \o (b \o c)
<1> DEFINE B == Byte
<1>1. a \in Seq(B) /\ b \in Seq(B) /\ c \in Seq(B)
  OBVIOUS
<1> HIDE DEF B
<1> QED
  BY ONLY <1>1, ConcatAssociative

(* Joining bytes to bytes, or to none. *)
LEMMA JoinedBytes ==
  ASSUME NEW a \in Seq(Byte), NEW b \in Seq(Byte)
  PROVE  a \o b \in Seq(Byte) /\ a \o << >> = a /\ << >> \o a = a
<1> DEFINE B == Byte
<1>1. a \in Seq(B) /\ b \in Seq(B)
  OBVIOUS
<1> HIDE DEF B
<1>2. a \o b \in Seq(B) /\ a \o << >> = a /\ << >> \o a = a
  BY ONLY <1>1, ConcatEmptySeq
<1> QED
  BY <1>2 DEF B

(* One byte more behind joined bytes. *)
LEMMA AppendedByte ==
  ASSUME NEW a \in Seq(Byte), NEW b \in Seq(Byte), NEW e \in Byte
  PROVE  a \o Append(b, e) = Append(a \o b, e) /\ Append(a, e) \in Seq(Byte)
<1> DEFINE B == Byte
<1>1. a \in Seq(B) /\ b \in Seq(B) /\ e \in B
  OBVIOUS
<1> HIDE DEF B
<1>2. a \o Append(b, e) = Append(a \o b, e) /\ Append(a, e) \in Seq(B)
  BY ONLY <1>1
<1> QED
  BY <1>2 DEF B

(* Each byte stuffed. *)
LEMMA StuffSeqs ==
  ASSUME NEW s \in Seq(Byte)
  PROVE  [i \in DOMAIN s |-> Stuff(s[i])] \in Seq(Seq(Byte))
<1>1. DOMAIN s = 1..Len(s) /\ Len(s) \in Nat
  OBVIOUS
<1>2. \A i \in 1..Len(s) : Stuff(s[i]) \in Seq(Byte)
  BY StuffProperties
<1> QED
  BY <1>1, <1>2

(* Stuffing is done byte by byte. *)
LEMMA StuffedAppend ==
  ASSUME NEW s \in Seq(Byte), NEW b \in Byte
  PROVE  Stuffed(s) \in Seq(Byte) /\ Stuffed(Append(s, b)) = Stuffed(s) \o Stuff(b)
<1>1. PICK ss \in Seq(Seq(Byte)) : ss = [i \in DOMAIN s |-> Stuff(s[i])]
  BY StuffSeqs
<1>2. PICK t \in Seq(Byte) : t = Append(s, b)
  BY AppendedByte
<1>3. PICK tt \in Seq(Seq(Byte)) : tt = [i \in DOMAIN t |-> Stuff(t[i])]
  BY StuffSeqs
<1>4. Stuff(b) \in Seq(Byte)
  BY StuffProperties
<1>5. tt = Append(ss, Stuff(b))
  <2>1. PICK n \in Nat : n = Len(s)
    OBVIOUS
  <2>2. DOMAIN s = 1..n /\ DOMAIN t = 1..(n + 1) /\ t[n + 1] = b /\ \A i \in 1..n : t[i] = s[i]
    BY <1>2, <2>1
  <2>3. PICK SS : SS = Seq(Byte)
    OBVIOUS
  <2>4. ss \in Seq(SS) /\ tt \in Seq(SS) /\ Stuff(b) \in SS
    BY <1>4, <2>3
  <2>5. Len(ss) = n /\ Len(tt) = n + 1
    BY <1>1, <1>3, <2>1, <2>2, <2>4
  <2>6. PICK u \in Seq(SS) : /\ u = Append(ss, Stuff(b)) /\ Len(u) = n + 1
                             /\ u[n + 1] = Stuff(b) /\ \A i \in 1..n : u[i] = ss[i]
    <3>1. PICK e \in SS : e = Stuff(b)
      BY <2>4
    <3>2. /\ Append(ss, e) \in Seq(SS) /\ Len(Append(ss, e)) = Len(ss) + 1
          /\ Append(ss, e)[Len(ss) + 1] = e /\ \A i \in 1..Len(ss) : Append(ss, e)[i] = ss[i]
      BY <2>4, AppendElements
    <3> QED
      BY <2>5, <3>1, <3>2
  <2>7. ASSUME NEW i \in 1..(n + 1) PROVE tt[i] = u[i]
    <3>1. tt[i] = Stuff(t[i])
      BY <1>3, <2>2
    <3>2. CASE i = n + 1
      BY <2>2, <2>6, <3>1, <3>2
    <3>3. CASE i # n + 1
      <4>1. i \in 1..n
        BY <2>1, <3>3
      <4>2. ss[i] = Stuff(s[i])
        BY <1>1, <2>2, <4>1
      <4> QED
        BY <2>2, <2>6, <3>1, <4>1, <4>2
    <3> QED
      BY <3>2, <3>3
  <2>8. tt = u
    BY <2>4, <2>5, <2>6, <2>7, SeqEqual
  <2> QED
    BY <2>6, <2>8
<1>6. Stuffed(s) = FlattenSeq(ss) /\ Stuffed(t) = FlattenSeq(tt)
  BY <1>1, <1>3 DEF Stuffed
<1> QED
  BY <1>2, <1>4, <1>5, <1>6, FlattenAppend, FlattenType

(* Of nothing, nothing is stuffed. *)
LEMMA StuffedNothing == Stuffed(<< >>) = << >>
<1>1. [i \in DOMAIN << >> |-> Stuff(<< >>[i])] = << >>
  OBVIOUS
<1> QED
  BY <1>1, FlattenNothing DEF Stuffed

(* What is stuffed has no START; it is no shorter than what it was and at    *)
(* most twice as long.                                                       *)
LEMMA StuffedBytes ==
  ASSUME NEW s \in Seq(Byte)
  PROVE  Stuffed(s) \in Seq(Byte \ {START}) /\ Len(s) <= Len(Stuffed(s)) /\ Len(Stuffed(s)) <= 2 * Len(s)
<1> DEFINE U(k) == SubSeq(s, 1, k)
           T == {k \in 0..Len(s) : /\ Stuffed(U(k)) \in Seq(Byte \ {START})
                                   /\ k <= Len(Stuffed(U(k))) /\ Len(Stuffed(U(k))) <= 2 * k}
<1>1. Len(s) \in Nat
  OBVIOUS
<1>2. 0 \in T
  <2>1. U(0) = << >>
    BY SubSeqEmpty
  <2>2. Stuffed(U(0)) = << >>
    BY <2>1, StuffedNothing
  <2>3. 0 \in 0..Len(s) /\ << >> \in Seq(Byte \ {START}) /\ 0 <= Len(<< >>) /\ Len(<< >>) <= 2 * 0
    BY <1>1
  <2>4. Stuffed(U(0)) \in Seq(Byte \ {START}) /\ 0 <= Len(Stuffed(U(0))) /\ Len(Stuffed(U(0))) <= 2 * 0
    BY <2>2, <2>3
  <2> HIDE DEF U
  <2> QED
    BY <2>3, <2>4
<1>3. ASSUME NEW k \in 0..(Len(s) - 1), k \in T PROVE k + 1 \in T
  <2>1. PICK u \in Seq(Byte), b \in Byte : u = U(k) /\ U(k + 1) = Append(u, b)
    <3>1. U(k) \in Seq(Byte) /\ s[k + 1] \in Byte /\ U(k + 1) = Append(U(k), s[k + 1])
      BY OneMore
    <3> HIDE DEF U
    <3> QED
      BY <3>1
  <2>2. PICK v \in Seq(Byte \ {START}), r \in Seq(Byte) :
          v = Stuffed(u) /\ r = Stuff(b) /\ k <= Len(v) /\ Len(v) <= 2 * k
    BY <1>3, <2>1, StuffProperties
  <2>3. r \in Seq(Byte \ {START}) /\ 1 <= Len(r) /\ Len(r) <= 2
    <3>1. PICK NB : NB = Byte \ {START}
      OBVIOUS
    <3>2. ESCAPE \in NB /\ \A c \in Byte : c # START => c \in NB
      BY <3>1 DEF START, ESCAPE, Byte
    <3>3. Len(r) \in {1, 2} /\ \A i \in 1..Len(r) : r[i] \in NB
      <4>1. CASE b \in {START, ESCAPE}
        <5>1. Len(r) = 2 /\ r[1] = ESCAPE /\ r[2] \in NB
          BY <2>2, <3>1, <4>1, StuffProperties
        <5> QED
          BY <3>2, <5>1
      <4>2. CASE b \notin {START, ESCAPE}
        <5>1. Len(r) = 1 /\ r[1] = b /\ b \in NB
          BY <2>2, <3>2, <4>2, StuffProperties
        <5> QED
          BY <5>1
      <4> QED
        BY <4>1, <4>2
    <3>4. r \in Seq(NB)
      BY <3>3, LenProperties
    <3>5. r \in Seq(Byte \ {START})
      BY <3>1, <3>4
    <3>6. 1 <= Len(r) /\ Len(r) <= 2
      <4>1. PICK m \in {1, 2} : m = Len(r)
        BY <3>3
      <4>2. 1 <= m /\ m <= 2
        BY ONLY m \in {1, 2}
      <4> QED
        BY <4>1, <4>2
    <3> QED
      BY <3>5, <3>6
  <2>4. v \o r \in Seq(Byte \ {START}) /\ Len(v \o r) = Len(v) + Len(r)
    BY <2>3, ConcatProperties
  <2>5. Stuffed(U(k + 1)) = v \o r
    BY <2>1, <2>2, StuffedAppend
  <2>6. k + 1 <= Len(v \o r) /\ Len(v \o r) <= 2 * (k + 1) /\ k + 1 \in 0..Len(s)
    <3>1. k \in Nat /\ Len(v) \in Nat /\ Len(r) \in Nat
      BY <1>1, <2>3, LenProperties
    <3>2. k + 1 <= Len(v) + Len(r) /\ Len(v) + Len(r) <= 2 * (k + 1)
      BY ONLY <2>2, <2>3, <3>1
    <3> QED
      BY <1>1, <2>4, <3>2
  <2> HIDE DEF U
  <2> QED
    BY <2>4, <2>5, <2>6
<1> HIDE DEF T
<1>4. Len(s) \in T
  <2>1. \A k \in 0..(Len(s) - 1) : k \in T => k + 1 \in T
    BY <1>3
  <2>2. Len(s) \in 0..Len(s)
    BY <1>1
  <2> QED
    BY <1>1, <1>2, <2>1, <2>2, UpTo
<1>5. U(Len(s)) = s
  BY SubSeqFull
<1> QED
  BY <1>4, <1>5 DEF T

(* What follows is stuffed behind what precedes. *)
LEMMA StuffedConcat ==
  ASSUME NEW s \in Seq(Byte), NEW t \in Seq(Byte)
  PROVE  Stuffed(s \o t) = Stuffed(s) \o Stuffed(t)
<1> DEFINE U(k) == SubSeq(t, 1, k)
           T == {k \in 0..Len(t) : Stuffed(s \o U(k)) = Stuffed(s) \o Stuffed(U(k))}
<1>1. Len(t) \in Nat
  OBVIOUS
<1>2. PICK a \in Seq(Byte) : a = Stuffed(s)
  <2>1. 0 \in Byte
    BY DEF Byte
  <2> QED
    BY <2>1, StuffedAppend
<1>3. 0 \in T
  <2>1. U(0) = << >>
    BY SubSeqEmpty
  <2>2. s \o << >> = s /\ a \o << >> = a
    BY ConcatEmptySeq
  <2>3. Stuffed(U(0)) = << >>
    BY <2>1, StuffedNothing
  <2>4. 0 \in 0..Len(t)
    BY <1>1
  <2> HIDE DEF U
  <2> QED
    BY <1>2, <2>1, <2>2, <2>3, <2>4
<1>4. ASSUME NEW k \in 0..(Len(t) - 1), k \in T PROVE k + 1 \in T
  <2>1. PICK u \in Seq(Byte), b \in Byte : u = U(k) /\ U(k + 1) = Append(u, b)
    <3>1. U(k) \in Seq(Byte) /\ t[k + 1] \in Byte /\ U(k + 1) = Append(U(k), t[k + 1])
      BY OneMore
    <3> HIDE DEF U
    <3> QED
      BY <3>1
  <2>2. PICK v \in Seq(Byte), r \in Seq(Byte) : v = Stuffed(u) /\ r = Stuff(b)
    BY StuffedAppend, StuffProperties
  <2>3. s \o Append(u, b) = Append(s \o u, b) /\ s \o u \in Seq(Byte)
    OBVIOUS
  <2>4. Stuffed(s \o Append(u, b)) = Stuffed(s \o u) \o r /\ Stuffed(Append(u, b)) = v \o r
    BY <2>2, <2>3, StuffedAppend
  <2>5. Stuffed(s \o u) = a \o v
    BY <1>2, <1>4, <2>1, <2>2
  <2>6. (a \o v) \o r = a \o (v \o r)
    BY BytesAssociate, SMTT(30)
  <2>7. k + 1 \in 0..Len(t)
    BY <1>1
  <2> HIDE DEF U
  <2> QED
    BY <1>2, <2>1, <2>4, <2>5, <2>6, <2>7
<1> HIDE DEF T
<1>5. Len(t) \in T
  <2>1. \A k \in 0..(Len(t) - 1) : k \in T => k + 1 \in T
    BY <1>4
  <2>2. Len(t) \in 0..Len(t)
    BY <1>1
  <2> QED
    BY <1>1, <1>3, <2>1, <2>2, UpTo
<1>6. U(Len(t)) = t
  BY SubSeqFull
<1> QED
  BY <1>5, <1>6 DEF T

-----------------------------------------------------------------------------
(* De-stuffing, one raw byte after the other *)

Destuffed == [bytes : Seq(Byte), ends : Seq(Nat), read : Nat, escaped : BOOLEAN]

(* One byte more keeps the type of what has been read. *)
LEMMA DestuffByteType ==
  ASSUME NEW d \in Destuffed, NEW b \in Byte
  PROVE  DestuffByte(d, b) \in Destuffed
<1>1. EscapeXor(b) \in Byte
  BY EscapeXorType
<1>2. PICK c \in Byte : c = IF d.escaped THEN EscapeXor(b) ELSE b
  BY <1>1
<1>3. /\ d.bytes \in Seq(Byte) /\ d.ends \in Seq(Nat) /\ d.read \in Nat
      /\ d = [bytes |-> d.bytes, ends |-> d.ends, read |-> d.read, escaped |-> d.escaped]
  BY DEF Destuffed
<1>4. Append(d.bytes, c) \in Seq(Byte) /\ Append(d.ends, d.read + 1) \in Seq(Nat)
  BY <1>3, AppendedByte
<1>5. CASE b = ESCAPE /\ ~d.escaped
  <2>1. DestuffByte(d, b) =
          [bytes |-> d.bytes, ends |-> d.ends, read |-> d.read + 1, escaped |-> TRUE]
    BY <1>3, <1>5 DEF DestuffByte, Destuffed
  <2> QED
    BY <1>3, <2>1 DEF Destuffed
<1>6. CASE ~(b = ESCAPE /\ ~d.escaped)
  <2>1. DestuffByte(d, b) = [bytes |-> Append(d.bytes, c), ends |-> Append(d.ends, d.read + 1),
                             read |-> d.read + 1, escaped |-> FALSE]
    BY <1>2, <1>6 DEF DestuffByte
  <2> QED
    BY <1>3, <1>4, <2>1 DEF Destuffed
<1> QED
  BY <1>5, <1>6

(* The states it goes through. *)
Reads(f, raw) ==
  f \in [0..Len(raw) -> Destuffed] /\ f[0] = Nothing
  /\ \A k \in 1..Len(raw) : f[k] = DestuffByte(f[k - 1], raw[k])

(* There is a function of what has been read after each raw byte. *)
LEMMA ReadsExist ==
  ASSUME NEW raw \in Seq(Byte)
  PROVE  \E f : Reads(f, raw)
<1> DEFINE G == [k \in 1..Len(raw) |-> [d \in Destuffed |-> DestuffByte(d, raw[k])]]
<1>1. Len(raw) \in Nat /\ Nothing \in Destuffed /\ \A k \in 1..Len(raw) : raw[k] \in Byte
  BY DEF Nothing, Destuffed
<1>2. G \in [1..Len(raw) -> [Destuffed -> Destuffed]]
  BY <1>1, DestuffByteType
<1>3. \A k \in 1..Len(raw), d \in Destuffed : G[k][d] = DestuffByte(d, raw[k])
  OBVIOUS
<1> HIDE DEF G
<1>4. PICK f : f \in [0..Len(raw) -> Destuffed] /\ f[0] = Nothing
               /\ \A k \in 1..Len(raw) : f[k] = G[k][f[k - 1]]
  <2>1. PICK n, D, first, H : n = Len(raw) /\ D = Destuffed /\ first = Nothing /\ H = G
    OBVIOUS
  <2>2. n \in Nat /\ first \in D /\ H \in StepFunctions(n, D)
    BY <1>1, <1>2, <2>1 DEF StepFunctions
  <2>3. \E f : Iterates(f, n, D, first, H)
    BY <2>2, Iterated, Zenon
  <2> QED
    BY <2>1, <2>3 DEF Iterates
<1>5. ASSUME NEW k \in 1..Len(raw) PROVE f[k] = DestuffByte(f[k - 1], raw[k])
  <2>1. k - 1 \in 0..Len(raw)
    BY <1>1
  <2> QED
    BY <1>3, <1>4, <2>1
<1> QED
  BY <1>4, <1>5 DEF Reads

(* Destuff is its last value. *)
LEMMA DestuffReads ==
  ASSUME NEW raw \in Seq(Byte), NEW f, Reads(f, raw)
  PROVE  Destuff(raw) = f[Len(raw)]
<1> DEFINE Rec(h) == [n \in 0..Len(raw) |->
                        IF n = 0 THEN Nothing ELSE DestuffByte(h[n - 1], raw[n])]
           after == CHOOSE h : h = Rec(h)
<1>1. Len(raw) \in Nat
  OBVIOUS
<1>2. f = Rec(f)
  <2>1. f = [k \in 0..Len(raw) |-> f[k]]
    BY DEF Reads
  <2>2. \A k \in 0..Len(raw) : f[k] = IF k = 0 THEN Nothing ELSE DestuffByte(f[k - 1], raw[k])
    BY <1>1 DEF Reads
  <2> QED
    BY <2>1, <2>2
<1>3. after = Rec(after)
  BY <1>2, Zenon
<1>4. Destuff(raw) = after[Len(raw)]
  BY DEF Destuff
<1> HIDE DEF after
<1> DEFINE T == {k \in 0..Len(raw) : after[k] = f[k]}
<1>5. 0 \in T
  <2>1. 0 \in 0..Len(raw)
    BY <1>1
  <2>2. after[0] = Nothing
    BY <1>3, <2>1
  <2> QED
    BY <2>1, <2>2 DEF Reads
<1>6. ASSUME NEW k \in 0..(Len(raw) - 1), k \in T PROVE k + 1 \in T
  <2>1. k + 1 \in 1..Len(raw) /\ k + 1 \in 0..Len(raw) /\ (k + 1) - 1 = k /\ k + 1 # 0
    BY <1>1
  <2>2. after[k + 1] = DestuffByte(after[(k + 1) - 1], raw[k + 1])
    BY <1>3, <2>1
  <2>3. f[k + 1] = DestuffByte(f[(k + 1) - 1], raw[k + 1])
    BY <2>1 DEF Reads
  <2> QED
    BY <1>6, <2>1, <2>2, <2>3
<1> HIDE DEF T
<1>7. Len(raw) \in T
  <2>1. \A k \in 0..(Len(raw) - 1) : k \in T => k + 1 \in T
    BY <1>6
  <2>2. Len(raw) \in 0..Len(raw)
    BY <1>1
  <2> QED
    BY <1>1, <1>5, <2>1, <2>2, UpTo
<1> QED
  BY <1>4, <1>7 DEF T

(* Of nothing, nothing is read. *)
LEMMA DestuffNothing == Destuff(<< >>) = Nothing
<1>1. << >> \in Seq(Byte) /\ Len(<< >>) = 0
  OBVIOUS
<1>2. PICK f : Reads(f, << >>)
  BY <1>1, ReadsExist
<1> QED
  BY <1>1, <1>2, DestuffReads DEF Reads

(* De-stuffing goes on where it stopped. *)
LEMMA DestuffAppend ==
  ASSUME NEW raw \in Seq(Byte), NEW b \in Byte
  PROVE  /\ Destuff(raw) \in Destuffed
         /\ Destuff(Append(raw, b)) = DestuffByte(Destuff(raw), b)
<1> DEFINE n == Len(raw)
<1>1. PICK t \in Seq(Byte) : t = Append(raw, b)
  BY AppendedByte
<1>2. n \in Nat /\ Len(t) = n + 1 /\ t[n + 1] = b /\ \A k \in 1..n : t[k] = raw[k]
  BY <1>1, AppendElements
<1>3. PICK f : Reads(f, t)
  BY ReadsExist
<1>4. Destuff(t) = f[n + 1]
  BY <1>2, <1>3, DestuffReads
<1> DEFINE g == [k \in 0..n |-> f[k]]
<1>5. Reads(g, raw)
  <2>1. \A k \in 0..n : k \in 0..(n + 1)
    BY <1>2
  <2>2. f \in [0..(n + 1) -> Destuffed] /\ f[0] = Nothing
        /\ \A k \in 1..(n + 1) : f[k] = DestuffByte(f[k - 1], t[k])
    BY <1>2, <1>3 DEF Reads
  <2>3. g \in [0..n -> Destuffed] /\ g[0] = Nothing
    BY <1>2, <2>1, <2>2
  <2>4. ASSUME NEW k \in 1..n PROVE g[k] = DestuffByte(g[k - 1], raw[k])
    <3>1. k \in 0..n /\ k - 1 \in 0..n /\ k \in 1..(n + 1)
      BY <1>2
    <3> QED
      BY <1>2, <2>2, <3>1
  <2> HIDE DEF g
  <2> QED
    BY <2>3, <2>4 DEF Reads
<1>6. Destuff(raw) = g[n]
  BY <1>5, DestuffReads
<1>7. n + 1 \in 1..(n + 1) /\ (n + 1) - 1 = n /\ n \in 0..n /\ n \in 0..(n + 1)
  BY <1>2
<1>8. f[n + 1] = DestuffByte(f[n], t[n + 1]) /\ g[n] = f[n] /\ f[n] \in Destuffed
  BY <1>2, <1>3, <1>7 DEF Reads
<1> QED
  BY <1>1, <1>2, <1>4, <1>6, <1>8

(* Of raw bytes, n of them, each byte ends somewhere. *)
Ended(d, n) ==
  d.read = n /\ Len(d.ends) = Len(d.bytes) /\ \A i \in 1..Len(d.bytes) : d.ends[i] \in 1..n

(* What e has read begins with what d has. *)
Begins(d, e) ==
  /\ Len(d.bytes) <= Len(e.bytes)
  /\ \A i \in 1..Len(d.bytes) : e.bytes[i] = d.bytes[i] /\ e.ends[i] = d.ends[i]

(* One byte more changes nothing of what has been read. *)
LEMMA DestuffByteKeeps ==
  ASSUME NEW d \in Destuffed, NEW b \in Byte, NEW n \in Nat, Ended(d, n)
  PROVE  Ended(DestuffByte(d, b), n + 1) /\ Begins(d, DestuffByte(d, b))
<1>1. PICK e \in Destuffed : e = DestuffByte(d, b)
  BY DestuffByteType
<1>2. PICK c \in Byte : c = IF d.escaped THEN EscapeXor(b) ELSE b
  BY EscapeXorType
<1>3. d.bytes \in Seq(Byte) /\ d.ends \in Seq(Nat) /\ d.read = n
  BY DEF Destuffed, Ended
<1>4. CASE b = ESCAPE /\ ~d.escaped
  <2>1. e.bytes = d.bytes /\ e.ends = d.ends /\ e.read = n + 1
    BY <1>1, <1>3, <1>4 DEF DestuffByte, Destuffed
  <2>2. \A i \in 1..n : i \in 1..(n + 1)
    OBVIOUS
  <2>3. Len(d.bytes) <= Len(d.bytes)
    BY <1>3, LenProperties
  <2> QED
    BY <1>1, <2>1, <2>2, <2>3 DEF Ended, Begins
<1>5. CASE ~(b = ESCAPE /\ ~d.escaped)
  <2>1. e.bytes = Append(d.bytes, c) /\ e.ends = Append(d.ends, n + 1) /\ e.read = n + 1
    BY <1>1, <1>2, <1>3, <1>5 DEF DestuffByte
  <2>2. PICK m \in Nat : m = Len(d.bytes) /\ m = Len(d.ends)
    BY <1>3, LenProperties DEF Ended
  <2>3. Len(e.bytes) = m + 1 /\ \A i \in 1..m : e.bytes[i] = d.bytes[i]
    <3>1. PICK B : B = Byte
      OBVIOUS
    <3>2. d.bytes \in Seq(B) /\ c \in B
      BY <1>3, <3>1
    <3>3. /\ Len(Append(d.bytes, c)) = Len(d.bytes) + 1
          /\ \A i \in 1..Len(d.bytes) : Append(d.bytes, c)[i] = d.bytes[i]
      BY ONLY <3>2, AppendElements
    <3> QED
      BY <2>1, <2>2, <3>3
  <2>4. Len(e.ends) = m + 1 /\ e.ends[m + 1] = n + 1 /\ \A i \in 1..m : e.ends[i] = d.ends[i]
    BY <1>3, <2>1, <2>2, AppendElements
  <2>5. ASSUME NEW i \in 1..(m + 1) PROVE e.ends[i] \in 1..(n + 1)
    <3>1. CASE i = m + 1
      BY <2>4, <3>1
    <3>2. CASE i # m + 1
      <4>1. i \in 1..m
        BY <3>2
      <4>2. d.ends[i] \in 1..n
        BY <2>2, <4>1 DEF Ended
      <4> QED
        BY <2>4, <4>1, <4>2
    <3> QED
      BY <3>1, <3>2
  <2>6. m <= m + 1
    OBVIOUS
  <2> QED
    BY <1>1, <2>1, <2>2, <2>3, <2>4, <2>5, <2>6 DEF Ended, Begins
<1> QED
  BY <1>4, <1>5

(* Beginning with what begins with something. *)
LEMMA BeginsOn ==
  ASSUME NEW d \in Destuffed, NEW e \in Destuffed, NEW f \in Destuffed,
         Begins(d, e), Begins(e, f)
  PROVE  Begins(d, f)
<1>1. PICK k \in Nat, m \in Nat, n \in Nat :
        k = Len(d.bytes) /\ m = Len(e.bytes) /\ n = Len(f.bytes)
  BY LenProperties DEF Destuffed
<1>2. k <= m /\ m <= n /\ k <= n /\ \A i \in 1..k : i \in 1..m
  BY <1>1 DEF Begins
<1> QED
  BY <1>1, <1>2 DEF Begins

(* However many raw bytes follow, what has been read stays. *)
LEMMA DestuffConcat ==
  ASSUME NEW raw \in Seq(Byte), NEW t \in Seq(Byte)
  PROVE  /\ Destuff(raw) \in Destuffed /\ Ended(Destuff(raw), Len(raw))
         /\ Begins(Destuff(raw), Destuff(raw \o t))
<1>1. ASSUME NEW s \in Seq(Byte)
      PROVE  Destuff(s) \in Destuffed
  <2>1. 0 \in Byte
    BY DEF Byte
  <2> QED
    BY <2>1, DestuffAppend
<1>2. ASSUME NEW s \in Seq(Byte) PROVE Ended(Destuff(s), Len(s))
  <2> DEFINE U(k) == SubSeq(s, 1, k)
             T == {k \in 0..Len(s) : Ended(Destuff(U(k)), k)}
  <2>1. Len(s) \in Nat
    OBVIOUS
  <2>2. 0 \in T
    <3>1. U(0) = << >>
      BY SubSeqEmpty
    <3>2. Ended(Nothing, 0) /\ 0 \in 0..Len(s)
      BY <2>1 DEF Ended, Nothing
    <3> QED
      BY <3>1, <3>2, DestuffNothing
  <2>3. ASSUME NEW k \in 0..(Len(s) - 1), k \in T PROVE k + 1 \in T
    <3>1. PICK u \in Seq(Byte), b \in Byte : u = U(k) /\ U(k + 1) = Append(u, b)
      <4>1. U(k) \in Seq(Byte) /\ s[k + 1] \in Byte /\ U(k + 1) = Append(U(k), s[k + 1])
        BY OneMore
      <4> HIDE DEF U
      <4> QED
        BY <4>1
    <3>2. PICK d \in Destuffed : d = Destuff(u) /\ Destuff(U(k + 1)) = DestuffByte(d, b)
      BY <3>1, DestuffAppend
    <3>3. Ended(d, k) /\ k \in Nat /\ k + 1 \in 0..Len(s)
      BY <2>1, <2>3, <3>1, <3>2
    <3>4. Ended(DestuffByte(d, b), k + 1)
      BY <3>3, DestuffByteKeeps
    <3> HIDE DEF U
    <3> QED
      BY <3>2, <3>3, <3>4
  <2> HIDE DEF T
  <2>4. Len(s) \in T
    <3>1. \A k \in 0..(Len(s) - 1) : k \in T => k + 1 \in T
      BY <2>3
    <3>2. Len(s) \in 0..Len(s)
      BY <2>1
    <3> QED
      BY <2>1, <2>2, <3>1, <3>2, UpTo
  <2>5. U(Len(s)) = s
    BY SubSeqFull
  <2> QED
    BY <2>4, <2>5 DEF T
<1>3. Begins(Destuff(raw), Destuff(raw \o t))
  <2> DEFINE U(k) == SubSeq(t, 1, k)
             T == {k \in 0..Len(t) : Begins(Destuff(raw), Destuff(raw \o U(k)))}
  <2>1. Len(t) \in Nat
    OBVIOUS
  <2>2. PICK o \in Destuffed : o = Destuff(raw)
    BY <1>1
  <2>3. 0 \in T
    <3>1. U(0) = << >>
      BY SubSeqEmpty
    <3>2. raw \o << >> = raw
      BY JoinedBytes
    <3>3. Len(o.bytes) \in Nat
      BY LenProperties DEF Destuffed
    <3>4. Begins(o, o) /\ 0 \in 0..Len(t)
      BY <2>1, <3>3 DEF Begins
    <3> QED
      BY <2>2, <3>1, <3>2, <3>4
  <2>4. ASSUME NEW k \in 0..(Len(t) - 1), k \in T PROVE k + 1 \in T
    <3>1. PICK u \in Seq(Byte), b \in Byte : u = U(k) /\ U(k + 1) = Append(u, b)
      <4>1. U(k) \in Seq(Byte) /\ t[k + 1] \in Byte /\ U(k + 1) = Append(U(k), t[k + 1])
        BY OneMore
      <4> HIDE DEF U
      <4> QED
        BY <4>1
    <3>2. PICK v \in Seq(Byte) : v = raw \o u /\ raw \o U(k + 1) = Append(v, b)
      <4>1. raw \o u \in Seq(Byte) /\ raw \o Append(u, b) = Append(raw \o u, b)
        BY JoinedBytes, AppendedByte
      <4> HIDE DEF U
      <4> QED
        BY <3>1, <4>1
    <3>3. PICK d \in Destuffed : d = Destuff(v) /\ Destuff(Append(v, b)) = DestuffByte(d, b)
      BY DestuffAppend
    <3>4. PICK e \in Destuffed : e = DestuffByte(d, b)
      BY DestuffByteType
    <3>5. Begins(o, d) /\ k + 1 \in 0..Len(t)
      BY <2>1, <2>2, <2>4, <3>1, <3>2, <3>3
    <3>6. Begins(d, e)
      <4>1. Ended(d, Len(v)) /\ Len(v) \in Nat
        BY <1>2, <3>3, LenProperties
      <4> QED
        BY <3>4, <4>1, DestuffByteKeeps
    <3>7. Begins(o, e)
      BY <3>5, <3>6, BeginsOn
    <3> HIDE DEF U
    <3> QED
      BY <2>2, <3>2, <3>3, <3>4, <3>5, <3>7
  <2> HIDE DEF T
  <2>5. Len(t) \in T
    <3>1. \A k \in 0..(Len(t) - 1) : k \in T => k + 1 \in T
      BY <2>4
    <3>2. Len(t) \in 0..Len(t)
      BY <2>1
    <3> QED
      BY <2>1, <2>3, <3>1, <3>2, UpTo
  <2>6. U(Len(t)) = t
    BY SubSeqFull
  <2> QED
    BY <2>5, <2>6 DEF T
<1> QED
  BY <1>1, <1>2, <1>3

(* The raw bytes of one byte are de-stuffed to that byte. *)
LEMMA DestuffStuff ==
  ASSUME NEW raw \in Seq(Byte), NEW b \in Byte, Destuff(raw).escaped = FALSE
  PROVE  LET d == Destuff(raw)
             n == Len(raw) + Len(Stuff(b))
         IN  Destuff(raw \o Stuff(b)) =
               [bytes |-> Append(d.bytes, b), ends |-> Append(d.ends, n),
                read |-> n, escaped |-> FALSE]
<1> DEFINE r == Stuff(b)
<1>1. PICK d \in Destuffed : d = Destuff(raw) /\ d.escaped = FALSE /\ d.read = Len(raw)
  BY DestuffConcat DEF Ended
<1>2. PICK n \in Nat : n = Len(raw)
  BY LenProperties
<1>3. r \in Seq(Byte) /\ ESCAPE \in Byte
  <2>1. ESCAPE \in Byte
    BY DEF ESCAPE, Byte
  <2> QED
    BY <2>1, StuffProperties
<1>4. CASE b \in {START, ESCAPE}
  <2>1. PICK c \in Byte : Len(r) = 2 /\ r[1] = ESCAPE /\ r[2] = c /\ EscapeXor(c) = b
    BY <1>4, StuffProperties
  <2>2. PICK v \in Seq(Byte) : v = Append(raw, ESCAPE)
    BY <1>3, AppendedByte
  <2>3. raw \o r = Append(v, c)
    <3>1. r = << ESCAPE, c >>
      BY <1>3, <2>1
    <3> HIDE DEF r
    <3>2. r = Append(<< ESCAPE >>, c) /\ << ESCAPE >> \in Seq(Byte)
      BY <1>3, <3>1
    <3>3. raw \o r = Append(raw \o << ESCAPE >>, c)
      BY <3>2, AppendedByte
    <3>4. raw \o << ESCAPE >> = Append(raw, ESCAPE)
      BY <1>3
    <3> QED
      BY <2>2, <3>3, <3>4
  <2>4. PICK e \in Destuffed : e = Destuff(v) /\ e = DestuffByte(d, ESCAPE)
    BY <1>1, <1>3, <2>2, DestuffAppend, DestuffByteType
  <2>5. e.bytes = d.bytes /\ e.ends = d.ends /\ e.read = n + 1 /\ e.escaped = TRUE
    BY <1>1, <1>2, <2>4 DEF DestuffByte, Destuffed
  <2>6. Destuff(Append(v, c)) = DestuffByte(e, c)
    BY <2>4, DestuffAppend
  <2>7. DestuffByte(e, c) = [bytes |-> Append(d.bytes, b), ends |-> Append(d.ends, (n + 1) + 1),
                             read |-> (n + 1) + 1, escaped |-> FALSE]
    BY <2>1, <2>5 DEF DestuffByte
  <2>8. (n + 1) + 1 = n + 2
    OBVIOUS
  <2> QED
    BY <1>1, <1>2, <2>1, <2>3, <2>6, <2>7, <2>8
<1>5. CASE b \notin {START, ESCAPE}
  <2>1. Len(r) = 1 /\ r[1] = b
    BY <1>5, StuffProperties
  <2>2. raw \o r = Append(raw, b)
    <3>1. r = << b >>
      BY <1>3, <2>1
    <3> HIDE DEF r
    <3> QED
      BY <3>1
  <2>3. Destuff(Append(raw, b)) = DestuffByte(d, b)
    BY <1>1, DestuffAppend
  <2>4. DestuffByte(d, b) = [bytes |-> Append(d.bytes, b), ends |-> Append(d.ends, n + 1),
                             read |-> n + 1, escaped |-> FALSE]
    BY <1>1, <1>2, <1>5 DEF DestuffByte
  <2> QED
    BY <1>1, <1>2, <2>1, <2>2, <2>3, <2>4
<1> QED
  BY <1>4, <1>5

(* What has been stuffed is de-stuffed to what it was, each byte behind its  *)
(* raw bytes.                                                                *)
LEMMA DestuffStuffed ==
  ASSUME NEW s \in Seq(Byte)
  PROVE  LET d == Destuff(Stuffed(s))
         IN  /\ d.bytes = s /\ d.escaped = FALSE
             /\ \A k \in 1..Len(s) : d.ends[k] = Len(Stuffed(SubSeq(s, 1, k)))
<1> DEFINE U(k) == SubSeq(s, 1, k)
           D(k) == Destuff(Stuffed(U(k)))
           T == {k \in 0..Len(s) :
                  /\ D(k).bytes = U(k) /\ D(k).escaped = FALSE
                  /\ \A i \in 1..k : D(k).ends[i] = Len(Stuffed(U(i)))}
<1>1. Len(s) \in Nat
  OBVIOUS
<1>2. 0 \in T
  <2>1. U(0) = << >>
    BY SubSeqEmpty
  <2>2. D(0) = Nothing
    BY <2>1, StuffedNothing, DestuffNothing
  <2>3. 0 \in 0..Len(s) /\ \A i \in 1..0 : FALSE
    BY <1>1
  <2> HIDE DEF U, D
  <2> QED
    BY <2>1, <2>2, <2>3 DEF Nothing
<1>3. ASSUME NEW k \in 0..(Len(s) - 1), k \in T PROVE k + 1 \in T
  <2>1. PICK u \in Seq(Byte), b \in Byte : u = U(k) /\ Len(u) = k /\ U(k + 1) = Append(u, b)
    <3>1. /\ U(k) \in Seq(Byte) /\ Len(U(k)) = k /\ s[k + 1] \in Byte
          /\ U(k + 1) = Append(U(k), s[k + 1])
      BY OneMore
    <3> HIDE DEF U
    <3> QED
      BY <3>1
  <2>2. PICK v \in Seq(Byte) : v = Stuffed(u) /\ Stuffed(U(k + 1)) = v \o Stuff(b)
    BY <2>1, StuffedAppend
  <2>3. PICK d \in Destuffed : d = Destuff(v)
    BY DestuffConcat
  <2>4. d.bytes = u /\ d.escaped = FALSE /\ \A i \in 1..k : d.ends[i] = Len(Stuffed(U(i)))
    BY <1>3, <2>1, <2>2, <2>3
  <2>5. PICK n : n = Len(v) + Len(Stuff(b))
    OBVIOUS
  <2>6. n = Len(Stuffed(U(k + 1))) /\ n \in Nat
    <3>1. Stuff(b) \in Seq(Byte)
      BY StuffProperties
    <3>2. Len(v \o Stuff(b)) = Len(v) + Len(Stuff(b)) /\ Len(v) \in Nat /\ Len(Stuff(b)) \in Nat
      BY <3>1, ConcatProperties, LenProperties
    <3> QED
      BY <2>2, <2>5, <3>2
  <2>7. D(k + 1) = [bytes |-> Append(u, b), ends |-> Append(d.ends, n),
                    read |-> n, escaped |-> FALSE]
    BY <2>2, <2>3, <2>4, <2>5, DestuffStuff
  <2>8. d.ends \in Seq(Nat) /\ Len(d.ends) = k
    BY <2>1, <2>3, <2>4, DestuffConcat DEF Destuffed, Ended
  <2>9. Append(d.ends, n)[k + 1] = n /\ \A i \in 1..k : Append(d.ends, n)[i] = d.ends[i]
    BY <2>6, <2>8, AppendElements
  <2>10. ASSUME NEW i \in 1..(k + 1) PROVE Append(d.ends, n)[i] = Len(Stuffed(U(i)))
    <3>1. CASE i = k + 1
      BY <2>6, <2>9, <3>1
    <3>2. CASE i # k + 1
      <4>1. i \in 1..k
        BY <3>2
      <4> QED
        BY <2>4, <2>9, <4>1
    <3> QED
      BY <3>1, <3>2
  <2>11. k + 1 \in 0..Len(s)
    BY <1>1
  <2>12. PICK e : e = D(k + 1)
    OBVIOUS
  <2>13. e.bytes = Append(u, b) /\ e.escaped = FALSE /\ e.ends = Append(d.ends, n)
    BY <2>7, <2>12
  <2> HIDE DEF U, D
  <2>14. \A i \in 1..(k + 1) : e.ends[i] = Len(Stuffed(U(i)))
    BY <2>10, <2>13
  <2> QED
    BY <2>1, <2>11, <2>12, <2>13, <2>14
<1> HIDE DEF T
<1>4. Len(s) \in T
  <2>1. \A k \in 0..(Len(s) - 1) : k \in T => k + 1 \in T
    BY <1>3
  <2>2. Len(s) \in 0..Len(s)
    BY <1>1
  <2> QED
    BY <1>1, <1>2, <2>1, <2>2, UpTo
<1>5. U(Len(s)) = s
  BY SubSeqFull
<1> QED
  BY <1>4, <1>5 DEF T

-----------------------------------------------------------------------------
(* Decoding the frame of a payload, or the part of it that has arrived *)

(* For sequences of bytes: one that goes on where another ends.              *)
LEMMA LongerBytes ==
  ASSUME NEW a \in Seq(Byte), NEW b \in Seq(Byte), NEW c \in Seq(Byte), NEW d \in Seq(Byte),
         SameJoined(a, b, c, d), Len(a) <= Len(c)
  PROVE  GoesOn(a, b, c, d, Byte)
<1>1. PICK B : B = Byte
  OBVIOUS
<1>2. a \in Seq(B) /\ b \in Seq(B) /\ c \in Seq(B) /\ d \in Seq(B)
  BY <1>1
<1>3. GoesOn(a, b, c, d, B)
  BY <1>2, LongerBegins
<1> QED
  BY <1>1, <1>3

(* Bytes are what comes before a place and what comes behind it. *)
LEMMA SplitBytes ==
  ASSUME NEW s \in Seq(Byte), NEW k \in 0..Len(s)
  PROVE  /\ SubSeq(s, 1, k) \in Seq(Byte) /\ Len(SubSeq(s, 1, k)) = k
         /\ SubSeq(s, k + 1, Len(s)) \in Seq(Byte) /\ Len(SubSeq(s, k + 1, Len(s))) = Len(s) - k
         /\ s = SubSeq(s, 1, k) \o SubSeq(s, k + 1, Len(s))
<1>1. PICK B : B = Byte
  OBVIOUS
<1>2. s \in Seq(B)
  BY <1>1
<1>3. /\ SubSeq(s, 1, k) \in Seq(B) /\ Len(SubSeq(s, 1, k)) = k
      /\ SubSeq(s, k + 1, Len(s)) \in Seq(B) /\ Len(SubSeq(s, k + 1, Len(s))) = Len(s) - k
      /\ s = SubSeq(s, 1, k) \o SubSeq(s, k + 1, Len(s))
  BY ONLY <1>2, k \in 0..Len(s), Split
<1> QED
  BY <1>1, <1>3

(* The raw bytes of what comes first come first, whatever follows.           *)
StuffedApart(u, v, y) ==
  /\ Stuffed(u \o v) \o y = Stuffed(u) \o (Stuffed(v) \o y)
  /\ Stuffed(u) \in Seq(Byte) /\ Stuffed(v) \o y \in Seq(Byte)

(* Stuffing is done part by part. *)
LEMMA StuffedParts ==
  ASSUME NEW u \in Seq(Byte), NEW v \in Seq(Byte), NEW y \in Seq(Byte)
  PROVE  StuffedApart(u, v, y)
<1>1. 0 \in Byte
  BY DEF Byte
<1>2. Stuffed(u) \in Seq(Byte) /\ Stuffed(v) \in Seq(Byte)
  BY <1>1, StuffedAppend
<1>3. Stuffed(u \o v) = Stuffed(u) \o Stuffed(v)
  BY StuffedConcat
<1>4. (Stuffed(u) \o Stuffed(v)) \o y = Stuffed(u) \o (Stuffed(v) \o y)
  BY <1>2, BytesAssociate
<1>5. Stuffed(v) \o y \in Seq(Byte)
  BY <1>2, JoinedBytes
<1> QED
  BY <1>2, <1>3, <1>4, <1>5 DEF StuffedApart

(* Of raw bytes that begin like the stuffed s, or with it: byte j has been   *)
(* read as soon as its raw bytes are there.                                  *)
LEMMA BodyRead ==
  ASSUME NEW s \in Seq(Byte), NEW raw \in Seq(Byte), NEW x \in Seq(Byte), NEW y \in Seq(Byte),
         SameJoined(raw, x, Stuffed(s), y), NEW j \in 1..Len(s)
  PROVE  LET d == Destuff(raw)
             n == Len(Stuffed(SubSeq(s, 1, j)))
         IN  /\ j <= Len(d.bytes) <=> n <= Len(raw)
             /\ j <= Len(d.bytes) => d.bytes[j] = s[j] /\ d.ends[j] = n
<1>1. PICK u \in Seq(Byte), v \in Seq(Byte) :
        u = SubSeq(s, 1, j) /\ Len(u) = j /\ s = u \o v
  <2>1. j \in 0..Len(s)
    BY LenProperties
  <2>2. /\ SubSeq(s, 1, j) \in Seq(Byte) /\ Len(SubSeq(s, 1, j)) = j
        /\ SubSeq(s, j + 1, Len(s)) \in Seq(Byte)
        /\ s = SubSeq(s, 1, j) \o SubSeq(s, j + 1, Len(s))
    BY <2>1, SplitBytes
  <2> QED
    BY ONLY <2>2
<1>2. PICK p \in Seq(Byte), z \in Seq(Byte) : p = Stuffed(u) /\ Stuffed(s) \o y = p \o z
  <2>1. StuffedApart(u, v, y)
    BY StuffedParts
  <2> QED
    BY <1>1, <2>1 DEF StuffedApart
<1>3. raw \o x = p \o z
  BY <1>2 DEF SameJoined
<1>4. PICK d \in Destuffed, e \in Destuffed :
        d = Destuff(raw) /\ e = Destuff(p) /\ Ended(d, Len(raw)) /\ Ended(e, Len(p))
  BY DestuffConcat
<1>5. e.bytes = u /\ e.ends[j] = Len(p)
  <2>1. j \in 1..Len(u) /\ SubSeq(u, 1, j) = u
    BY <1>1, SubSeqFull
  <2>2. /\ Destuff(Stuffed(u)).bytes = u
        /\ Destuff(Stuffed(u)).ends[j] = Len(Stuffed(SubSeq(u, 1, j)))
    BY <2>1, DestuffStuffed
  <2> QED
    BY <1>2, <1>4, <2>1, <2>2
<1>6. u[j] = s[j]
  <2>1. PICK B : B = Byte
    OBVIOUS
  <2>2. u \in Seq(B) /\ v \in Seq(B) /\ j \in 1..Len(u)
    BY <1>1, <2>1
  <2>3. Len(v) \in Nat
    BY LenProperties
  <2>4. \A i \in 1 .. Len(u) + Len(v) : (u \o v)[i] = IF i <= Len(u) THEN u[i] ELSE v[i - Len(u)]
    BY ONLY <2>2, ConcatProperties
  <2>5. j \in 1 .. Len(u) + Len(v) /\ j <= Len(u)
    BY <1>1, <2>3
  <2> QED
    BY <1>1, <2>4, <2>5
<1>7. PICK m \in Nat, n \in Nat, k \in Nat : m = Len(raw) /\ n = Len(p) /\ k = Len(d.bytes)
  BY LenProperties DEF Destuffed
<1>8. ASSUME n <= m PROVE j <= k /\ d.bytes[j] = s[j] /\ d.ends[j] = n
  <2>1. PICK w \in Seq(Byte) : raw = p \o w
    <3>1. SameJoined(p, z, raw, x) /\ Len(p) <= Len(raw)
      BY <1>3, <1>7, <1>8 DEF SameJoined
    <3>2. GoesOn(p, z, raw, x, Byte)
      BY <3>1, LongerBytes
    <3> QED
      BY <3>2 DEF GoesOn
  <2>2. Begins(e, d)
    BY <1>4, <2>1, DestuffConcat
  <2>3. j <= k /\ d.bytes[j] = e.bytes[j] /\ d.ends[j] = e.ends[j]
    BY <1>1, <1>5, <1>7, <2>2 DEF Begins
  <2> QED
    BY <1>5, <1>6, <1>7, <2>3
<1>9. ASSUME ~(n <= m) PROVE ~(j <= k)
  <2> SUFFICES ASSUME j <= k PROVE FALSE
    OBVIOUS
  <2>1. m <= n
    BY <1>9
  <2>2. PICK w \in Seq(Byte) : p = raw \o w
    <3>1. SameJoined(raw, x, p, z) /\ Len(raw) <= Len(p)
      BY <1>3, <1>7, <2>1 DEF SameJoined
    <3>2. GoesOn(raw, x, p, z, Byte)
      BY <3>1, LongerBytes
    <3> QED
      BY <3>2 DEF GoesOn
  <2>3. Begins(d, e)
    BY <1>4, <2>2, DestuffConcat
  <2>4. e.ends[j] = d.ends[j] /\ d.ends[j] \in 1..m
    <3>1. j \in 1..Len(d.bytes)
      BY <1>7
    <3> QED
      BY <1>4, <1>7, <2>3, <3>1 DEF Begins, Ended
  <2> QED
    BY <1>5, <1>7, <1>9, <2>4
<1> QED
  BY <1>1, <1>2, <1>4, <1>7, <1>8, <1>9

(* Where Frame_Decode finds the START of a buffer.                           *)
StartOf(b) == SelectInSeq(b, LAMBDA x : x = START)

(* Where the first START is, if there is one. *)
LEMMA StartIndex ==
  ASSUME NEW b \in Seq(Byte)
  PROVE  LET i == StartOf(b)
         IN  /\ i \in 0..Len(b)
             /\ i # 0 => b[i] = START /\ \A k \in 1..(i - 1) : b[k] # START
             /\ i = 0 => \A k \in 1..Len(b) : b[k] # START
<1> DEFINE I == {i \in 1..Len(b) : b[i] = START}
<1>1. Len(b) \in Nat
  OBVIOUS
<1>2. PICK i : i = StartOf(b)
  OBVIOUS
<1>3. i = IF I # {} THEN Min(I) ELSE 0
  BY <1>2 DEF StartOf, SelectInSeq
<1>4. CASE I = {}
  <2>1. i = 0 /\ \A k \in 1..Len(b) : b[k] # START
    BY <1>3, <1>4
  <2> QED
    BY <1>1, <1>2, <2>1
<1>5. CASE I # {}
  <2>1. PICK m \in I : \A k \in I : m <= k
    <3>1. I \in SUBSET Nat
      OBVIOUS
    <3> HIDE DEF I
    <3> QED
      BY <1>5, <3>1, LeastNumber
  <2>2. i \in I /\ \A k \in I : i <= k
    <3> HIDE DEF I
    <3> QED
      BY <1>3, <1>5, <2>1 DEF Min
  <2>3. ASSUME NEW k \in 1..(i - 1) PROVE b[k] # START
    <3>1. i \in 1..Len(b) /\ k \in 1..Len(b) /\ ~(i <= k)
      BY <1>1, <2>2
    <3> QED
      BY <2>2, <3>1
  <2>4. i \in 0..Len(b) /\ i # 0 /\ b[i] = START
    BY <1>1, <2>2
  <2> QED
    BY <1>2, <2>3, <2>4
<1> QED
  BY <1>4, <1>5

(* What Frame_Decode computes.                                               *)
Result(res, p, n) == [res |-> res, payload |-> p, consumed |-> n]

(* Frame_Decode in terms of where START is and what is de-stuffed behind it. *)
LEMMA Decoding ==
  ASSUME NEW b, NEW cap
  PROVE  LET i == StartOf(b)
             d == Destuff(SubSeq(b, i + 1, Len(b)))
             m == Protocol_GetU16(d.bytes[1], d.bytes[2])
         IN  Frame_Decode(b, cap) =
               IF i = 0 \/ Len(d.bytes) < 2    THEN Result("INCOMPLETE", << >>, 0)
               ELSE IF m > cap                 THEN Result("BUFFER_TOO_SMALL", << >>, 0)
               ELSE IF Len(d.bytes) < m + 4    THEN Result("INCOMPLETE", << >>, 0)
               ELSE IF ~CrcMatches(d.bytes, m) THEN Result("MALFORMED", << >>, i + d.ends[m + 4])
               ELSE Result("OK", SubSeq(d.bytes, 3, m + 2), i + d.ends[m + 4])
BY DEF Frame_Decode, Result, StartOf

(* What it answers about n bytes of noise and so much of the frame of p,     *)
(* and of what follows, that len bytes are there in all.                     *)
LengthKnown(p) == 1 + Len(Stuffed(SubSeq(Body(p), 1, 2)))

Answer(p, n, len, cap) ==
  IF len < n + LengthKnown(p)      THEN Result("INCOMPLETE", << >>, 0)
  ELSE IF Len(p) > cap             THEN Result("BUFFER_TOO_SMALL", << >>, 0)
  ELSE IF len < n + Len(Frame(p))  THEN Result("INCOMPLETE", << >>, 0)
  ELSE Result("OK", p, n + Len(Frame(p)))

(* The numbers of raw bytes it takes. *)
LEMMA FrameLengths ==
  ASSUME NEW p, Framable(p)
  PROVE  /\ Body(p) \in Seq(Byte) /\ Stuffed(Body(p)) \in Seq(Byte)
         /\ Frame(p) \in Seq(Byte) /\ Len(Frame(p)) = 1 + Len(Stuffed(Body(p)))
         /\ LengthKnown(p) \in Nat /\ LengthKnown(p) >= 1
         /\ Len(p) \in Nat /\ Len(Body(p)) = Len(p) + 4
<1>1. Body(p) \in Seq(Byte) /\ Len(p) \in Nat /\ Len(Body(p)) = Len(p) + 4
  BY BodyProperties, LenProperties DEF Framable
<1>2. 0 \in Byte /\ START \in Byte
  BY DEF START, Byte
<1>3. Stuffed(Body(p)) \in Seq(Byte)
  BY <1>1, <1>2, StuffedAppend
<1>4. SubSeq(Body(p), 1, 2) \in Seq(Byte)
  <2>1. 2 \in 0..Len(Body(p))
    BY <1>1
  <2> QED
    BY <1>1, <2>1, SplitBytes
<1>5. Stuffed(SubSeq(Body(p), 1, 2)) \in Seq(Byte)
  BY <1>2, <1>4, StuffedAppend
<1>6. << START >> \in Seq(Byte) /\ Len(<< START >>) = 1
  BY <1>2
<1>7. Frame(p) \in Seq(Byte) /\ Len(Frame(p)) = 1 + Len(Stuffed(Body(p)))
  BY <1>3, <1>6, ConcatProperties DEF Frame
<1>8. LengthKnown(p) \in Nat /\ LengthKnown(p) >= 1
  BY <1>5, LenProperties DEF LengthKnown
<1> QED
  BY <1>1, <1>3, <1>7, <1>8

(* Not even START has come. *)
LEMMA NothingButNoise ==
  ASSUME NEW n \in Seq(Byte \ {START}), NEW b \in Seq(Byte), NEW e \in Seq(Byte),
         n = b \o e, NEW cap
  PROVE  Frame_Decode(b, cap) = Result("INCOMPLETE", << >>, 0)
<1>1. PICK i : /\ i = StartOf(b) /\ i \in 0..Len(b)
               /\ i # 0 => b[i] = START
  BY StartIndex
<1>2. i = 0
  <2> SUFFICES ASSUME i # 0 PROVE FALSE
    OBVIOUS
  <2>1. Len(b) \in Nat /\ Len(e) \in Nat
    BY LenProperties
  <2>2. /\ Len(b \o e) = Len(b) + Len(e)
        /\ \A k \in 1 .. Len(b) + Len(e) :
             (b \o e)[k] = IF k <= Len(b) THEN b[k] ELSE e[k - Len(b)]
    BY ConcatProperties
  <2>3. i \in 1..Len(n) /\ n[i] = b[i]
    BY <1>1, <2>1, <2>2
  <2>4. n[i] \in Byte \ {START}
    BY <2>3, ElementOfSeq
  <2> QED
    BY <1>1, <2>3, <2>4
<1> QED
  BY <1>1, <1>2, Decoding

(* START has come, and raw behind it. *)
StartsAt(b, k, raw) ==
  /\ StartOf(b) = k + 1
  /\ SubSeq(b, k + 2, Len(b)) = raw
  /\ Len(b) = k + 1 + Len(raw)

(* Noise, START and the rest. *)
LEMMA StartFound ==
  ASSUME NEW n \in Seq(Byte \ {START}), NEW raw \in Seq(Byte), NEW b,
         b = n \o (<< START >> \o raw)
  PROVE  StartsAt(b, Len(n), raw)
<1>1. PICK B : B = Byte
  OBVIOUS
<1>2. n \in Seq(B) /\ raw \in Seq(B) /\ START \in B /\ \A i \in 1..Len(n) : n[i] # START
  <2>1. \A i \in 1..Len(n) : n[i] \in Byte \ {START}
    BY ElementOfSeq
  <2>2. START \in Byte
    BY DEF START, Byte
  <2>3. n \in Seq(Byte)
    OBVIOUS
  <2> QED
    BY <1>1, <2>1, <2>2, <2>3
<1>3. PICK s \in Seq(B) : s = << START >> /\ Len(s) = 1 /\ s[1] = START
  <2>1. << START >> \in Seq(B) /\ Len(<< START >>) = 1 /\ << START >>[1] = START
    BY <1>2
  <2> QED
    BY <2>1
<1>4. PICK a \in Seq(B) : /\ a = n \o s /\ Len(a) = Len(n) + 1 /\ a[Len(n) + 1] = START
                          /\ \A i \in 1..Len(n) : a[i] = n[i]
  <2>1. /\ n \o s \in Seq(B) /\ Len(n \o s) = Len(n) + Len(s)
        /\ \A i \in 1 .. Len(n) + Len(s) :
             (n \o s)[i] = IF i <= Len(n) THEN n[i] ELSE s[i - Len(n)]
    BY ONLY <1>2, <1>3, ConcatProperties
  <2>2. Len(n) \in Nat
    BY LenProperties
  <2>3. /\ Len(n) + 1 \in 1 .. Len(n) + 1 /\ ~(Len(n) + 1 <= Len(n))
        /\ (Len(n) + 1) - Len(n) = 1 /\ \A i \in 1..Len(n) : i \in 1 .. Len(n) + 1 /\ i <= Len(n)
    BY <2>2
  <2>4. Len(n \o s) = Len(n) + 1
    BY <1>3, <2>1
  <2>5. (n \o s)[Len(n) + 1] = START /\ \A i \in 1..Len(n) : (n \o s)[i] = n[i]
    BY <1>3, <2>1, <2>3
  <2> QED
    BY ONLY <2>1, <2>4, <2>5
<1>5. b = a \o raw
  <2>1. (n \o s) \o raw = n \o (s \o raw)
    BY ONLY <1>2, <1>3, ConcatAssociative
  <2> QED
    BY <1>3, <1>4, <2>1
<1>6. /\ b \in Seq(B) /\ Len(b) = Len(a) + Len(raw)
      /\ \A i \in 1 .. Len(a) + Len(raw) :
           b[i] = IF i <= Len(a) THEN a[i] ELSE raw[i - Len(a)]
  <2>1. /\ a \o raw \in Seq(B) /\ Len(a \o raw) = Len(a) + Len(raw)
        /\ \A i \in 1 .. Len(a) + Len(raw) :
             (a \o raw)[i] = IF i <= Len(a) THEN a[i] ELSE raw[i - Len(a)]
    BY ONLY <1>2, ConcatProperties
  <2> QED
    BY <1>5, <2>1
<1>7. PICK k \in Nat, m \in Nat : k = Len(n) /\ m = Len(raw)
  BY LenProperties
<1>8. Len(b) = k + 1 + m /\ b[k + 1] = START /\ \A i \in 1..k : b[i] # START
  BY <1>2, <1>4, <1>6, <1>7
<1>9. SubSeq(b, Len(a) + 1, Len(b)) = raw
  BY <1>2, <1>5, Parts
<1>10. PICK i : /\ i = StartOf(b) /\ i \in 0..Len(b)
                /\ i # 0 => b[i] = START /\ \A j \in 1..(i - 1) : b[j] # START
                /\ i = 0 => \A j \in 1..Len(b) : b[j] # START
  <2>1. b \in Seq(Byte)
    BY <1>1, <1>6
  <2> QED
    BY ONLY <2>1, StartIndex
<1>11. i = k + 1
  <2>1. i # 0
    <3>1. k + 1 \in 1..Len(b)
      BY <1>8
    <3> QED
      BY <1>8, <1>10, <3>1
  <2>2. ~(i <= k)
    <3>1. i <= k => i \in 1..k
      BY <1>8, <1>10, <2>1
    <3> QED
      BY <1>8, <1>10, <2>1, <3>1
  <2>3. ~(i > k + 1)
    <3>1. i > k + 1 => k + 1 \in 1..(i - 1)
      BY <1>8, <1>10
    <3> QED
      BY <1>8, <1>10, <2>1, <3>1
  <2> QED
    BY <1>8, <1>10, <2>2, <2>3
<1>12. Len(n) + 2 = Len(a) + 1
  BY <1>4, <1>7
<1> QED
  BY <1>7, <1>8, <1>9, <1>10, <1>11, <1>12 DEF StartsAt

(* Once START has come: raw is part of what follows it, or goes on beyond    *)
(* the frame.                                                                *)
LEMMA DecodeBody ==
  ASSUME NEW p, Framable(p), NEW b \in Seq(Byte), NEW cap \in Nat,
         NEW k \in Nat, NEW raw \in Seq(Byte), StartsAt(b, k, raw),
         NEW x \in Seq(Byte), NEW y \in Seq(Byte), SameJoined(raw, x, Stuffed(Body(p)), y)
  PROVE  Frame_Decode(b, cap) = Answer(p, k, Len(b), cap)
<1>1. PICK body \in Seq(Byte), f \in Seq(Byte), m \in Nat :
        /\ body = Body(p) /\ f = Stuffed(body) /\ m = Len(p) /\ Len(body) = m + 4
        /\ Len(Frame(p)) = 1 + Len(f)
  BY FrameLengths
<1>2. PICK l \in Nat, len \in Nat, r \in Nat :
        l = Len(Stuffed(SubSeq(body, 1, 2))) /\ len = Len(f) /\ r = Len(raw)
  <2>1. 2 \in 0..Len(body)
    BY <1>1
  <2>2. SubSeq(body, 1, 2) \in Seq(Byte)
    BY <2>1, SplitBytes
  <2>3. Stuffed(SubSeq(body, 1, 2)) \in Seq(Byte)
    <3>1. 0 \in Byte
      BY DEF Byte
    <3> QED
      BY <2>2, <3>1, StuffedAppend
  <2>4. Len(Stuffed(SubSeq(body, 1, 2))) \in Nat /\ Len(f) \in Nat /\ Len(raw) \in Nat
    BY <2>3, LenProperties
  <2> QED
    BY ONLY <2>4
<1>3. PICK d \in Destuffed, n \in Nat : d = Destuff(raw) /\ n = Len(d.bytes) /\ d.bytes \in Seq(Byte)
  BY DestuffConcat, LenProperties DEF Destuffed
<1>4. ASSUME NEW j \in 1..(m + 4)
      PROVE  /\ j <= n <=> Len(Stuffed(SubSeq(body, 1, j))) <= r
             /\ j <= n => d.bytes[j] = body[j] /\ d.ends[j] = Len(Stuffed(SubSeq(body, 1, j)))
  <2>1. j \in 1..Len(body) /\ SameJoined(raw, x, Stuffed(body), y)
    BY <1>1
  <2> QED
    BY <1>2, <1>3, <2>1, BodyRead
<1>5. SubSeq(body, 1, m + 4) = body
  BY <1>1, SubSeqFull
<1>6. /\ 2 <= n <=> l <= r
      /\ m + 4 <= n <=> len <= r
      /\ m + 4 <= n => d.ends[m + 4] = len
  <2>1. 2 \in 1..(m + 4) /\ m + 4 \in 1..(m + 4)
    OBVIOUS
  <2> QED
    BY <1>1, <1>2, <1>4, <1>5, <2>1
<1>7. PICK w : w = Protocol_GetU16(d.bytes[1], d.bytes[2])
  OBVIOUS
<1>8. ASSUME 2 <= n PROVE w = m
  <2>1. 1 \in 1..(m + 4) /\ 2 \in 1..(m + 4) /\ 1 <= n
    BY <1>8
  <2>2. d.bytes[1] = body[1] /\ d.bytes[2] = body[2]
    BY <1>4, <1>8, <2>1
  <2>3. m \in U16 /\ body[1] = m \div 256 /\ body[2] = m % 256
    BY <1>1, BodyProperties
  <2> QED
    BY <1>7, <2>2, <2>3, U16RoundTrip
<1>9. k + 1 # 0 /\ (k + 1) + 1 = k + 2
  OBVIOUS
<1>10. Frame_Decode(b, cap) =
         IF k + 1 = 0 \/ n < 2   THEN Result("INCOMPLETE", << >>, 0)
         ELSE IF w > cap         THEN Result("BUFFER_TOO_SMALL", << >>, 0)
         ELSE IF n < w + 4       THEN Result("INCOMPLETE", << >>, 0)
         ELSE IF ~CrcMatches(d.bytes, w) THEN Result("MALFORMED", << >>, (k + 1) + d.ends[w + 4])
         ELSE Result("OK", SubSeq(d.bytes, 3, w + 2), (k + 1) + d.ends[w + 4])
  <2>1. k + 1 = StartOf(b) /\ d = Destuff(SubSeq(b, (k + 1) + 1, Len(b)))
    BY <1>3, <1>9 DEF StartsAt
  <2> QED
    BY <1>3, <1>7, <2>1, Decoding
<1>11. Answer(p, k, Len(b), cap) =
         IF r < l             THEN Result("INCOMPLETE", << >>, 0)
         ELSE IF m > cap      THEN Result("BUFFER_TOO_SMALL", << >>, 0)
         ELSE IF r < len      THEN Result("INCOMPLETE", << >>, 0)
         ELSE Result("OK", p, k + (1 + len))
  <2>1. Len(b) = k + 1 + r /\ LengthKnown(p) = 1 + l /\ Len(Frame(p)) = 1 + len /\ Len(p) = m
    BY <1>1, <1>2 DEF LengthKnown, StartsAt
  <2>2. (k + 1 + r < k + (1 + l) <=> r < l) /\ (k + 1 + r < k + (1 + len) <=> r < len)
    OBVIOUS
  <2> QED
    BY <2>1, <2>2 DEF Answer
<1>12. CASE r < l
  <2>1. n < 2
    BY <1>2, <1>6, <1>12
  <2> QED
    BY <1>10, <1>11, <1>12, <2>1
<1>13. CASE ~(r < l)
  <2>1. 2 <= n /\ ~(n < 2) /\ w = m
    BY <1>2, <1>6, <1>8, <1>13
  <2>2. CASE m > cap
    BY <1>9, <1>10, <1>11, <1>13, <2>1, <2>2
  <2>3. CASE ~(m > cap) /\ r < len
    <3>1. n < m + 4
      BY <1>2, <1>6, <2>3
    <3> QED
      BY <1>9, <1>10, <1>11, <1>13, <2>1, <2>3, <3>1
  <2>4. CASE ~(m > cap) /\ ~(r < len)
    <3>1. m + 4 <= n /\ ~(n < m + 4) /\ d.ends[m + 4] = len
      BY <1>2, <1>6, <2>4
    <3>2. \A j \in 1..(m + 4) : d.bytes[j] = body[j]
      <4>1. \A j \in 1..(m + 4) : j <= n
        BY <3>1
      <4> QED
        BY <1>4, <4>1
    <3>3. SubSeq(d.bytes, 3, m + 2) = p /\ CrcMatches(d.bytes, m)
      <4>1. Len(d.bytes) >= Len(p) + 4
        BY <1>1, <1>3, <3>1
      <4>2. \A j \in 1..(Len(p) + 4) : d.bytes[j] = Body(p)[j]
        BY <1>1, <3>2
      <4> QED
        BY <1>1, <1>3, <4>1, <4>2, WholeBody
    <3>4. (k + 1) + len = k + (1 + len)
      OBVIOUS
    <3> QED
      BY <1>9, <1>10, <1>11, <1>13, <2>1, <2>4, <3>1, <3>3, <3>4
  <2> QED
    BY <2>2, <2>3, <2>4
<1> QED
  BY <1>12, <1>13

(* Noise and a frame, or a part of that, or more than that: what             *)
(* Frame_Decode answers.                                                     *)
(* Three parts, put together. *)
LEMMA ThreeParts ==
  \A a, b, c \in Seq(Byte) : SameJoined(a \o b, c, a, b \o c)
BY BytesAssociate DEF SameJoined

(* What Frame_Decode makes of a buffer that is the beginning of noise, a frame*)
(* and whatever follows, or all of it: what it answers about an undamaged frame.*)
LEMMA DecodeFrame ==
  ASSUME NEW p, Framable(p), NEW n \in Seq(Byte \ {START}), NEW cap \in Nat,
         NEW b \in Seq(Byte), NEW x \in Seq(Byte), NEW y \in Seq(Byte),
         SameJoined(b, x, n \o Frame(p), y)
  PROVE  Frame_Decode(b, cap) = Answer(p, Len(n), Len(b), cap)
<1>1. PICK f \in Seq(Byte) : f = Stuffed(Body(p))
  BY FrameLengths
<1>2. PICK g \in Seq(Byte) : g = << START >> \o f /\ g = Frame(p) /\ Len(g) >= 1
  <2>1. Frame(p) \in Seq(Byte) /\ Frame(p) = << START >> \o f
    BY <1>1, FrameLengths DEF Frame
  <2>2. Len(Frame(p)) >= 1
    <3>1. Len(f) \in Nat /\ Len(Frame(p)) = 1 + Len(f)
      BY <1>1, FrameLengths, LenProperties
    <3> QED
      BY <3>1
  <2> QED
    BY ONLY <2>1, <2>2
<1>3. n \in Seq(Byte) /\ << START >> \in Seq(Byte) /\ Len(<< START >>) = 1
  BY DEF START, Byte
<1>4. PICK h \in Seq(Byte) : h = g \o y
  BY JoinedBytes
<1>5. b \o x = n \o h
  <2>1. SameJoined(n \o g, y, n, g \o y)
    BY <1>3, ThreeParts
  <2> QED
    BY <1>2, <1>4, <2>1 DEF SameJoined
<1>6. PICK k \in Nat : k = Len(n)
  BY LenProperties
<1>7. CASE Len(b) <= k
  <2>1. SameJoined(b, x, n, h) /\ Len(b) <= Len(n)
    BY <1>5, <1>6, <1>7 DEF SameJoined
  <2>2. GoesOn(b, x, n, h, Byte)
    BY <1>3, <2>1, LongerBytes
  <2>3. PICK e \in Seq(Byte) : n = b \o e
    BY <2>2 DEF GoesOn
  <2>4. Frame_Decode(b, cap) = Result("INCOMPLETE", << >>, 0)
    BY <2>3, NothingButNoise
  <2>5. Len(b) < k + LengthKnown(p)
    <3>1. Len(b) \in Nat /\ LengthKnown(p) \in Nat /\ LengthKnown(p) >= 1
      BY FrameLengths, LenProperties
    <3> QED
      BY <1>7, <3>1
  <2> QED
    BY <1>6, <2>4, <2>5 DEF Answer
<1>8. CASE ~(Len(b) <= k)
  <2>1. SameJoined(n, h, b, x) /\ Len(n) <= Len(b)
    <3>1. Len(b) \in Nat
      BY LenProperties
    <3> QED
      BY <1>5, <1>6, <1>8, <3>1 DEF SameJoined
  <2>2. GoesOn(n, h, b, x, Byte)
    BY <1>3, <2>1, LongerBytes
  <2>3. PICK e \in Seq(Byte) : b = n \o e /\ h = e \o x
    BY <2>2 DEF GoesOn
  <2>4. PICK z \in Seq(Byte) : z = f \o y
    BY JoinedBytes
  <2>5. h = << START >> \o z
    <3>1. SameJoined(<< START >> \o f, y, << START >>, f \o y)
      BY <1>3, ThreeParts
    <3> QED
      BY <1>2, <1>4, <2>4, <3>1 DEF SameJoined
  <2>6. 1 <= Len(e)
    <3>1. Len(n \o e) = Len(n) + Len(e) /\ Len(e) \in Nat
      BY <1>3, ConcatProperties, LenProperties
    <3> QED
      BY <1>6, <1>8, <2>3, <3>1
  <2>7. SameJoined(<< START >>, z, e, x) /\ Len(<< START >>) <= Len(e)
    BY <1>3, <2>3, <2>5, <2>6 DEF SameJoined
  <2>8. GoesOn(<< START >>, z, e, x, Byte)
    BY <1>3, <2>7, LongerBytes
  <2>9. PICK raw \in Seq(Byte) : e = << START >> \o raw /\ z = raw \o x
    BY <2>8 DEF GoesOn
  <2>10. StartsAt(b, k, raw)
    BY <1>6, <2>3, <2>9, StartFound
  <2>11. SameJoined(raw, x, Stuffed(Body(p)), y)
    BY <1>1, <2>4, <2>9 DEF SameJoined
  <2> QED
    BY <1>6, <2>10, <2>11, DecodeBody
<1> QED
  BY <1>7, <1>8

-----------------------------------------------------------------------------
(* The loops compute the operators *)

(* One more byte, stuffed behind the others, is one more byte of the Frame.  *)
LEMMA BufferGrows ==
  ASSUME TransferTypeOK, BuffersAgree, WriteByte
  PROVE  BuffersAgree'
<1> DEFINE s == Body(payload)
<1>1. PICK k \in Nat : k = written /\ k \in 0..(Len(s) - 1) /\ written' = k + 1
  BY BodyOfPayload DEF TransferTypeOK, WriteByte
<1>2. PICK u \in Seq(Byte), b \in Byte :
        u = SubSeq(s, 1, k) /\ b = s[k + 1] /\ SubSeq(s, 1, k + 1) = Append(u, b)
  <2>1. s \in Seq(Byte)
    BY BodyOfPayload
  <2>2. /\ SubSeq(s, 1, k) \in Seq(Byte) /\ s[k + 1] \in Byte
        /\ SubSeq(s, 1, k + 1) = Append(SubSeq(s, 1, k), s[k + 1])
    BY <1>1, <2>1, OneMore
  <2> QED
    BY <2>2
<1>3. PICK v \in Seq(Byte), raw \in Seq(Byte) :
        v = Stuffed(u) /\ raw = Stuff(b) /\ Stuffed(Append(u, b)) = v \o raw
  BY StuffedAppend, StuffProperties
<1>4. << START >> \in Seq(Byte) /\ Len(<< START >>) = 1
  BY DEF START, Byte
<1>5. outBuf = << START >> \o v
  BY <1>1, <1>2, <1>3 DEF BuffersAgree
<1>6. /\ outBuf' = outBuf \o raw /\ payload' = payload
      /\ Len(outBuf) + Len(raw) <= OutBufCap
      /\ filled' = [j \in 0..(k + 1) |-> IF j <= k THEN filled[j] ELSE Len(outBuf) + Len(raw)]
  BY <1>1, <1>2, <1>3 DEF WriteByte
<1>7. outBuf' = << START >> \o (v \o raw)
  <2>1. SameJoined(<< START >> \o v, raw, << START >>, v \o raw)
    BY <1>4, ThreeParts
  <2> QED
    BY <1>5, <1>6, <2>1 DEF SameJoined
<1>8. Len(outBuf) + Len(raw) = 1 + Len(v \o raw) /\ Len(outBuf') = 1 + Len(v \o raw)
  <2>1. Len(v \o raw) = Len(v) + Len(raw) /\ v \o raw \in Seq(Byte)
    BY ConcatProperties
  <2>2. Len(<< START >> \o v) = 1 + Len(v) /\ Len(<< START >> \o (v \o raw)) = 1 + Len(v \o raw)
    BY <1>4, <2>1, ConcatProperties
  <2>3. Len(v) \in Nat /\ Len(raw) \in Nat
    BY LenProperties
  <2> QED
    BY <1>5, <1>7, <2>1, <2>2, <2>3
<1>9. Stuffed(SubSeq(s, 1, k + 1)) = v \o raw
  BY <1>2, <1>3
<1>10. ASSUME NEW j \in 0..(k + 1)
       PROVE  filled'[j] = 1 + Len(Stuffed(SubSeq(s, 1, j)))
  <2>1. CASE j <= k
    <3>1. j \in 0..written
      BY <1>1, <2>1
    <3> QED
      BY <1>6, <2>1, <3>1 DEF BuffersAgree
  <2>2. CASE ~(j <= k)
    <3>1. j = k + 1
      BY <2>2
    <3> QED
      BY <1>6, <1>8, <1>9, <2>2, <3>1
  <2> QED
    BY <2>1, <2>2
<1> HIDE DEF s
<1>11. s' = s
  BY <1>6 DEF s
<1>12. outBuf' = << START >> \o Stuffed(SubSeq(s', 1, written'))
  BY <1>1, <1>7, <1>9, <1>11
<1>13. \A j \in 0..written' : filled'[j] = 1 + Len(Stuffed(SubSeq(s', 1, j)))
  BY <1>1, <1>10, <1>11
<1>14. Len(outBuf') <= OutBufCap
  BY <1>6, <1>8
<1> QED
  BY <1>12, <1>13, <1>14 DEF BuffersAgree, s

(* When the loop finds no raw byte left, the next byte of the body has not   *)
(* come in full.                                                             *)
LEMMA NotArrived ==
  ASSUME TransferTypeOK, Inductive, pc = "read", ~TooLarge, Len(got) < Needed, ~CanRead
  PROVE  Len(got) + 1 \in 1..written /\ avail < Len(noise) + filled[Len(got) + 1]
<1> DEFINE b == Body(payload)[Len(got) + 1]
           raw == Stuff(b)
<1>1. /\ b \in Byte /\ Len(got) + 1 \in 1..written
      /\ \A i \in 1..Len(raw) : Line[idx + i] = raw[i]
      /\ idx = Len(noise) + filled[Len(got)] /\ filled[Len(got)] \in Nat
      /\ filled[Len(got) + 1] = filled[Len(got)] + Len(raw)
  BY NextByte
<1>2. Len(raw) \in 1..2 /\ (Len(raw) = 2 <=> raw[1] = ESCAPE)
  <2> HIDE DEF b
  <2>1. CASE b \in {START, ESCAPE}
    BY <1>1, <2>1, StuffProperties
  <2>2. CASE b \notin {START, ESCAPE}
    <3>1. Len(raw) = 1 /\ raw[1] = b /\ b # ESCAPE
      BY <1>1, <2>2, StuffProperties
    <3> QED
      BY <3>1
  <2> QED
    BY <2>1, <2>2
<1>3. Escaped <=> Len(raw) = 2
  BY <1>1, <1>2 DEF Escaped
<1>4. avail \in Nat /\ idx \in Nat /\ Len(noise) \in Nat
  BY LineProperties DEF TransferTypeOK
<1> HIDE DEF raw
<1>5. avail < idx + Len(raw)
  <2>1. CASE ~(idx < avail)
    BY <1>2, <1>4, <2>1
  <2>2. CASE Escaped /\ ~(idx + 1 < avail)
    <3>1. Len(raw) = 2
      BY <1>3, <2>2
    <3> QED
      BY <1>4, <2>2, <3>1
  <2> QED
    BY <2>1, <2>2 DEF CanRead
<1>6. Len(noise) + filled[Len(got) + 1] = idx + Len(raw)
  <2>1. PICK l \in 1..2 : l = Len(raw)
    BY <1>2
  <2> QED
    BY <1>1, <1>4, <2>1
<1> QED
  BY <1>1, <1>5, <1>6

(* The raw bytes of the length come before the end, and after START.         *)
LEMMA LengthInside ==
  ASSUME TransferTypeOK, Inductive, written = Len(Body(payload))
  PROVE  /\ filled[2] \in Nat /\ filled[2] >= 1
         /\ \A j \in 0..written : filled[j] \in Nat /\ filled[j] <= Len(outBuf)
         /\ \A j \in 0..2 : filled[j] <= filled[2]
         /\ \A j \in 2..written : filled[2] <= filled[j]
<1>1. /\ written \in Nat /\ written >= 4 /\ filled \in [0..written -> Nat] /\ Len(outBuf) \in Nat
  BY BodyOfPayload, LineProperties DEF TransferTypeOK
<1>2. ASSUME NEW i \in 0..written, NEW j \in 0..written, i <= j PROVE filled[i] <= filled[j]
  <2>1. filled[i] + (j - i) <= filled[j]
    BY <1>2 DEF Inductive, WireHoldsBody
  <2>2. filled[i] \in Nat /\ filled[j] \in Nat
    BY <1>1
  <2>3. PICK x \in Nat, y \in Nat : x = filled[i] /\ y = filled[j] /\ x + (j - i) <= y
    BY <2>1, <2>2
  <2>4. x <= y
    BY <1>2, <2>3
  <2> QED
    BY <2>3, <2>4
<1>3. 0 \in 0..written /\ 2 \in 0..written /\ written \in 0..written
  BY <1>1
<1>4. filled[0] = 1 /\ filled[written] = Len(outBuf)
  BY DEF Inductive, WireHoldsBody
<1>5. filled[2] \in Nat /\ filled[2] >= 1
  <2>1. 0 <= 2 /\ filled[2] \in Nat
    BY <1>1, <1>3
  <2>2. filled[0] <= filled[2]
    BY <1>2, <1>3, <2>1
  <2> QED
    BY <1>4, <2>1, <2>2
<1>6. ASSUME NEW j \in 0..written PROVE filled[j] \in Nat /\ filled[j] <= Len(outBuf)
  <2>1. j <= written
    BY <1>1
  <2> QED
    BY <1>1, <1>2, <1>3, <1>4, <2>1
<1>7. ASSUME NEW j \in 0..2 PROVE filled[j] <= filled[2]
  <2>1. j \in 0..written /\ j <= 2
    BY <1>1
  <2> QED
    BY <1>2, <1>3, <2>1
<1>8. ASSUME NEW j \in 2..written PROVE filled[2] <= filled[j]
  <2>1. j \in 0..written /\ 2 <= j
    BY <1>1
  <2> QED
    BY <1>2, <1>3, <2>1
<1> QED
  BY <1>5, <1>6, <1>7, <1>8

(* Both hold at first.                                                       *)
LEMMA AgreementInit == TransferInit => BuffersAgree /\ AnswersAgree
<1> SUFFICES ASSUME TransferInit PROVE BuffersAgree /\ AnswersAgree
  OBVIOUS
<1>1. /\ pc = "encode" /\ outBuf = << START >> /\ written = 0 /\ filled = [k \in {0} |-> 1]
      /\ payload \in FramePayloads /\ result.res = "NONE" /\ avail = 0
  BY DEF TransferInit, NoResult
<1>2. Stuffed(SubSeq(Body(payload), 1, 0)) = << >>
  <2>1. SubSeq(Body(payload), 1, 0) = << >>
    BY SubSeqEmpty
  <2> QED
    BY <2>1, StuffedNothing
<1>3. << START >> \o << >> = << START >> /\ Len(<< >>) = 0
  <2>1. << START >> \in Seq(Byte)
    BY DEF START, Byte
  <2> QED
    BY <2>1, JoinedBytes
<1>4. BuffersAgree
  BY <1>1, <1>2, <1>3 DEF BuffersAgree
<1>5. AnswersAgree
  BY <1>1 DEF AnswersAgree
<1> QED
  BY <1>4, <1>5

(* Every answer is Frame_Decode's.                                           *)
LEMMA AnswersNext ==
  ASSUME TransferTypeOK, Inductive, BuffersAgree, AnswersAgree, [TransferNext]_transfer
  PROVE  AnswersAgree'
<1>0. /\ avail \in Nat /\ idx \in Nat /\ Len(noise) \in Nat /\ Len(outBuf) \in Nat
      /\ OutPayloadCap \in Nat /\ written \in Nat /\ OutBufCap \in Nat
      /\ payload \in FramePayloads
  BY LineProperties, PayloadsAssumption DEF TransferTypeOK
<1>1. CASE WriteByte
  <2>1. /\ pc = "encode" /\ pc' = "encode" /\ result' = result /\ avail' = avail
        /\ result.res = "NONE"
    BY <1>1 DEF WriteByte, decoder, Inductive, GotIsPrefix
  <2> QED
    BY <2>1 DEF AnswersAgree
<1>2. CASE WriteFails
  <2>1. /\ pc' = "done" /\ result' = [res |-> "ENCODE_TOO_SMALL", consumed |-> 0]
        /\ payload' = payload /\ written < Len(Body(payload))
        /\ Len(outBuf) + Len(Stuff(Body(payload)[written + 1])) > OutBufCap
    BY <1>2 DEF WriteFails, encoder
  <2>2. Len(Frame(payload)) > OutBufCap
    <3> DEFINE s == Body(payload)
    <3>1. s \in Seq(Byte) /\ written \in 0..(Len(s) - 1) /\ written + 1 \in 0..Len(s)
      BY <1>0, <2>1, BodyOfPayload
    <3>2. PICK u \in Seq(Byte), b \in Byte :
            /\ u = SubSeq(s, 1, written) /\ b = s[written + 1]
            /\ SubSeq(s, 1, written + 1) = Append(u, b)
      <4>1. /\ SubSeq(s, 1, written) \in Seq(Byte) /\ s[written + 1] \in Byte
            /\ SubSeq(s, 1, written + 1) = Append(SubSeq(s, 1, written), s[written + 1])
        BY <3>1, OneMore
      <4> QED
        BY <4>1
    <3>3. PICK v \in Seq(Byte), raw \in Seq(Byte) :
            v = Stuffed(u) /\ raw = Stuff(b) /\ Stuffed(Append(u, b)) = v \o raw
      BY StuffedAppend, StuffProperties
    <3>4. Len(outBuf) = 1 + Len(v)
      <4>1. << START >> \in Seq(Byte) /\ Len(<< START >>) = 1
        BY DEF START, Byte
      <4>2. Len(<< START >> \o v) = Len(<< START >>) + Len(v)
        BY <4>1, ConcatProperties
      <4> QED
        BY <3>2, <3>3, <4>1, <4>2 DEF BuffersAgree
    <3>5. PICK w \in Seq(Byte), rest \in Seq(Byte) : w = v \o raw /\ Stuffed(s) = w \o rest
      <4>1. PICK t \in Seq(Byte) : s = Append(u, b) \o t
        <5>1. /\ SubSeq(s, (written + 1) + 1, Len(s)) \in Seq(Byte)
              /\ s = SubSeq(s, 1, written + 1) \o SubSeq(s, (written + 1) + 1, Len(s))
          BY <3>1, SplitBytes
        <5> QED
          BY <3>2, <5>1
      <4>2. Append(u, b) \in Seq(Byte)
        BY AppendedByte
      <4>3. Stuffed(Append(u, b) \o t) = Stuffed(Append(u, b)) \o Stuffed(t)
        BY <4>2, StuffedConcat
      <4>4. Stuffed(t) \in Seq(Byte) /\ v \o raw \in Seq(Byte)
        BY StuffedAppend, JoinedBytes
      <4> QED
        BY <3>3, <4>1, <4>3, <4>4
    <3>6. Len(w) = Len(v) + Len(raw) /\ Len(w \o rest) = Len(w) + Len(rest)
      BY <3>5, ConcatProperties
    <3>7. Len(v) \in Nat /\ Len(raw) \in Nat /\ Len(rest) \in Nat
      BY LenProperties
    <3>8. Len(Frame(payload)) = 1 + Len(Stuffed(s))
      BY <1>0, PayloadsFramable, FrameLengths
    <3> HIDE DEF s
    <3>9. Len(outBuf) + Len(raw) > OutBufCap
      BY <2>1, <3>2, <3>3 DEF s
    <3> QED
      BY <1>0, <3>4, <3>5, <3>6, <3>7, <3>8, <3>9
  <2> QED
    BY <2>1, <2>2 DEF AnswersAgree
<1>3. CASE Encoded
  <2>1. /\ pc = "encode" /\ pc' = "arrive" /\ result' = result /\ avail' = avail
        /\ result.res = "NONE"
    BY <1>3 DEF Encoded, decoder, Inductive, GotIsPrefix
  <2>2. avail = 0 /\ ~(avail > 0)
    BY <2>1 DEF AnswersAgree
  <2> QED
    BY <2>1, <2>2 DEF AnswersAgree
<1>4. CASE Arrive \/ ScanNoise \/ ScanStart \/ ReadByte
  <2>1. /\ pc' \in {"scan", "read"} /\ result' = result /\ pc # "done"
    BY <1>4 DEF Arrive, ScanNoise, ScanStart, ReadByte
  <2>2. result.res # "ENCODE_TOO_SMALL"
    BY <2>1 DEF AnswersAgree
  <2> QED
    BY <2>1, <2>2 DEF AnswersAgree
<1>5. CASE ScanFails
  <2>1. /\ result' = [res |-> "INCOMPLETE", consumed |-> 0] /\ pc' = "arrive" /\ pc = "scan"
        /\ UNCHANGED << avail, noise, filled, outBuf, payload >> /\ idx >= avail
    BY <1>5 DEF ScanFails, Return, encoder, decoder
  <2>2. idx <= Len(noise) /\ written = Len(Body(payload))
    BY <2>1 DEF Inductive, GotIsPrefix
  <2>3. filled[2] \in Nat /\ filled[2] >= 1
    BY <2>2, LengthInside
  <2>4. avail < Len(noise) + filled[2]
    BY <1>0, <2>1, <2>2, <2>3
  <2> QED
    BY <2>1, <2>4 DEF AnswersAgree
<1>6. CASE ReadFails
  <2>1. /\ result' = [res |-> "INCOMPLETE", consumed |-> 0] /\ pc' = "arrive" /\ pc = "read"
        /\ UNCHANGED << avail, noise, filled, outBuf, payload >>
        /\ ~TooLarge /\ Len(got) < Needed /\ ~CanRead
    BY <1>6 DEF ReadFails, Return, encoder, decoder
  <2>2. Len(got) + 1 \in 1..written /\ avail < Len(noise) + filled[Len(got) + 1]
    BY <2>1, NotArrived
  <2>3. written = Len(Body(payload)) /\ Len(got) \in Nat
    BY <2>1, LenProperties DEF Inductive, GotIsPrefix, TransferTypeOK
  <2>4. PICK j \in 1..written, x \in Nat, y \in Nat :
          j = Len(got) + 1 /\ x = filled[j] /\ y = filled[2] /\ x <= Len(outBuf)
    <3>1. Len(got) + 1 \in 0..written
      BY <2>2
    <3> QED
      BY <2>2, <2>3, <3>1, LengthInside
  <2>5. CASE Len(got) < 2
    <3>1. j \in 0..2
      BY <2>3, <2>4, <2>5
    <3>2. x <= y
      BY <2>3, <2>4, <3>1, LengthInside
    <3>3. avail < Len(noise) + filled[2]
      BY <1>0, <2>2, <2>4, <3>2
    <3> QED
      BY <2>1, <3>3 DEF AnswersAgree
  <2>6. CASE ~(Len(got) < 2)
    <3>1. Len(got) >= 2
      BY <2>3, <2>6
    <3>2. ~(Len(payload) > OutPayloadCap)
      BY <2>1, <3>1, DeclaredIsLength DEF TooLarge
    <3>3. Len(payload) <= OutPayloadCap
      BY <1>0, <3>2, BodyOfPayload
    <3>4. avail < FramedLen
      BY <1>0, <2>2, <2>4 DEF FramedLen
    <3>5. FramedLen' = FramedLen
      BY <2>1 DEF FramedLen
    <3> QED
      BY <2>1, <3>3, <3>4, <3>5 DEF AnswersAgree
  <2> QED
    BY <2>5, <2>6
<1>7. CASE RejectLength
  <2>1. /\ result' = [res |-> "BUFFER_TOO_SMALL", consumed |-> 0] /\ pc' = "done" /\ pc = "read"
        /\ UNCHANGED << avail, noise, filled, outBuf, payload, written >>
        /\ TooLarge
    BY <1>7 DEF RejectLength, Return, encoder, decoder
  <2>2. Len(payload) > OutPayloadCap
    BY <2>1, DeclaredIsLength DEF TooLarge
  <2>3. /\ written = Len(Body(payload)) /\ Len(got) \in Nat /\ Len(got) <= written
        /\ idx = Len(noise) + filled[Len(got)] /\ idx <= avail
    BY <2>1, LenProperties DEF Inductive, GotIsPrefix, TransferTypeOK
  <2>4. avail >= Len(noise) + filled[2]
    <3>1. Len(got) \in 2..written /\ Len(got) \in 0..written
      BY <1>0, <2>1, <2>3 DEF TooLarge
    <3>2. PICK x \in Nat, y \in Nat : x = filled[Len(got)] /\ y = filled[2] /\ y <= x
      BY <2>3, <3>1, LengthInside
    <3> QED
      BY <1>0, <2>3, <3>2
  <2> QED
    BY <2>1, <2>2, <2>3, <2>4 DEF AnswersAgree
<1>8. CASE CheckCrc
  <2>1. /\ pc' = "done" /\ pc = "read" /\ ~TooLarge /\ Len(got) = Needed
        /\ UNCHANGED << avail, noise, filled, outBuf, payload, written >>
    BY <1>8 DEF CheckCrc, Return, encoder, decoder
  <2>2. idx = FramedLen /\ DeclaredLen = Len(payload) /\ CrcMatches(got, DeclaredLen)
    BY <2>1, AllRead
  <2>3. result' = [res |-> "OK", consumed |-> FramedLen] /\ FramedLen' = FramedLen
    BY <1>8, <2>1, <2>2 DEF CheckCrc, Return, FramedLen
  <2>4. /\ written = Len(Body(payload)) /\ Len(got) \in Nat /\ idx <= avail
    BY <2>1, LenProperties DEF Inductive, GotIsPrefix, TransferTypeOK
  <2>5. Len(payload) <= OutPayloadCap
    <3>1. Len(got) >= 2
      <4>1. CASE Len(got) < 2
        BY <2>1, <4>1 DEF Needed
      <4> QED
        BY <2>4, <4>1
    <3> QED
      BY <1>0, <2>1, <2>2, <3>1, BodyOfPayload DEF TooLarge
  <2>6. avail >= Len(noise) + filled[2] /\ avail >= FramedLen
    <3>1. 2 \in 0..written
      BY <1>0, <2>4, BodyOfPayload
    <3>2. filled[2] \in Nat /\ filled[2] <= Len(outBuf)
      BY <2>4, <3>1, LengthInside
    <3> QED
      BY <1>0, <2>2, <2>4, <3>2 DEF FramedLen
  <2> QED
    BY <2>1, <2>3, <2>4, <2>5, <2>6 DEF AnswersAgree
<1>9. CASE UNCHANGED transfer
  <2>1. UNCHANGED << pc, result, avail, noise, filled, outBuf, payload, written >>
    BY <1>9 DEF transfer, encoder, decoder
  <2> QED
    BY <2>1 DEF AnswersAgree, FramedLen
<1> QED
  BY <1>1, <1>2, <1>3, <1>4, <1>5, <1>6, <1>7, <1>8, <1>9 DEF TransferNext

(* Only the encoder writes its buffer.                                       *)
LEMMA BuffersNext ==
  ASSUME TransferTypeOK, BuffersAgree, [TransferNext]_transfer
  PROVE  BuffersAgree'
<1>1. CASE WriteByte
  BY <1>1, BufferGrows
<1>2. CASE UNCHANGED encoder
  <2>1. outBuf' = outBuf /\ payload' = payload /\ written' = written /\ filled' = filled
    BY <1>2 DEF encoder
  <2> QED
    BY <2>1 DEF BuffersAgree
<1>3. WriteByte \/ UNCHANGED encoder
  BY DEF TransferNext, transfer, WriteFails, Encoded, Arrive, ScanNoise, ScanStart, ScanFails, ReadByte,
         ReadFails, RejectLength, CheckCrc, Return
<1> QED
  BY <1>1, <1>2, <1>3

(* A finished buffer is the operators' Frame, and filled[2] counts its START *)
(* and its length.                                                           *)
LEMMA Finished ==
  ASSUME TransferTypeOK, BuffersAgree, written = Len(Body(payload))
  PROVE  /\ outBuf = Frame(payload)
         /\ Len(outBuf) <= OutBufCap
         /\ filled[2] = LengthKnown(payload)
<1>1. Body(payload) \in Seq(Byte) /\ Len(Body(payload)) >= 4 /\ written >= 4
  BY BodyOfPayload
<1>2. SubSeq(Body(payload), 1, written) = Body(payload)
  BY <1>1, SubSeqFull
<1>3. outBuf = Frame(payload)
  BY <1>2 DEF BuffersAgree, Frame
<1>4. 2 \in 0..written /\ written > 0
  BY <1>1 DEF TransferTypeOK
<1>5. filled[2] = LengthKnown(payload) /\ Len(outBuf) <= OutBufCap
  BY <1>4 DEF BuffersAgree, LengthKnown
<1> QED
  BY <1>3, <1>5

(* What Frame_Decode makes of the bytes that have arrived.                   *)
LEMMA DecodeArrived ==
  ASSUME TransferTypeOK, BuffersAgree, written = Len(Body(payload))
  PROVE  Frame_Decode(SubSeq(Line, 1, avail), OutPayloadCap)
           = Answer(payload, Len(noise), avail, OutPayloadCap)
<1>1. /\ noise \in Seq(Byte \ {START}) /\ tail \in Seq(Byte) /\ Line \in Seq(Byte)
      /\ Framable(payload) /\ OutPayloadCap \in Nat /\ avail \in 0..Len(Line)
  BY PayloadsAssumption, PayloadsFramable, LineProperties DEF TransferTypeOK
<1>2. PICK b \in Seq(Byte), x \in Seq(Byte) :
        b = SubSeq(Line, 1, avail) /\ x = SubSeq(Line, avail + 1, Len(Line)) /\ Line = b \o x
        /\ Len(b) = avail
  <2>1. /\ SubSeq(Line, 1, avail) \in Seq(Byte) /\ SubSeq(Line, avail + 1, Len(Line)) \in Seq(Byte)
        /\ Line = SubSeq(Line, 1, avail) \o SubSeq(Line, avail + 1, Len(Line))
        /\ Len(SubSeq(Line, 1, avail)) = avail
    BY ONLY <1>1, SplitBytes
  <2> QED
    BY ONLY <2>1
<1>3. SameJoined(b, x, noise \o Frame(payload), tail)
  <2>1. Line = (noise \o Frame(payload)) \o tail
    BY Finished DEF Line
  <2> QED
    BY <1>2, <2>1 DEF SameJoined
<1>4. Frame_Decode(b, OutPayloadCap) = Answer(payload, Len(noise), Len(b), OutPayloadCap)
  BY <1>1, <1>3, DecodeFrame
<1> QED
  BY <1>2, <1>4

(* So the loops compute the operators.                                       *)
LEMMA Agreement ==
  ASSUME TransferTypeOK, Inductive, BuffersAgree, AnswersAgree
  PROVE  StepsAgree
<1>1. ASSUME pc \in {"arrive", "scan", "read"}
      PROVE  Frame_Encode(payload, OutBufCap) = [res |-> "OK", framed |-> outBuf]
  <2>1. written = Len(Body(payload))
    BY <1>1 DEF Inductive, GotIsPrefix
  <2>2. outBuf = Frame(payload) /\ Len(outBuf) <= OutBufCap
    BY <2>1, Finished
  <2>3. ~(Len(Frame(payload)) > OutBufCap)
    BY <2>2, LineProperties, PayloadsAssumption
  <2> QED
    BY <2>2, <2>3 DEF Frame_Encode
<1>2. ASSUME result.res = "ENCODE_TOO_SMALL"
      PROVE  Frame_Encode(payload, OutBufCap).res = "BUFFER_TOO_SMALL"
  BY <1>2 DEF AnswersAgree, Frame_Encode
<1> DEFINE d == Frame_Decode(SubSeq(Line, 1, avail), OutPayloadCap)
<1>3. ASSUME (pc = "arrive" /\ avail > 0) \/ (pc = "done" /\ result.res # "ENCODE_TOO_SMALL")
      PROVE  result = [res |-> d.res, consumed |-> d.consumed]
  <2>1. written = Len(Body(payload))
    BY <1>3 DEF Inductive, GotIsPrefix, AnswersAgree
  <2>2. d = Answer(payload, Len(noise), avail, OutPayloadCap)
    BY <2>1, DecodeArrived
  <2>3. filled[2] = LengthKnown(payload) /\ FramedLen = Len(noise) + Len(Frame(payload))
    BY <2>1, Finished DEF FramedLen
  <2> HIDE DEF d
  <2>4. /\ avail \in Nat /\ Len(noise) \in Nat /\ FramedLen \in Nat /\ filled[2] \in Nat
        /\ Len(payload) \in Nat /\ OutPayloadCap \in Nat
    <3>1. filled[2] \in Nat
      BY <2>1, LengthInside
    <3> QED
      BY <3>1, LineProperties, PayloadsAssumption, BodyOfPayload DEF TransferTypeOK, FramedLen
  <2>5. d = IF avail < Len(noise) + filled[2]   THEN Result("INCOMPLETE", << >>, 0)
            ELSE IF Len(payload) > OutPayloadCap THEN Result("BUFFER_TOO_SMALL", << >>, 0)
            ELSE IF avail < FramedLen            THEN Result("INCOMPLETE", << >>, 0)
            ELSE Result("OK", payload, FramedLen)
    BY <2>2, <2>3 DEF Answer
  <2>6. CASE pc = "arrive" /\ avail > 0
    <3>1. /\ result = [res |-> "INCOMPLETE", consumed |-> 0]
          /\ avail < Len(noise) + filled[2] \/ (Len(payload) <= OutPayloadCap /\ avail < FramedLen)
      BY <2>6 DEF AnswersAgree
    <3>2. d = Result("INCOMPLETE", << >>, 0)
      BY <2>4, <2>5, <3>1
    <3> QED
      BY <3>1, <3>2 DEF Result
  <2>7. CASE pc = "done" /\ result.res # "ENCODE_TOO_SMALL"
    <3>1. /\ avail >= Len(noise) + filled[2]
          /\ \/ /\ Len(payload) > OutPayloadCap
                /\ result = [res |-> "BUFFER_TOO_SMALL", consumed |-> 0]
             \/ /\ Len(payload) <= OutPayloadCap /\ avail >= FramedLen
                /\ result = [res |-> "OK", consumed |-> FramedLen]
      BY <2>7 DEF AnswersAgree
    <3>2. ~(avail < Len(noise) + filled[2])
      BY <2>4, <3>1
    <3>3. CASE Len(payload) > OutPayloadCap /\ result = [res |-> "BUFFER_TOO_SMALL", consumed |-> 0]
      <4>1. d = Result("BUFFER_TOO_SMALL", << >>, 0)
        BY <2>5, <3>2, <3>3
      <4> QED
        BY <3>3, <4>1 DEF Result
    <3>4. CASE /\ Len(payload) <= OutPayloadCap /\ avail >= FramedLen
               /\ result = [res |-> "OK", consumed |-> FramedLen]
      <4>1. ~(Len(payload) > OutPayloadCap) /\ ~(avail < FramedLen)
        BY <2>4, <3>4
      <4>2. d = Result("OK", payload, FramedLen)
        BY <2>5, <3>2, <4>1
      <4> QED
        BY <3>4, <4>2 DEF Result
    <3> QED
      BY <3>1, <3>3, <3>4
  <2> QED
    BY <1>3, <2>6, <2>7
<1> QED
  BY <1>1, <1>2, <1>3 DEF StepsAgree

(* Frame_Encode and Frame_Decode, as the code's loops run them, compute the  *)
(* operators the other modules use, whatever the payload, the noise, what    *)
(* follows and the places where the bytes are split on arrival.              *)
THEOREM OperatorsAgree == TransferSpec => []StepsAgree
<1> DEFINE I == TransferTypeOK /\ Inductive /\ BuffersAgree /\ AnswersAgree
<1>1. TransferInit => I
  BY TypeInit, InductiveInit, AgreementInit
<1>2. I /\ [TransferNext]_transfer => I'
  BY TypeNext, InductiveNext, BuffersNext, AnswersNext
<1>3. I => StepsAgree
  BY Agreement
<1> QED
  BY <1>1, <1>2, <1>3, PTL DEF TransferSpec

-----------------------------------------------------------------------------
(* The uplink *)

(* Whatever the bytes are: there are four answers; a payload is bytes, and   *)
(* what is consumed is something, and no more than there is.                 *)
LEMMA DecodeType ==
  ASSUME NEW b \in Seq(Byte), NEW cap
  PROVE  LET d == Frame_Decode(b, cap)
         IN  /\ d.res \in {"INCOMPLETE", "BUFFER_TOO_SMALL", "MALFORMED", "OK"}
             /\ d.res = "OK" => d.payload \in Seq(Byte)
             /\ d.res \in {"MALFORMED", "OK"} => d.consumed \in 1..Len(b)
<1>1. PICK i \in 0..Len(b) : i = StartOf(b)
  BY StartIndex
<1>2. PICK raw \in Seq(Byte) : raw = SubSeq(b, i + 1, Len(b)) /\ Len(raw) = Len(b) - i
  <2>1. SubSeq(b, i + 1, Len(b)) \in Seq(Byte) /\ Len(SubSeq(b, i + 1, Len(b))) = Len(b) - i
    BY SplitBytes
  <2> QED
    BY <2>1
<1>3. PICK D \in Destuffed : D = Destuff(raw) /\ Ended(D, Len(raw))
  <2>1. raw \in Seq(Byte) /\ << >> \in Seq(Byte)
    OBVIOUS
  <2> QED
    BY ONLY <2>1, DestuffConcat
<1>4. PICK bytes \in Seq(Byte), ends \in Seq(Nat), n \in Nat :
        bytes = D.bytes /\ ends = D.ends /\ n = Len(bytes)
  BY LenProperties DEF Destuffed
<1>5. PICK m : m = Protocol_GetU16(bytes[1], bytes[2])
  OBVIOUS
<1>6. Frame_Decode(b, cap) =
        IF i = 0 \/ n < 2         THEN Result("INCOMPLETE", << >>, 0)
        ELSE IF m > cap           THEN Result("BUFFER_TOO_SMALL", << >>, 0)
        ELSE IF n < m + 4         THEN Result("INCOMPLETE", << >>, 0)
        ELSE IF ~CrcMatches(bytes, m) THEN Result("MALFORMED", << >>, i + ends[m + 4])
        ELSE Result("OK", SubSeq(bytes, 3, m + 2), i + ends[m + 4])
  BY <1>1, <1>2, <1>3, <1>4, <1>5, Decoding
<1>7. ASSUME i # 0, ~(n < 2), ~(n < m + 4)
      PROVE  /\ i + ends[m + 4] \in 1..Len(b)
             /\ SubSeq(bytes, 3, m + 2) \in Seq(Byte)
  <2>1. m \in Nat
    <3>1. bytes[1] \in Byte /\ bytes[2] \in Byte
      <4>1. 1 \in 1..Len(bytes) /\ 2 \in 1..Len(bytes)
        BY <1>4, <1>7
      <4> QED
        BY <4>1, ElementOfSeq
    <3> QED
      <4>1. PICK x \in 0..255, y \in 0..255 : x = bytes[1] /\ y = bytes[2]
        BY <3>1 DEF Byte
      <4>2. 256 * x + y \in Nat
        BY ONLY x \in 0..255, y \in 0..255
      <4> QED
        BY <1>5, <4>1, <4>2 DEF Protocol_GetU16
  <2>2. m + 4 \in 1..n /\ m + 2 \in Int /\ \A k \in 3..(m + 2) : k \in 1..n
    BY <1>4, <1>7, <2>1
  <2>3. ends[m + 4] \in 1..Len(raw)
    BY <1>3, <1>4, <2>2 DEF Ended
  <2>4. i + ends[m + 4] \in 1..Len(b)
    <3>1. PICK e \in Int, r \in Int, l \in Nat : e = ends[m + 4] /\ r = Len(raw) /\ l = Len(b)
      <4>1. Len(raw) \in Nat /\ Len(b) \in Nat
        BY LenProperties
      <4> QED
        BY <2>3, <4>1
    <3>2. e \in 1..r /\ r = l - i /\ i \in 0..l
      BY <1>1, <1>2, <2>3, <3>1
    <3>3. i + e \in 1..l
      BY ONLY <3>1, <3>2
    <3> QED
      BY <3>1, <3>3
  <2>5. \A k \in 3..(m + 2) : bytes[k] \in Byte
    BY <1>4, <2>2, ElementOfSeq
  <2>6. SubSeq(bytes, 3, m + 2) \in Seq(Byte)
    <3>1. 3 \in Int
      OBVIOUS
    <3> QED
      BY ONLY <2>2, <2>5, <3>1, PartOfBytes
  <2> QED
    BY <2>4, <2>6
<1>8. CASE i = 0 \/ n < 2 \/ m > cap \/ n < m + 4
  <2>1. \/ Frame_Decode(b, cap) = Result("INCOMPLETE", << >>, 0)
        \/ Frame_Decode(b, cap) = Result("BUFFER_TOO_SMALL", << >>, 0)
    BY <1>6, <1>8
  <2> QED
    BY <2>1 DEF Result
<1>9. CASE ~(i = 0 \/ n < 2 \/ m > cap \/ n < m + 4)
  <2>1. \/ Frame_Decode(b, cap) = Result("MALFORMED", << >>, i + ends[m + 4])
        \/ Frame_Decode(b, cap) = Result("OK", SubSeq(bytes, 3, m + 2), i + ends[m + 4])
    BY <1>6, <1>9
  <2>2. i + ends[m + 4] \in 1..Len(b) /\ SubSeq(bytes, 3, m + 2) \in Seq(Byte)
    BY <1>7, <1>9
  <2>3. PICK c, p : c = i + ends[m + 4] /\ p = SubSeq(bytes, 3, m + 2)
    OBVIOUS
  <2>4. CASE Frame_Decode(b, cap) = Result("MALFORMED", << >>, c)
    BY <2>2, <2>3, <2>4 DEF Result
  <2>5. CASE Frame_Decode(b, cap) = Result("OK", p, c)
    BY <2>2, <2>3, <2>5 DEF Result
  <2> QED
    BY <2>1, <2>3, <2>4, <2>5
<1> QED
  BY <1>8, <1>9

(* How much Recv asks for. *)
LEMMA LessOfTwo ==
  ASSUME NEW a \in Nat, NEW c \in Nat
  PROVE  Min({a, c}) = IF a <= c THEN a ELSE c
<1>1. PICK m : m = Min({a, c})
  OBVIOUS
<1>2. \E x \in {a, c} : \A y \in {a, c} : x <= y
  OBVIOUS
<1>3. m \in {a, c} /\ \A y \in {a, c} : m <= y
  BY <1>1, <1>2 DEF Min
<1> QED
  BY <1>1, <1>3

(* What Recv moves from the kernel's buffer to the loop's. *)
LEMMA RecvMoves ==
  ASSUME UplinkTypeOK, Recv
  PROVE  \E n \in 0..Len(tty) :
           /\ n <= Room
           /\ uartRxBuf' = uartRxBuf \o SubSeq(tty, 1, n)
           /\ tty' = SubSeq(tty, n + 1, Len(tty))
           /\ n < Room => n = Len(tty)
<1>1. Len(tty) \in Nat /\ Room \in Nat
  <2>1. Len(tty) \in Nat /\ Len(uartRxBuf) \in Nat /\ RxBufSize \in Nat /\ Len(uartRxBuf) <= RxBufSize
    BY LenProperties, BridgeUplinkAssumption DEF UplinkTypeOK
  <2> QED
    BY <2>1 DEF Room
<1>2. PICK n : n = Min({Len(tty), Room})
  OBVIOUS
<1>3. n = IF Len(tty) <= Room THEN Len(tty) ELSE Room
  BY <1>1, <1>2, LessOfTwo
<1>4. n \in 0..Len(tty) /\ n <= Room /\ (n < Room => n = Len(tty))
  BY <1>1, <1>3
<1> QED
  BY <1>2, <1>4 DEF Recv

(* Every variable stays of its type, and the buffer is never overrun.        *)
LEMMA UplinkTypeInit == UplinkInit => UplinkTypeOK
<1> SUFFICES ASSUME UplinkInit PROVE UplinkTypeOK
  OBVIOUS
<1>1. wire \in Seq(Byte) /\ RxBufSize \in Nat /\ MaxFaults \in Nat
  BY BridgeUplinkAssumption DEF UplinkInit
<1>2. Len(uartRxBuf) = 0
  BY DEF UplinkInit
<1> QED
  BY <1>1, <1>2 DEF UplinkInit, UplinkTypeOK

(* Every step keeps the types, damage to the wire included.                  *)
LEMMA UplinkTypeNext ==
  ASSUME UplinkTypeOK, [UplinkNext]_uplink
  PROVE  UplinkTypeOK'
<1>0. /\ sent \in Seq(Payloads) /\ wire \in Seq(Byte) /\ tty \in Seq(Byte)
      /\ uartRxBuf \in Seq(Byte) /\ Len(uartRxBuf) <= RxBufSize
      /\ loopAt \in {"recv", "decode"} /\ forwarded \in Seq(Seq(Byte)) /\ faults \in 0..MaxFaults
      /\ MaxFaults \in Nat /\ RxBufSize \in Nat /\ BadBytes \subseteq Byte
      /\ Len(wire) \in Nat /\ Len(tty) \in Nat /\ Len(uartRxBuf) \in Nat
  BY BridgeUplinkAssumption, LenProperties DEF UplinkTypeOK
<1>1. CASE LncSend
  <2>1. PICK p \in Payloads : sent' = Append(sent, p) /\ wire' = wire \o Frame(p)
    BY <1>1 DEF LncSend
  <2>2. Frame(p) \in Seq(Byte)
    BY PayloadsFramable, FrameLengths
  <2>3. wire' \in Seq(Byte) /\ sent' \in Seq(Payloads)
    BY <1>0, <2>1, <2>2, JoinedBytes
  <2> QED
    BY <1>0, <1>1, <2>3 DEF LncSend, loop, UplinkTypeOK
<1>2. ASSUME NEW damaged \in Seq(Byte), Fault(damaged) PROVE UplinkTypeOK'
  <2>1. faults' \in 0..MaxFaults
    BY <1>0, <1>2 DEF Fault
  <2> QED
    BY <1>0, <1>2, <2>1 DEF Fault, loop, UplinkTypeOK
<1>3. CASE LoseByte
  <2>1. PICK i \in 1..Len(wire) : Fault(RemoveAt(wire, i))
    BY <1>0, <1>3 DEF LoseByte
  <2>2. RemoveAt(wire, i) \in Seq(Byte)
    BY <1>0, RemoveAtElements
  <2> QED
    BY <1>2, <2>1, <2>2
<1>4. CASE CorruptByte
  <2>1. PICK i \in DOMAIN wire, b \in BadBytes : Fault([wire EXCEPT ![i] = b])
    BY <1>4 DEF CorruptByte
  <2>2. [wire EXCEPT ![i] = b] \in Seq(Byte)
    <3>1. b \in Byte
      BY <1>0
    <3> QED
      BY <1>0, <2>1, <3>1
  <2> QED
    BY <1>2, <2>1, <2>2
<1>5. CASE InventByte
  <2>1. PICK i \in 1..(Len(wire) + 1), b \in BadBytes : Fault(InsertAt(wire, i, b))
    BY <1>5 DEF InventByte
  <2>2. InsertAt(wire, i, b) \in Seq(Byte)
    <3>1. i - 1 \in 0..Len(wire) /\ (i - 1) + 1 = i
      BY <1>0
    <3>2. SubSeq(wire, 1, i - 1) \in Seq(Byte) /\ SubSeq(wire, i, Len(wire)) \in Seq(Byte)
      BY <1>0, <3>1, SplitBytes
    <3>3. << b >> \in Seq(Byte)
      BY <1>0
    <3>4. PICK front \in Seq(Byte), back \in Seq(Byte) :
            front = SubSeq(wire, 1, i - 1) /\ back = SubSeq(wire, i, Len(wire))
      BY <3>2
    <3>5. PICK mid \in Seq(Byte) : mid = front \o << b >>
      BY <3>3, JoinedBytes
    <3>6. mid \o back \in Seq(Byte)
      BY JoinedBytes
    <3> QED
      BY <3>4, <3>5, <3>6 DEF InsertAt
  <2> QED
    BY <1>2, <2>1, <2>2
<1>6. CASE LncReset
  <2>0. PICK p \in Payloads : \E k \in 1..(Len(Frame(p)) - 1) : Fault(wire \o SubSeq(Frame(p), 1, k))
    BY <1>6 DEF LncReset
  <2>1. PICK k \in 1..(Len(Frame(p)) - 1) : Fault(wire \o SubSeq(Frame(p), 1, k))
    BY <2>0
  <2>2. PICK f \in Seq(Byte) : f = Frame(p)
    BY PayloadsFramable, FrameLengths
  <2>3. k \in 0..Len(f)
    BY <2>1, <2>2, LenProperties
  <2>4. SubSeq(f, 1, k) \in Seq(Byte)
    BY <2>3, SplitBytes
  <2>5. wire \o SubSeq(f, 1, k) \in Seq(Byte)
    BY <1>0, <2>4, JoinedBytes
  <2> QED
    BY <1>2, <2>1, <2>2, <2>5
<1>7. CASE ReachTty
  <2>1. PICK k \in 1..Len(wire) : tty' = tty \o SubSeq(wire, 1, k) /\ wire' = SubSeq(wire, k + 1, Len(wire))
    BY <1>7 DEF ReachTty
  <2>2. SubSeq(wire, 1, k) \in Seq(Byte) /\ SubSeq(wire, k + 1, Len(wire)) \in Seq(Byte)
    <3>1. k \in 0..Len(wire)
      BY <1>0
    <3> QED
      BY <1>0, <3>1, SplitBytes
  <2>3. tty' \in Seq(Byte) /\ wire' \in Seq(Byte)
    BY <1>0, <2>1, <2>2, JoinedBytes
  <2> QED
    BY <1>0, <1>7, <2>3 DEF ReachTty, loop, UplinkTypeOK
<1>8. CASE Recv
  <2>1. PICK n \in 0..Len(tty) :
          /\ n <= Room
          /\ uartRxBuf' = uartRxBuf \o SubSeq(tty, 1, n) /\ tty' = SubSeq(tty, n + 1, Len(tty))
    BY <1>8, RecvMoves
  <2>2. PICK u \in Seq(Byte) : u = SubSeq(tty, 1, n) /\ Len(u) = n
    <3>1. SubSeq(tty, 1, n) \in Seq(Byte) /\ Len(SubSeq(tty, 1, n)) = n
      BY <1>0, SplitBytes
    <3> QED
      BY <3>1
  <2>3. tty' \in Seq(Byte)
    BY <1>0, <2>1, SplitBytes
  <2>4. uartRxBuf' \in Seq(Byte) /\ Len(uartRxBuf') = Len(uartRxBuf) + n
    BY <1>0, <2>1, <2>2, ConcatProperties
  <2>5. Len(uartRxBuf') <= RxBufSize
    BY <1>0, <2>1, <2>4 DEF Room
  <2> QED
    BY <1>0, <1>8, <2>3, <2>4, <2>5 DEF Recv, lnc, UplinkTypeOK
<1>9. CASE Decode
  <2>1. PICK d : d = Frame_Decode(uartRxBuf, PayloadCap)
    OBVIOUS
  <2>2. /\ d.res \in {"INCOMPLETE", "BUFFER_TOO_SMALL", "MALFORMED", "OK"}
        /\ d.res = "OK" => d.payload \in Seq(Byte)
        /\ d.res \in {"MALFORMED", "OK"} => d.consumed \in 1..Len(uartRxBuf)
    BY <1>0, <2>1, DecodeType
  <2>3. ASSUME d.res \in {"MALFORMED", "OK"}
        PROVE  Remaining(d) \in Seq(Byte) /\ Len(Remaining(d)) <= RxBufSize
    <3>1. d.consumed \in 0..Len(uartRxBuf)
      BY <1>0, <2>2, <2>3
    <3>2. Remaining(d) \in Seq(Byte) /\ Len(Remaining(d)) = Len(uartRxBuf) - d.consumed
      BY <1>0, <3>1, SplitBytes DEF Remaining
    <3> QED
      BY <1>0, <3>1, <3>2
  <2>4. /\ d.res = "OK" => forwarded' = Append(forwarded, d.payload) /\ uartRxBuf' = Remaining(d)
        /\ d.res = "MALFORMED" => forwarded' = forwarded /\ uartRxBuf' = Remaining(d)
        /\ d.res = "BUFFER_TOO_SMALL" => forwarded' = forwarded /\ uartRxBuf' = << >>
        /\ d.res = "INCOMPLETE" => forwarded' = forwarded /\ uartRxBuf' = uartRxBuf
    BY <1>9, <2>1, <2>2 DEF Decode
  <2>5. uartRxBuf' \in Seq(Byte) /\ Len(uartRxBuf') <= RxBufSize
    <3>1. << >> \in Seq(Byte) /\ Len(<< >>) = 0 /\ 0 <= RxBufSize
      BY <1>0
    <3> QED
      BY <1>0, <2>2, <2>3, <2>4, <3>1
  <2>6. forwarded' \in Seq(Seq(Byte))
    <3>1. CASE d.res = "OK"
      <4>1. d.payload \in Seq(Byte) /\ forwarded' = Append(forwarded, d.payload)
        BY <2>2, <2>4, <3>1
      <4>2. PICK P : P = Seq(Byte)
        OBVIOUS
      <4>3. Append(forwarded, d.payload) \in Seq(P)
        <5>1. forwarded \in Seq(P) /\ d.payload \in P
          BY <1>0, <4>1, <4>2
        <5> QED
          BY ONLY <5>1, AppendElements
      <4> QED
        BY <4>1, <4>2, <4>3
    <3>2. CASE d.res # "OK"
      <4>1. forwarded' = forwarded
        BY <2>2, <2>4, <3>2
      <4> QED
        BY <1>0, <4>1
    <3> QED
      BY <3>1, <3>2
  <2> QED
    BY <1>0, <1>9, <2>5, <2>6 DEF Decode, lnc, UplinkTypeOK
<1>10. CASE UNCHANGED uplink
  BY <1>0, <1>10 DEF uplink, lnc, loop, UplinkTypeOK
<1> QED
  BY <1>1, <1>3, <1>4, <1>5, <1>6, <1>7, <1>8, <1>9, <1>10 DEF UplinkNext

(* Type correctness of the uplink, whatever happens to the wire: no read     *)
(* overruns uartRxBuf, and what Frame_Decode says it consumed is in it.      *)
THEOREM UplinkTyping == UplinkSpec => []UplinkTypeOK
<1>1. UplinkInit => UplinkTypeOK
  BY UplinkTypeInit
<1>2. UplinkTypeOK /\ [UplinkNext]_uplink => UplinkTypeOK'
  BY UplinkTypeNext
<1> QED
  BY <1>1, <1>2, PTL DEF UplinkSpec

(* START and the length are the beginning of the frame. *)
LEMMA LengthFirst ==
  ASSUME NEW p, Framable(p)
  PROVE  LengthKnown(p) \in Nat /\ LengthKnown(p) <= Len(Frame(p))
<1>1. PICK s \in Seq(Byte) : s = Body(p) /\ 2 \in 0..Len(s) /\ Len(Frame(p)) = 1 + Len(Stuffed(s))
  <2>1. /\ Body(p) \in Seq(Byte) /\ Len(Body(p)) = Len(p) + 4 /\ Len(p) \in Nat
        /\ Len(Frame(p)) = 1 + Len(Stuffed(Body(p)))
    BY FrameLengths
  <2> QED
    BY <2>1
<1>2. PICK u \in Seq(Byte), v \in Seq(Byte) : u = SubSeq(s, 1, 2) /\ s = u \o v
  <2>1. /\ SubSeq(s, 1, 2) \in Seq(Byte) /\ SubSeq(s, 2 + 1, Len(s)) \in Seq(Byte)
        /\ s = SubSeq(s, 1, 2) \o SubSeq(s, 2 + 1, Len(s))
    BY <1>1, SplitBytes
  <2> QED
    BY <2>1
<1>3. Stuffed(u \o v) = Stuffed(u) \o Stuffed(v)
  BY StuffedConcat
<1>4. PICK a \in Seq(Byte), c \in Seq(Byte) : a = Stuffed(u) /\ c = Stuffed(v)
  <2>1. 0 \in Byte
    BY DEF Byte
  <2> QED
    BY <2>1, StuffedAppend
<1>5. Len(a \o c) = Len(a) + Len(c) /\ Len(a) \in Nat /\ Len(c) \in Nat
  BY ConcatProperties, LenProperties
<1>6. LengthKnown(p) = 1 + Len(a) /\ Len(Frame(p)) = 1 + Len(a \o c)
  BY <1>1, <1>2, <1>3, <1>4 DEF LengthKnown
<1> QED
  BY <1>5, <1>6

-----------------------------------------------------------------------------
(* The uplink, until the first fault *)

(* The frames of some payloads, one behind the other. *)
LEMMA FramedType ==
  ASSUME NEW s \in Seq(Payloads)
  PROVE  FramesOf(s) \in Seq(Byte) /\ [i \in DOMAIN s |-> Frame(s[i])] \in Seq(Seq(Byte))
<1>1. PICK P : P = Seq(Byte)
  OBVIOUS
<1>2. DOMAIN s = 1..Len(s) /\ Len(s) \in Nat /\ \A i \in 1..Len(s) : s[i] \in Payloads
  OBVIOUS
<1>3. \A i \in 1..Len(s) : Frame(s[i]) \in P
  BY <1>1, <1>2, PayloadsFramable, FrameLengths
<1>4. [i \in DOMAIN s |-> Frame(s[i])] \in Seq(P)
  BY ONLY <1>2, <1>3
<1>5. [i \in DOMAIN s |-> Frame(s[i])] \in Seq(Seq(Byte))
  BY <1>1, <1>4
<1> QED
  BY <1>5, FlattenType DEF FramesOf

(* One payload more is one frame more behind them. *)
LEMMA FramedAppend ==
  ASSUME NEW s \in Seq(Payloads), NEW p \in Payloads
  PROVE  FramesOf(Append(s, p)) = FramesOf(s) \o Frame(p)
<1>1. PICK P : P = Seq(Byte)
  OBVIOUS
<1>2. PICK ss \in Seq(P) : ss = [i \in DOMAIN s |-> Frame(s[i])]
  BY <1>1, FramedType
<1>3. PICK t \in Seq(Payloads) :
        /\ t = Append(s, p) /\ Len(t) = Len(s) + 1
        /\ t[Len(s) + 1] = p /\ \A i \in 1..Len(s) : t[i] = s[i]
  <2>1. /\ Append(s, p) \in Seq(Payloads) /\ Len(Append(s, p)) = Len(s) + 1
        /\ Append(s, p)[Len(s) + 1] = p /\ \A i \in 1..Len(s) : Append(s, p)[i] = s[i]
    BY AppendElements
  <2> QED
    BY ONLY <2>1
<1>4. PICK tt \in Seq(P) : tt = [i \in DOMAIN t |-> Frame(t[i])]
  BY <1>1, FramedType
<1>5. PICK f \in P : f = Frame(p)
  BY <1>1, PayloadsFramable, FrameLengths
<1>6. PICK k \in Nat : k = Len(s) /\ DOMAIN s = 1..k /\ DOMAIN t = 1..(k + 1)
  <2>1. Len(s) \in Nat /\ DOMAIN s = 1..Len(s) /\ DOMAIN t = 1..Len(t)
    BY LenProperties
  <2> QED
    BY <1>3, <2>1
<1>7. Len(ss) = k /\ Len(tt) = k + 1
  BY <1>2, <1>4, <1>6
<1>8. tt = Append(ss, f)
  <2>1. PICK u \in Seq(P) : /\ u = Append(ss, f) /\ Len(u) = k + 1
                            /\ u[k + 1] = f /\ \A i \in 1..k : u[i] = ss[i]
    <3>1. /\ Append(ss, f) \in Seq(P) /\ Len(Append(ss, f)) = Len(ss) + 1
          /\ Append(ss, f)[Len(ss) + 1] = f /\ \A i \in 1..Len(ss) : Append(ss, f)[i] = ss[i]
      BY AppendElements
    <3> QED
      BY ONLY <1>7, <3>1
  <2>2. ASSUME NEW i \in 1..(k + 1) PROVE tt[i] = u[i]
    <3>1. CASE i = k + 1
      BY <1>3, <1>4, <1>5, <1>6, <2>1, <3>1
    <3>2. CASE i # k + 1
      <4>1. i \in 1..k
        BY <3>2
      <4> QED
        BY <1>2, <1>3, <1>4, <1>6, <2>1, <4>1
    <3> QED
      BY <3>1, <3>2
  <2>3. tt = u
    <3>1. Len(tt) = Len(u) /\ \A i \in 1..Len(tt) : tt[i] = u[i]
      BY <1>7, <2>1, <2>2
    <3> QED
      BY <3>1, SeqEqual
  <2> QED
    BY <2>1, <2>3
<1>9. FlattenSeq(Append(ss, f)) = FlattenSeq(ss) \o f
  BY <1>1, FlattenAppend
<1> QED
  BY <1>2, <1>3, <1>4, <1>5, <1>8, <1>9 DEF FramesOf

(* No payloads, no frames. *)
LEMMA FramedNothing == FramesOf(<< >>) = << >>
<1>1. [i \in DOMAIN << >> |-> Frame(<< >>[i])] = << >>
  OBVIOUS
<1> QED
  BY <1>1, FlattenNothing DEF FramesOf

(* The first of them and the others. *)
LEMMA FramedConcat ==
  ASSUME NEW s \in Seq(Payloads), NEW t \in Seq(Payloads)
  PROVE  FramesOf(s \o t) = FramesOf(s) \o FramesOf(t)
<1> DEFINE U(k) == SubSeq(t, 1, k)
           T == {k \in 0..Len(t) : FramesOf(s \o U(k)) = FramesOf(s) \o FramesOf(U(k))}
<1>1. Len(t) \in Nat
  OBVIOUS
<1>2. PICK a \in Seq(Byte) : a = FramesOf(s)
  BY FramedType
<1>3. 0 \in T
  <2>1. U(0) = << >>
    BY SubSeqEmpty
  <2>2. s \o << >> = s /\ a \o << >> = a
    BY ConcatEmptySeq
  <2>3. FramesOf(s \o U(0)) = FramesOf(s) \o FramesOf(U(0))
    BY <1>2, <2>1, <2>2, FramedNothing
  <2> QED
    BY <1>1, <2>3
<1>4. ASSUME NEW k \in 0..(Len(t) - 1), k \in T
      PROVE  k + 1 \in T
  <2>1. /\ U(k) \in Seq(Payloads) /\ t[k + 1] \in Payloads /\ U(k + 1) = Append(U(k), t[k + 1])
        /\ k + 1 \in 0..Len(t)
    BY <1>1, OneMore
  <2>2. PICK u \in Seq(Payloads), p \in Payloads, f \in Seq(Byte), e \in Seq(Byte) :
          u = U(k) /\ p = t[k + 1] /\ f = Frame(p) /\ e = FramesOf(u)
    BY <2>1, FramedType, PayloadsFramable, FrameLengths
  <2>3. PICK su \in Seq(Payloads) : su = s \o u
    BY ConcatProperties
  <2>4. FramesOf(su) = a \o e
    <3>1. FramesOf(s \o U(k)) = FramesOf(s) \o FramesOf(U(k))
      BY <1>4
    <3> QED
      BY <1>2, <2>2, <2>3, <3>1
  <2>5. s \o Append(u, p) = Append(su, p)
    BY ONLY <2>3, s \in Seq(Payloads), u \in Seq(Payloads), p \in Payloads
  <2>6. FramesOf(Append(su, p)) = FramesOf(su) \o f /\ FramesOf(Append(u, p)) = e \o f
    BY <2>2, FramedAppend
  <2>7. (a \o e) \o f = a \o (e \o f)
    BY BytesAssociate
  <2>8. FramesOf(s \o U(k + 1)) = FramesOf(s) \o FramesOf(U(k + 1))
    BY <1>2, <2>1, <2>2, <2>4, <2>5, <2>6, <2>7
  <2> QED
    BY <2>1, <2>8
<1> HIDE DEF T
<1>5. \A k \in 0..Len(t) : k \in T
  BY <1>1, <1>3, <1>4, UpTo
<1>6. Len(t) \in T
  BY <1>1, <1>5
<1>7. U(Len(t)) = t
  BY SubSeqFull
<1> QED
  BY <1>6, <1>7 DEF T

(* Frame_Decode of a buffer in which the frame of p comes first: it waits,   *)
(* and there is room, or it gives p and what is behind the frame.            *)
Waits(b) ==
  Frame_Decode(b, PayloadCap) = Result("INCOMPLETE", << >>, 0) /\ Len(b) < RxBufSize

Gives(b, x, p, y) ==
  \E c \in Seq(Byte), n \in 0..Len(b) :
    /\ Frame_Decode(b, PayloadCap) = Result("OK", p, n)
    /\ c = SubSeq(b, n + 1, Len(b)) /\ Len(c) < Len(b) /\ y = c \o x

(* One of the two it is when every frame fits. *)
LEMMA DecodeFirst ==
  ASSUME FramesFit, NEW p \in Payloads, NEW n \in LineNoise \cup {<< >>},
         NEW b \in Seq(Byte), NEW x \in Seq(Byte), NEW y \in Seq(Byte),
         SameJoined(b, x, n \o Frame(p), y)
  PROVE  Waits(b) \/ Gives(b, x, p, y)
<1>1. /\ n \in Seq(Byte \ {START}) /\ n \in Seq(Byte)
      /\ Len(p) <= PayloadCap /\ Len(n) + Len(Frame(p)) <= RxBufSize
  <2>1. n \in Seq(Byte \ {START})
    BY DEF FramesFit
  <2>2. n \in Seq(Byte)
    BY ONLY <2>1
  <2> QED
    BY <2>1, <2>2 DEF FramesFit
<1>2. PayloadCap \in Nat /\ RxBufSize \in Nat /\ Framable(p)
  BY BridgeUplinkAssumption, PayloadsFramable
<1>3. Frame_Decode(b, PayloadCap) = Answer(p, Len(n), Len(b), PayloadCap)
  BY <1>1, <1>2, DecodeFrame
<1>4. PICK f \in Seq(Byte) : f = Frame(p) /\ 1 <= Len(f) /\ Len(p) \in Nat
  <2>1. Len(Stuffed(Body(p))) \in Nat /\ Frame(p) \in Seq(Byte) /\ Len(p) \in Nat
        /\ Len(Frame(p)) = 1 + Len(Stuffed(Body(p)))
    BY <1>2, FrameLengths, LenProperties
  <2> QED
    BY <2>1
<1>5. PICK k \in Nat, m \in Nat, l \in Nat, w \in Nat :
        k = Len(n) /\ m = Len(f) /\ l = Len(b) /\ w = LengthKnown(p) /\ w <= m
  <2>1. Len(n) \in Nat /\ Len(f) \in Nat /\ Len(b) \in Nat
    BY <1>1, LenProperties
  <2>2. LengthKnown(p) \in Nat /\ LengthKnown(p) <= Len(f)
    BY <1>2, <1>4, LengthFirst
  <2> QED
    BY <2>1, <2>2
<1>6. CASE l < k + m
  <2>1. Frame_Decode(b, PayloadCap) = Result("INCOMPLETE", << >>, 0)
    <3>1. ~(Len(p) > PayloadCap)
      BY <1>1, <1>2, <1>4
    <3> QED
      BY <1>3, <1>4, <1>5, <1>6, <3>1 DEF Answer
  <2>2. l < RxBufSize
    BY <1>1, <1>2, <1>4, <1>5, <1>6
  <2> QED
    BY <1>5, <2>1, <2>2 DEF Waits
<1>7. CASE ~(l < k + m)
  <2>1. Frame_Decode(b, PayloadCap) = Result("OK", p, k + m)
    <3>1. ~(Len(p) > PayloadCap) /\ ~(l < k + w)
      BY <1>1, <1>2, <1>4, <1>5, <1>7
    <3> QED
      BY <1>3, <1>4, <1>5, <1>7, <3>1 DEF Answer
  <2>2. PICK g \in Seq(Byte) : g = n \o f /\ Len(g) = k + m
    BY <1>1, <1>5, ConcatProperties
  <2>3. SameJoined(g, y, b, x) /\ Len(g) <= Len(b)
    BY <1>4, <1>5, <1>7, <2>2 DEF SameJoined
  <2>4. GoesOn(g, y, b, x, Byte)
    BY <2>3, LongerBytes
  <2>5. PICK c \in Seq(Byte) : b = g \o c /\ y = c \o x
    BY <2>4 DEF GoesOn
  <2>6. c = SubSeq(b, k + m + 1, Len(b)) /\ Len(b) = k + m + Len(c)
    <3>1. SubSeq(g \o c, Len(g) + 1, Len(g \o c)) = c
      <4>1. PICK B : B = Byte
        OBVIOUS
      <4>2. g \in Seq(B) /\ c \in Seq(B)
        BY <4>1
      <4> QED
        BY ONLY <4>2, Parts
    <3>2. Len(g \o c) = Len(g) + Len(c)
      BY ConcatProperties
    <3> QED
      BY <2>2, <2>5, <3>1, <3>2
  <2>7. k + m \in 0..Len(b) /\ Len(c) < Len(b)
    <3>1. PICK h \in Nat : h = Len(c)
      BY LenProperties
    <3>2. Len(b) = k + m + h /\ 1 <= m
      BY <1>4, <1>5, <2>6, <3>1
    <3>3. k + m \in 0..(k + m + h) /\ h < k + m + h
      BY ONLY <3>2, k \in Nat, m \in Nat, h \in Nat
    <3> QED
      BY <3>1, <3>2, <3>3
  <2> QED
    BY <2>1, <2>5, <2>6, <2>7 DEF Gives
<1> QED
  BY <1>6, <1>7

(* The same of the two halves of what has been sent. *)
Intact(rest, n) ==
  /\ rest \in Seq(Payloads) /\ n \in LineNoise \cup {<< >>} /\ forwarded \in Seq(Payloads)
  /\ sent = forwarded \o rest
  /\ SameJoined(uartRxBuf, tty \o wire, n, FramesOf(rest))

(* StreamIntact in terms of lengths says that there is such a rest. *)
LEMMA IntactStream ==
  ASSUME NEW rest, NEW n, Intact(rest, n)
  PROVE  StreamIntact
<1>1. rest \in Seq(Payloads) /\ forwarded \in Seq(Payloads) /\ sent = forwarded \o rest
  BY DEF Intact
<1>2. /\ SubSeq(forwarded \o rest, 1, Len(forwarded)) = forwarded
      /\ SubSeq(forwarded \o rest, Len(forwarded) + 1, Len(forwarded \o rest)) = rest
  BY ONLY <1>1, Parts
<1>3. Len(forwarded) \in 0..Len(sent)
  <2>1. Len(forwarded \o rest) = Len(forwarded) + Len(rest)
    BY ONLY <1>1, ConcatProperties
  <2>2. Len(forwarded) \in Nat /\ Len(rest) \in Nat
    BY ONLY <1>1, LenProperties
  <2> QED
    BY ONLY <1>1, <2>1, <2>2
<1>4. uartRxBuf \o (tty \o wire) = n \o FramesOf(rest) /\ n \in LineNoise \cup {<< >>}
  BY DEF Intact, SameJoined
<1>5. \E k \in 0..Len(sent) :
        /\ forwarded = SubSeq(sent, 1, k)
        /\ uartRxBuf \o (tty \o wire) = n \o FramesOf(SubSeq(sent, k + 1, Len(sent)))
  BY ONLY <1>1, <1>2, <1>3, <1>4
<1> QED
  BY <1>4, <1>5 DEF StreamIntact

(* BytesAssociate, kept folded. *)
Associates(a, b, c) == (a \o b) \o c = a \o (b \o c)

(* How three parts are joined does not matter. *)
LEMMA BytesDoAssociate ==
  ASSUME NEW a \in Seq(Byte), NEW b \in Seq(Byte), NEW c \in Seq(Byte)
  PROVE  Associates(a, b, c)
BY BytesAssociate DEF Associates

(* More bytes at the end of what is under way. *)
LEMMA JoinedLonger ==
  ASSUME NEW b \in Seq(Byte), NEW t \in Seq(Byte), NEW w \in Seq(Byte), NEW n \in Seq(Byte),
         NEW y \in Seq(Byte), NEW f \in Seq(Byte), SameJoined(b, t \o w, n, y)
  PROVE  SameJoined(b, t \o (w \o f), n, y \o f)
<1>1. PICK x \in Seq(Byte) : x = t \o w
  BY JoinedBytes
<1>2. b \o x = n \o y
  BY <1>1 DEF SameJoined
<1>3. /\ (b \o x) \o f = b \o (x \o f) /\ (n \o y) \o f = n \o (y \o f)
      /\ x \o f = t \o (w \o f)
  <2>1. Associates(b, x, f) /\ Associates(n, y, f) /\ Associates(t, w, f)
    BY <1>1, BytesDoAssociate
  <2> QED
    BY ONLY <1>1, <2>1 DEF Associates
<1> QED
  BY ONLY <1>2, <1>3 DEF SameJoined

(* A part of it that moves on. *)
LEMMA JoinedMoved ==
  ASSUME NEW t \in Seq(Byte), NEW u \in Seq(Byte), NEW v \in Seq(Byte)
  PROVE  (t \o u) \o v = t \o (u \o v)
BY BytesAssociate

(* Fault or not, what has been received is not touched by the line. *)
LEMMA Frames ==
  ASSUME NEW p \in Payloads
  PROVE  Frame(p) \in Seq(Byte) /\ FramesOf(<< p >>) = Frame(p)
<1>1. Frame(p) \in Seq(Byte)
  BY PayloadsFramable, FrameLengths
<1>2. << >> \in Seq(Payloads) /\ Append(<< >>, p) = << p >>
  OBVIOUS
<1>3. FramesOf(Append(<< >>, p)) = FramesOf(<< >>) \o Frame(p)
  BY <1>2, FramedAppend
<1> QED
  BY <1>1, <1>2, <1>3, FramedNothing, JoinedBytes

(* The types of what is under way. *)
LEMMA UnderWay ==
  ASSUME UplinkTypeOK, FramesFit, NEW rest, NEW n, Intact(rest, n)
  PROVE  /\ uartRxBuf \in Seq(Byte) /\ tty \in Seq(Byte) /\ wire \in Seq(Byte)
         /\ tty \o wire \in Seq(Byte)
         /\ n \in Seq(Byte \ {START}) /\ n \in Seq(Byte) /\ Len(n) < RxBufSize
         /\ n \in LineNoise \cup {<< >>}
         /\ rest \in Seq(Payloads) /\ FramesOf(rest) \in Seq(Byte)
         /\ forwarded \in Seq(Payloads) /\ sent = forwarded \o rest /\ sent \in Seq(Payloads)
         /\ Len(uartRxBuf) <= RxBufSize /\ RxBufSize \in Nat
         /\ SameJoined(uartRxBuf, tty \o wire, n, FramesOf(rest))
<1>1. /\ n \in LineNoise \cup {<< >>} /\ rest \in Seq(Payloads) /\ forwarded \in Seq(Payloads)
      /\ sent = forwarded \o rest
      /\ SameJoined(uartRxBuf, tty \o wire, n, FramesOf(rest))
  BY DEF Intact
<1>2. n \in Seq(Byte \ {START}) /\ Len(n) < RxBufSize
  BY <1>1 DEF FramesFit
<1>3. n \in Seq(Byte)
  BY ONLY <1>2
<1>4. /\ uartRxBuf \in Seq(Byte) /\ tty \in Seq(Byte) /\ wire \in Seq(Byte)
      /\ sent \in Seq(Payloads) /\ Len(uartRxBuf) <= RxBufSize /\ RxBufSize \in Nat
  BY BridgeUplinkAssumption DEF UplinkTypeOK
<1>5. tty \o wire \in Seq(Byte) /\ FramesOf(rest) \in Seq(Byte)
  BY <1>1, <1>4, JoinedBytes, FramedType
<1> QED
  BY <1>1, <1>2, <1>3, <1>4, <1>5

(* A frame sent goes behind the others. *)
LEMMA SendIntact ==
  ASSUME UplinkTypeOK, FramesFit, NEW rest, NEW n, Intact(rest, n), LncSend
  PROVE  (\E r, m : Intact(r, m))' /\ Pipe!Send
<1>1. PICK p \in Payloads : sent' = Append(sent, p) /\ wire' = wire \o Frame(p)
  BY DEF LncSend
<1>2. faults' = faults /\ tty' = tty /\ uartRxBuf' = uartRxBuf /\ forwarded' = forwarded
  BY DEF LncSend, loop
<1>3. PICK r \in Seq(Payloads), f \in Seq(Byte) : r = Append(rest, p) /\ f = Frame(p)
  BY UnderWay, Frames, AppendElements
<1>4. sent' = forwarded \o r
  <2>0. sent = forwarded \o rest
    BY UnderWay
  <2>1. rest \in Seq(Payloads) /\ forwarded \in Seq(Payloads)
    BY UnderWay
  <2>2. forwarded \o Append(rest, p) = Append(forwarded \o rest, p)
    BY ONLY <2>1, p \in Payloads, AppendBehind
  <2> QED
    BY <1>1, <1>3, <2>0, <2>2
<1>5. FramesOf(r) = FramesOf(rest) \o f
  BY <1>3, UnderWay, FramedAppend
<1>6. SameJoined(uartRxBuf, tty \o (wire \o f), n, FramesOf(rest) \o f)
  BY UnderWay, JoinedLonger
<1>7. /\ r \in Seq(Payloads) /\ n \in LineNoise \cup {<< >>} /\ forwarded' \in Seq(Payloads)
      /\ sent' = forwarded' \o r
      /\ SameJoined(uartRxBuf', tty' \o wire', n, FramesOf(r))
  BY <1>1, <1>2, <1>3, <1>4, <1>5, <1>6, UnderWay
<1>8. Intact(r, n)'
  BY <1>7 DEF Intact, SameJoined
<1>9. Pipe!Send
  BY <1>1, <1>2 DEF Pipe!Send
<1> QED
  BY <1>8, <1>9

(* What has been sent stays where it is in the stream as it moves on.        *)
LEMMA ReachIntact ==
  ASSUME UplinkTypeOK, FramesFit, NEW rest, NEW n, Intact(rest, n), ReachTty
  PROVE  Intact(rest, n)'
<1>1. PICK k \in 1..Len(wire) :
        tty' = tty \o SubSeq(wire, 1, k) /\ wire' = SubSeq(wire, k + 1, Len(wire))
  BY DEF ReachTty
<1>2. sent' = sent /\ uartRxBuf' = uartRxBuf /\ forwarded' = forwarded
  BY DEF ReachTty, loop
<1>3. PICK u \in Seq(Byte), v \in Seq(Byte) :
        u = SubSeq(wire, 1, k) /\ v = SubSeq(wire, k + 1, Len(wire)) /\ wire = u \o v
  <2>1. k \in 0..Len(wire) /\ wire \in Seq(Byte)
    BY UnderWay, LenProperties
  <2>2. /\ SubSeq(wire, 1, k) \in Seq(Byte) /\ SubSeq(wire, k + 1, Len(wire)) \in Seq(Byte)
        /\ wire = SubSeq(wire, 1, k) \o SubSeq(wire, k + 1, Len(wire))
    BY <2>1, SplitBytes
  <2> QED
    BY ONLY <2>2
<1>4. tty' \o wire' = tty \o wire
  <2>1. tty \in Seq(Byte)
    BY UnderWay
  <2>2. (tty \o u) \o v = tty \o (u \o v)
    BY <2>1, JoinedMoved
  <2> QED
    BY ONLY <1>1, <1>3, <2>2
<1>5. /\ rest \in Seq(Payloads) /\ n \in LineNoise \cup {<< >>} /\ forwarded' \in Seq(Payloads)
      /\ sent' = forwarded' \o rest
      /\ SameJoined(uartRxBuf', tty' \o wire', n, FramesOf(rest))
  BY <1>2, <1>4, UnderWay
<1> QED
  BY <1>5 DEF Intact, SameJoined

(* So it does as the loop reads it. *)
LEMMA RecvIntact ==
  ASSUME UplinkTypeOK, FramesFit, NEW rest, NEW n, Intact(rest, n), Recv
  PROVE  Intact(rest, n)'
<1>1. PICK k \in 0..Len(tty) :
        uartRxBuf' = uartRxBuf \o SubSeq(tty, 1, k) /\ tty' = SubSeq(tty, k + 1, Len(tty))
  BY RecvMoves
<1>2. sent' = sent /\ wire' = wire /\ forwarded' = forwarded
  BY DEF Recv, lnc
<1>3. PICK u \in Seq(Byte), v \in Seq(Byte) :
        u = SubSeq(tty, 1, k) /\ v = SubSeq(tty, k + 1, Len(tty)) /\ tty = u \o v
  <2>1. tty \in Seq(Byte)
    BY UnderWay
  <2>2. /\ SubSeq(tty, 1, k) \in Seq(Byte) /\ SubSeq(tty, k + 1, Len(tty)) \in Seq(Byte)
        /\ tty = SubSeq(tty, 1, k) \o SubSeq(tty, k + 1, Len(tty))
    BY <2>1, SplitBytes
  <2> QED
    BY ONLY <2>2
<1>4. uartRxBuf' \o (tty' \o wire') = uartRxBuf \o (tty \o wire)
  <2>1. uartRxBuf \in Seq(Byte) /\ wire \in Seq(Byte)
    BY UnderWay
  <2>2. PICK x \in Seq(Byte) : x = v \o wire
    BY <2>1, JoinedBytes
  <2>3. (uartRxBuf \o u) \o x = uartRxBuf \o (u \o x)
    BY <2>1, JoinedMoved
  <2>4. (u \o v) \o wire = u \o (v \o wire)
    BY <2>1, JoinedMoved
  <2> QED
    BY ONLY <1>1, <1>2, <1>3, <2>2, <2>3, <2>4
<1>5. SameJoined(uartRxBuf', tty' \o wire', n, FramesOf(rest))
  <2>1. uartRxBuf \o (tty \o wire) = n \o FramesOf(rest)
    BY UnderWay DEF SameJoined
  <2> QED
    BY ONLY <1>4, <2>1 DEF SameJoined
<1>6. /\ rest \in Seq(Payloads) /\ n \in LineNoise \cup {<< >>} /\ forwarded' \in Seq(Payloads)
      /\ sent' = forwarded' \o rest
  BY <1>2, UnderWay
<1> QED
  BY <1>5, <1>6 DEF Intact, SameJoined

(* s is f, then p, then r. *)
NextIs(s, f, p, r) == s = f \o (<< p >> \o r)

(* Behind a payload that has been forwarded come the others. *)
LEMMA ForwardOne ==
  ASSUME NEW f \in Seq(Payloads), NEW r \in Seq(Payloads), NEW p \in Payloads,
         NEW s, NextIs(s, f, p, r)
  PROVE  /\ Append(f, p) \in Seq(Payloads)
         /\ s = Append(f, p) \o r
         /\ Len(f) < Len(s) /\ s[Len(f) + 1] = p
<1>1. << p >> \in Seq(Payloads) /\ Len(<< p >>) = 1 /\ << p >>[1] = p
  OBVIOUS
<1>2. PICK o \in Seq(Payloads) : o = << p >> /\ Len(o) = 1 /\ o[1] = p
  BY <1>1
<1>3. Append(f, p) = f \o o /\ Append(f, p) \in Seq(Payloads)
  BY ONLY <1>2, f \in Seq(Payloads), p \in Payloads
<1>4. (f \o o) \o r = f \o (o \o r)
  BY ConcatAssociative
<1>5. s = Append(f, p) \o r
  BY ONLY <1>2, <1>3, <1>4, NextIs(s, f, p, r) DEF NextIs
<1>6. /\ Len(Append(f, p)) = Len(f) + 1 /\ Append(f, p)[Len(f) + 1] = p
  BY AppendElements
<1>7. PICK a \in Seq(Payloads) : a = Append(f, p)
  BY <1>3
<1>8. /\ Len(a \o r) = Len(a) + Len(r)
      /\ \A i \in 1 .. Len(a) + Len(r) : (a \o r)[i] = IF i <= Len(a) THEN a[i] ELSE r[i - Len(a)]
  BY ConcatProperties
<1>9. PICK k \in Nat, m \in Nat : k = Len(f) /\ m = Len(r) /\ Len(a) = k + 1 /\ a[k + 1] = p
  BY <1>6, <1>7, LenProperties
<1>10. Len(s) = k + 1 + m /\ s[k + 1] = p
  <2>1. k + 1 \in 1 .. (k + 1) + m /\ k + 1 <= k + 1
    OBVIOUS
  <2> QED
    BY ONLY <1>5, <1>7, <1>8, <1>9, <2>1
<1>11. k < k + 1 + m
  OBVIOUS
<1>12. Len(f) < Len(s) /\ s[Len(f) + 1] = p
  BY ONLY <1>9, <1>10, <1>11
<1> QED
  BY ONLY <1>3, <1>5, <1>12

(* A turn of the loop: it waits with room for more, or it forwards the next  *)
(* payload.                                                                  *)
LEMMA DecodeIntact ==
  ASSUME UplinkTypeOK, FramesFit, NEW rest, NEW n, Intact(rest, n), Decode,
         faults = 0
  PROVE  /\ Len(uartRxBuf') < RxBufSize
         /\ (\E r, m : Intact(r, m))'
         /\ Pipe!Forward \/ UNCHANGED << sent, forwarded, faults >>
<1>1. sent' = sent /\ wire' = wire /\ faults' = faults /\ tty' = tty
  BY DEF Decode, lnc
<1>2. PICK b \in Seq(Byte), x \in Seq(Byte) : b = uartRxBuf /\ x = tty \o wire
  BY UnderWay
<1>3. /\ n \in Seq(Byte \ {START}) /\ n \in Seq(Byte) /\ Len(n) < RxBufSize
      /\ rest \in Seq(Payloads) /\ forwarded \in Seq(Payloads) /\ sent = forwarded \o rest
      /\ n \in LineNoise \cup {<< >>} /\ Len(b) <= RxBufSize /\ RxBufSize \in Nat
  BY <1>2, UnderWay
<1>4. ASSUME Waits(b)
      PROVE  /\ Len(uartRxBuf') < RxBufSize /\ Intact(rest, n)'
             /\ UNCHANGED << sent, forwarded, faults >>
  <2>1. uartRxBuf' = uartRxBuf /\ forwarded' = forwarded /\ Len(uartRxBuf) < RxBufSize
    BY <1>2, <1>4 DEF Waits, Decode, Result
  <2>2. /\ rest \in Seq(Payloads) /\ n \in LineNoise \cup {<< >>} /\ forwarded' \in Seq(Payloads)
        /\ sent' = forwarded' \o rest
        /\ SameJoined(uartRxBuf', tty' \o wire', n, FramesOf(rest))
    BY <1>1, <1>3, <2>1, UnderWay
  <2>3. Intact(rest, n)'
    BY <2>2 DEF Intact, SameJoined
  <2> QED
    BY <1>1, <2>1, <2>3
<1>5. CASE rest = << >>
  <2>1. b \o x = n
    <3>1. b \o x = n \o FramesOf(rest)
      BY <1>2, UnderWay DEF SameJoined
    <3>2. n \o << >> = n
      BY <1>3, JoinedBytes
    <3> QED
      BY ONLY <1>5, <3>1, <3>2, FramedNothing
  <2>2. Frame_Decode(b, PayloadCap) = Result("INCOMPLETE", << >>, 0)
    BY <1>3, <2>1, NothingButNoise
  <2>3. Len(b) < RxBufSize
    <3>1. Len(b \o x) = Len(b) + Len(x)
      BY ConcatProperties
    <3>2. Len(b) \in Nat /\ Len(x) \in Nat
      BY LenProperties
    <3> QED
      BY <1>3, <2>1, <3>1, <3>2
  <2>4. Waits(b)
    BY <2>2, <2>3 DEF Waits
  <2> QED
    BY <1>4, <2>4
<1>6. CASE rest # << >>
  <2>1. PICK p \in Payloads, r \in Seq(Payloads) : rest = << p >> \o r
    <3>1. Head(rest) \in Payloads /\ Tail(rest) \in Seq(Payloads) /\ rest = << Head(rest) >> \o Tail(rest)
      BY <1>3, <1>6
    <3> QED
      BY ONLY <3>1
  <2>2. PICK y \in Seq(Byte), f \in Seq(Byte) : y = FramesOf(r) /\ f = Frame(p) /\ FramesOf(rest) = f \o y
    <3>1. << p >> \in Seq(Payloads)
      OBVIOUS
    <3>2. FramesOf(<< p >> \o r) = FramesOf(<< p >>) \o FramesOf(r)
      BY <3>1, FramedConcat
    <3>3. FramesOf(<< p >>) = Frame(p) /\ Frame(p) \in Seq(Byte) /\ FramesOf(r) \in Seq(Byte)
      BY Frames, FramedType
    <3> QED
      BY ONLY <2>1, <3>2, <3>3
  <2>3. SameJoined(b, x, n \o Frame(p), y)
    <3>1. b \o x = n \o (f \o y)
      <4>1. b \o x = n \o FramesOf(rest)
        BY <1>2, UnderWay DEF SameJoined
      <4> QED
        BY ONLY <2>2, <4>1
    <3>2. (n \o f) \o y = n \o (f \o y)
      BY <1>3, JoinedMoved
    <3> QED
      BY ONLY <2>2, <3>1, <3>2 DEF SameJoined
  <2>4. Waits(b) \/ Gives(b, x, p, y)
    BY <1>3, <2>3, DecodeFirst
  <2>5. ASSUME Gives(b, x, p, y)
        PROVE  /\ Len(uartRxBuf') < RxBufSize
               /\ Intact(r, << >>)'
               /\ Len(forwarded) < Len(sent)
               /\ forwarded' = Append(forwarded, sent[Len(forwarded) + 1])
    <3>1. PICK c \in Seq(Byte), k \in 0..Len(b) :
            /\ Frame_Decode(b, PayloadCap) = Result("OK", p, k)
            /\ c = SubSeq(b, k + 1, Len(b)) /\ Len(c) < Len(b) /\ y = c \o x
      BY <2>5 DEF Gives
    <3>2. uartRxBuf' = c /\ forwarded' = Append(forwarded, p)
      <4>1. PICK d : d = Frame_Decode(uartRxBuf, PayloadCap)
        OBVIOUS
      <4>2. d = Result("OK", p, k)
        BY <1>2, <3>1, <4>1
      <4>3. d.res = "OK" /\ d.payload = p /\ d.consumed = k
        BY <4>2 DEF Result
      <4>4. uartRxBuf' = Remaining(d) /\ forwarded' = Append(forwarded, d.payload)
        BY <4>1, <4>3 DEF Decode
      <4> QED
        BY <1>2, <3>1, <4>3, <4>4 DEF Remaining
    <3>3. /\ Append(forwarded, p) \in Seq(Payloads) /\ sent = Append(forwarded, p) \o r
          /\ Len(forwarded) < Len(sent) /\ sent[Len(forwarded) + 1] = p
      <4>1. sent = forwarded \o (<< p >> \o r)
        BY ONLY <1>3, <2>1
      <4>2. forwarded \in Seq(Payloads)
        BY <1>3
      <4>3. NextIs(sent, forwarded, p, r)
        BY ONLY <4>1 DEF NextIs
      <4> QED
        BY <4>2, <4>3, ForwardOne
    <3>4. Len(c) < RxBufSize
      <4>1. PICK h \in Nat, l \in Nat : h = Len(c) /\ l = Len(b)
        BY LenProperties
      <4> QED
        BY <1>3, <3>1, <4>1
    <3>5. SameJoined(c, x, << >>, y)
      <4>1. << >> \o y = y
        BY JoinedBytes
      <4> QED
        BY ONLY <3>1, <4>1 DEF SameJoined
    <3>6. /\ r \in Seq(Payloads) /\ << >> \in LineNoise \cup {<< >>} /\ forwarded' \in Seq(Payloads)
          /\ sent' = forwarded' \o r
          /\ SameJoined(uartRxBuf', tty' \o wire', << >>, FramesOf(r))
      BY <1>1, <1>2, <2>2, <3>2, <3>3, <3>5
    <3>7. Intact(r, << >>)'
      BY <3>6 DEF Intact, SameJoined
    <3> QED
      BY <3>2, <3>3, <3>4, <3>7
  <2>6. CASE Gives(b, x, p, y)
    <3>1. Pipe!Forward \/ UNCHANGED << sent, forwarded, faults >>
      BY <1>1, <2>5, <2>6 DEF Pipe!Forward
    <3> QED
      BY <2>5, <2>6, <3>1
  <2> QED
    BY <1>4, <2>4, <2>6
<1> QED
  BY <1>5, <1>6

(* What holds as long as nothing strikes the wire, in the form the steps     *)
(* keep.                                                                     *)
UplinkInv ==
  UplinkTypeOK /\ WaitingHasRoom /\ (faults = 0 => \E rest, n : Intact(rest, n))

(* There is only noise at first.                                             *)
LEMMA UplinkInvInit ==
  ASSUME FramesFit, UplinkInit
  PROVE  UplinkInv /\ Pipe!Init
<1>1. UplinkTypeOK
  BY UplinkTypeInit
<1>2. Len(uartRxBuf) = 0 /\ RxBufSize > 0
  BY BridgeUplinkAssumption DEF UplinkInit
<1>3. PICK n \in LineNoise : n = wire
  BY DEF UplinkInit
<1>4. n \in Seq(Byte)
  BY BridgeUplinkAssumption
<1>5. << >> \in Seq(Payloads) /\ << >> \o << >> = << >>
  OBVIOUS
<1>6. << >> \o (<< >> \o n) = n \o << >>
  BY <1>4, JoinedBytes
<1>7. Intact(<< >>, n)
  <2>1. sent = << >> /\ forwarded = << >> /\ uartRxBuf = << >> /\ tty = << >>
    BY DEF UplinkInit
  <2>2. SameJoined(uartRxBuf, tty \o wire, n, FramesOf(<< >>))
    BY ONLY <1>3, <1>6, <2>1, FramedNothing DEF SameJoined
  <2>3. n \in LineNoise \cup {<< >>}
    OBVIOUS
  <2> QED
    BY <1>5, <2>1, <2>2, <2>3 DEF Intact
<1>8. Pipe!Init
  BY DEF UplinkInit, Pipe!Init
<1> QED
  BY <1>1, <1>2, <1>7, <1>8 DEF UplinkInv, WaitingHasRoom

(* Every step keeps it, and until the first fault is a step of the pipe; the *)
(* first fault is the pipe's damage.                                         *)
LEMMA UplinkInvNext ==
  ASSUME FramesFit, UplinkInv, [UplinkNext]_uplink
  PROVE  UplinkInv' /\ (faults = 0 => [Pipe!Next]_(Pipe!vars))
<1>1. UplinkTypeOK /\ WaitingHasRoom /\ faults \in Nat
  BY DEF UplinkInv, UplinkTypeOK
<1>2. UplinkTypeOK'
  BY <1>1, UplinkTypeNext
<1>3. CASE faults # 0
  <2>1. faults' # 0
    <3>1. faults' = faults \/ \E damaged : Fault(damaged)
      <4>1. CASE LoseByte \/ CorruptByte \/ InventByte \/ LncReset
        BY <4>1 DEF LoseByte, CorruptByte, InventByte, LncReset
      <4>2. CASE LncSend \/ ReachTty \/ Recv \/ Decode \/ UNCHANGED uplink
        BY <4>2 DEF uplink, lnc, LncSend, ReachTty, Recv, Decode
      <4> QED
        BY <4>1, <4>2 DEF UplinkNext
    <3>2. faults' = faults \/ faults' = faults + 1
      BY <3>1 DEF Fault
    <3> QED
      BY <1>1, <1>3, <3>2
  <2> QED
    BY <1>2, <1>3, <2>1 DEF UplinkInv, WaitingHasRoom
<1>4. CASE faults = 0
  <2>1. PICK rest, n : Intact(rest, n)
    BY <1>4 DEF UplinkInv
  <2>2. CASE LncSend
    <3>1. (\E r, m : Intact(r, m))' /\ Pipe!Send
      BY <1>1, <2>1, <2>2, SendIntact
    <3>2. WaitingHasRoom'
      BY <1>1, <2>2 DEF LncSend, loop, WaitingHasRoom
    <3> QED
      BY <1>2, <3>1, <3>2 DEF UplinkInv, Pipe!Next
  <2>3. CASE LoseByte \/ CorruptByte \/ InventByte \/ LncReset
    <3>1. \E damaged : Fault(damaged)
      BY <2>3 DEF LoseByte, CorruptByte, InventByte, LncReset
    <3>2. faults' = faults + 1 /\ sent' = sent /\ forwarded' = forwarded
      BY <3>1 DEF Fault, loop
    <3>3. faults' # 0 /\ faults' > 0
      BY <1>4, <3>2
    <3>4. Pipe!Damage
      BY <3>2, <3>3 DEF Pipe!Damage
    <3> QED
      BY <1>2, <3>3, <3>4 DEF UplinkInv, WaitingHasRoom, Pipe!Next
  <2>4. CASE ReachTty
    <3>1. Intact(rest, n)'
      BY <1>1, <2>1, <2>4, ReachIntact
    <3>2. WaitingHasRoom' /\ UNCHANGED << sent, forwarded, faults >>
      BY <1>1, <2>4 DEF ReachTty, loop, WaitingHasRoom
    <3> QED
      BY <1>2, <3>1, <3>2 DEF UplinkInv, Pipe!vars
  <2>5. CASE Recv
    <3>1. Intact(rest, n)'
      BY <1>1, <2>1, <2>5, RecvIntact
    <3>2. WaitingHasRoom' /\ UNCHANGED << sent, forwarded, faults >>
      BY <2>5 DEF Recv, lnc, WaitingHasRoom
    <3> QED
      BY <1>2, <3>1, <3>2 DEF UplinkInv, Pipe!vars
  <2>6. CASE Decode
    <3>1. /\ Len(uartRxBuf') < RxBufSize
          /\ (\E r, m : Intact(r, m))'
          /\ Pipe!Forward \/ UNCHANGED << sent, forwarded, faults >>
      BY <1>1, <1>4, <2>1, <2>6, DecodeIntact
    <3>2. WaitingHasRoom'
      BY <3>1 DEF WaitingHasRoom
    <3> QED
      BY <1>2, <3>1, <3>2 DEF UplinkInv, Pipe!Next, Pipe!vars
  <2>7. CASE UNCHANGED uplink
    <3>1. UNCHANGED << sent, wire, faults, tty, uartRxBuf, loopAt, forwarded >>
      BY <2>7 DEF uplink, lnc, loop
    <3>2. WaitingHasRoom'
      BY <1>1, <3>1 DEF WaitingHasRoom
    <3>3. Intact(rest, n)'
      BY <2>1, <3>1 DEF Intact, SameJoined
    <3> QED
      BY <1>2, <3>1, <3>2, <3>3 DEF UplinkInv, Pipe!vars
  <2> QED
    BY <2>2, <2>3, <2>4, <2>5, <2>6, <2>7 DEF UplinkNext
<1> QED
  BY <1>3, <1>4

(* When every frame fits, the loop never waits for bytes that there is no    *)
(* room for, however the bytes arrive, so long as nothing strikes the wire.  *)
THEOREM BufferHasRoom ==
  ASSUME FramesFit
  PROVE  UplinkSpec => []WaitingHasRoom
<1>1. UplinkInit => UplinkInv
  BY UplinkInvInit
<1>2. UplinkInv /\ [UplinkNext]_uplink => UplinkInv'
  BY UplinkInvNext
<1>3. UplinkInv => WaitingHasRoom
  BY DEF UplinkInv
<1> QED
  BY <1>1, <1>2, <1>3, PTL DEF UplinkSpec

(* And what has been sent and not forwarded is under way, in order and       *)
(* whole: nothing of it is lost, repeated or invented.                       *)
THEOREM NothingLost ==
  ASSUME FramesFit
  PROVE  UplinkSpec => []StreamIntact
<1>1. UplinkInit => UplinkInv
  BY UplinkInvInit
<1>2. UplinkInv /\ [UplinkNext]_uplink => UplinkInv'
  BY UplinkInvNext
<1>3. UplinkInv => StreamIntact
  <2>1. CASE faults = 0
    BY <2>1, IntactStream DEF UplinkInv
  <2>2. CASE faults # 0
    BY <2>2 DEF StreamIntact
  <2> QED
    BY <2>1, <2>2
<1> QED
  BY <1>1, <1>2, <1>3, PTL DEF UplinkSpec

(* Up to and including the first fault, every step of the uplink is a step   *)
(* of the pipe or leaves the pipe as it is.                                  *)
THEOREM StepsOfPipe ==
  ASSUME FramesFit
  PROVE  UplinkSpec => Pipe!Init /\ [][faults = 0 => [Pipe!Next]_(Pipe!vars)]_uplink
<1>1. UplinkInit => UplinkInv /\ Pipe!Init
  BY UplinkInvInit
<1>2. UplinkInv /\ [UplinkNext]_uplink =>
        UplinkInv' /\ (faults = 0 => [Pipe!Next]_(Pipe!vars))
  BY UplinkInvNext
<1> QED
  BY <1>1, <1>2, PTL DEF UplinkSpec

=============================================================================
