---------------------------- MODULE GsLinkProofs ----------------------------
(***************************************************************************)
(* What GsLink promises, proved for any number of clients and records, any *)
(* sizes of records and any limit that leaves room for one of them below   *)
(* Wrap; and what TlvScan promises of the function that reads the fields   *)
(* of its messages, for any fields and any rest with no length that wraps. *)
(***************************************************************************)
EXTENDS GsLink, TlvScan, SequenceLemmas, FiniteSetTheorems

-----------------------------------------------------------------------------
(* Lemmas about sums *)

(* What the constants are. *)
LEMMA LinkConstants ==
  /\ StatusSize \in Nat /\ 4 <= StatusSize /\ GS_RESP_MAX_PAYLOAD \in Nat
  /\ StatusSize <= GS_RESP_MAX_PAYLOAD /\ Wrap \in Nat /\ Wrap # 0
  /\ DOMAIN Sizes = {"LOG", "EVENTS"} /\ MaxRecords \in Nat /\ MaxKills \in Nat
<1>1. /\ StatusSize \in Nat \ 0..3 /\ GS_RESP_MAX_PAYLOAD \in Nat
      /\ StatusSize <= GS_RESP_MAX_PAYLOAD /\ Wrap \in Nat \ {0}
      /\ DOMAIN Sizes = {"LOG", "EVENTS"} /\ MaxRecords \in Nat /\ MaxKills \in Nat
  BY GsLinkAssumption, Zenon DEF GsLinkAssumption
<1> QED
  BY <1>1

(* The sums of the first elements of a sequence: what SizeOf adds up. *)
Adds(f, s, n) == \A k \in 0..n : f[k] = IF k = 0 THEN 0 ELSE f[k - 1] + s[k]

SumsTo(f, s, n) == f \in [0..n -> Nat] /\ Adds(f, s, n)

(* They exist, *)
LEMMA SumsExist ==
  ASSUME NEW s \in Seq(Nat)
  PROVE  \A n \in 0..Len(s) : \E f : SumsTo(f, s, n)
<1> DEFINE Without == {n \in 0..Len(s) : ~\E f : SumsTo(f, s, n)}
<1> SUFFICES ASSUME Without # {} PROVE FALSE
  OBVIOUS
<1>1. Without \in SUBSET Nat
  OBVIOUS
<1>2. PICK m \in Without : \A d \in Without : m <= d
  BY <1>1, LeastNumber
<1>3. m \in 0..Len(s) /\ m \in Nat /\ Len(s) \in Nat /\ ~\E f : SumsTo(f, s, m)
  BY <1>2
<1>4. CASE m = 0
  <2> DEFINE f == [k \in 0..0 |-> 0]
  <2>1. SumsTo(f, s, 0)
    BY DEF SumsTo, Adds
  <2> QED
    BY <1>3, <1>4, <2>1
<1>5. CASE m # 0
  <2>1. m - 1 \in 0..Len(s) /\ ~(m <= m - 1)
    BY <1>3, <1>5
  <2>2. PICK f : SumsTo(f, s, m - 1)
    BY <1>2, <2>1
  <2>3. f \in [0..(m - 1) -> Nat] /\ \A k \in 0..(m - 1) : f[k] = IF k = 0 THEN 0 ELSE f[k - 1] + s[k]
    BY <2>2 DEF SumsTo, Adds
  <2> DEFINE g == [k \in 0..m |-> IF k = m THEN f[m - 1] + s[m] ELSE f[k]]
  <2>4. s[m] \in Nat
    BY <1>3, <1>5, ElementOfSeq
  <2>5. m - 1 \in 0..(m - 1) /\ f[m - 1] \in Nat
    BY <1>3, <1>5, <2>3
  <2>6. g \in [0..m -> Nat]
    BY <1>3, <2>3, <2>4, <2>5
  <2>7. ASSUME NEW k \in 0..m PROVE g[k] = IF k = 0 THEN 0 ELSE g[k - 1] + s[k]
    <3>1. CASE k = m
      BY <1>3, <1>5, <3>1
    <3>2. CASE k # m
      <4>1. k \in 0..(m - 1) /\ g[k] = f[k] /\ (k # 0 => k - 1 \in 0..m /\ k - 1 # m)
        BY <1>3, <3>2
      <4> QED
        BY <2>3, <4>1
    <3> QED
      BY <3>1, <3>2
  <2>8. SumsTo(g, s, m)
    BY <2>6, <2>7 DEF SumsTo, Adds
  <2> QED
    BY <1>3, <2>8
<1> QED
  BY <1>4, <1>5

(* are the same for a sequence that begins alike, *)
LEMMA SumsAgree ==
  ASSUME NEW n \in Nat, NEW m \in 0..n, NEW s, NEW t, NEW f, NEW g,
         Adds(f, s, n), Adds(g, t, m), \A k \in 1..m : s[k] = t[k]
  PROVE  \A k \in 0..m : g[k] = f[k]
<1> DEFINE Apart == {k \in 0..m : g[k] # f[k]}
<1> SUFFICES ASSUME Apart # {} PROVE FALSE
  OBVIOUS
<1>1. PICK k \in Apart : \A d \in Apart : k <= d
  <2>1. Apart \in SUBSET Nat
    OBVIOUS
  <2> HIDE DEF Apart
  <2> QED
    BY <2>1, LeastNumber
<1>2. /\ \A i \in 0..n : f[i] = IF i = 0 THEN 0 ELSE f[i - 1] + s[i]
      /\ \A i \in 0..m : g[i] = IF i = 0 THEN 0 ELSE g[i - 1] + t[i]
  BY DEF Adds
<1>3. k \in 0..m /\ k \in 0..n /\ k \in Nat /\ g[k] # f[k]
  BY <1>1
<1>4. k # 0
  BY <1>2, <1>3
<1>5. k - 1 \in 0..m /\ k \in 1..m /\ ~(k <= k - 1)
  BY <1>3, <1>4
<1>6. g[k - 1] = f[k - 1]
  BY <1>1, <1>5
<1> QED
  BY <1>2, <1>3, <1>4, <1>5, <1>6

(* and the last is what SizeOf computes. *)
LEMMA SizeOfSums ==
  ASSUME NEW s \in Seq(Nat), NEW f, SumsTo(f, s, Len(s))
  PROVE  SizeOf(s) = f[Len(s)]
<1> DEFINE size == CHOOSE size : size = [k \in 0..Len(s) |-> IF k = 0 THEN 0 ELSE size[k - 1] + s[k]]
<1>1. f = [k \in 0..Len(s) |-> IF k = 0 THEN 0 ELSE f[k - 1] + s[k]]
  BY DEF SumsTo, Adds
<1>2. size = [k \in 0..Len(s) |-> IF k = 0 THEN 0 ELSE size[k - 1] + s[k]]
  BY <1>1, Zenon
<1>3. SizeOf(s) = size[Len(s)]
  BY DEF SizeOf
<1> HIDE DEF size
<1>4. Len(s) \in Nat /\ Len(s) \in 0..Len(s) /\ Adds(f, s, Len(s)) /\ Adds(size, s, Len(s))
  <2>1. Adds(size, s, Len(s))
    BY <1>2, Zenon DEF Adds
  <2>2. Len(s) \in Nat /\ Len(s) \in 0..Len(s)
    OBVIOUS
  <2> QED
    BY <2>1, <2>2 DEF SumsTo
<1>5. \A k \in 0..Len(s) : size[k] = f[k]
  BY ONLY <1>4, SumsAgree
<1> QED
  BY <1>3, <1>4, <1>5

(* Fields have at least four bytes, so that the sums grow. *)
LEMMA SumsGrow ==
  ASSUME NEW n \in Nat, NEW s, NEW f \in [0..n -> Nat], Adds(f, s, n),
         \A k \in 1..n : s[k] \in Nat /\ 4 <= s[k]
  PROVE  \A i, j \in 0..n : i < j => f[i] + 4 <= f[j]
<1> DEFINE Flat == {j \in 0..n : \E i \in 0..n : i < j /\ ~(f[i] + 4 <= f[j])}
<1> SUFFICES ASSUME Flat # {} PROVE FALSE
  OBVIOUS
<1>1. PICK j \in Flat : \A d \in Flat : j <= d
  <2>1. Flat \in SUBSET Nat
    OBVIOUS
  <2> HIDE DEF Flat
  <2> QED
    BY <2>1, LeastNumber
<1>2. PICK i \in 0..n : i < j /\ ~(f[i] + 4 <= f[j])
  BY <1>1
<1>3. j \in 0..n /\ j \in Nat /\ i \in Nat /\ j # 0 /\ j \in 1..n /\ j - 1 \in 0..n /\ ~(j <= j - 1)
  BY <1>1, <1>2
<1>4. f[j] = f[j - 1] + s[j] /\ s[j] \in Nat /\ 4 <= s[j]
  BY <1>3 DEF Adds
<1>5. f[i] \in Nat /\ f[j] \in Nat /\ f[j - 1] \in Nat
  BY <1>2, <1>3
<1>6. i < j - 1
  <2>1. CASE i = j - 1
    <3>1. PICK b \in Nat, w \in Nat : b = f[j - 1] /\ w = s[j]
      BY <1>4, <1>5
    <3>2. f[i] = b /\ f[j] = b + w /\ 4 <= w
      BY <1>4, <2>1, <3>1
    <3>3. b + 4 <= b + w
      BY ONLY <3>2, b \in Nat, w \in Nat
    <3> QED
      BY <1>2, <3>2, <3>3
  <2>2. CASE i # j - 1
    BY <1>2, <1>3, <2>2
  <2> QED
    BY <2>1, <2>2
<1>7. j - 1 \notin Flat
  BY <1>1, <1>3
<1>8. f[i] + 4 <= f[j - 1]
  BY <1>3, <1>6, <1>7
<1>9. PICK a \in Nat, b \in Nat, e \in Nat, w \in Nat :
        a = f[i] /\ b = f[j - 1] /\ e = f[j] /\ w = s[j]
  BY <1>4, <1>5
<1>10. a + 4 <= b /\ e = b + w /\ ~(a + 4 <= e)
  BY <1>2, <1>4, <1>8, <1>9
<1> QED
  BY ONLY <1>10, a \in Nat, b \in Nat, e \in Nat, w \in Nat

(* The first elements of a sequence. *)
LEMMA FirstElements ==
  ASSUME NEW S, NEW s \in Seq(S), NEW n \in 0..Len(s)
  PROVE  /\ SubSeq(s, 1, n) \in Seq(S) /\ Len(SubSeq(s, 1, n)) = n
         /\ \A i \in 1..n : SubSeq(s, 1, n)[i] = s[i]
<1>1. Len(s) \in Nat /\ n \in Nat /\ n <= Len(s) /\ \A i \in 1..Len(s) : s[i] \in S
  OBVIOUS
<1>2. \A i \in 1..n : s[i] \in S
  BY <1>1
<1>3. /\ SubSeq(s, 1, n) \in Seq(S)
      /\ Len(SubSeq(s, 1, n)) = IF 1 <= n THEN n - 1 + 1 ELSE 0
      /\ \A i \in 1..(n - 1 + 1) : SubSeq(s, 1, n)[i] = s[1 + i - 1]
  BY ONLY <1>1, <1>2, SubSeqProperties
<1> QED
  BY <1>1, <1>3

(* The size of the first elements is one of the sums. *)
LEMMA SizeOfFirst ==
  ASSUME NEW s \in Seq(Nat), NEW f, SumsTo(f, s, Len(s)), NEW k \in 0..Len(s)
  PROVE  SizeOf(SubSeq(s, 1, k)) = f[k]
<1>1. PICK t \in Seq(Nat) : t = SubSeq(s, 1, k) /\ Len(t) = k /\ \A i \in 1..k : t[i] = s[i]
  BY ONLY FirstElements, s \in Seq(Nat), k \in 0..Len(s)
<1>2. Len(s) \in Nat /\ Len(t) \in 0..Len(s) /\ Len(t) \in 0..Len(t)
  BY <1>1
<1>3. PICK g : SumsTo(g, t, Len(t))
  BY <1>2, SumsExist
<1>4. Adds(f, s, Len(s)) /\ Adds(g, t, Len(t)) /\ \A i \in 1..Len(t) : s[i] = t[i]
  BY <1>1, <1>3 DEF SumsTo
<1>5. \A i \in 0..Len(t) : g[i] = f[i]
  <2>1. PICK n \in Nat, m \in Nat : n = Len(s) /\ m = Len(t) /\ m \in 0..n
    BY ONLY <1>2
  <2>2. Adds(f, s, n) /\ Adds(g, t, m) /\ \A i \in 1..m : s[i] = t[i]
    BY ONLY <1>4, <2>1, Zenon
  <2>3. \A i \in 0..m : g[i] = f[i]
    BY ONLY <2>1, <2>2, SumsAgree, SMTT(30)
  <2> QED
    BY ONLY <2>1, <2>3
<1>6. SizeOf(t) = g[Len(t)]
  BY <1>3, SizeOfSums
<1> QED
  BY <1>1, <1>2, <1>5, <1>6

-----------------------------------------------------------------------------
(* Lemmas about responses *)

(* Records of either kind are fields: they have sizes. *)
LEMMA RecordSizes ==
  ASSUME NEW q \in DOMAIN Sizes, NEW records \in Seq(Sizes[q])
  PROVE  /\ records \in Seq(Nat) /\ Len(records) \in Nat
         /\ \A i \in 1..Len(records) :
              /\ records[i] \in Nat /\ 4 <= records[i]
              /\ GS_RESP_MAX_PAYLOAD + records[i] + 3 < Wrap
<1>1. Sizes[q] \subseteq Nat \ 0..3 /\ \A size \in Sizes[q] : GS_RESP_MAX_PAYLOAD + size + 3 < Wrap
  BY GsLinkAssumption, Zenon DEF GsLinkAssumption
<1>2. Len(records) \in Nat /\ \A i \in 1..Len(records) : records[i] \in Sizes[q]
  OBVIOUS
<1>3. \A i \in 1..Len(records) : records[i] \in Nat /\ 4 <= records[i]
  BY <1>1, <1>2
<1>4. records \in Seq(Nat)
  BY <1>1, SeqMonotonic
<1> QED
  BY <1>1, <1>2, <1>3, <1>4

(* What is above the limit stays there when more is added. *)
LEMMA StillOver ==
  ASSUME NEW w \in Nat, NEW x \in Nat, NEW y \in Nat, NEW l \in Nat,
         ~(w + x <= l), x = y \/ x + 4 <= y
  PROVE  ~(w + y <= l)
OBVIOUS

(* The records that fit are the first ones, at least one, and all but the    *)
(* last of them are below the limit.                                         *)
LEMMA RecordsFit ==
  ASSUME NEW q \in DOMAIN Sizes, NEW records \in Seq(Sizes[q]), records # << >>,
         NEW f, SumsTo(f, records, Len(records))
  PROVE  \E m \in 1..Len(records) :
           Records(q, records) = SubSeq(records, 1, m) /\ StatusSize + f[m] + 3 < Wrap
<1> DEFINE fits == {k \in DOMAIN records :
                      StatusSize + SizeOf(SubSeq(records, 1, k - 1)) <= GS_RESP_MAX_PAYLOAD}
           N == Len(records)
           Over == {k \in 1..(N + 1) : k = N + 1 \/ ~(StatusSize + f[k - 1] <= GS_RESP_MAX_PAYLOAD)}
<1>1. /\ records \in Seq(Nat) /\ N \in Nat
      /\ \A i \in 1..N : /\ records[i] \in Nat /\ 4 <= records[i]
                         /\ GS_RESP_MAX_PAYLOAD + records[i] + 3 < Wrap
  BY RecordSizes
<1>2. f \in [0..N -> Nat] /\ Adds(f, records, N) /\ f[0] = 0
  BY <1>1 DEF SumsTo, Adds
<1>3. /\ StatusSize \in Nat /\ GS_RESP_MAX_PAYLOAD \in Nat /\ Wrap \in Nat
      /\ StatusSize <= GS_RESP_MAX_PAYLOAD
  BY LinkConstants
<1>4. DOMAIN records = 1..N /\ N # 0
  BY <1>1
<1>5. fits = {k \in 1..N : StatusSize + f[k - 1] <= GS_RESP_MAX_PAYLOAD}
  <2>1. ASSUME NEW k \in 1..N PROVE SizeOf(SubSeq(records, 1, k - 1)) = f[k - 1]
    <3>1. k - 1 \in 0..Len(records)
      BY <1>1
    <3> QED
      BY <1>1, <3>1, SizeOfFirst
  <2> QED
    BY <1>4, <2>1
<1>6. PICK p \in Over : \A d \in Over : p <= d
  <2>1. Over \in SUBSET Nat /\ N + 1 \in Over
    BY <1>1
  <2> HIDE DEF Over
  <2> QED
    BY <2>1, LeastNumber
<1>7. p \in 1..(N + 1) /\ p \in Nat /\ p # 1 /\ p - 1 \in 1..N
  BY <1>1, <1>2, <1>3, <1>4, <1>6
<1>8. \A k \in 1..(p - 1) : k \in 1..N /\ k \notin Over
  BY <1>1, <1>6, <1>7
<1>9. ASSUME NEW k \in 1..(p - 1) PROVE k \in 1..N /\ StatusSize + f[k - 1] <= GS_RESP_MAX_PAYLOAD
  <2>1. k \in 1..N /\ k \in 1..(N + 1) /\ k # N + 1 /\ k \notin Over
    BY <1>1, <1>8
  <2> QED
    BY <2>1
<1>10. ASSUME NEW k \in 1..N, p <= k PROVE ~(StatusSize + f[k - 1] <= GS_RESP_MAX_PAYLOAD)
  <2>1. p \in 1..N /\ p - 1 \in 0..N /\ k - 1 \in 0..N
    BY <1>1, <1>7, <1>10
  <2>2. ~(StatusSize + f[p - 1] <= GS_RESP_MAX_PAYLOAD)
    BY <1>1, <1>6, <2>1
  <2>3. \A i, j \in 0..N : i < j => f[i] + 4 <= f[j]
    BY <1>1, <1>2, SumsGrow
  <2>4. p = k \/ f[p - 1] + 4 <= f[k - 1]
    <3>1. p = k \/ p - 1 < k - 1
      BY <1>1, <1>7, <1>10
    <3> QED
      BY <2>1, <2>3, <3>1
  <2>5. f[p - 1] \in Nat /\ f[k - 1] \in Nat
    BY <1>2, <2>1
  <2> QED
    <3>1. PICK x \in Nat, y \in Nat : x = f[p - 1] /\ y = f[k - 1]
      BY ONLY <2>5
    <3>2. ~(StatusSize + x <= GS_RESP_MAX_PAYLOAD) /\ (x = y \/ x + 4 <= y)
      BY ONLY <2>2, <2>4, <3>1
    <3>3. ~(StatusSize + y <= GS_RESP_MAX_PAYLOAD)
      BY ONLY <1>3, <3>1, <3>2, StillOver
    <3> QED
      BY ONLY <3>1, <3>3
<1>11. fits = 1..(p - 1)
  <2>1. \A k \in 1..N : k \in 1..(p - 1) \/ p <= k
    BY <1>7
  <2>2. \A k \in 1..N : k \in fits <=> k \in 1..(p - 1)
    BY <1>5, <1>9, <1>10, <2>1
  <2>3. \A k \in 1..(p - 1) : k \in 1..N
    BY <1>9
  <2>4. fits \subseteq 1..N
    BY <1>5
  <2> QED
    BY <2>2, <2>3, <2>4
<1>12. Cardinality(fits) = p - 1
  <2>1. 1 \in Int /\ p - 1 \in Int /\ ~(1 > p - 1) /\ (p - 1) - 1 + 1 = p - 1
    BY <1>7
  <2> HIDE DEF fits
  <2> QED
    BY <1>11, <2>1, FS_Interval
<1>13. Records(q, records) = SubSeq(records, 1, p - 1)
  BY <1>12 DEF Records
<1>14. StatusSize + f[p - 1] + 3 < Wrap
  <2>1. p - 1 \in 1..(p - 1) /\ (p - 1) - 1 \in 0..N /\ p - 1 \in 0..N /\ p - 1 # 0
    BY <1>1, <1>7
  <2>2. f[p - 1] = f[(p - 1) - 1] + records[p - 1]
    BY <1>2, <2>1 DEF Adds
  <2>3. StatusSize + f[(p - 1) - 1] <= GS_RESP_MAX_PAYLOAD /\ f[(p - 1) - 1] \in Nat
    BY <1>2, <1>9, <2>1
  <2>4. records[p - 1] \in Nat /\ GS_RESP_MAX_PAYLOAD + records[p - 1] + 3 < Wrap
    BY <1>1, <1>7
  <2>5. PICK a \in Nat, b \in Nat, w \in Nat, lim \in Nat :
          a = f[(p - 1) - 1] /\ b = records[p - 1] /\ w = StatusSize /\ lim = GS_RESP_MAX_PAYLOAD
    BY <1>3, <2>3, <2>4
  <2>6. w + a <= lim /\ lim + b + 3 < Wrap
    BY <2>3, <2>4, <2>5
  <2>7. w + (a + b) + 3 < Wrap
    BY ONLY <2>6, a \in Nat, b \in Nat, w \in Nat, lim \in Nat, <1>3
  <2> QED
    BY <2>2, <2>5, <2>7
<1> QED
  BY <1>7, <1>13, <1>14

(* What the sums of a response's fields are: none wraps, each is at least    *)
(* the size of a field behind the one before it.                             *)
ResponseSums(v, n, g) ==
  /\ v \in Seq(Nat) /\ Len(v) = n /\ n \in Nat /\ 2 <= n
  /\ g \in [0..n -> Nat] /\ g[0] = 0
  /\ \A i \in 1..n : g[i] = g[i - 1] + v[i]
  /\ \A i, j \in 0..n : i < j => g[i] + 4 <= g[j]
  /\ g[n] + 3 < Wrap /\ SizeOf(v) = g[n]
  /\ \A i \in 0..n : SizeOf(SubSeq(v, 1, i)) = g[i]

(* The status and the records that fit. *)
LEMMA ResponseFits ==
  ASSUME NEW q \in DOMAIN Sizes, NEW records \in Seq(Sizes[q]), records # << >>,
         NEW v, v = << StatusSize >> \o Records(q, records)
  PROVE  \E n, g : /\ ResponseSums(v, n, g) /\ n - 1 <= Len(records)
                   /\ \A i \in 2..n : v[i] = records[i - 1]
<1>1. /\ records \in Seq(Nat) /\ Len(records) \in Nat
      /\ \A i \in 1..Len(records) : records[i] \in Nat /\ 4 <= records[i]
  BY RecordSizes
<1>2. Len(records) \in 0..Len(records)
  BY <1>1
<1>3. PICK f : SumsTo(f, records, Len(records))
  BY <1>1, <1>2, SumsExist
<1>4. PICK m \in 1..Len(records) :
        Records(q, records) = SubSeq(records, 1, m) /\ StatusSize + f[m] + 3 < Wrap
  BY <1>3, RecordsFit
<1>5. m \in Nat /\ 1 <= m /\ m \in 0..Len(records) /\ \A i \in 1..m : i \in 1..Len(records)
  BY <1>1
<1>6. PICK r \in Seq(Nat) : r = SubSeq(records, 1, m) /\ Len(r) = m /\ \A i \in 1..m : r[i] = records[i]
  BY ONLY <1>1, <1>5, FirstElements
<1>7. StatusSize \in Nat /\ 4 <= StatusSize /\ Wrap \in Nat
  BY LinkConstants
<1>8. << StatusSize >> \in Seq(Nat) /\ Len(<< StatusSize >>) = 1 /\ << StatusSize >>[1] = StatusSize
  BY <1>7
<1>9. v = << StatusSize >> \o r
  BY <1>4, <1>6
<1>10. /\ v \in Seq(Nat) /\ Len(v) = 1 + m
       /\ \A i \in 1..(1 + m) : v[i] = IF i <= 1 THEN << StatusSize >>[i] ELSE r[i - 1]
  <2>1. PICK h \in Seq(Nat) : h = << StatusSize >>
    BY <1>8
  <2>2. /\ h \o r \in Seq(Nat) /\ Len(h \o r) = Len(h) + Len(r)
        /\ \A i \in 1..(Len(h) + Len(r)) : (h \o r)[i] = IF i <= Len(h) THEN h[i] ELSE r[i - Len(h)]
    BY ConcatProperties
  <2>3. v = h \o r /\ Len(h) = 1 /\ Len(r) = m
    BY <1>6, <1>8, <1>9, <2>1
  <2>4. v \in Seq(Nat) /\ Len(v) = 1 + m
    BY <1>5, <2>2, <2>3
  <2>5. \A i \in 1..(1 + m) : v[i] = IF i <= 1 THEN h[i] ELSE r[i - 1]
    BY <2>2, <2>3
  <2> QED
    BY <2>1, <2>4, <2>5
<1> DEFINE n == m + 1
           g == [i \in 0..n |-> IF i = 0 THEN 0 ELSE StatusSize + f[i - 1]]
<1>11. n \in Nat /\ 2 <= n /\ Len(v) = n /\ n = m + 1 /\ n - 1 = m /\ 0 \in 0..n /\ n \in 0..n
  BY <1>5, <1>10
<1>12. v[1] = StatusSize /\ \A i \in 2..n : v[i] = records[i - 1]
  <2>1. v[1] = StatusSize
    BY <1>5, <1>8, <1>10
  <2>2. ASSUME NEW i \in 2..n PROVE v[i] = records[i - 1]
    <3>1. i \in 1..(1 + m) /\ ~(i <= 1) /\ i - 1 \in 1..m
      BY <1>5
    <3> QED
      BY <1>6, <1>10, <3>1
  <2> QED
    BY <2>1, <2>2
<1>13. f \in [0..Len(records) -> Nat] /\ f[0] = 0
       /\ \A i \in 1..m : f[i] = f[i - 1] + records[i]
  <2>1. f \in [0..Len(records) -> Nat] /\ Adds(f, records, Len(records))
    BY <1>3 DEF SumsTo
  <2>2. 0 \in 0..Len(records) /\ \A i \in 1..m : i \in 0..Len(records) /\ i # 0
    BY <1>1, <1>5
  <2> QED
    BY <2>1, <2>2 DEF Adds
<1>14. \A i \in 0..m : f[i] \in Nat
  BY <1>1, <1>5, <1>13
<1>15. g \in [0..n -> Nat] /\ g[0] = 0
  <2>1. \A i \in 0..n : i # 0 => i - 1 \in 0..m
    BY <1>5
  <2> QED
    BY <1>7, <1>11, <1>14, <2>1
<1>16. \A i \in 1..n : g[i] = StatusSize + f[i - 1]
  BY <1>11
<1> HIDE DEF g, n
<1>17. ASSUME NEW i \in 1..n PROVE g[i] = g[i - 1] + v[i]
  <2>1. i \in 0..n /\ i - 1 \in 0..n /\ i # 0
    BY <1>11
  <2>2. CASE i = 1
    <3>1. g[1] = StatusSize + f[0]
      BY <1>11, <1>16, 1 - 1 = 0, 1 \in 1..n
    <3> QED
      BY <1>7, <1>12, <1>13, <1>15, <2>2, <3>1
  <2>3. CASE i # 1
    <3>1. i - 1 \in 1..m /\ i - 1 # 0 /\ i \in 2..n /\ (i - 1) - 1 \in 0..m
      BY <1>11, <2>1, <2>3
    <3>2. f[i - 1] = f[(i - 1) - 1] + records[i - 1] /\ v[i] = records[i - 1]
      BY <1>12, <1>13, <3>1
    <3>3. g[i] = StatusSize + f[i - 1] /\ g[i - 1] = StatusSize + f[(i - 1) - 1]
      BY <1>11, <1>16, <3>1
    <3>4. records[i - 1] \in Nat /\ f[(i - 1) - 1] \in Nat
      BY <1>1, <1>5, <1>14, <3>1
    <3>5. PICK a \in Nat, b \in Nat, w \in Nat :
            a = f[(i - 1) - 1] /\ b = records[i - 1] /\ w = StatusSize
      BY <1>7, <3>4
    <3>6. w + (a + b) = (w + a) + b
      OBVIOUS
    <3> QED
      BY <3>2, <3>3, <3>5, <3>6
  <2> QED
    BY <2>2, <2>3
<1>18. SumsTo(g, v, Len(v))
  <2>1. \A i \in 0..n : i # 0 => i \in 1..n
    BY <1>11
  <2> QED
    BY <1>11, <1>15, <1>17, <2>1 DEF SumsTo, Adds
<1>19. \A i \in 1..n : v[i] \in Nat /\ 4 <= v[i]
  <2>1. ASSUME NEW i \in 1..n PROVE v[i] \in Nat /\ 4 <= v[i]
    <3>1. i = 1 \/ (i \in 2..n /\ i - 1 \in 1..Len(records))
      <4>1. m <= Len(records) /\ Len(records) \in Nat
        BY <1>1
      <4> QED
        BY <1>5, <1>11, <4>1
    <3> QED
      BY <1>1, <1>7, <1>12, <3>1
  <2> QED
    BY <2>1
<1>20. g[n] = StatusSize + f[m]
  BY <1>11, <1>16
<1>21. Adds(g, v, n)
  BY <1>11, <1>18 DEF SumsTo
<1>22. \A i, j \in 0..n : i < j => g[i] + 4 <= g[j]
  BY <1>11, <1>15, <1>19, <1>21, SumsGrow
<1>23. SizeOf(v) = g[n] /\ \A i \in 0..n : SizeOf(SubSeq(v, 1, i)) = g[i]
  <2>1. SizeOf(v) = g[Len(v)]
    BY <1>10, <1>18, SizeOfSums
  <2>2. \A i \in 0..Len(v) : SizeOf(SubSeq(v, 1, i)) = g[i]
    BY <1>10, <1>18, SizeOfFirst
  <2> QED
    BY <1>11, <2>1, <2>2
<1>24. ResponseSums(v, n, g)
  BY <1>4, <1>10, <1>11, <1>15, <1>17, <1>20, <1>22, <1>23 DEF ResponseSums
<1>25. n - 1 <= Len(records)
  BY <1>5, <1>11
<1> QED
  BY <1>12, <1>24, <1>25


(* A field has its beginning where one field less is behind. *)
LEMMA OneFieldThere ==
  ASSUME NEW v, NEW n, NEW g, ResponseSums(v, n, g), NEW k \in 0..n, NEW i \in 1..n,
         g[k] = SizeOf(SubSeq(v, 1, i - 1))
  PROVE  i = k + 1
<1>1. /\ n \in Nat /\ g \in [0..n -> Nat]
      /\ \A a, b \in 0..n : a < b => g[a] + 4 <= g[b]
      /\ \A a \in 0..n : SizeOf(SubSeq(v, 1, a)) = g[a]
  BY DEF ResponseSums
<1>2. i - 1 \in 0..n /\ k \in Nat /\ i \in Nat
  BY <1>1
<1>3. g[k] = g[i - 1] /\ g[k] \in Nat
  BY <1>1, <1>2
<1>4. ~(k < i - 1) /\ ~(i - 1 < k)
  BY <1>1, <1>2, <1>3
<1> QED
  BY <1>2, <1>4

(* As long as three bytes are behind it, there is another field. *)
LEMMA FieldsLeft ==
  ASSUME NEW v, NEW n, NEW g, ResponseSums(v, n, g), NEW k \in 0..n
  PROVE  /\ SizeOf(v) % Wrap = g[n] /\ (g[k] + 3) % Wrap = g[k] + 3
         /\ g[k] + 3 <= g[n] <=> k < n
         /\ g[k] <= g[n]
<1>1. /\ n \in Nat /\ g \in [0..n -> Nat] /\ g[n] + 3 < Wrap /\ SizeOf(v) = g[n]
      /\ \A a, b \in 0..n : a < b => g[a] + 4 <= g[b]
  BY DEF ResponseSums
<1>2. n \in 0..n /\ k \in Nat /\ g[n] \in Nat /\ g[k] \in Nat /\ Wrap \in Nat /\ Wrap # 0
  BY <1>1, LinkConstants
<1>3. k = n \/ (k < n /\ g[k] + 4 <= g[n])
  BY <1>1, <1>2
<1>4. g[k] <= g[n] /\ (g[k] + 3 <= g[n] <=> k < n)
  BY <1>2, <1>3
<1>5. g[n] < Wrap /\ g[k] + 3 < Wrap
  BY <1>1, <1>2, <1>4
<1>6. g[n] % Wrap = g[n]
  BY <1>2, <1>5
<1>7. (g[k] + 3) % Wrap = g[k] + 3
  BY <1>2, <1>5
<1> QED
  BY <1>1, <1>4, <1>6, <1>7

-----------------------------------------------------------------------------
(* The inductive invariant *)

(* The bounded sequences of TLC's are sequences. *)
LEMMA BoundedSequences ==
  ASSUME NEW S, NEW n \in Nat, NEW s \in BoundedSeq(S, n)
  PROVE  s \in Seq(S)
BY IsASeq DEF BoundedSeq, SeqOf

Hello == [tag |-> "GS_HELLO"]
Ack   == [tag |-> "CC_HELLO_ACK"]
Sending == {"send prefix", "send message"}
Alive == {"greeted", "ask", "await", "walk"}

GsTypes ==
  /\ at \in {"accept", "greet", "recv", "send prefix", "send message", "dead"}
  /\ clientFd \in Clients
  /\ pc \in [Clients -> {"start", "greeted", "ask", "await", "walk", "done", "killed"}]
  /\ asks \in [Clients -> {"LOG", "EVENTS"}]
  /\ peer \in [Clients -> {"open", "fin", "rst", "broken"}]
  /\ kills \in 0..MaxKills
  /\ backlog \in Seq(Clients)
  /\ DOMAIN toServer = Clients /\ DOMAIN toClient = Clients /\ DOMAIN found = Clients
  /\ DOMAIN value = Clients /\ DOMAIN offset = Clients /\ DOMAIN printed = Clients

(* A client is in the backlog at most once. While it waits there nobody has  *)
(* read its greeting, and it is served only if the thread is about to accept. *)
Waits(c) == \E i \in 1..Len(backlog) : backlog[i] = c

Once == \A i, j \in 1..Len(backlog) : backlog[i] = backlog[j] => i = j

Waiting ==
  \A c \in Clients : Waits(c) =>
    /\ pc[c] \in {"greeted", "killed"} /\ toClient[c] = << >>
    /\ pc[c] = "greeted" => toServer[c] = << Hello >>
    /\ c = clientFd => at = "accept"

NotStarted ==
  \A c \in Clients : pc[c] = "start" =>
    toServer[c] = << >> /\ toClient[c] = << >> /\ (c = clientFd => at = "accept")

(* The server's kernel knows whether a client has closed its end. *)
PeerKnown == \A c \in Clients : peer[c] = "open" <=> pc[c] \in Alive \cup {"start"}

(* The reply to what a client has asked for last: what was found is of that  *)
(* kind.                                                                     *)
Asked(c) == found[c] \in Seq(Sizes[asks[c]])

Reply(c) ==
  [tag |-> asks[c], status |-> IF found[c] = << >> THEN "NO_DATA_FOUND" ELSE "SUCCESS",
   records |-> Records(asks[c], found[c])]

(* A walk is behind the first k fields and has printed those of them that    *)
(* are records.                                                              *)
Walking(c) ==
  /\ Asked(c) /\ found[c] # << >>
  /\ value[c] = << StatusSize >> \o Records(asks[c], found[c])
  /\ \E k \in 0..Len(value[c]) :
       offset[c] = SizeOf(SubSeq(value[c], 1, k)) /\ printed[c] = SubSeq(value[c], 2, k)

(* How far the thread and the client it serves are: there is one message     *)
(* between them, or none and it is the client's turn.                        *)
Turn(phase, step, request, reply) == pc[clientFd] = phase /\ at \in step
  /\ toServer[clientFd] = request /\ toClient[clientFd] = reply

Serving ==
  \/ Turn("greeted", {"greet"}, << Hello >>, << >>)
  \/ Turn("greeted", Sending, << >>, << >>) /\ out = Ack
  \/ Turn("greeted", {"recv"}, << >>, << Ack >>)
  \/ Turn("ask", {"recv"}, << >>, << >>)
  \/ Turn("await", {"recv"}, << [tag |-> asks[clientFd]] >>, << >>)
  \/ Turn("await", Sending, << >>, << >>) /\ out = Reply(clientFd) /\ Asked(clientFd)
  \/ Turn("await", {"recv"}, << >>, << Reply(clientFd) >>) /\ Asked(clientFd)
  \/ Turn("walk", {"recv"}, << >>, << >>) /\ Walking(clientFd)

AliveServed == \A c \in Clients : pc[c] \in Alive => Waits(c) \/ (c = clientFd /\ Serving)

GsInv == GsTypes /\ Once /\ Waiting /\ NotStarted /\ PeerKnown /\ AliveServed

(* One message is all there is. *)
LEMMA OneMessage ==
  \A m : /\ Head(<< m >>) = m /\ Tail(<< m >>) = << >> /\ << m >> # << >>
         /\ Append(<< >>, m) = << m >>
OBVIOUS

(* What a client's reply and walk are does not depend on the other clients. *)
LEMMA SameReply ==
  ASSUME NEW c, asks'[c] = asks[c], found'[c] = found[c]
  PROVE  Reply(c)' = Reply(c) /\ Asked(c)' = Asked(c)
BY Zenon DEF Reply, Asked

(* Nor does what a walk has come to. *)
LEMMA SameWalk ==
  ASSUME NEW c, asks'[c] = asks[c], found'[c] = found[c],
         value'[c] = value[c], offset'[c] = offset[c], printed'[c] = printed[c], Walking(c)
  PROVE  Walking(c)'
<1>1. Asked(c)'
  BY SameReply DEF Walking
<1>2. value'[c] = << StatusSize >> \o Records(asks'[c], found'[c]) /\ found'[c] # << >>
  BY DEF Walking
<1>3. PICK k \in 0..Len(value[c]) :
        offset[c] = SizeOf(SubSeq(value[c], 1, k)) /\ printed[c] = SubSeq(value[c], 2, k)
  BY DEF Walking
<1>4. k \in 0..Len(value'[c]) /\ offset'[c] = SizeOf(SubSeq(value'[c], 1, k))
      /\ printed'[c] = SubSeq(value'[c], 2, k)
  BY <1>3
<1> QED
  BY <1>1, <1>2, <1>4 DEF Walking

(* Who is served when nothing of it changes, whatever others do. *)
LEMMA ServedOn ==
  ASSUME Serving, UNCHANGED << at, clientFd, out >>,
         pc'[clientFd] = pc[clientFd], asks'[clientFd] = asks[clientFd],
         toServer'[clientFd] = toServer[clientFd], toClient'[clientFd] = toClient[clientFd],
         found'[clientFd] = found[clientFd], value'[clientFd] = value[clientFd],
         offset'[clientFd] = offset[clientFd], printed'[clientFd] = printed[clientFd]
  PROVE  Serving'
<1>1. PICK d : d = clientFd /\ d = clientFd'
  OBVIOUS
<1>2. /\ at' = at /\ out' = out /\ asks'[d] = asks[d] /\ found'[d] = found[d]
      /\ pc'[d] = pc[d] /\ toServer'[d] = toServer[d] /\ toClient'[d] = toClient[d]
      /\ value'[d] = value[d] /\ offset'[d] = offset[d] /\ printed'[d] = printed[d]
  BY <1>1
<1>3. Reply(d)' = Reply(d) /\ Asked(d)' = Asked(d) /\ (Walking(d) => Walking(d)')
  BY <1>2, SameReply, SameWalk
<1> QED
  BY <1>1, <1>2, <1>3 DEF Serving, Turn

-----------------------------------------------------------------------------
(* Who waits to be accepted *)

(* In an empty backlog nobody waits. *)
LEMMA GsInvInit == Init => GsInv
<1> SUFFICES ASSUME Init PROVE GsInv
  OBVIOUS
<1>1. MaxKills \in Nat
  BY LinkConstants
<1>2. GsTypes
  BY <1>1 DEF Init, GsTypes
<1>3. Len(backlog) = 0
  BY DEF Init
<1>4. Once /\ Waiting
  BY <1>3 DEF Once, Waiting, Waits
<1>5. NotStarted
  BY DEF NotStarted, Init
<1>6. PeerKnown
  BY DEF PeerKnown, Init, Alive
<1>7. AliveServed
  BY DEF AliveServed, Init, Alive
<1> QED
  BY <1>2, <1>4, <1>5, <1>6, <1>7 DEF GsInv

(* Who is accepted no longer waits; the others do. *)
LEMMA Accepted ==
  ASSUME backlog \in Seq(Clients), Once, backlog # << >>, NEW h, h = Head(backlog),
         backlog' = Tail(backlog)
  PROVE  /\ h \in Clients /\ backlog' \in Seq(Clients) /\ Once' /\ Waits(h) /\ ~Waits(h)'
         /\ \A c \in Clients \ {h} : Waits(c)' <=> Waits(c)
<1>1. /\ Len(backlog) \in Nat /\ 1 <= Len(backlog) /\ h = backlog[1]
      /\ h \in Clients /\ backlog' \in Seq(Clients) /\ Len(backlog') = Len(backlog) - 1
      /\ \A i \in 1..Len(backlog') : backlog'[i] = backlog[i + 1]
  OBVIOUS
<1>2. \A i \in 1..Len(backlog') : i + 1 \in 1..Len(backlog) /\ i + 1 # 1
  BY <1>1
<1>3. Once'
  BY <1>1, <1>2 DEF Once
<1>4. 1 \in 1..Len(backlog)
  BY <1>1
<1>5. Waits(h)
  BY <1>1, <1>4 DEF Waits
<1>6. ~Waits(h)'
  <2> SUFFICES ASSUME NEW i \in 1..Len(backlog'), backlog'[i] = h PROVE FALSE
    BY DEF Waits
  <2>1. backlog[i + 1] = backlog[1] /\ i + 1 \in 1..Len(backlog) /\ i + 1 # 1
    BY <1>1, <1>2
  <2> QED
    BY <1>4, <2>1 DEF Once
<1>7. ASSUME NEW c \in Clients \ {h} PROVE Waits(c)' <=> Waits(c)
  <2>1. ASSUME NEW i \in 1..Len(backlog), backlog[i] = c
        PROVE  i - 1 \in 1..Len(backlog') /\ backlog'[i - 1] = c
    BY <1>1, <1>7, <2>1
  <2>2. Waits(c) => Waits(c)'
    BY <2>1 DEF Waits
  <2>3. Waits(c)' => Waits(c)
    BY <1>1, <1>2 DEF Waits
  <2> QED
    BY <2>2, <2>3
<1> QED
  BY <1>1, <1>3, <1>5, <1>7, <1>6

(* Who connects waits behind the others. *)
LEMMA Connected ==
  ASSUME backlog \in Seq(Clients), Once, NEW c \in Clients, ~Waits(c),
         backlog' = Append(backlog, c)
  PROVE  /\ backlog' \in Seq(Clients) /\ Once' /\ Waits(c)'
         /\ \A d \in Clients \ {c} : Waits(d)' <=> Waits(d)
<1>1. /\ Len(backlog) \in Nat /\ backlog' \in Seq(Clients) /\ Len(backlog') = Len(backlog) + 1
      /\ \A i \in 1..Len(backlog) : backlog'[i] = backlog[i]
      /\ backlog'[Len(backlog) + 1] = c
  BY AppendProperties
<1>2. \A i \in 1..Len(backlog') : i \in 1..Len(backlog) \/ i = Len(backlog) + 1
  BY <1>1
<1>3. \A i \in 1..Len(backlog) : i \in 1..Len(backlog') /\ backlog[i] # c
  BY <1>1 DEF Waits
<1>4. Once'
  BY <1>1, <1>2, <1>3 DEF Once
<1>5. Len(backlog) + 1 \in 1..Len(backlog')
  BY <1>1
<1>6. Waits(c)'
  BY <1>1, <1>5 DEF Waits
<1>7. \A d \in Clients \ {c} : Waits(d)' <=> Waits(d)
  BY <1>1, <1>2, <1>3 DEF Waits
<1> QED
  BY <1>1, <1>4, <1>6, <1>7

(* As long as the backlog is the same. *)
LEMMA SameBacklog ==
  ASSUME backlog' = backlog
  PROVE  (Once' <=> Once) /\ \A c : Waits(c)' <=> Waits(c)
BY Zenon DEF Once, Waits

-----------------------------------------------------------------------------
(* The thread *)

(* Who has been greeted or asks, and does not wait, is served. *)
LEMMA AliveIsServed ==
  ASSUME GsInv, NEW d, d = clientFd, pc[d] \in Alive, at # "accept"
  PROVE  d \in Clients /\ ~Waits(d) /\ Serving
<1>1. d \in Clients
  BY DEF GsInv, GsTypes
<1>2. ~Waits(d)
  BY <1>1 DEF GsInv, Waiting
<1> QED
  BY <1>1, <1>2 DEF GsInv, AliveServed

(* Another client is alive only in the backlog. *)
LEMMA OthersWait ==
  ASSUME GsInv, NEW c \in Clients, c # clientFd, pc[c] \in Alive
  PROVE  Waits(c)
BY DEF GsInv, AliveServed

(* Who is accepted is served and no longer waits. *)
LEMMA AcceptKeeps ==
  ASSUME GsInv, Accept
  PROVE  GsInv'
<1>1. /\ at = "accept" /\ backlog # << >> /\ at' = "greet"
      /\ clientFd' = Head(backlog) /\ backlog' = Tail(backlog)
      /\ UNCHANGED << out, pc, asks, walk, toServer, toClient, peer, found, kills >>
  BY DEF Accept
<1>2. PICK h : h = Head(backlog)
  OBVIOUS
<1>3. backlog \in Seq(Clients) /\ Once
  BY DEF GsInv, GsTypes
<1>4. /\ h \in Clients /\ backlog' \in Seq(Clients) /\ Once' /\ Waits(h) /\ ~Waits(h)'
      /\ \A c \in Clients \ {h} : Waits(c)' <=> Waits(c)
  BY <1>1, <1>2, <1>3, Accepted
<1>5. GsTypes'
  BY <1>1, <1>2, <1>4 DEF GsInv, GsTypes, walk
<1>6. Waiting'
  BY <1>1, <1>2, <1>4 DEF GsInv, Waiting
<1>7. NotStarted'
  BY <1>1, <1>2, <1>4 DEF GsInv, NotStarted, Waiting
<1>8. PeerKnown'
  BY <1>1 DEF GsInv, PeerKnown
<1>9. AliveServed'
  <2> SUFFICES ASSUME NEW c \in Clients, pc'[c] \in Alive
               PROVE  Waits(c)' \/ (c = clientFd' /\ Serving')
    BY DEF AliveServed
  <2>1. pc[c] \in Alive
    BY <1>1
  <2>2. Waits(c)
    BY <1>1, <2>1 DEF GsInv, AliveServed, Serving, Turn, Sending
  <2>3. CASE c = h
    <3>1. pc[h] = "greeted" /\ toServer[h] = << Hello >> /\ toClient[h] = << >>
      BY <1>4, <2>1, <2>3 DEF GsInv, Waiting, Alive
    <3>2. Serving'
      BY <1>1, <1>2, <3>1 DEF Serving, Turn, Hello
    <3> QED
      BY <1>1, <1>2, <2>3, <3>2
  <2>4. CASE c # h
    BY <1>4, <2>2, <2>4
  <2> QED
    BY <2>3, <2>4
<1> QED
  BY <1>4, <1>5, <1>6, <1>7, <1>8, <1>9 DEF GsInv

(* The greeting read, the client is to be answered. *)
LEMMA RecvGreetingKeeps ==
  ASSUME GsInv, RecvGreeting
  PROVE  GsInv'
<1>1. PICK d : d = clientFd /\ d = clientFd'
  BY DEF RecvGreeting
<1>2. /\ at = "greet" /\ toServer[d] # << >> /\ toServer' = [toServer EXCEPT ![d] = Tail(@)]
      /\ out' = Ack /\ at' = "send prefix"
      /\ UNCHANGED << clientFd, pc, asks, walk, backlog, toClient, peer, found, kills >>
  BY <1>1 DEF RecvGreeting, Ack
<1>3. d \in Clients /\ DOMAIN toServer = Clients
  BY <1>1 DEF GsInv, GsTypes
<1>4. \A c \in Clients \ {d} : toServer'[c] = toServer[c]
  BY <1>2, <1>3
<1>5. GsTypes'
  BY <1>2, <1>3 DEF GsInv, GsTypes, walk
<1>6. Once' /\ \A c : Waits(c)' <=> Waits(c)
  BY <1>2, SameBacklog DEF GsInv
<1>7. ~Waits(d) /\ pc[d] # "start"
  BY <1>1, <1>2, <1>3 DEF GsInv, Waiting, NotStarted
<1>8. Waiting'
  BY <1>1, <1>2, <1>4, <1>6, <1>7 DEF GsInv, Waiting
<1>9. NotStarted'
  BY <1>1, <1>2, <1>4, <1>7 DEF GsInv, NotStarted
<1>10. PeerKnown'
  BY <1>2 DEF GsInv, PeerKnown
<1>11. AliveServed'
  <2> SUFFICES ASSUME NEW c \in Clients, pc'[c] \in Alive
               PROVE  Waits(c)' \/ (c = clientFd' /\ Serving')
    BY DEF AliveServed
  <2>1. CASE c = d
    <3>1. pc[d] = "greeted" /\ toServer[d] = << Hello >> /\ toClient[d] = << >>
      <4>1. Serving
        BY <1>1, <1>2, <2>1, AliveIsServed
      <4> QED
        BY <1>1, <1>2, <4>1 DEF Serving, Turn, Sending
    <3>2. toServer'[d] = << >>
      BY <1>2, <1>3, <3>1, OneMessage
    <3>3. Serving'
      BY <1>1, <1>2, <3>1, <3>2 DEF Serving, Turn, Sending
    <3> QED
      BY <1>1, <2>1, <3>3
  <2>2. CASE c # d
    BY <1>1, <1>2, <1>6, <2>2, OthersWait
  <2> QED
    BY <2>1, <2>2
<1> QED
  BY <1>5, <1>6, <1>8, <1>9, <1>10, <1>11 DEF GsInv

(* Only a client that has left is given up. *)
LEMMA RecvEofKeeps ==
  ASSUME GsInv, RecvEof
  PROVE  GsInv'
<1>1. /\ at \in {"greet", "recv"} /\ peer[clientFd] # "open" /\ at' = "accept"
      /\ UNCHANGED << clientFd, out, pc, asks, walk, kernel, found, kills >>
  BY DEF RecvEof, AfterDisconnect
<1>2. UNCHANGED << backlog, toServer, toClient, peer, value, offset, printed >>
  BY <1>1 DEF kernel, walk
<1>3. GsTypes'
  BY <1>1, <1>2 DEF GsInv, GsTypes
<1>4. Once' /\ \A c : Waits(c)' <=> Waits(c)
  BY <1>2, SameBacklog DEF GsInv
<1>5. Waiting'
  BY <1>1, <1>2, <1>4 DEF GsInv, Waiting
<1>6. NotStarted'
  BY <1>1, <1>2, <1>4 DEF GsInv, NotStarted
<1>7. PeerKnown'
  BY <1>1, <1>2 DEF GsInv, PeerKnown
<1>8. pc[clientFd] \notin Alive /\ clientFd \in Clients
  BY <1>1 DEF GsInv, PeerKnown, GsTypes
<1>9. AliveServed'
  <2> SUFFICES ASSUME NEW c \in Clients, pc'[c] \in Alive PROVE Waits(c)'
    BY DEF AliveServed
  <2>1. pc[c] \in Alive /\ c # clientFd
    BY <1>1, <1>8
  <2> QED
    BY <1>4, <2>1, OthersWait
<1> QED
  BY <1>3, <1>4, <1>5, <1>6, <1>7, <1>9 DEF GsInv

(* A request read, the response due is of its kind. *)
LEMMA DispatchKeeps ==
  ASSUME GsInv, Dispatch
  PROVE  GsInv'
<1>1. PICK d : d = clientFd /\ d = clientFd'
  BY DEF Dispatch
<1>2. PICK q : q = Head(toServer[d]).tag
  OBVIOUS
<1>3. PICK records \in BoundedSeq(Sizes[q], MaxRecords) :
        /\ found' = [found EXCEPT ![d] = records]
        /\ out' = [tag |-> q, status |-> IF records = << >> THEN "NO_DATA_FOUND" ELSE "SUCCESS",
                   records |-> Records(q, records)]
  BY <1>1, <1>2, Zenon DEF Dispatch
<1>4. /\ at = "recv" /\ toServer[d] # << >> /\ toServer' = [toServer EXCEPT ![d] = Tail(@)]
      /\ at' = "send prefix"
      /\ UNCHANGED << clientFd, pc, asks, walk, backlog, toClient, peer, kills >>
  BY <1>1 DEF Dispatch
<1>5. d \in Clients /\ DOMAIN toServer = Clients /\ DOMAIN found = Clients
  BY <1>1 DEF GsInv, GsTypes
<1>6. \A c \in Clients \ {d} : toServer'[c] = toServer[c]
  BY <1>4, <1>5
<1>7. found'[d] = records
  BY <1>3, <1>5
<1>8. GsTypes'
  BY <1>3, <1>4, <1>5 DEF GsInv, GsTypes, walk
<1>9. Once' /\ \A c : Waits(c)' <=> Waits(c)
  BY <1>4, SameBacklog DEF GsInv
<1>10. ~Waits(d) /\ pc[d] # "start"
  BY <1>1, <1>4, <1>5 DEF GsInv, Waiting, NotStarted
<1>11. Waiting'
  BY <1>1, <1>4, <1>6, <1>9, <1>10 DEF GsInv, Waiting
<1>12. NotStarted'
  BY <1>1, <1>4, <1>6, <1>10 DEF GsInv, NotStarted
<1>13. PeerKnown'
  BY <1>4 DEF GsInv, PeerKnown
<1>14. AliveServed'
  <2> SUFFICES ASSUME NEW c \in Clients, pc'[c] \in Alive
               PROVE  Waits(c)' \/ (c = clientFd' /\ Serving')
    BY DEF AliveServed
  <2>1. CASE c = d
    <3>1. pc[d] = "await" /\ toServer[d] = << [tag |-> asks[d]] >> /\ toClient[d] = << >>
      <4>1. Serving
        BY <1>1, <1>4, <2>1, AliveIsServed
      <4> QED
        BY <1>1, <1>4, <4>1 DEF Serving, Turn, Sending
    <3>2. toServer'[d] = << >> /\ Head(toServer[d]) = [tag |-> asks[d]]
      BY <1>4, <1>5, <3>1, OneMessage
    <3>3. q = asks'[d]
      <4>1. [tag |-> asks[d]].tag = asks[d] /\ asks' = asks
        BY <1>4
      <4>2. q = [tag |-> asks[d]].tag
        BY <1>2, <3>2
      <4> QED
        BY ONLY <4>1, <4>2
    <3>4. records \in Seq(Sizes[q])
      BY <1>3, BoundedSequences, LinkConstants
    <3>5. Asked(d)' /\ out' = Reply(d)'
      BY <1>3, <1>7, <3>3, <3>4 DEF Asked, Reply
    <3>6. Serving'
      BY <1>1, <1>4, <3>1, <3>2, <3>5 DEF Serving, Turn, Sending
    <3> QED
      BY <1>1, <2>1, <3>6
  <2>2. CASE c # d
    BY <1>1, <1>4, <1>9, <2>2, OthersWait
  <2> QED
    BY <2>1, <2>2
<1> QED
  BY <1>8, <1>9, <1>11, <1>12, <1>13, <1>14 DEF GsInv

(* A call of send() for a client that has not closed. *)
LEMMA SentWhileOpen ==
  ASSUME NEW next, Sent(next), peer \in [Clients -> {"open", "fin", "rst", "broken"}],
         clientFd \in Clients
  PROVE  /\ peer' \in [Clients -> {"open", "fin", "rst", "broken"}]
         /\ \A c \in Clients : peer'[c] = "open" <=> peer[c] = "open"
         /\ peer[clientFd] = "open" => at' = next
         /\ at' \in {next, "dead"}
BY DEF Sent

(* Nothing has been sent to a client until a message is whole. *)
LEMMA SendPrefixKeeps ==
  ASSUME GsInv, SendPrefix
  PROVE  GsInv'
<1>1. PICK d : d = clientFd /\ d = clientFd'
  BY DEF SendPrefix
<1>2. /\ at = "send prefix" /\ Sent("send message")
      /\ UNCHANGED << clientFd, out, pc, asks, walk, backlog, toServer, toClient, found, kills >>
  BY DEF SendPrefix
<1>3. d \in Clients /\ peer \in [Clients -> {"open", "fin", "rst", "broken"}]
  BY <1>1 DEF GsInv, GsTypes
<1>4. /\ peer' \in [Clients -> {"open", "fin", "rst", "broken"}]
      /\ \A c \in Clients : peer'[c] = "open" <=> peer[c] = "open"
      /\ peer[d] = "open" => at' = "send message"
      /\ at' \in {"send message", "dead"}
  BY <1>1, <1>2, <1>3, SentWhileOpen
<1>5. GsTypes'
  BY <1>2, <1>4 DEF GsInv, GsTypes, walk
<1>6. Once' /\ \A c : Waits(c)' <=> Waits(c)
  BY <1>2, SameBacklog DEF GsInv
<1>7. Waiting'
  BY <1>2, <1>6 DEF GsInv, Waiting
<1>8. NotStarted'
  BY <1>2 DEF GsInv, NotStarted
<1>9. PeerKnown'
  BY <1>2, <1>4 DEF GsInv, PeerKnown
<1>10. AliveServed'
  <2> SUFFICES ASSUME NEW c \in Clients, pc'[c] \in Alive
               PROVE  Waits(c)' \/ (c = clientFd' /\ Serving')
    BY DEF AliveServed
  <2>1. CASE c = d
    <3>1. Serving
      BY <1>1, <1>2, <2>1, AliveIsServed
    <3>2. at' = "send message"
      BY <1>2, <1>4, <2>1 DEF GsInv, PeerKnown
    <3>3. Reply(d)' = Reply(d) /\ Asked(d)' = Asked(d)
      BY <1>2, SameReply
    <3>4. Serving'
      BY <1>1, <1>2, <3>1, <3>2, <3>3 DEF Serving, Turn, Sending
    <3> QED
      BY <1>1, <2>1, <3>4
  <2>2. CASE c # d
    BY <1>1, <1>2, <1>6, <2>2, OthersWait
  <2> QED
    BY <2>1, <2>2
<1> QED
  BY <1>5, <1>6, <1>7, <1>8, <1>9, <1>10 DEF GsInv

(* What is sent to a client that has not left is the answer due to it. *)
LEMMA SendMessageKeeps ==
  ASSUME GsInv, SendMessage
  PROVE  GsInv'
<1>1. PICK d : d = clientFd /\ d = clientFd'
  BY DEF SendMessage
<1>2. /\ at = "send message" /\ Sent("recv")
      /\ toClient' = IF peer[d] = "open" THEN [toClient EXCEPT ![d] = Append(@, out)] ELSE toClient
      /\ UNCHANGED << clientFd, pc, asks, walk, backlog, toServer, found, kills >>
  BY <1>1 DEF SendMessage, AfterReply
<1>3. /\ d \in Clients /\ peer \in [Clients -> {"open", "fin", "rst", "broken"}]
      /\ DOMAIN toClient = Clients
  BY <1>1 DEF GsInv, GsTypes
<1>4. /\ peer' \in [Clients -> {"open", "fin", "rst", "broken"}]
      /\ \A c \in Clients : peer'[c] = "open" <=> peer[c] = "open"
      /\ peer[d] = "open" => at' = "recv"
      /\ at' \in {"recv", "dead"}
  BY <1>1, <1>2, <1>3, SentWhileOpen
<1>5. \A c \in Clients \ {d} : toClient'[c] = toClient[c]
  BY <1>2, <1>3
<1>6. GsTypes'
  BY <1>2, <1>3, <1>4 DEF GsInv, GsTypes, walk
<1>7. Once' /\ \A c : Waits(c)' <=> Waits(c)
  BY <1>2, SameBacklog DEF GsInv
<1>8. ~Waits(d) /\ pc[d] # "start"
  BY <1>1, <1>2, <1>3 DEF GsInv, Waiting, NotStarted
<1>9. Waiting'
  BY <1>1, <1>2, <1>5, <1>7, <1>8 DEF GsInv, Waiting
<1>10. NotStarted'
  BY <1>1, <1>2, <1>5, <1>8 DEF GsInv, NotStarted
<1>11. PeerKnown'
  BY <1>2, <1>4 DEF GsInv, PeerKnown
<1>12. AliveServed'
  <2> SUFFICES ASSUME NEW c \in Clients, pc'[c] \in Alive
               PROVE  Waits(c)' \/ (c = clientFd' /\ Serving')
    BY DEF AliveServed
  <2>1. CASE c = d
    <3>1. Serving
      BY <1>1, <1>2, <2>1, AliveIsServed
    <3>2. at' = "recv" /\ peer[d] = "open"
      BY <1>2, <1>4, <2>1 DEF GsInv, PeerKnown
    <3>3. Reply(d)' = Reply(d) /\ Asked(d)' = Asked(d)
      BY <1>2, SameReply
    <3>4. \/ pc[d] = "greeted" /\ out = Ack
          \/ pc[d] = "await" /\ out = Reply(d) /\ Asked(d)
      BY <1>1, <1>2, <3>1 DEF Serving, Turn, Sending
    <3>5. toServer[d] = << >> /\ toClient[d] = << >>
      BY <1>1, <1>2, <3>1 DEF Serving, Turn, Sending
    <3>6. toClient'[d] = << out >>
      BY <1>2, <1>3, <3>2, <3>5, OneMessage
    <3>7. Serving'
      BY <1>1, <1>2, <3>2, <3>3, <3>4, <3>5, <3>6 DEF Serving, Turn
    <3> QED
      BY <1>1, <2>1, <3>7
  <2>2. CASE c # d
    BY <1>1, <1>2, <1>7, <2>2, OthersWait
  <2> QED
    BY <2>1, <2>2
<1> QED
  BY <1>6, <1>7, <1>9, <1>10, <1>11, <1>12 DEF GsInv

-----------------------------------------------------------------------------
(* The clients *)

(* A client that has been answered is the one served. *)
LEMMA AnsweredIsServed ==
  ASSUME GsInv, NEW c \in Clients, pc[c] \in Alive, pc[c] # "greeted" \/ toClient[c] # << >>
  PROVE  c = clientFd /\ Serving /\ at # "accept"
<1>1. ~Waits(c)
  BY DEF GsInv, Waiting, Alive
<1>2. c = clientFd /\ Serving
  BY <1>1 DEF GsInv, AliveServed
<1> QED
  BY <1>2 DEF Serving, Turn, Sending

(* What a step of the client served has to keep. *)
LEMMA ClientKeeps ==
  ASSUME GsInv, NEW d \in Clients, d = clientFd, at # "accept",
         UNCHANGED << at, clientFd, out, backlog >>, GsTypes',
         \A c \in Clients \ {d} : /\ pc'[c] = pc[c] /\ peer'[c] = peer[c]
                                  /\ toServer'[c] = toServer[c] /\ toClient'[c] = toClient[c],
         peer'[d] = "open" <=> pc'[d] \in Alive \cup {"start"},
         pc'[d] # "start", pc'[d] \in Alive => Serving'
  PROVE  GsInv'
<1>1. Once' /\ \A c : Waits(c)' <=> Waits(c)
  BY SameBacklog DEF GsInv
<1>2. ~Waits(d)
  BY DEF GsInv, Waiting
<1>3. Waiting'
  BY <1>1, <1>2 DEF GsInv, Waiting
<1>4. NotStarted'
  BY DEF GsInv, NotStarted
<1>5. PeerKnown'
  BY DEF GsInv, PeerKnown
<1>6. AliveServed'
  <2> SUFFICES ASSUME NEW c \in Clients, pc'[c] \in Alive
               PROVE  Waits(c)' \/ (c = clientFd' /\ Serving')
    BY DEF AliveServed
  <2>1. CASE c = d
    BY <2>1
  <2>2. CASE c # d
    BY <1>1, <2>2, OthersWait
  <2> QED
    BY <2>1, <2>2
<1> QED
  BY <1>1, <1>3, <1>4, <1>5, <1>6 DEF GsInv

(* A client that connects waits, with its greeting on the way. *)
LEMMA ConnectKeeps ==
  ASSUME GsInv, NEW c \in Clients, Connect(c)
  PROVE  GsInv'
<1>1. /\ pc[c] = "start" /\ pc' = [pc EXCEPT ![c] = "greeted"]
      /\ backlog' = Append(backlog, c)
      /\ toServer' = [toServer EXCEPT ![c] = << Hello >>]
      /\ UNCHANGED << thread, asks, walk, toClient, peer, found, kills >>
  BY DEF Connect, Hello
<1>2. /\ pc \in [Clients -> {"start", "greeted", "ask", "await", "walk", "done", "killed"}]
      /\ DOMAIN toServer = Clients /\ backlog \in Seq(Clients) /\ Once
  BY DEF GsInv, GsTypes
<1>3. ~Waits(c)
  BY <1>1 DEF GsInv, Waiting
<1>4. /\ backlog' \in Seq(Clients) /\ Once' /\ Waits(c)'
      /\ \A d \in Clients \ {c} : Waits(d)' <=> Waits(d)
  BY <1>1, <1>2, <1>3, Connected
<1>5. /\ pc'[c] = "greeted" /\ toServer'[c] = << Hello >>
      /\ \A d \in Clients \ {c} : pc'[d] = pc[d] /\ toServer'[d] = toServer[d]
      /\ pc' \in [Clients -> {"start", "greeted", "ask", "await", "walk", "done", "killed"}]
      /\ DOMAIN toServer' = Clients
  BY <1>1, <1>2
<1>6. GsTypes'
  BY <1>1, <1>4, <1>5 DEF GsInv, GsTypes, walk, thread
<1>7. toClient[c] = << >> /\ (c = clientFd => at = "accept")
  BY <1>1 DEF GsInv, NotStarted
<1>8. UNCHANGED << at, clientFd, out, toClient, peer, asks, found, value, offset, printed >>
  BY <1>1 DEF thread, walk
<1>9. Waiting'
  BY <1>4, <1>5, <1>7, <1>8 DEF GsInv, Waiting
<1>10. NotStarted'
  BY <1>5, <1>8 DEF GsInv, NotStarted
<1>11. PeerKnown'
  BY <1>1, <1>5, <1>8 DEF GsInv, PeerKnown, Alive
<1>12. AliveServed'
  <2> SUFFICES ASSUME NEW d \in Clients, pc'[d] \in Alive, d # c
               PROVE  Waits(d)' \/ (d = clientFd' /\ Serving')
    BY <1>4 DEF AliveServed
  <2>1. Waits(d) \/ (d = clientFd /\ Serving)
    BY <1>5 DEF GsInv, AliveServed
  <2>2. CASE d = clientFd /\ Serving
    <3>1. Serving'
      BY <1>5, <1>8, <2>2, ServedOn
    <3> QED
      BY <1>8, <2>2, <3>1
  <2>3. CASE Waits(d)
    BY <1>4, <2>3
  <2> QED
    BY <2>1, <2>2, <2>3
<1> QED
  BY <1>4, <1>6, <1>9, <1>10, <1>11, <1>12 DEF GsInv

(* A client that has its greeting answered asks next. *)
LEMMA RecvReplyKeeps ==
  ASSUME GsInv, NEW c \in Clients, RecvReply(c)
  PROVE  GsInv'
<1>1. /\ pc[c] = "greeted" /\ toClient[c] # << >>
      /\ toClient' = [toClient EXCEPT ![c] = Tail(@)] /\ pc' = [pc EXCEPT ![c] = "ask"]
      /\ UNCHANGED << at, clientFd, out, asks, walk, backlog, toServer, peer, found, kills >>
  BY DEF RecvReply, thread
<1>2. /\ pc \in [Clients -> {"start", "greeted", "ask", "await", "walk", "done", "killed"}]
      /\ DOMAIN toClient = Clients /\ peer[c] = "open"
  BY <1>1 DEF GsInv, GsTypes, PeerKnown, Alive
<1>3. c = clientFd /\ Serving /\ at # "accept"
  BY <1>1, AnsweredIsServed DEF Alive
<1>4. at = "recv" /\ toServer[c] = << >> /\ toClient[c] = << Ack >>
  BY <1>1, <1>3 DEF Serving, Turn
<1>5. /\ pc'[c] = "ask" /\ toClient'[c] = << >>
      /\ \A d \in Clients \ {c} : pc'[d] = pc[d] /\ toClient'[d] = toClient[d]
  BY <1>1, <1>2, <1>4, OneMessage
<1>6. GsTypes'
  BY <1>1, <1>2 DEF GsInv, GsTypes, walk
<1>7. Serving'
  BY <1>1, <1>3, <1>4, <1>5 DEF Serving, Turn
<1> QED
  BY <1>1, <1>2, <1>3, <1>5, <1>6, <1>7, ClientKeeps DEF Alive

(* A request is the only message between client and thread. *)
LEMMA RequestKeeps ==
  ASSUME GsInv, NEW c \in Clients, Request(c)
  PROVE  GsInv'
<1>1. /\ pc[c] = "ask" /\ pc' = [pc EXCEPT ![c] = "await"]
      /\ toServer' = [toServer EXCEPT ![c] = Append(@, [tag |-> asks[c]])]
      /\ UNCHANGED << at, clientFd, out, asks, walk, backlog, toClient, peer, found, kills >>
  BY DEF Request, thread
<1>2. /\ pc \in [Clients -> {"start", "greeted", "ask", "await", "walk", "done", "killed"}]
      /\ DOMAIN toServer = Clients /\ peer[c] = "open"
  BY <1>1 DEF GsInv, GsTypes, PeerKnown, Alive
<1>3. c = clientFd /\ Serving /\ at # "accept"
  BY <1>1, AnsweredIsServed DEF Alive
<1>4. at = "recv" /\ toServer[c] = << >> /\ toClient[c] = << >>
  BY <1>1, <1>3 DEF Serving, Turn
<1>5. /\ pc'[c] = "await" /\ toServer'[c] = << [tag |-> asks[c]] >>
      /\ \A d \in Clients \ {c} : pc'[d] = pc[d] /\ toServer'[d] = toServer[d]
  BY <1>1, <1>2, <1>4, OneMessage
<1>6. GsTypes'
  BY <1>1, <1>2 DEF GsInv, GsTypes, walk
<1>7. Serving'
  BY <1>1, <1>3, <1>4, <1>5 DEF Serving, Turn
<1> QED
  BY <1>1, <1>2, <1>3, <1>5, <1>6, <1>7, ClientKeeps DEF Alive

(* A response has been dealt with: the client asks for events, or closes. *)
LEMMA FinishedKeeps ==
  ASSUME GsInv, NEW c \in Clients, Finished(c), c = clientFd, at = "recv", pc[c] \in Alive,
         toServer[c] = << >>, toClient'[c] = << >>, DOMAIN toClient' = Clients,
         \A d \in Clients \ {c} : toClient'[d] = toClient[d],
         UNCHANGED << at, clientFd, out, backlog, toServer, found, kills >>,
         DOMAIN value' = Clients, DOMAIN offset' = Clients, DOMAIN printed' = Clients
  PROVE  GsInv'
<1>1. /\ pc \in [Clients -> {"start", "greeted", "ask", "await", "walk", "done", "killed"}]
      /\ asks \in [Clients -> {"LOG", "EVENTS"}]
      /\ peer \in [Clients -> {"open", "fin", "rst", "broken"}] /\ peer[c] = "open"
  BY DEF GsInv, GsTypes, PeerKnown
<1>2. CASE asks[c] = "LOG"
  <2>1. /\ asks' = [asks EXCEPT ![c] = "EVENTS"] /\ pc' = [pc EXCEPT ![c] = "ask"] /\ peer' = peer
    BY <1>2 DEF Finished
  <2>2. GsTypes'
    BY <1>1, <2>1 DEF GsInv, GsTypes
  <2>3. pc'[c] = "ask" /\ \A d \in Clients \ {c} : pc'[d] = pc[d]
    BY <1>1, <2>1
  <2>4. Serving'
    BY <2>3 DEF Serving, Turn
  <2> QED
    BY <1>1, <2>1, <2>2, <2>3, <2>4, ClientKeeps DEF Alive
<1>3. CASE asks[c] # "LOG"
  <2>1. pc' = [pc EXCEPT ![c] = "done"] /\ peer' = Closed(c) /\ asks' = asks
    BY <1>3 DEF Finished
  <2>2. /\ peer' \in [Clients -> {"open", "fin", "rst", "broken"}] /\ peer'[c] # "open"
        /\ \A d \in Clients \ {c} : peer'[d] = peer[d]
    BY <1>1, <2>1 DEF Closed
  <2>3. GsTypes'
    BY <1>1, <2>1, <2>2 DEF GsInv, GsTypes
  <2>4. pc'[c] = "done" /\ \A d \in Clients \ {c} : pc'[d] = pc[d]
    BY <1>1, <2>1
  <2> QED
    BY <2>2, <2>3, <2>4, ClientKeeps DEF Alive
<1> QED
  BY <1>2, <1>3

(* A client that is stopped need not be served. *)
LEMMA KillKeeps ==
  ASSUME GsInv, NEW c \in Clients, Kill(c)
  PROVE  GsInv'
<1>1. /\ pc[c] \in Alive /\ kills < MaxKills /\ kills' = kills + 1
      /\ pc' = [pc EXCEPT ![c] = "killed"] /\ peer' = Closed(c)
      /\ UNCHANGED << at, clientFd, out, asks, walk, backlog, toServer, toClient, found >>
  BY DEF Kill, Alive, thread
<1>2. /\ pc \in [Clients -> {"start", "greeted", "ask", "await", "walk", "done", "killed"}]
      /\ peer \in [Clients -> {"open", "fin", "rst", "broken"}]
      /\ kills \in 0..MaxKills /\ MaxKills \in Nat
  BY LinkConstants DEF GsInv, GsTypes
<1>3. /\ peer' \in [Clients -> {"open", "fin", "rst", "broken"}] /\ peer'[c] # "open"
      /\ \A d \in Clients \ {c} : peer'[d] = peer[d]
  BY <1>1, <1>2 DEF Closed
<1>4. pc'[c] = "killed" /\ \A d \in Clients \ {c} : pc'[d] = pc[d]
  BY <1>1, <1>2
<1>5. kills' \in 0..MaxKills
  BY <1>1, <1>2
<1>6. GsTypes'
  BY <1>1, <1>2, <1>3, <1>5 DEF GsInv, GsTypes, walk
<1>7. Once' /\ \A d : Waits(d)' <=> Waits(d)
  BY <1>1, SameBacklog DEF GsInv
<1>8. Waiting'
  BY <1>1, <1>4, <1>7 DEF GsInv, Waiting, Alive
<1>9. NotStarted'
  BY <1>1, <1>4 DEF GsInv, NotStarted
<1>10. PeerKnown'
  BY <1>3, <1>4 DEF GsInv, PeerKnown, Alive
<1>11. AliveServed'
  <2> SUFFICES ASSUME NEW d \in Clients, pc'[d] \in Alive
               PROVE  Waits(d)' \/ (d = clientFd' /\ Serving')
    BY DEF AliveServed
  <2>1. d # c /\ pc[d] \in Alive
    BY <1>4 DEF Alive
  <2>2. Waits(d) \/ (d = clientFd /\ Serving)
    BY <2>1 DEF GsInv, AliveServed
  <2>3. CASE d = clientFd /\ Serving
    <3>1. Serving'
      BY <1>1, <1>4, <2>1, <2>3, ServedOn DEF walk
    <3> QED
      BY <1>1, <2>3, <3>1
  <2> QED
    BY <1>7, <2>2, <2>3
<1> QED
  BY <1>6, <1>7, <1>8, <1>9, <1>10, <1>11 DEF GsInv

-----------------------------------------------------------------------------
(* The walk through a response *)

(* What is walked through has the sums of a response. *)
LEMMA WalkSums ==
  ASSUME GsTypes, NEW c \in Clients, Asked(c), found[c] # << >>,
         NEW v, v = << StatusSize >> \o Records(asks[c], found[c])
  PROVE  \E n, g : /\ ResponseSums(v, n, g) /\ n - 1 <= Len(found[c])
                   /\ \A i \in 2..n : v[i] = found[c][i - 1]
<1>1. PICK q \in {"LOG", "EVENTS"} : q = asks[c]
  BY DEF GsTypes
<1>2. q \in DOMAIN Sizes
  BY LinkConstants
<1>3. PICK records \in Seq(Sizes[q]) : records = found[c]
  BY <1>1 DEF Asked
<1>4. records # << >> /\ v = << StatusSize >> \o Records(q, records)
  BY <1>1, <1>3
<1>5. \E n, g : /\ ResponseSums(v, n, g) /\ n - 1 <= Len(records)
                /\ \A i \in 2..n : v[i] = records[i - 1]
  BY <1>2, <1>4, ResponseFits
<1> QED
  BY <1>3, <1>5

(* The fields from the second to the k-th: one more, and all of them. *)
LEMMA FieldsSeen ==
  ASSUME NEW v \in Seq(Nat), NEW n \in Nat, n = Len(v)
  PROVE  /\ SubSeq(v, 2, 0) = << >> /\ SubSeq(v, 2, 1) = << >>
         /\ \A k \in 1..(n - 1) : SubSeq(v, 2, k + 1) = Append(SubSeq(v, 2, k), v[k + 1])
         /\ n # 0 => SubSeq(v, 2, n) = Tail(v)
<1>1. SubSeq(v, 2, 0) = << >> /\ SubSeq(v, 2, 1) = << >>
  BY SubSeqEmpty
<1>2. ASSUME NEW k \in 1..(n - 1) PROVE SubSeq(v, 2, k + 1) = Append(SubSeq(v, 2, k), v[k + 1])
  <2>1. \A i \in 2..(k + 1) : v[i] \in Nat
    OBVIOUS
  <2>2. 2 \in Int /\ k \in Int /\ k + 1 \in Int /\ 2 <= k + 1 /\ (k + 1) - 1 = k
    OBVIOUS
  <2> QED
    BY <2>1, <2>2, SubSeqRecursiveSecond
<1>3. n # 0 => SubSeq(v, 2, n) = Tail(v)
  BY TailIsSubSeq
<1> QED
  BY <1>1, <1>2, <1>3

(* A response with records is walked from its status, behind which they lie. *)
LEMMA RecvResponseKeeps ==
  ASSUME GsInv, NEW c \in Clients, RecvResponse(c)
  PROVE  GsInv'
<1>1. PICK r : r = Head(toClient[c])
  OBVIOUS
<1>2. /\ pc[c] = "await" /\ toClient[c] # << >>
      /\ toClient' = [toClient EXCEPT ![c] = Tail(@)]
      /\ printed' = [printed EXCEPT ![c] = << >>]
      /\ UNCHANGED << at, clientFd, out, backlog, toServer, found, kills >>
  BY DEF RecvResponse, thread
<1>3. IF r.tag = asks[c] /\ r.status = "SUCCESS"
        THEN /\ value' = [value EXCEPT ![c] = << StatusSize >> \o r.records]
             /\ offset' = [offset EXCEPT ![c] = 0] /\ pc' = [pc EXCEPT ![c] = "walk"]
             /\ UNCHANGED << asks, peer >>
        ELSE Finished(c) /\ UNCHANGED << value, offset >>
  BY <1>1, Zenon DEF RecvResponse
<1>4. /\ pc \in [Clients -> {"start", "greeted", "ask", "await", "walk", "done", "killed"}]
      /\ DOMAIN toClient = Clients /\ peer[c] = "open"
      /\ DOMAIN value = Clients /\ DOMAIN offset = Clients /\ DOMAIN printed = Clients
  BY <1>2 DEF GsInv, GsTypes, PeerKnown, Alive
<1>5. c = clientFd /\ Serving /\ at # "accept"
  BY <1>2, AnsweredIsServed DEF Alive
<1>6. at = "recv" /\ toServer[c] = << >> /\ toClient[c] = << Reply(c) >> /\ Asked(c)
  BY <1>2, <1>5 DEF Serving, Turn
<1>7. r = Reply(c) /\ toClient'[c] = << >>
      /\ \A d \in Clients \ {c} : toClient'[d] = toClient[d]
  BY <1>1, <1>2, <1>4, <1>6, OneMessage
<1>8. DOMAIN toClient' = Clients /\ DOMAIN printed' = Clients
  BY <1>2, <1>4
<1>9. CASE found[c] = << >>
  <2>1. r.status = "NO_DATA_FOUND"
    BY <1>7, <1>9 DEF Reply
  <2>2. Finished(c) /\ UNCHANGED << value, offset >>
    BY <1>3, <2>1
  <2> QED
    BY <1>2, <1>4, <1>5, <1>6, <1>7, <1>8, <2>2, FinishedKeeps DEF Alive
<1>10. CASE found[c] # << >>
  <2>1. r.tag = asks[c] /\ r.status = "SUCCESS" /\ r.records = Records(asks[c], found[c])
    BY <1>7, <1>10 DEF Reply
  <2>2. PICK v : v = << StatusSize >> \o Records(asks[c], found[c])
    OBVIOUS
  <2>3. /\ value' = [value EXCEPT ![c] = v] /\ offset' = [offset EXCEPT ![c] = 0]
        /\ pc' = [pc EXCEPT ![c] = "walk"] /\ UNCHANGED << asks, peer >>
    BY <1>3, <2>1, <2>2
  <2>4. PICK n, g : ResponseSums(v, n, g)
    BY <1>6, <1>10, <2>2, WalkSums DEF GsInv
  <2>5. v \in Seq(Nat) /\ Len(v) \in Nat /\ SizeOf(SubSeq(v, 1, 0)) = 0
    <3>1. v \in Seq(Nat) /\ Len(v) = n /\ n \in Nat /\ g[0] = 0
          /\ \A i \in 0..n : SizeOf(SubSeq(v, 1, i)) = g[i]
      BY <2>4 DEF ResponseSums
    <3> QED
      BY <3>1
  <2>6. SubSeq(v, 2, 0) = << >> /\ 0 \in 0..Len(v)
    BY <2>5, FieldsSeen
  <2>7. value'[c] = v /\ offset'[c] = 0 /\ printed'[c] = << >> /\ pc'[c] = "walk"
    BY <1>2, <1>4, <2>3
  <2>8. Asked(c)' /\ found'[c] = found[c] /\ asks'[c] = asks[c]
    BY <1>2, <1>6, <2>3, SameReply
  <2>9. Walking(c)'
    BY <1>10, <2>2, <2>5, <2>6, <2>7, <2>8 DEF Walking
  <2>10. Serving'
    BY <1>2, <1>5, <1>6, <1>7, <2>7, <2>9 DEF Serving, Turn
  <2>11. \A d \in Clients \ {c} : pc'[d] = pc[d]
    BY <1>4, <2>3
  <2>12. GsTypes'
    BY <1>2, <1>4, <1>8, <2>3 DEF GsInv, GsTypes
  <2> QED
    BY <1>2, <1>4, <1>5, <1>7, <2>3, <2>7, <2>10, <2>11, <2>12, ClientKeeps DEF Alive
<1> QED
  BY <1>9, <1>10

(* Who walks is served, behind some number of fields. *)
LEMMA WhoWalks ==
  ASSUME GsInv, NEW c \in Clients, pc[c] = "walk"
  PROVE  /\ c = clientFd /\ Serving /\ at = "recv" /\ toServer[c] = << >> /\ toClient[c] = << >>
         /\ Walking(c)
<1>1. c = clientFd /\ Serving
  BY AnsweredIsServed DEF Alive
<1> QED
  BY <1>1 DEF Serving, Turn

(* A walk is behind k fields, at their sum, and has printed those behind the first. *)
LEMMA WalkAt ==
  ASSUME GsInv, NEW c \in Clients, pc[c] = "walk"
  PROVE  \E n, g, k :
           /\ ResponseSums(value[c], n, g) /\ k \in 0..n
           /\ n - 1 <= Len(found[c]) /\ \A i \in 2..n : value[c][i] = found[c][i - 1]
           /\ offset[c] = g[k] /\ printed[c] = SubSeq(value[c], 2, k)
<1>1. /\ Asked(c) /\ found[c] # << >>
      /\ value[c] = << StatusSize >> \o Records(asks[c], found[c])
  BY WhoWalks DEF Walking
<1>2. PICK k \in 0..Len(value[c]) :
        offset[c] = SizeOf(SubSeq(value[c], 1, k)) /\ printed[c] = SubSeq(value[c], 2, k)
  BY WhoWalks DEF Walking
<1>3. PICK n, g : /\ ResponseSums(value[c], n, g) /\ n - 1 <= Len(found[c])
                  /\ \A i \in 2..n : value[c][i] = found[c][i - 1]
  BY <1>1, WalkSums DEF GsInv
<1>4. k \in 0..n /\ offset[c] = g[k]
  BY <1>2, <1>3 DEF ResponseSums
<1> QED
  BY <1>2, <1>3, <1>4

(* The next field is found where the one before it ends. *)
LEMMA WalkFieldKeeps ==
  ASSUME GsInv, NEW c \in Clients, WalkField(c)
  PROVE  GsInv'
<1>1. /\ pc[c] = "walk" /\ MayWalkOn(c)
      /\ UNCHANGED << at, clientFd, out, pc, asks, value, backlog, toServer, toClient, peer, found, kills >>
  BY DEF WalkField, thread, kernel
<1>2. c = clientFd /\ at = "recv" /\ toServer[c] = << >> /\ toClient[c] = << >> /\ Walking(c)
  BY <1>1, WhoWalks
<1>3. DOMAIN offset = Clients /\ DOMAIN printed = Clients /\ peer[c] = "open"
  BY <1>1 DEF GsInv, GsTypes, PeerKnown, Alive
<1>4. PICK n, g, k, v :
        /\ v = value[c] /\ ResponseSums(v, n, g) /\ k \in 0..n
        /\ offset[c] = g[k] /\ printed[c] = SubSeq(v, 2, k)
  <2>1. PICK n, g, k :
          /\ ResponseSums(value[c], n, g) /\ k \in 0..n
          /\ n - 1 <= Len(found[c]) /\ \A i \in 2..n : value[c][i] = found[c][i - 1]
          /\ offset[c] = g[k] /\ printed[c] = SubSeq(value[c], 2, k)
    BY <1>1, WalkAt, Zenon
  <2> QED
    BY <2>1, Zenon
<1>5. /\ v \in Seq(Nat) /\ Len(v) = n /\ n \in Nat /\ 2 <= n /\ g \in [0..n -> Nat]
      /\ \A i \in 1..n : g[i] = g[i - 1] + v[i]
      /\ \A i \in 0..n : SizeOf(SubSeq(v, 1, i)) = g[i]
      /\ g[n] + 3 < Wrap
  BY <1>4 DEF ResponseSums
<1>6. k < n
  <2>1. /\ SizeOf(v) % Wrap = g[n] /\ (g[k] + 3) % Wrap = g[k] + 3
        /\ g[k] + 3 <= g[n] <=> k < n
    BY <1>4, FieldsLeft
  <2> QED
    BY <1>1, <1>4, <2>1 DEF MayWalkOn, ValueLen
<1>7. k + 1 \in 1..n /\ k \in Nat /\ k + 1 \in 0..n /\ (k + 1) - 1 = k /\ DOMAIN v = 1..n
  BY <1>4, <1>5, <1>6
<1>8. ASSUME NEW i \in 1..n PROVE offset[c] = FieldStart(c, i) <=> i = k + 1
  <2>1. i = k + 1 => offset[c] = FieldStart(c, i)
    BY <1>4, <1>5, <1>7 DEF FieldStart
  <2>2. offset[c] = FieldStart(c, i) => i = k + 1
    BY <1>4, OneFieldThere DEF FieldStart
  <2> QED
    BY <2>1, <2>2
<1>9. /\ offset' = [offset EXCEPT ![c] = Behind(@, v[k + 1])]
      /\ printed' = [printed EXCEPT ![c] = IF k + 1 = 1 THEN @ ELSE Append(@, v[k + 1])]
  <2>1. ASSUME \A i \in DOMAIN value[c] : offset[c] # FieldStart(c, i) PROVE FALSE
    BY <1>4, <1>7, <1>8, <2>1
  <2>2. PICK i \in DOMAIN value[c] :
          /\ offset[c] = FieldStart(c, i)
          /\ offset' = [offset EXCEPT ![c] = Behind(@, value[c][i])]
          /\ printed' = [printed EXCEPT ![c] = IF i = 1 THEN @ ELSE Append(@, value[c][i])]
    BY <2>1, Zenon DEF WalkField
  <2>3. i = k + 1
    BY <1>4, <1>7, <1>8, <2>2
  <2> QED
    BY <1>4, <2>2, <2>3
<1>10. offset'[c] = g[k + 1]
  <2>1. offset'[c] = (g[k] + v[k + 1]) % Wrap
    BY <1>3, <1>4, <1>9 DEF Behind
  <2>2. g[k + 1] = g[k] + v[k + 1]
    BY <1>5, <1>7
  <2>3. g[k + 1] \in Nat /\ g[k + 1] <= g[n] /\ g[n] \in Nat
    <3>1. PICK j \in 0..n : j = k + 1
      BY <1>7
    <3>2. g[j] <= g[n]
      BY <1>4, FieldsLeft
    <3>3. n \in 0..n
      BY <1>5
    <3> QED
      BY <1>5, <3>1, <3>2, <3>3
  <2>4. Wrap \in Nat /\ Wrap # 0 /\ g[k + 1] < Wrap
    <3>1. PICK a \in Nat, b \in Nat : a = g[k + 1] /\ b = g[n]
      BY <2>3
    <3>2. a <= b /\ b + 3 < Wrap
      BY <1>5, <2>3, <3>1
    <3>3. a < Wrap
      BY ONLY <3>2, LinkConstants, a \in Nat, b \in Nat
    <3> QED
      BY <3>1, <3>3, LinkConstants
  <2>5. g[k + 1] % Wrap = g[k + 1]
    BY <2>3, <2>4
  <2> QED
    BY <2>1, <2>2, <2>5
<1>11. printed'[c] = SubSeq(v, 2, k + 1)
  <2>1. /\ SubSeq(v, 2, 0) = << >> /\ SubSeq(v, 2, 1) = << >>
        /\ \A j \in 1..(n - 1) : SubSeq(v, 2, j + 1) = Append(SubSeq(v, 2, j), v[j + 1])
    BY <1>5, FieldsSeen
  <2>2. printed'[c] = IF k = 0 THEN SubSeq(v, 2, k) ELSE Append(SubSeq(v, 2, k), v[k + 1])
    BY <1>3, <1>4, <1>7, <1>9
  <2>3. CASE k = 0
    BY <2>1, <2>2, <2>3
  <2>4. CASE k # 0
    <3>1. k \in 1..(n - 1)
      BY <1>5, <1>6, <1>7, <2>4
    <3> QED
      BY <2>1, <2>2, <2>4, <3>1
  <2> QED
    BY <2>3, <2>4
<1>12. Walking(c)'
  <2>1. Asked(c)' /\ found'[c] # << >> /\ value'[c] = << StatusSize >> \o Records(asks'[c], found'[c])
    BY <1>1, <1>2, SameReply DEF Walking
  <2>2. /\ k + 1 \in 0..Len(value'[c]) /\ offset'[c] = SizeOf(SubSeq(value'[c], 1, k + 1))
        /\ printed'[c] = SubSeq(value'[c], 2, k + 1)
    BY <1>1, <1>4, <1>5, <1>7, <1>10, <1>11
  <2> QED
    BY <2>1, <2>2 DEF Walking
<1>13. Serving'
  BY <1>1, <1>2, <1>12 DEF Serving, Turn
<1>14. GsTypes'
  BY <1>1, <1>3, <1>9 DEF GsInv, GsTypes
<1> QED
  BY <1>1, <1>2, <1>3, <1>13, <1>14, ClientKeeps DEF Alive

(* A walk that is over leaves nothing between client and thread. *)
LEMMA WalkDoneKeeps ==
  ASSUME GsInv, NEW c \in Clients, WalkDone(c)
  PROVE  GsInv'
<1>1. /\ pc[c] = "walk" /\ Finished(c)
      /\ UNCHANGED << at, clientFd, out, walk, backlog, toServer, toClient, found, kills >>
  BY DEF WalkDone, thread
<1>2. c = clientFd /\ at = "recv" /\ toServer[c] = << >> /\ toClient[c] = << >>
  BY <1>1, WhoWalks
<1>3. DOMAIN toClient = Clients /\ DOMAIN value = Clients /\ DOMAIN offset = Clients
      /\ DOMAIN printed = Clients
  BY DEF GsInv, GsTypes
<1> QED
  BY <1>1, <1>2, <1>3, FinishedKeeps DEF Alive, walk

-----------------------------------------------------------------------------
(* Theorems *)

(* Every step keeps the invariant. *)
LEMMA GsInvNext == GsInv /\ [Next]_vars => GsInv'
<1> SUFFICES ASSUME GsInv, [Next]_vars PROVE GsInv'
  OBVIOUS
<1>1. CASE Thread
  BY <1>1, AcceptKeeps, RecvGreetingKeeps, RecvEofKeeps, DispatchKeeps, SendPrefixKeeps,
     SendMessageKeeps DEF Thread
<1>2. ASSUME NEW c \in Clients, Connect(c) \/ Client(c) \/ Kill(c) PROVE GsInv'
  BY <1>2, ConnectKeeps, RecvReplyKeeps, RequestKeeps, RecvResponseKeeps, WalkFieldKeeps,
     WalkDoneKeeps, KillKeeps DEF Client
<1>3. CASE UNCHANGED vars
  <2>1. UNCHANGED << at, clientFd, out, pc, asks, value, offset, printed, backlog, toServer,
                     toClient, peer, found, kills >>
    BY <1>3 DEF vars, thread, walk, kernel
  <2>2. GsTypes'
    BY <2>1 DEF GsInv, GsTypes
  <2>3. Once' /\ \A c : Waits(c)' <=> Waits(c)
    BY <2>1, SameBacklog DEF GsInv
  <2>4. Waiting' /\ NotStarted' /\ PeerKnown'
    BY <2>1, <2>3 DEF GsInv, Waiting, NotStarted, PeerKnown
  <2>5. Serving => Serving'
    BY <2>1, ServedOn
  <2>6. AliveServed'
    BY <2>1, <2>3, <2>5 DEF GsInv, AliveServed
  <2> QED
    BY <2>2, <2>3, <2>4, <2>6 DEF GsInv
<1> QED
  BY <1>1, <1>2, <1>3 DEF Next

(* The inductive invariant of the link. *)
THEOREM GsInvariance == Spec => []GsInv
BY GsInvInit, GsInvNext, PTL DEF Spec

(* Whoever has been answered and has not left is the one client served, and  *)
(* no walk leaves its response.                                              *)
THEOREM GsTyping == Spec => []TypeOK
<1>1. GsInv => TypeOK
  <2> SUFFICES ASSUME GsInv PROVE TypeOK
    OBVIOUS
  <2>1. GsTypes
    BY DEF GsInv
  <2>2. \A c \in ToSet(backlog) : toClient[c] = << >> /\ pc[c] \in {"greeted", "killed"}
    <3>1. \A c \in ToSet(backlog) : c \in Clients /\ Waits(c)
      <4>1. PICK b \in Seq(Clients) : b = backlog
        BY <2>1 DEF GsTypes
      <4>2. DOMAIN b = 1..Len(b) /\ \A i \in 1..Len(b) : b[i] \in Clients
        OBVIOUS
      <4> QED
        BY <4>1, <4>2 DEF ToSet, Waits
    <3> QED
      BY <3>1 DEF GsInv, Waiting
  <2>3. \A c \in Clients : pc[c] \in {"ask", "await", "walk"} => c = clientFd /\ at # "accept"
    BY AnsweredIsServed DEF Alive
  <2>4. ASSUME NEW c \in Clients, pc[c] = "walk" PROVE offset[c] <= SizeOf(value[c])
    <3>1. PICK n, g, k :
            /\ ResponseSums(value[c], n, g) /\ k \in 0..n
            /\ n - 1 <= Len(found[c]) /\ \A i \in 2..n : value[c][i] = found[c][i - 1]
            /\ offset[c] = g[k] /\ printed[c] = SubSeq(value[c], 2, k)
      BY <2>4, WalkAt, Zenon
    <3>2. g[k] <= g[n]
      BY <3>1, FieldsLeft
    <3>3. SizeOf(value[c]) = g[n]
      BY <3>1 DEF ResponseSums
    <3> QED
      BY <3>1, <3>2, <3>3
  <2> QED
    BY <2>1, <2>2, <2>3, <2>4 DEF TypeOK, GsTypes
<1> QED
  BY <1>1, GsInvariance, PTL

(* No length wraps: a client that has walked through a response has printed  *)
(* the records in it, the first of those found for its own request.          *)
THEOREM RecordsArePrinted == Spec => []PrintsRecords
<1>1. GsInv => PrintsRecords
  <2> SUFFICES ASSUME GsInv, NEW c \in Clients, Walked(c)
               PROVE  /\ printed[c] = Tail(value[c])
                      /\ printed[c] # << >> /\ IsPrefix(printed[c], found[c])
    BY DEF PrintsRecords
  <2>1. pc[c] = "walk" /\ ~MayWalkOn(c)
    BY DEF Walked
  <2>2. PICK n, g, k :
          /\ ResponseSums(value[c], n, g) /\ k \in 0..n
          /\ n - 1 <= Len(found[c]) /\ \A i \in 2..n : value[c][i] = found[c][i - 1]
          /\ offset[c] = g[k] /\ printed[c] = SubSeq(value[c], 2, k)
    BY <2>1, WalkAt, Zenon
  <2>3. PICK v \in Seq(Nat) : v = value[c] /\ Len(v) = n /\ n \in Nat /\ 2 <= n
    BY <2>2 DEF ResponseSums
  <2>4. k = n
    <3>1. /\ SizeOf(value[c]) % Wrap = g[n] /\ (g[k] + 3) % Wrap = g[k] + 3
          /\ g[k] + 3 <= g[n] <=> k < n
      BY <2>2, FieldsLeft
    <3>2. ~(k < n)
      BY <2>1, <2>2, <3>1 DEF MayWalkOn, ValueLen
    <3> QED
      BY <2>2, <2>3, <3>2
  <2>5. printed[c] = Tail(v)
    BY <2>2, <2>3, <2>4, FieldsSeen
  <2>6. PICK t \in Seq(Nat) : t = Tail(v) /\ Len(t) = n - 1 /\ \A i \in 1..(n - 1) : t[i] = v[i + 1]
    <3>1. v # << >>
      BY <2>3
    <3>2. Tail(v) \in Seq(Nat) /\ Len(Tail(v)) = n - 1
      BY <2>3, <3>1
    <3>3. \A i \in 1..(n - 1) : Tail(v)[i] = v[i + 1]
      BY <2>3, <3>1
    <3> QED
      BY <3>2, <3>3, Zenon
  <2>7. PICK q : q \in DOMAIN Sizes /\ found[c] \in Seq(Sizes[q])
    <3>1. Asked(c) /\ asks[c] \in {"LOG", "EVENTS"}
      BY <2>1, WhoWalks DEF Walking, GsInv, GsTypes
    <3>2. asks[c] \in DOMAIN Sizes
      BY <3>1, LinkConstants
    <3> QED
      BY <3>1, <3>2 DEF Asked
  <2>8. PICK r \in Seq(Nat) : r = found[c]
    BY <2>7, RecordSizes
  <2>9. Len(t) \in 0..Len(r) /\ Len(t) \in 0..Len(t) /\ Len(t) = n - 1 /\ Len(t) \in Nat
    BY <2>2, <2>3, <2>6, <2>8
  <2>10. \A i \in 1..Len(t) : t[i] = r[i]
    <3>1. ASSUME NEW i \in 1..Len(t) PROVE t[i] = r[i]
      <4>1. i + 1 \in 2..n /\ (i + 1) - 1 = i /\ i \in 1..(n - 1)
        BY <2>3, <2>9
      <4>2. value[c][i + 1] = found[c][(i + 1) - 1]
        BY <2>2, <4>1
      <4> QED
        BY <2>3, <2>6, <2>8, <4>1, <4>2
    <3> QED
      BY <3>1
  <2>11. IsPrefix(t, r)
    <3>1. PICK a \in Seq(Nat) : a = SubSeq(t, 1, Len(t)) /\ Len(a) = Len(t) /\ \A i \in 1..Len(t) : a[i] = t[i]
      <4>1. SubSeq(t, 1, Len(t)) \in Seq(Nat) /\ Len(SubSeq(t, 1, Len(t))) = Len(t)
            /\ \A i \in 1..Len(t) : SubSeq(t, 1, Len(t))[i] = t[i]
        BY ONLY <2>9, FirstElements, t \in Seq(Nat)
      <4> QED
        BY <4>1, Zenon
    <3>2. PICK b \in Seq(Nat) : b = SubSeq(r, 1, Len(t)) /\ Len(b) = Len(t) /\ \A i \in 1..Len(t) : b[i] = r[i]
      <4>1. SubSeq(r, 1, Len(t)) \in Seq(Nat) /\ Len(SubSeq(r, 1, Len(t))) = Len(t)
            /\ \A i \in 1..Len(t) : SubSeq(r, 1, Len(t))[i] = r[i]
        BY ONLY <2>9, FirstElements, r \in Seq(Nat)
      <4> QED
        BY <4>1, Zenon
    <3>3. Len(a) = Len(b) /\ \A i \in 1..Len(a) : a[i] = b[i]
      BY <2>10, <3>1, <3>2
    <3>4. a = b
      BY <3>3, SeqEqual
    <3> QED
      BY <2>9, <3>1, <3>2, <3>4 DEF IsPrefix
  <2>12. t # << >>
    BY <2>3, <2>9
  <2> QED
    BY <2>3, <2>5, <2>6, <2>8, <2>11, <2>12
<1> QED
  BY <1>1, GsInvariance, PTL

-----------------------------------------------------------------------------
(* Lengths *)

(* A length is two bytes, and those two bytes are the length. *)
LEMMA LengthBytes ==
  ASSUME NEW n \in U16
  PROVE  n \div Base \in Byte /\ n % Base \in Byte /\ Protocol_GetU16(n \div Base, n % Base) = n
<1>1. Base \in Nat /\ Base > 1 /\ n \in Nat /\ n <= Base * Base - 1
  <2>1. Base \in Nat /\ Base > 1
    BY BaseAssumption
  <2>2. Base * Base \in Nat
    BY <2>1
  <2> QED
    BY <2>1, <2>2 DEF U16
<1>2. PICK q \in Int, r \in 0..(Base - 1) : q = n \div Base /\ r = n % Base /\ n = Base * q + r
  BY ONLY <1>1, SMTT(30)
<1>3. 0 <= q /\ q < Base
  <2>1. Base * q <= n /\ Base * q > n - Base
    BY <1>1, <1>2
  <2>2. q >= 0
    <3> SUFFICES ASSUME q <= -1 PROVE FALSE
      BY <1>2
    <3>1. Base * q <= Base * (-1)
      BY ONLY <1>1, <1>2, q <= -1, SMTT(30)
    <3> QED
      BY <1>1, <1>2, <2>1, <3>1
  <2>3. q < Base
    <3> SUFFICES ASSUME q >= Base PROVE FALSE
      BY <1>1, <1>2
    <3>1. Base * q >= Base * Base
      BY ONLY <1>1, <1>2, q >= Base, SMTT(30)
    <3> QED
      BY <1>1, <1>2, <2>1, <3>1
  <2> QED
    BY <2>2, <2>3
<1>4. q \in Byte /\ r \in Byte
  BY <1>1, <1>2, <1>3 DEF Byte
<1> QED
  BY <1>2, <1>4 DEF Protocol_GetU16

(* A sum that does not wrap is what it is. *)
LEMMA NoWrap ==
  ASSUME NEW n \in U16
  PROVE  uint16_t(n) = n /\ n \in Nat
<1>1. PICK w \in Nat : w = Base * Base
  BY BaseAssumption
<1>2. n \in 0..(w - 1)
  BY <1>1 DEF U16
<1>3. n % w = n
  BY <1>1, <1>2, SMTT(30)
<1> QED
  BY <1>1, <1>2, <1>3 DEF uint16_t

(* What is no longer than a length is a length. *)
LEMMA ShorterIsLength ==
  ASSUME NEW n \in U16, NEW m \in Nat, m <= n
  PROVE  m \in U16
<1>1. PICK w \in Nat : w = Base * Base
  BY BaseAssumption
<1> QED
  BY <1>1 DEF U16

-----------------------------------------------------------------------------
(* The bytes of a field *)

FieldBytes(f) == Field(f.tag, f.value)

FieldType == [tag : Byte, value : Seq(Byte)]

(* What the bytes of a field are. *)
LEMMA FieldShape ==
  ASSUME NEW f \in FieldType, Len(f.value) \in U16
  PROVE  /\ FieldBytes(f) \in Seq(Byte)
         /\ Len(FieldBytes(f)) = 3 + Len(f.value) /\ Len(f.value) \in Nat
         /\ FieldBytes(f)[1] = f.tag
         /\ Protocol_GetU16(FieldBytes(f)[2], FieldBytes(f)[3]) = Len(f.value)
<1>1. PICK hi \in Byte, lo \in Byte :
        /\ hi = Len(f.value) \div Base /\ lo = Len(f.value) % Base
        /\ Protocol_GetU16(hi, lo) = Len(f.value)
  BY LengthBytes
<1>2. PICK B : B = Byte
  OBVIOUS
<1>3. PICK t \in B, v \in Seq(B), h \in B, l \in B : t = f.tag /\ v = f.value /\ h = hi /\ l = lo
  BY <1>1, <1>2 DEF FieldType
<1>4. /\ << t >> \o << h, l >> \o v \in Seq(B)
      /\ Len(<< t >> \o << h, l >> \o v) = 3 + Len(v) /\ Len(v) \in Nat
      /\ (<< t >> \o << h, l >> \o v)[1] = t
      /\ (<< t >> \o << h, l >> \o v)[2] = h
      /\ (<< t >> \o << h, l >> \o v)[3] = l
  BY ONLY t \in B, v \in Seq(B), h \in B, l \in B
<1>5. FieldBytes(f) = << t >> \o << h, l >> \o v
  BY <1>1, <1>3 DEF FieldBytes, Field, Protocol_PutU16
<1> QED
  BY <1>1, <1>2, <1>3, <1>4, <1>5

-----------------------------------------------------------------------------
(* Where the fields are in the buffer *)

Lists == {fs \in Seq(FieldType) : \A i \in DOMAIN fs : Len(fs[i].value) \in U16}

AsBytes(fs) == [i \in DOMAIN fs |-> FieldBytes(fs[i])]

(* The lists of fields the buffers are made of are such lists. *)
LEMMA ListsAre == FieldLists \subseteq Lists
BY TlvScanAssumption DEF Lists, FieldType

(* The bytes of fields are what they are encoded as: there is always room.   *)
LEMMA EncodedIs ==
  ASSUME NEW fs \in Lists
  PROVE  /\ AsBytes(fs) \in Seq(Seq(Byte)) /\ Len(AsBytes(fs)) = Len(fs)
         /\ Encoded(fs) = FlattenSeq(AsBytes(fs))
         /\ Encoded(fs) \in Seq(Byte)
<1>1. PICK n \in Nat : n = Len(fs) /\ DOMAIN fs = 1..n /\ \A i \in 1..n : fs[i] \in FieldType
  BY ElementOfSeq, LenProperties DEF Lists
<1>2. PICK SB : SB = Seq(Byte)
  OBVIOUS
<1>3. \A i \in 1..n : FieldBytes(fs[i]) \in SB
  BY <1>1, <1>2, FieldShape DEF Lists
<1>4. PICK t : t = AsBytes(fs)
  OBVIOUS
<1>5. t \in [1..n -> SB]
  BY <1>1, <1>3, <1>4 DEF AsBytes
<1>6. t \in Seq(SB) /\ Len(t) = n
  BY <1>1, <1>5
<1>7. ASSUME NEW i \in 1..n
      PROVE  Protocol_EncodeTLV(fs[i].tag, fs[i].value, Base * Base - 1).out = FieldBytes(fs[i])
  <2>1. PICK w \in Nat : w = Base * Base /\ w > 0
    <3>1. Base \in Nat /\ Base > 1
      BY BaseAssumption
    <3>2. Base * Base > 0 /\ Base * Base \in Nat
      BY ONLY <3>1, SMTT(30)
    <3> QED
      BY <3>2
  <2>2. PICK l \in Nat : l = 3 + Len(fs[i].value)
    BY <1>1, FieldShape DEF Lists
  <2>3. l % w \in 0..(w - 1)
    BY <2>1, <2>2
  <2>4. ~(Base * Base - 1 < uint16_t(3 + Len(fs[i].value)))
    BY <2>1, <2>2, <2>3 DEF uint16_t
  <2> QED
    BY <2>4 DEF Protocol_EncodeTLV, FieldBytes
<1>8. Encoded(fs) = FlattenSeq(t)
  BY <1>1, <1>4, <1>7 DEF Encoded, AsBytes
<1>9. FlattenSeq(t) \in Seq(Byte)
  <2>1. t \in Seq(Seq(Byte))
    BY <1>2, <1>6
  <2> QED
    BY <2>1, FlattenType
<1> QED
  BY <1>1, <1>2, <1>4, <1>6, <1>8, <1>9

(* The first k fields. *)
FirstFields(fs, k) == SubSeq(fs, 1, k)

Start(fs, k) == Len(Encoded(FirstFields(fs, k)))

(* The first fields' bytes are the first of all the fields' bytes. *)
LEMMA FirstBytes ==
  ASSUME NEW fs \in Lists, NEW k \in 0..Len(fs)
  PROVE  /\ FirstFields(fs, k) \in Lists /\ Len(FirstFields(fs, k)) = k
         /\ AsBytes(FirstFields(fs, k)) = SubSeq(AsBytes(fs), 1, k)
<1>1. PICK n \in Nat : n = Len(fs) /\ DOMAIN fs = 1..n /\ \A i \in 1..n : fs[i] \in FieldType
  BY ElementOfSeq, LenProperties DEF Lists
<1>2. PICK s : s = FirstFields(fs, k)
  OBVIOUS
<1>3. s \in Seq(FieldType) /\ Len(s) = k /\ \A i \in 1..k : s[i] = fs[i]
  <2>1. PICK F : F = FieldType
    OBVIOUS
  <2>2. fs \in Seq(F) /\ k \in 0..Len(fs)
    BY <2>1 DEF Lists
  <2>3. SubSeq(fs, 1, k) \in Seq(F) /\ Len(SubSeq(fs, 1, k)) = k
        /\ \A i \in 1..k : SubSeq(fs, 1, k)[i] = fs[i]
    BY ONLY <2>2
  <2> QED
    BY <1>2, <2>1, <2>3 DEF FirstFields
<1>4. DOMAIN s = 1..k /\ \A i \in 1..k : i \in 1..n
  BY <1>1, <1>3
<1>5. s \in Lists
  BY <1>1, <1>3, <1>4 DEF Lists
<1>6. PICK SB : SB = Seq(Byte)
  OBVIOUS
<1>7. PICK t \in Seq(SB) : t = AsBytes(fs) /\ Len(t) = n
  BY <1>1, <1>6, EncodedIs
<1>8. PICK u \in Seq(SB) : u = AsBytes(s) /\ Len(u) = k
  BY <1>3, <1>5, <1>6, EncodedIs
<1>9. \A i \in 1..k : u[i] = t[i]
  BY <1>1, <1>3, <1>4, <1>7, <1>8 DEF AsBytes
<1>10. u = SubSeq(t, 1, k)
  BY ONLY <1>1, <1>7, <1>8, <1>9, k \in 0..Len(fs), t \in Seq(SB), u \in Seq(SB)
<1> QED
  BY <1>2, <1>3, <1>5, <1>7, <1>8, <1>10

(* No fields, no bytes. *)
LEMMA StartNothing ==
  ASSUME NEW fs \in Lists
  PROVE  Start(fs, 0) = 0
<1>1. FirstFields(fs, 0) \in Lists /\ Len(FirstFields(fs, 0)) = 0
  <2>1. 0 \in 0..Len(fs)
    BY LenProperties DEF Lists
  <2> QED
    BY <2>1, FirstBytes
<1>2. PICK t \in Seq(Seq(Byte)) : t = AsBytes(FirstFields(fs, 0)) /\ Len(t) = 0
  BY <1>1, EncodedIs
<1>3. t = << >>
  BY <1>2
<1>4. Encoded(FirstFields(fs, 0)) = << >>
  BY <1>1, <1>2, <1>3, EncodedIs, FlattenNothing
<1> QED
  BY <1>4 DEF Start

(* A field's bytes lie between those of the fields before and behind it. *)
LEMMA FieldBetween ==
  ASSUME NEW fs \in Lists, NEW k \in 0..(Len(fs) - 1)
  PROVE  \E before \in Seq(Byte), behind \in Seq(Byte) :
           /\ Len(before) = Start(fs, k)
           /\ Encoded(fs) = (before \o FieldBytes(fs[k + 1])) \o behind
           /\ Start(fs, k + 1) = Len(before \o FieldBytes(fs[k + 1]))
<1>1. PICK n \in Nat : n = Len(fs) /\ DOMAIN fs = 1..n
  BY LenProperties DEF Lists
<1>2. k \in 0..n /\ k + 1 \in 0..n /\ k + 1 \in 1..n /\ k \in 0..Len(fs) /\ k + 1 \in 0..Len(fs)
  BY <1>1
<1>3. PICK SB : SB = Seq(Byte)
  OBVIOUS
<1>4. PICK t \in Seq(SB) : t = AsBytes(fs) /\ Len(t) = n /\ Encoded(fs) = FlattenSeq(t)
  BY <1>1, <1>3, EncodedIs
<1>5. t[k + 1] = FieldBytes(fs[k + 1]) /\ k \in 0..(Len(t) - 1)
  BY <1>1, <1>2, <1>4 DEF AsBytes
<1>6. PICK a \in Seq(SB), e \in SB :
        a = SubSeq(t, 1, k) /\ e = t[k + 1] /\ SubSeq(t, 1, k + 1) = Append(a, e)
  BY <1>5, OneMore
<1>7. PICK c \in Seq(SB) : c = SubSeq(t, (k + 1) + 1, Len(t)) /\ t = SubSeq(t, 1, k + 1) \o c
  <2>1. k + 1 \in 0..Len(t)
    BY <1>2, <1>4
  <2>2. /\ SubSeq(t, (k + 1) + 1, Len(t)) \in Seq(SB)
        /\ t = SubSeq(t, 1, k + 1) \o SubSeq(t, (k + 1) + 1, Len(t))
    BY <2>1, Split
  <2> QED
    BY <2>2
<1>8. Append(a, e) \in Seq(SB)
  BY <1>6, AppendElements
<1>9. /\ FlattenSeq(t) = FlattenSeq(Append(a, e)) \o FlattenSeq(c)
      /\ FlattenSeq(Append(a, e)) = FlattenSeq(a) \o e
      /\ FlattenSeq(a) \in Seq(Byte) /\ FlattenSeq(c) \in Seq(Byte)
  <2>1. Append(a, e) \in Seq(Seq(Byte)) /\ a \in Seq(Seq(Byte)) /\ c \in Seq(Seq(Byte)) /\ e \in Seq(Byte)
    BY <1>3, <1>6, <1>7, <1>8
  <2>2. FlattenSeq(Append(a, e) \o c) = FlattenSeq(Append(a, e)) \o FlattenSeq(c)
    BY <2>1, FlattenConcat
  <2> QED
    BY <1>6, <1>7, <2>1, <2>2, FlattenAppend, FlattenType
<1>10. Encoded(FirstFields(fs, k)) = FlattenSeq(a)
  <2>1. FirstFields(fs, k) \in Lists /\ AsBytes(FirstFields(fs, k)) = a
    BY <1>2, <1>4, <1>6, FirstBytes
  <2> QED
    BY <2>1, EncodedIs
<1>11. Encoded(FirstFields(fs, k + 1)) = FlattenSeq(Append(a, e))
  <2>1. FirstFields(fs, k + 1) \in Lists /\ AsBytes(FirstFields(fs, k + 1)) = Append(a, e)
    BY <1>2, <1>4, <1>6, FirstBytes
  <2> QED
    BY <2>1, EncodedIs
<1>12. e = FieldBytes(fs[k + 1])
  BY <1>5, <1>6
<1> QED
  BY <1>4, <1>9, <1>10, <1>11, <1>12 DEF Start

(* All the fields. *)
LEMMA StartAll ==
  ASSUME NEW fs \in Lists
  PROVE  Start(fs, Len(fs)) = Len(Encoded(fs))
<1>1. SubSeq(fs, 1, Len(fs)) = fs
  <2>1. PICK F : fs \in Seq(F)
    BY DEF Lists
  <2> QED
    BY <2>1
<1> QED
  BY <1>1 DEF Start, FirstFields

-----------------------------------------------------------------------------
(* One turn of the loop *)

(* A part of what is joined is found behind what is before it. *)
LEMMA PartAt ==
  ASSUME NEW S, NEW a \in Seq(S), NEW e \in Seq(S), NEW c \in Seq(S), NEW t \in Seq(S),
         NEW whole, whole = ((a \o e) \o c) \o t
  PROVE  /\ Len(whole) = Len(a) + Len(e) + Len(c) + Len(t)
         /\ Len(a) \in Nat /\ Len(e) \in Nat /\ Len(c) \in Nat /\ Len(t) \in Nat
         /\ Len(a \o e) = Len(a) + Len(e)
         /\ \A j \in 1..Len(e) : whole[Len(a) + j] = e[j]
OBVIOUS

(* The buffer never changes. *)
BufferIs ==
  /\ fields \in FieldLists /\ tail \in Tails
  /\ buf = Encoded(fields) \o tail
  /\ Len(buf) \in U16
  /\ tag \in Tags

(* The buffer is bytes, the last of them those of the tail. *)
LEMMA BufferBytes ==
  ASSUME BufferIs
  PROVE  /\ fields \in Lists /\ Encoded(fields) \in Seq(Byte) /\ tail \in Seq(Byte)
         /\ buf \in Seq(Byte) /\ tag \in Byte
         /\ Len(buf) = Len(Encoded(fields)) + Len(tail)
         /\ Len(buf) \in Nat /\ Len(Encoded(fields)) \in Nat /\ Len(tail) \in Nat
         /\ \A j \in 1..Len(tail) : buf[Len(Encoded(fields)) + j] = tail[j]
<1>1. fields \in Lists /\ Encoded(fields) \in Seq(Byte)
  BY ListsAre, EncodedIs DEF BufferIs
<1>2. tail \in Seq(Byte) /\ tag \in Byte
  BY TlvScanAssumption DEF BufferIs
<1>3. PICK B : B = Byte
  OBVIOUS
<1>4. PICK a \in Seq(B), t \in Seq(B) : a = Encoded(fields) /\ t = tail
  BY <1>1, <1>2, <1>3
<1>5. /\ a \o t \in Seq(B) /\ Len(a \o t) = Len(a) + Len(t) /\ Len(a) \in Nat /\ Len(t) \in Nat
      /\ \A j \in 1..Len(t) : (a \o t)[Len(a) + j] = t[j]
  BY ONLY a \in Seq(B), t \in Seq(B)
<1>6. buf = a \o t
  BY <1>4 DEF BufferIs
<1> QED
  BY <1>1, <1>2, <1>3, <1>4, <1>5, <1>6

(* At the beginning of a field, the field is decoded and its end is the      *)
(* beginning of the next.                                                    *)
LEMMA DecodeField ==
  ASSUME BufferIs, NEW k \in 0..(Len(fields) - 1)
  PROVE  /\ Start(fields, k) \in Nat /\ Start(fields, k + 1) \in Nat
         /\ Start(fields, k) < Len(buf)
         /\ Start(fields, k + 1) = Start(fields, k) + (3 + Len(fields[k + 1].value))
         /\ Start(fields, k + 1) <= Len(buf)
         /\ Protocol_DecodeTLV(buf, Start(fields, k)) =
              [res |-> "OK", tag |-> fields[k + 1].tag, value |-> Start(fields, k) + 3,
               valueLen |-> Len(fields[k + 1].value), consumed |-> 3 + Len(fields[k + 1].value)]
         /\ uint16_t(Start(fields, k) + (3 + Len(fields[k + 1].value))) = Start(fields, k + 1)
<1>1. fields \in Lists /\ tail \in Seq(Byte) /\ Len(buf) \in U16
  BY BufferBytes DEF BufferIs
<1>2. PICK f \in FieldType : f = fields[k + 1] /\ Len(f.value) \in U16
  <2>1. k + 1 \in 1..Len(fields) /\ DOMAIN fields = 1..Len(fields) /\ fields \in Seq(FieldType)
    BY <1>1, LenProperties DEF Lists
  <2>2. fields[k + 1] \in FieldType
    BY <2>1, ElementOfSeq
  <2> QED
    BY <1>1, <2>1, <2>2 DEF Lists
<1>3. PICK B : B = Byte
  OBVIOUS
<1>4. PICK e \in Seq(B) :
        /\ e = FieldBytes(f) /\ Len(e) = 3 + Len(f.value) /\ Len(f.value) \in Nat
        /\ e[1] = f.tag /\ Protocol_GetU16(e[2], e[3]) = Len(f.value)
  BY <1>2, <1>3, FieldShape
<1>5. PICK a \in Seq(B), c \in Seq(B) :
        /\ Len(a) = Start(fields, k)
        /\ Encoded(fields) = (a \o e) \o c
        /\ Start(fields, k + 1) = Len(a \o e)
  BY <1>1, <1>2, <1>3, <1>4, FieldBetween
<1>6. PICK t \in Seq(B) : t = tail /\ buf = ((a \o e) \o c) \o t
  BY <1>1, <1>3, <1>5 DEF BufferIs
<1>7. /\ Len(buf) = Len(a) + Len(e) + Len(c) + Len(t)
      /\ Len(a) \in Nat /\ Len(e) \in Nat /\ Len(c) \in Nat /\ Len(t) \in Nat
      /\ Len(a \o e) = Len(a) + Len(e)
      /\ \A j \in 1..Len(e) : buf[Len(a) + j] = e[j]
  <2>1. PICK whole : whole = buf
    OBVIOUS
  <2>2. whole = ((a \o e) \o c) \o t
    BY <1>6, <2>1
  <2>3. /\ Len(whole) = Len(a) + Len(e) + Len(c) + Len(t)
        /\ Len(a) \in Nat /\ Len(e) \in Nat /\ Len(c) \in Nat /\ Len(t) \in Nat
        /\ Len(a \o e) = Len(a) + Len(e)
        /\ \A j \in 1..Len(e) : whole[Len(a) + j] = e[j]
    BY ONLY <2>2, PartAt, a \in Seq(B), e \in Seq(B), c \in Seq(B), t \in Seq(B)
  <2> QED
    BY ONLY <2>1, <2>3, Zenon
<1>8. PICK start \in Nat, len \in Nat, all \in Nat, end \in Nat :
        /\ start = Start(fields, k) /\ len = Len(f.value) /\ all = Len(buf)
        /\ end = Start(fields, k + 1) /\ end = start + (3 + len) /\ end <= all
  <2>1. PICK p \in Nat, l \in Nat, m \in Nat, q \in Nat, r \in Nat :
          /\ p = Len(a) /\ l = Len(f.value) /\ m = Len(e) /\ q = Len(c) /\ r = Len(t)
    BY <1>4, <1>7
  <2>2. m = 3 + l
    BY <1>4, <2>1
  <2>3. PICK w \in Nat, x \in Nat : w = p + m /\ x = p + m + q + r
    BY ONLY <2>1
  <2>4. w = p + (3 + l) /\ w <= x
    BY ONLY <2>1, <2>2, <2>3
  <2>5. p = Start(fields, k) /\ w = Start(fields, k + 1)
    BY <1>5, <1>7, <2>1, <2>3
  <2>6. x = Len(buf)
    BY <1>7, <2>1, <2>3
  <2> QED
    BY ONLY <2>1, <2>3, <2>4, <2>5, <2>6
<1>9. buf[start + 1] = f.tag /\ Protocol_GetU16(buf[start + 2], buf[start + 3]) = len
  <2>1. PICK m \in Nat, l \in Nat : m = Len(e) /\ l = Len(f.value) /\ m = 3 + l
    BY <1>4, <1>7
  <2>2. 1 \in 1..m /\ 2 \in 1..m /\ 3 \in 1..m
    BY ONLY <2>1
  <2>3. 1 \in 1..Len(e) /\ 2 \in 1..Len(e) /\ 3 \in 1..Len(e)
    BY <2>1, <2>2
  <2>4. Len(a) = start
    BY <1>5, <1>8
  <2>5. buf[start + 1] = e[1] /\ buf[start + 2] = e[2] /\ buf[start + 3] = e[3]
    <3>1. \A j \in 1..Len(e) : buf[Len(a) + j] = e[j]
      BY <1>7
    <3> QED
      BY ONLY <2>3, <2>4, <3>1
  <2>6. Protocol_GetU16(e[2], e[3]) = len
    BY <1>4, <1>8
  <2>7. e[1] = f.tag
    BY <1>4
  <2> QED
    BY ONLY <2>5, <2>6, <2>7
<1>10. uint16_t(3 + len) = 3 + len /\ uint16_t(end) = end
  <2>1. 3 + len \in U16 /\ end \in U16
    <3>1. 3 + len <= all /\ 3 + len \in Nat
      BY <1>8
    <3> QED
      BY <1>1, <1>8, <3>1, ShorterIsLength
  <2> QED
    BY <2>1, NoWrap
<1>11. /\ ~(Len(buf) - start < 3) /\ Len(buf) - start >= 3 + len
  BY <1>8
<1>12. Protocol_DecodeTLV(buf, start) =
         [res |-> "OK", tag |-> f.tag, value |-> start + 3, valueLen |-> len, consumed |-> 3 + len]
  BY <1>9, <1>10, <1>11 DEF Protocol_DecodeTLV, Arrived, Consumed
<1>13. start < all
  BY ONLY <1>8
<1>14. f.tag = fields[k + 1].tag /\ len = Len(fields[k + 1].value)
  BY ONLY <1>2, <1>8, Zenon
<1> QED
  BY ONLY <1>8, <1>10, <1>12, <1>13, <1>14

(* Behind the last field there is nothing to decode. *)
LEMMA DecodeTail ==
  ASSUME BufferIs, Modest(tail)
  PROVE  /\ Start(fields, Len(fields)) \in Nat
         /\ Start(fields, Len(fields)) <= Len(buf)
         /\ Start(fields, Len(fields)) >= Len(buf) <=> tail = << >>
         /\ tail # << >> => Protocol_DecodeTLV(buf, Start(fields, Len(fields))).res = "INCOMPLETE"
<1>1. /\ fields \in Lists /\ tail \in Seq(Byte)
      /\ Len(buf) = Len(Encoded(fields)) + Len(tail)
      /\ Len(Encoded(fields)) \in Nat /\ Len(tail) \in Nat
      /\ \A j \in 1..Len(tail) : buf[Len(Encoded(fields)) + j] = tail[j]
  BY BufferBytes
<1>2. PICK start \in Nat : start = Start(fields, Len(fields)) /\ start = Len(Encoded(fields))
  BY <1>1, StartAll
<1>3. Len(tail) = 0 <=> tail = << >>
  BY <1>1, EmptySeq
<1>4. Len(buf) - start = Len(tail)
  BY <1>1, <1>2
<1>5. ASSUME tail # << >> PROVE Protocol_DecodeTLV(buf, start).res = "INCOMPLETE"
  <2>1. CASE Len(tail) < 3
    BY <1>4, <2>1 DEF Protocol_DecodeTLV
  <2>2. CASE Len(tail) >= 3
    <3>1. PICK len : len = Protocol_GetU16(tail[2], tail[3])
      OBVIOUS
    <3>2. 3 + len \in U16 /\ ~(Len(tail) >= 3 + len)
      BY <2>2, <3>1, TlvScanAssumption DEF Modest, WholeField, BufferIs
    <3>3. uint16_t(3 + len) = 3 + len
      BY <3>2, NoWrap
    <3>4. buf[start + 2] = tail[2] /\ buf[start + 3] = tail[3]
      <4>1. 2 \in 1..Len(tail) /\ 3 \in 1..Len(tail)
        BY <1>1, <2>2
      <4> QED
        BY <1>1, <1>2, <4>1
    <3>5. ~Arrived(Len(buf) - start, Protocol_GetU16(buf[start + 2], buf[start + 3]))
      BY <1>4, <3>1, <3>2, <3>3, <3>4 DEF Arrived
    <3> QED
      BY <3>5 DEF Protocol_DecodeTLV
  <2> QED
    BY <1>1, <2>1, <2>2
<1> QED
  BY <1>1, <1>2, <1>3, <1>4, <1>5

-----------------------------------------------------------------------------
(* The inductive invariant of the scan *)

(* While it scans, it is at the beginning of a field, or behind the last,    *)
(* and none of the fields it left behind has the tag.                        *)
AtField(k) ==
  /\ scanned = Start(fields, k)
  /\ \A j \in 1..k : fields[j].tag # tag

Found(i) ==
  /\ i \in 1..Len(fields) /\ fields[i].tag = tag
  /\ \A j \in 1..Len(fields) : fields[j].tag = tag => i <= j
  /\ result.value = ValueAt(i)
  /\ result.valueLen = Len(fields[i].value)

NoneMatches == \A j \in 1..Len(fields) : fields[j].tag # tag

ScanInv ==
  /\ BufferIs
  /\ \E k \in 0..Len(fields) : AtField(k)
  /\ \/ result = Scanning
     \/ result.res = "OK" /\ \E i \in 1..Len(fields) : Found(i)
     \/ result.res = "NOT_FOUND" /\ NoneMatches /\ tail = << >>
     \/ result.res = "MALFORMED" /\ NoneMatches /\ tail # << >>

(* The scan begins at the first field. *)
LEMMA StartsScan == ScanInit => ScanInv
<1> SUFFICES ASSUME ScanInit PROVE ScanInv
  OBVIOUS
<1>1. BufferIs
  BY DEF ScanInit, BufferIs
<1>2. fields \in Lists
  BY <1>1, BufferBytes
<1>3. Start(fields, 0) = 0 /\ 0 \in 0..Len(fields)
  BY <1>2, StartNothing, LenProperties DEF Lists
<1>4. AtField(0)
  BY <1>3 DEF AtField, ScanInit
<1> QED
  BY <1>1, <1>3, <1>4 DEF ScanInv, ScanInit

(* The first field with the tag, when those before it have another.          *)
LEMMA FirstFound ==
  ASSUME BufferIs, NEW k \in 0..(Len(fields) - 1), AtField(k), fields[k + 1].tag = tag,
         result' = [res |-> "OK", value |-> Start(fields, k) + 3,
                    valueLen |-> Len(fields[k + 1].value)],
         UNCHANGED << fields, tail, buf, tag >>
  PROVE  k + 1 \in 1..Len(fields) /\ Found(k + 1)'
<1>1. PICK n \in Nat : n = Len(fields)
  BY BufferBytes, LenProperties DEF Lists
<1>2. k \in Nat /\ k + 1 \in 1..n /\ (k + 1) - 1 = k
  BY <1>1
<1>3. ASSUME NEW j \in 1..n, fields[j].tag = tag PROVE k + 1 <= j
  <2>1. ~(j \in 1..k)
    BY <1>3 DEF AtField
  <2> QED
    BY <1>1, <1>2, <2>1
<1>4. ValueAt(k + 1) = Start(fields, k) + 3
  BY <1>2 DEF ValueAt, Start, FirstFields
<1>5. fields' = fields /\ tag' = tag
  OBVIOUS
<1>6. ValueAt(k + 1)' = ValueAt(k + 1)
  BY <1>5 DEF ValueAt
<1>7. /\ result'.value = Start(fields, k) + 3
      /\ result'.valueLen = Len(fields[k + 1].value)
  OBVIOUS
<1>8. \A j \in 1..n : fields[j].tag = tag => k + 1 <= j
  BY <1>3
<1> QED
  BY <1>1, <1>2, <1>4, <1>5, <1>6, <1>7, <1>8 DEF Found

(* A turn of the loop returns, or leaves behind a field with another tag. *)
LEMMA KeepsScan ==
  ASSUME \A t \in Tails : Modest(t)
  PROVE  ScanInv /\ [FindFieldStep]_scan => ScanInv'
<1> SUFFICES ASSUME ScanInv, [FindFieldStep]_scan PROVE ScanInv'
  OBVIOUS
<1>1. CASE UNCHANGED scan
  BY <1>1 DEF ScanInv, scan, BufferIs, AtField, Start, FirstFields, Found, NoneMatches, ValueAt
<1>2. CASE FindFieldStep
  <2>1. BufferIs /\ result = Scanning /\ UNCHANGED << fields, tail, buf, tag >>
    BY <1>2 DEF ScanInv, FindFieldStep
  <2>2. BufferIs'
    BY <2>1 DEF BufferIs
  <2>3. PICK k \in 0..Len(fields) : AtField(k)
    BY DEF ScanInv
  <2>4. PICK n \in Nat, all \in Nat : n = Len(fields) /\ all = Len(buf)
    BY <2>1, BufferBytes, LenProperties DEF Lists
  <2>5. PICK start : start = Start(fields, k) /\ start = scanned
    BY <2>3 DEF AtField
  <2>6. \A i : Start(fields, i)' = Start(fields, i)
    BY <2>1 DEF Start, FirstFields
  <2>7. PICK d : d = Protocol_DecodeTLV(buf, start)
    OBVIOUS
  <2>8. \/ /\ scanned >= Len(buf)
           /\ result' = [res |-> "NOT_FOUND"]
           /\ UNCHANGED scanned
        \/ /\ scanned < Len(buf) /\ d.res # "OK"
           /\ result' = [res |-> "MALFORMED"]
           /\ UNCHANGED scanned
        \/ /\ scanned < Len(buf) /\ d.res = "OK" /\ d.tag = tag
           /\ result' = [res |-> "OK", value |-> d.value, valueLen |-> d.valueLen]
           /\ UNCHANGED scanned
        \/ /\ scanned < Len(buf) /\ d.res = "OK" /\ d.tag # tag
           /\ scanned' = uint16_t(scanned + d.consumed)
           /\ UNCHANGED result
    BY <1>2, <2>5, <2>7 DEF FindFieldStep
  <2>9. ASSUME UNCHANGED scanned PROVE \E i \in 0..Len(fields') : AtField(i)'
    BY <2>1, <2>3, <2>6, <2>9 DEF AtField
  <2>10. CASE k = n
    <3>1. /\ start \in Nat /\ start <= all /\ (start >= all <=> tail = << >>)
          /\ tail # << >> => d.res = "INCOMPLETE"
      BY <2>1, <2>4, <2>5, <2>7, <2>10, DecodeTail DEF BufferIs
    <3>2. NoneMatches'
      BY <2>1, <2>3, <2>4, <2>10 DEF AtField, NoneMatches
    <3>3. UNCHANGED scanned
          /\ \/ tail = << >> /\ result'.res = "NOT_FOUND"
             \/ tail # << >> /\ result'.res = "MALFORMED"
      <4>1. CASE tail = << >>
        BY <2>4, <2>5, <2>8, <3>1, <4>1
      <4>2. CASE tail # << >>
        <5>1. d.res # "OK" /\ ~(scanned >= Len(buf))
          BY <2>4, <2>5, <3>1, <4>2
        <5> QED
          BY <2>8, <4>2, <5>1
      <4> QED
        BY <4>1, <4>2
    <3> QED
      BY <2>1, <2>2, <2>9, <3>2, <3>3 DEF ScanInv
  <2>11. CASE k # n
    <3>1. k \in 0..(Len(fields) - 1) /\ k + 1 \in 0..n /\ k \in Nat
      BY <2>4, <2>11
    <3>2. PICK f : f = fields[k + 1]
      OBVIOUS
    <3>3. PICK next \in Nat :
            /\ next = Start(fields, k + 1) /\ start \in Nat /\ start < all
            /\ d = [res |-> "OK", tag |-> f.tag, value |-> start + 3,
                    valueLen |-> Len(f.value), consumed |-> 3 + Len(f.value)]
            /\ uint16_t(start + (3 + Len(f.value))) = next
      BY <2>1, <2>4, <2>5, <2>7, <3>1, <3>2, DecodeField
    <3>4. d.res = "OK" /\ d.tag = f.tag /\ d.value = start + 3
          /\ d.valueLen = Len(f.value) /\ d.consumed = 3 + Len(f.value)
      BY <3>3
    <3>5. scanned < Len(buf) /\ ~(scanned >= Len(buf))
      BY <2>4, <2>5, <3>3
    <3>6. CASE f.tag = tag
      <4>1. /\ result' = [res |-> "OK", value |-> start + 3, valueLen |-> Len(f.value)]
            /\ UNCHANGED scanned
        BY <2>8, <3>4, <3>5, <3>6
      <4>2. k + 1 \in 1..Len(fields) /\ Found(k + 1)'
        BY <2>1, <2>3, <2>5, <3>1, <3>2, <3>6, <4>1, FirstFound
      <4>3. result'.res = "OK" /\ fields' = fields
        BY <2>1, <4>1
      <4> QED
        BY <2>2, <2>9, <4>1, <4>2, <4>3 DEF ScanInv
    <3>7. CASE f.tag # tag
      <4>1. scanned' = next /\ result' = Scanning
        BY <2>1, <2>5, <2>8, <3>3, <3>4, <3>5, <3>7
      <4>2. \A j \in 1..(k + 1) : fields[j].tag # tag
        <5>1. \A j \in 1..(k + 1) : j \in 1..k \/ j = k + 1
          BY <3>1
        <5> QED
          BY <2>3, <3>2, <3>7, <5>1 DEF AtField
      <4>3. AtField(k + 1)'
        BY <2>1, <2>6, <3>3, <4>1, <4>2 DEF AtField
      <4>4. \E i \in 0..Len(fields') : AtField(i)'
        BY <2>1, <2>4, <3>1, <4>3
      <4> QED
        BY <2>2, <4>1, <4>4 DEF ScanInv, Scanning
    <3> QED
      BY <3>6, <3>7
  <2> QED
    BY <2>10, <2>11
<1> QED
  BY <1>1, <1>2

(* Every state of the scan satisfies the inductive invariant: for all lists  *)
(* of fields, all tags and all tails with no length that wraps.              *)
THEOREM ScanInvariant ==
  ASSUME \A t \in Tails : Modest(t)
  PROVE  ScanSpec => []ScanInv
<1>1. ScanInit => ScanInv
  BY StartsScan
<1>2. ScanInv /\ [FindFieldStep]_scan => ScanInv'
  BY KeepsScan
<1> QED
  BY <1>1, <1>2, PTL DEF ScanSpec

(* The beginning of a field is in the buffer. *)
LEMMA ScanTyped == ScanInv => ScanTypeOK
<1> SUFFICES ASSUME ScanInv PROVE ScanTypeOK
  OBVIOUS
<1>1. /\ fields \in Lists /\ buf \in Seq(Byte) /\ tag \in Byte
      /\ Len(buf) = Len(Encoded(fields)) + Len(tail)
      /\ Len(buf) \in Nat /\ Len(Encoded(fields)) \in Nat /\ Len(tail) \in Nat
  BY BufferBytes DEF ScanInv
<1>2. PICK k \in 0..Len(fields) : scanned = Start(fields, k)
  BY DEF ScanInv, AtField
<1>3. PICK n \in Nat : n = Len(fields)
  BY <1>1, LenProperties DEF Lists
<1>4. CASE k = n
  <2>1. scanned = Len(Encoded(fields))
    BY <1>1, <1>2, <1>3, <1>4, StartAll
  <2> QED
    BY <1>1, <2>1 DEF ScanTypeOK, ScanInv, Scanning
<1>5. CASE k # n
  <2>1. k \in 0..(Len(fields) - 1)
    BY <1>3, <1>5
  <2>2. scanned \in Nat /\ scanned < Len(buf)
    BY <1>2, <2>1, DecodeField DEF ScanInv
  <2> QED
    BY <1>1, <2>2 DEF ScanTypeOK, ScanInv, Scanning
<1> QED
  BY <1>4, <1>5

(* What the invariant says of a returned result is the property. *)
LEMMA ScanFindsFirst == ScanInv => FindsFirst
<1> SUFFICES ASSUME ScanInv PROVE FindsFirst
  OBVIOUS
<1>1. DOMAIN fields = 1..Len(fields)
  BY BufferBytes, LenProperties DEF ScanInv, Lists
<1>2. Matching = {i \in 1..Len(fields) : fields[i].tag = tag}
  BY <1>1 DEF Matching
<1>3. CASE result = Scanning
  BY <1>3 DEF FindsFirst, Scanning
<1>4. CASE result.res = "OK" /\ \E i \in 1..Len(fields) : Found(i)
  <2>1. PICK i \in 1..Len(fields) : Found(i)
    BY <1>4
  <2>2. /\ i \in Matching /\ \A j \in Matching : i <= j
        /\ result.value = ValueAt(i) /\ result.valueLen = Len(fields[i].value)
    BY <1>2, <2>1 DEF Found
  <2> QED
    BY <1>4, <2>2 DEF FindsFirst
<1>5. CASE result.res = "NOT_FOUND" /\ NoneMatches /\ tail = << >>
  <2>1. Matching = {}
    BY <1>2, <1>5 DEF NoneMatches
  <2> QED
    BY <1>5, <2>1 DEF FindsFirst
<1>6. CASE result.res = "MALFORMED" /\ NoneMatches /\ tail # << >>
  <2>1. Matching = {}
    BY <1>2, <1>6 DEF NoneMatches
  <2> QED
    BY <1>6, <2>1 DEF FindsFirst
<1> QED
  BY <1>3, <1>4, <1>5, <1>6 DEF ScanInv

(* The variables keep their types and the scan stays inside the buffer, for  *)
(* all fields and tails with no length that wraps (Protocol_FindField).      *)
THEOREM ScanTyping ==
  ASSUME \A t \in Tails : Modest(t)
  PROVE  ScanSpec => []ScanTypeOK
BY ScanInvariant, ScanTyped, PTL

(* What Protocol_FindField returns is the first field with the tag, and the  *)
(* two errors tell whether the buffer was whole fields only, for all fields  *)
(* and tails with no length that wraps.                                      *)
THEOREM ScanFinds ==
  ASSUME \A t \in Tails : Modest(t)
  PROVE  ScanSpec => []FindsFirst
BY ScanInvariant, ScanFindsFirst, PTL

=============================================================================
