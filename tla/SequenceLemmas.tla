--------------------------- MODULE SequenceLemmas ---------------------------
(***************************************************************************)
(* Facts about sequences for the other proofs: what taking an element from *)
(* the front of a queue, putting one behind or losing one in the middle    *)
(* leaves, and of those among them that count; what FlattenSeq joins; and  *)
(* induction and recursion up to a number.                                 *)
(***************************************************************************)
EXTENDS Integers, Sequences, SequencesExt, SequenceTheorems, WellFoundedInduction, TLAPS

(* What is left of a queue whose first element has been taken.               *)
LEMMA TailElements ==
  ASSUME NEW S, NEW s \in Seq(S), s # << >>
  PROVE  /\ Head(s) \in S /\ Head(s) = s[1]
         /\ Tail(s) \in Seq(S)
         /\ Len(s) \in Nat \ {0}
         /\ Len(Tail(s)) = Len(s) - 1
         /\ \A i \in 1..(Len(s) - 1) : Tail(s)[i] = s[i + 1]
OBVIOUS

(* A queue with an element behind it.                                        *)
LEMMA AppendElements ==
  ASSUME NEW S, NEW s \in Seq(S), NEW e \in S
  PROVE  /\ Append(s, e) \in Seq(S)
         /\ Len(Append(s, e)) = Len(s) + 1
         /\ \A i \in 1..Len(s) : Append(s, e)[i] = s[i]
         /\ Append(s, e)[Len(s) + 1] = e
BY AppendProperties

(* One element more at the end of the second is one more of the whole. *)
LEMMA AppendBehind ==
  ASSUME NEW S, NEW a \in Seq(S), NEW b \in Seq(S), NEW e \in S
  PROVE  a \o Append(b, e) = Append(a \o b, e)
OBVIOUS

(* What is left when one element has been taken out.                         *)
LEMMA RemoveAtElements ==
  ASSUME NEW S, NEW s \in Seq(S), NEW i \in 1..Len(s)
  PROVE  /\ RemoveAt(s, i) \in Seq(S)
         /\ Len(RemoveAt(s, i)) = Len(s) - 1
         /\ \A j \in 1..(Len(s) - 1) :
              RemoveAt(s, i)[j] = IF j < i THEN s[j] ELSE s[j + 1]
<1> DEFINE front == SubSeq(s, 1, i - 1)
           back  == SubSeq(s, i + 1, Len(s))
<1>1. Len(s) \in Nat /\ i \in Nat /\ \A j \in 1..Len(s) : s[j] \in S
  OBVIOUS
<1>2. /\ front \in Seq(S) /\ Len(front) = i - 1
      /\ \A j \in 1..(i - 1) : front[j] = s[j]
  <2>1. \A j \in 1..(i - 1) : s[j] \in S
    BY <1>1
  <2>2. /\ SubSeq(s, 1, i - 1) \in Seq(S)
        /\ Len(SubSeq(s, 1, i - 1)) = IF 1 <= i - 1 THEN i - 1 - 1 + 1 ELSE 0
        /\ \A j \in 1..(i - 1 - 1 + 1) : SubSeq(s, 1, i - 1)[j] = s[1 + j - 1]
    BY <1>1, <2>1, SubSeqProperties
  <2> QED
    BY <1>1, <2>2
<1>3. /\ back \in Seq(S) /\ Len(back) = Len(s) - i
      /\ \A j \in 1..(Len(s) - i) : back[j] = s[i + j]
  <2>1. \A j \in (i + 1)..Len(s) : s[j] \in S
    BY <1>1
  <2>2. /\ SubSeq(s, i + 1, Len(s)) \in Seq(S)
        /\ Len(SubSeq(s, i + 1, Len(s))) = IF i + 1 <= Len(s) THEN Len(s) - (i + 1) + 1 ELSE 0
        /\ \A j \in 1..(Len(s) - (i + 1) + 1) :
             SubSeq(s, i + 1, Len(s))[j] = s[(i + 1) + j - 1]
    BY <1>1, <2>1, SubSeqProperties
  <2> QED
    BY <1>1, <2>2
<1>4. RemoveAt(s, i) = front \o back
  BY DEF RemoveAt
<1> HIDE DEF front, back
<1>5. /\ front \o back \in Seq(S)
      /\ Len(front \o back) = Len(front) + Len(back)
      /\ \A j \in 1..(Len(front) + Len(back)) :
           (front \o back)[j] = IF j <= Len(front) THEN front[j] ELSE back[j - Len(front)]
  BY <1>2, <1>3, ConcatProperties
<1> QED
  BY <1>1, <1>2, <1>3, <1>4, <1>5

-----------------------------------------------------------------------------
(* Induction and recursion up to a number *)

(* A set of natural numbers has a least one. *)
LEMMA LeastNumber ==
  ASSUME NEW S \in SUBSET Nat, S # {}
  PROVE  \E m \in S : \A d \in S : m <= d
<1> DEFINE R == OpToRel(<, Nat)
<1>1. PICK m \in S : \A d \in S : ~(<< d, m >> \in R)
  BY NatLessThanWellFounded, WFMin
<1>2. \A d \in S : ~(d < m)
  BY <1>1 DEF OpToRel
<1>3. \A d \in S : m <= d
  BY <1>2
<1> QED
  BY <1>3

(* A set that has 0, and with a number up to n the next one. *)
LEMMA UpTo ==
  ASSUME NEW n \in Nat, NEW T, 0 \in T, \A k \in 0..(n - 1) : k \in T => k + 1 \in T
  PROVE  \A k \in 0..n : k \in T
<1> DEFINE Rest == {k \in 0..n : k \notin T}
<1> SUFFICES ASSUME Rest # {} PROVE FALSE
  OBVIOUS
<1>1. PICK m \in Rest : \A d \in Rest : m <= d
  <2>1. Rest \in SUBSET Nat
    OBVIOUS
  <2> HIDE DEF Rest
  <2> QED
    BY <2>1, LeastNumber
<1>2. m \in 0..n /\ m \notin T /\ m # 0 /\ m \in Nat
  BY <1>1
<1>3. m - 1 \in 0..(n - 1) /\ m - 1 \in 0..n /\ ~(m <= m - 1) /\ (m - 1) + 1 = m
  BY <1>2
<1>4. m - 1 \in T
  BY <1>1, <1>3
<1> QED
  BY <1>2, <1>3, <1>4

(* What a recursive definition says of the numbers up to n, some function    *)
(* does.                                                                     *)
StepFunctions(n, D) == [1..n -> [D -> D]]

Iterates(f, n, D, first, G) ==
  f \in [0..n -> D] /\ f[0] = first /\ \A k \in 1..n : f[k] = G[k][f[k - 1]]

(* So they can be iterated, whatever they are. *)
LEMMA Iterated ==
  \A n \in Nat : \A D : \A first \in D : \A G \in StepFunctions(n, D) :
    \E f : Iterates(f, n, D, first, G)
<1> SUFFICES ASSUME NEW n \in Nat, NEW D, NEW first \in D, NEW G \in StepFunctions(n, D)
             PROVE  \E f : Iterates(f, n, D, first, G)
  BY Zenon
<1>0. G \in [1..n -> [D -> D]]
  BY DEF StepFunctions
<1> DEFINE Goes(f, m) == f \in [0..m -> D] /\ f[0] = first /\ \A k \in 1..m : f[k] = G[k][f[k - 1]]
           T == {m \in 0..n : \E f : Goes(f, m)}
<1>1. 0 \in T
  <2> DEFINE f == [k \in 0..0 |-> first]
  <2>1. Goes(f, 0)
    OBVIOUS
  <2> HIDE DEF f, Goes
  <2> QED
    BY <2>1
<1>2. ASSUME NEW m \in 0..(n - 1), m \in T PROVE m + 1 \in T
  <2>1. PICK f : Goes(f, m)
    BY <1>2
  <2> DEFINE g == [k \in 0..(m + 1) |-> IF k = m + 1 THEN G[m + 1][f[m]] ELSE f[k]]
  <2>2. m + 1 \in 1..n /\ m \in 0..m /\ m + 1 \in 0..n /\ m \in Nat
    OBVIOUS
  <2>3. f[m] \in D /\ G[m + 1] \in [D -> D] /\ G[m + 1][f[m]] \in D
    BY <1>0, <2>1, <2>2
  <2>4. g \in [0..(m + 1) -> D]
    <3>1. ASSUME NEW k \in 0..(m + 1) PROVE (IF k = m + 1 THEN G[m + 1][f[m]] ELSE f[k]) \in D
      <4>1. k # m + 1 => k \in 0..m
        BY <2>2
      <4> QED
        BY <2>1, <2>3, <4>1
    <3> QED
      BY <3>1
  <2>5. g[0] = first
    BY <2>1, <2>2
  <2>6. ASSUME NEW k \in 1..(m + 1) PROVE g[k] = G[k][g[k - 1]]
    <3>1. k - 1 \in 0..m /\ k - 1 # m + 1 /\ k - 1 \in 0..(m + 1) /\ k \in 0..(m + 1)
      BY <2>2
    <3>2. g[k - 1] = f[k - 1]
      BY <3>1
    <3>3. CASE k = m + 1
      <4>1. k - 1 = m
        BY <2>2, <3>3
      <4> QED
        BY <3>1, <3>2, <3>3, <4>1
    <3>4. CASE k # m + 1
      <4>1. k \in 1..m
        BY <2>2, <3>4
      <4>2. g[k] = f[k] /\ f[k] = G[k][f[k - 1]]
        BY <2>1, <3>1, <3>4, <4>1
      <4> QED
        BY <3>2, <4>2
    <3> QED
      BY <3>3, <3>4
  <2> HIDE DEF g
  <2>7. Goes(g, m + 1)
    BY <2>4, <2>5, <2>6
  <2> QED
    BY <2>2, <2>7
<1> HIDE DEF T
<1>3. n \in T
  <2>1. \A k \in 0..(n - 1) : k \in T => k + 1 \in T
    BY <1>2
  <2>2. n \in 0..n
    OBVIOUS
  <2> QED
    BY <1>1, <2>1, <2>2, UpTo
<1> QED
  BY <1>3 DEF T, Iterates

-----------------------------------------------------------------------------
(* Sequences made of sequences *)

(* What FlattenSeq joins, element by element. *)
Joins(f, s, S) ==
  f \in [0..Len(s) -> Seq(S)] /\ f[0] = << >> /\ \A k \in 1..Len(s) : f[k] = f[k - 1] \o s[k]

(* There is such a function. *)
LEMMA JoinsExist ==
  ASSUME NEW S, NEW s \in Seq(Seq(S))
  PROVE  \E f : Joins(f, s, S)
<1> DEFINE G == [k \in 1..Len(s) |-> [x \in Seq(S) |-> x \o s[k]]]
<1>1. Len(s) \in Nat /\ << >> \in Seq(S) /\ \A k \in 1..Len(s) : s[k] \in Seq(S)
  BY ElementOfSeq
<1>2. G \in [1..Len(s) -> [Seq(S) -> Seq(S)]]
  <2>1. ASSUME NEW k \in 1..Len(s), NEW x \in Seq(S) PROVE x \o s[k] \in Seq(S)
    BY <1>1, ConcatProperties
  <2> QED
    BY <2>1
<1>3. \A k \in 1..Len(s), x \in Seq(S) : G[k][x] = x \o s[k]
  OBVIOUS
<1> HIDE DEF G
<1>4. PICK f \in [0..Len(s) -> Seq(S)] :
        f[0] = << >> /\ \A k \in 1..Len(s) : f[k] = G[k][f[k - 1]]
  <2>1. PICK n, D, first, H : n = Len(s) /\ D = Seq(S) /\ first = << >> /\ H = G
    OBVIOUS
  <2>2. n \in Nat /\ first \in D /\ H \in StepFunctions(n, D)
    BY <1>1, <1>2, <2>1 DEF StepFunctions
  <2>3. \E f : Iterates(f, n, D, first, H)
    BY <2>2, Iterated, Zenon
  <2> QED
    BY <2>1, <2>3 DEF Iterates
<1>5. ASSUME NEW k \in 1..Len(s) PROVE f[k] = f[k - 1] \o s[k]
  <2>1. k - 1 \in 0..Len(s)
    BY <1>1
  <2> QED
    BY <1>3, <1>4, <2>1
<1> QED
  BY <1>4, <1>5 DEF Joins

(* FlattenSeq is what they come to. *)
LEMMA FlattenJoins ==
  ASSUME NEW S, NEW s \in Seq(Seq(S)), NEW f, Joins(f, s, S)
  PROVE  FlattenSeq(s) = f[Len(s)]
<1>1. Len(s) \in Nat /\ \A k \in 1..Len(s) : s[k] \in Seq(S)
  BY ElementOfSeq
<1>2. CASE Len(s) = 0
  <2>1. s = << >>
    BY <1>2
  <2> QED
    BY <1>2, <2>1 DEF FlattenSeq, Joins
<1>3. CASE Len(s) # 0
  <2> DEFINE Rec(h) == [i \in 1..Len(s) |-> IF i = 1 THEN s[i] ELSE h[i - 1] \o s[i]]
             flatten == CHOOSE h : h = Rec(h)
             g == [i \in 1..Len(s) |-> f[i]]
  <2>1. g = Rec(g)
    <3>1. ASSUME NEW i \in 1..Len(s) PROVE f[i] = IF i = 1 THEN s[i] ELSE g[i - 1] \o s[i]
      <4>1. f[i] = f[i - 1] \o s[i]
        BY DEF Joins
      <4>2. CASE i = 1
        <5>1. f[i - 1] = << >>
          BY <4>2 DEF Joins
        <5>2. << >> \o s[i] = s[i]
          BY <1>1, ConcatEmptySeq
        <5> QED
          BY <4>1, <4>2, <5>1, <5>2
      <4>3. CASE i # 1
        <5>1. i - 1 \in 1..Len(s)
          BY <1>1, <4>3
        <5> QED
          BY <4>1, <4>3, <5>1
      <4> QED
        BY <4>2, <4>3
    <3> QED
      BY <3>1
  <2>2. flatten = Rec(flatten)
    BY <2>1, Zenon
  <2>3. FlattenSeq(s) = flatten[Len(s)]
    BY <1>3 DEF FlattenSeq
  <2> HIDE DEF flatten
  <2> DEFINE T == {k \in 0..Len(s) : k = 0 \/ flatten[k] = f[k]}
  <2>4. 0 \in T
    BY <1>1
  <2>5. ASSUME NEW k \in 0..(Len(s) - 1), k \in T PROVE k + 1 \in T
    <3>1. k + 1 \in 1..Len(s) /\ k + 1 \in 0..Len(s) /\ (k + 1) - 1 = k /\ (k + 1 = 1 <=> k = 0)
      BY <1>1
    <3>2. flatten[k + 1] = IF k + 1 = 1 THEN s[k + 1] ELSE flatten[(k + 1) - 1] \o s[k + 1]
      BY <2>2, <3>1
    <3>3. f[k + 1] = f[k] \o s[k + 1]
      BY <3>1 DEF Joins
    <3>4. CASE k = 0
      <4>1. f[k] = << >> /\ << >> \o s[k + 1] = s[k + 1]
        BY <1>1, <3>1, <3>4, ConcatEmptySeq DEF Joins
      <4> QED
        BY <3>1, <3>2, <3>3, <3>4, <4>1
    <3>5. CASE k # 0
      BY <2>5, <3>1, <3>2, <3>3, <3>5
    <3> QED
      BY <3>4, <3>5
  <2> HIDE DEF T
  <2>6. Len(s) \in T
    <3>1. \A k \in 0..(Len(s) - 1) : k \in T => k + 1 \in T
      BY <2>5
    <3>2. Len(s) \in 0..Len(s)
      BY <1>1
    <3> QED
      BY <1>1, <2>4, <3>1, <3>2, UpTo
  <2>7. flatten[Len(s)] = f[Len(s)]
    BY <1>3, <2>6 DEF T
  <2> QED
    BY <2>3, <2>7
<1> QED
  BY <1>2, <1>3

(* Of no sequences, nothing is joined. *)
LEMMA FlattenNothing == FlattenSeq(<< >>) = << >>
BY DEF FlattenSeq

(* What is joined is a sequence of the same things. *)
LEMMA FlattenType ==
  ASSUME NEW S, NEW s \in Seq(Seq(S))
  PROVE  FlattenSeq(s) \in Seq(S)
<1>1. PICK f : Joins(f, s, S)
  BY JoinsExist
<1>2. FlattenSeq(s) = f[Len(s)]
  BY <1>1, FlattenJoins
<1>3. Len(s) \in 0..Len(s)
  BY LenProperties
<1> QED
  BY <1>1, <1>2, <1>3 DEF Joins

(* One more element, joined behind. *)
LEMMA FlattenAppend ==
  ASSUME NEW S, NEW s \in Seq(Seq(S)), NEW e \in Seq(S)
  PROVE  FlattenSeq(Append(s, e)) = FlattenSeq(s) \o e
<1> DEFINE n == Len(s)
<1>1. PICK t \in Seq(Seq(S)) :
        /\ t = Append(s, e) /\ Len(t) = n + 1 /\ t[n + 1] = e
        /\ \A k \in 1..n : t[k] = s[k]
  <2>1. PICK SS : SS = Seq(S)
    OBVIOUS
  <2>2. s \in Seq(SS) /\ e \in SS
    BY <2>1
  <2>3. /\ Append(s, e) \in Seq(SS) /\ Len(Append(s, e)) = Len(s) + 1
        /\ Append(s, e)[Len(s) + 1] = e /\ \A i \in 1..Len(s) : Append(s, e)[i] = s[i]
    BY <2>2, AppendElements
  <2> QED
    BY <2>1, <2>3
<1>2. n \in Nat /\ Len(t) = n + 1 /\ t[n + 1] = e /\ \A k \in 1..n : t[k] = s[k]
  BY <1>1, LenProperties
<1>3. PICK f : Joins(f, t, S)
  BY JoinsExist
<1>4. FlattenSeq(t) = f[n + 1]
  BY <1>2, <1>3, FlattenJoins
<1> DEFINE g == [k \in 0..n |-> f[k]]
<1>5. Joins(g, s, S)
  <2>1. \A k \in 0..n : k \in 0..(n + 1)
    BY <1>2
  <2>2. f \in [0..(n + 1) -> Seq(S)] /\ f[0] = << >> /\ \A k \in 1..(n + 1) : f[k] = f[k - 1] \o t[k]
    BY <1>2, <1>3 DEF Joins
  <2>3. g \in [0..n -> Seq(S)] /\ g[0] = << >>
    BY <1>2, <2>1, <2>2
  <2>4. ASSUME NEW k \in 1..n PROVE g[k] = g[k - 1] \o s[k]
    <3>1. k \in 0..n /\ k - 1 \in 0..n /\ k \in 1..(n + 1)
      BY <1>2
    <3> QED
      BY <1>2, <2>2, <3>1
  <2> HIDE DEF g
  <2> QED
    BY <2>3, <2>4 DEF Joins
<1>6. FlattenSeq(s) = g[n]
  BY <1>5, FlattenJoins
<1>7. n + 1 \in 1..(n + 1) /\ (n + 1) - 1 = n /\ n \in 0..n
  BY <1>2
<1>8. f[n + 1] = f[n] \o t[n + 1] /\ g[n] = f[n]
  BY <1>2, <1>3, <1>7 DEF Joins
<1> QED
  BY <1>1, <1>2, <1>4, <1>6, <1>8

(* The first k + 1 elements are the first k and one more. *)
LEMMA OneMore ==
  ASSUME NEW S, NEW s \in Seq(S), NEW k \in 0..(Len(s) - 1)
  PROVE  /\ SubSeq(s, 1, k) \in Seq(S) /\ Len(SubSeq(s, 1, k)) = k
         /\ s[k + 1] \in S
         /\ SubSeq(s, 1, k + 1) = Append(SubSeq(s, 1, k), s[k + 1])
<1>1. Len(s) \in Nat /\ k \in Nat /\ k + 1 \in 1..Len(s) /\ \A i \in 1..Len(s) : s[i] \in S
  OBVIOUS
<1>2. PICK a : a = SubSeq(s, 1, k)
  OBVIOUS
<1>3. a \in Seq(S) /\ Len(a) = k /\ \A i \in 1..k : a[i] = s[i]
  <2>1. \A i \in 1..k : s[i] \in S
    BY <1>1
  <2>2. /\ SubSeq(s, 1, k) \in Seq(S)
        /\ Len(SubSeq(s, 1, k)) = IF 1 <= k THEN k - 1 + 1 ELSE 0
        /\ \A i \in 1..(k - 1 + 1) : SubSeq(s, 1, k)[i] = s[1 + i - 1]
    BY <1>1, <2>1, SubSeqProperties
  <2> QED
    BY <1>1, <1>2, <2>2
<1>4. PICK b : b = SubSeq(s, 1, k + 1)
  OBVIOUS
<1>5. b \in Seq(S) /\ Len(b) = k + 1 /\ \A i \in 1..(k + 1) : b[i] = s[i]
  <2>1. \A i \in 1..(k + 1) : s[i] \in S
    BY <1>1
  <2>2. /\ SubSeq(s, 1, k + 1) \in Seq(S)
        /\ Len(SubSeq(s, 1, k + 1)) = IF 1 <= k + 1 THEN (k + 1) - 1 + 1 ELSE 0
        /\ \A i \in 1..((k + 1) - 1 + 1) : SubSeq(s, 1, k + 1)[i] = s[1 + i - 1]
    BY <1>1, <2>1, SubSeqProperties
  <2> QED
    BY <1>1, <1>4, <2>2
<1>6. PICK c \in Seq(S) : c = Append(a, s[k + 1])
  <2>1. Append(a, s[k + 1]) \in Seq(S)
    BY <1>1, <1>3, AppendElements
  <2> QED
    BY <2>1
<1>7. Len(c) = k + 1 /\ \A i \in 1..(k + 1) : c[i] = s[i]
  <2>1. Len(c) = Len(a) + 1 /\ \A i \in 1..Len(a) : c[i] = a[i] /\ c[Len(a) + 1] = s[k + 1]
    BY <1>1, <1>3, <1>6, AppendElements
  <2>2. c[k + 1] = s[k + 1]
    BY <1>1, <1>3, <1>6, AppendElements
  <2> QED
    BY <1>1, <1>3, <2>1, <2>2
<1>8. b = c
  BY <1>1, <1>5, <1>7, SeqEqual
<1> QED
  BY <1>1, <1>2, <1>3, <1>4, <1>6, <1>8

(* Sequences of one element each come to a sequence of them. *)
LEMMA FlattenSingles ==
  ASSUME NEW S, NEW s \in Seq(S)
  PROVE  FlattenSeq([i \in DOMAIN s |-> << s[i] >>]) = s
<1>1. PICK n \in Nat : n = Len(s) /\ DOMAIN s = 1..n
  OBVIOUS
<1>2. PICK SS : SS = Seq(S)
  OBVIOUS
<1>3. PICK t : t = [i \in DOMAIN s |-> << s[i] >>]
  OBVIOUS
<1>4. t \in Seq(SS) /\ Len(t) = n /\ \A i \in 1..n : t[i] = << s[i] >>
  <2>1. ASSUME NEW i \in 1..n PROVE << s[i] >> \in SS
    <3>1. s[i] \in S
      BY <1>1, ElementOfSeq
    <3> QED
      BY <1>2, <3>1
  <2>2. t \in [1..n -> SS]
    BY <1>1, <1>3, <2>1
  <2> QED
    BY <1>1, <1>3, <2>2
<1> DEFINE f == [k \in 0..n |-> SubSeq(s, 1, k)]
<1>5. ASSUME NEW k \in 0..(n - 1)
      PROVE  /\ SubSeq(s, 1, k) \in Seq(S) /\ s[k + 1] \in S
             /\ SubSeq(s, 1, k + 1) = Append(SubSeq(s, 1, k), s[k + 1])
  BY <1>1, OneMore
<1>6. SubSeq(s, 1, 0) = << >> /\ SubSeq(s, 1, n) = s
  BY <1>1
<1>7. f \in [0..n -> Seq(S)]
  <2>1. ASSUME NEW k \in 0..n PROVE SubSeq(s, 1, k) \in Seq(S)
    <3>1. CASE k = n
      BY <1>6, <3>1
    <3>2. CASE k # n
      <4>1. k \in 0..(n - 1)
        BY <1>1, <3>2
      <4> QED
        BY <1>5, <4>1
    <3> QED
      BY <3>1, <3>2
  <2> QED
    BY <2>1
<1>8. ASSUME NEW k \in 1..n PROVE f[k] = f[k - 1] \o t[k]
  <2>1. k - 1 \in 0..(n - 1) /\ k - 1 \in 0..n /\ k \in 0..n /\ (k - 1) + 1 = k
    BY <1>1
  <2>2. /\ SubSeq(s, 1, k - 1) \in Seq(S) /\ s[k] \in S
        /\ SubSeq(s, 1, k) = Append(SubSeq(s, 1, k - 1), s[k])
    BY <1>5, <2>1
  <2>3. SubSeq(s, 1, k) = SubSeq(s, 1, k - 1) \o << s[k] >>
    BY <2>2, AppendIsConcat
  <2> QED
    BY <1>4, <2>1, <2>3
<1>9. f[0] = << >> /\ f[n] = s
  BY <1>1, <1>6
<1> HIDE DEF f
<1>10. t \in Seq(Seq(S)) /\ Joins(f, t, S)
  BY <1>2, <1>4, <1>7, <1>8, <1>9 DEF Joins
<1>11. FlattenSeq(t) = f[n]
  BY <1>4, <1>10, FlattenJoins
<1> QED
  BY <1>3, <1>9, <1>11

(* Joining goes on behind what has been joined. *)
LEMMA FlattenConcat ==
  ASSUME NEW S, NEW s \in Seq(Seq(S)), NEW t \in Seq(Seq(S))
  PROVE  FlattenSeq(s \o t) = FlattenSeq(s) \o FlattenSeq(t)
<1> DEFINE U(k) == SubSeq(t, 1, k)
           T == {k \in 0..Len(t) : FlattenSeq(s \o U(k)) = FlattenSeq(s) \o FlattenSeq(U(k))}
<1>1. Len(t) \in Nat /\ FlattenSeq(s) \in Seq(S)
  BY FlattenType
<1>2. 0 \in T
  <2>1. U(0) = << >>
    BY SubSeqEmpty
  <2>2. s \o << >> = s /\ FlattenSeq(s) \o << >> = FlattenSeq(s)
    BY <1>1, ConcatEmptySeq
  <2>3. FlattenSeq(s \o U(0)) = FlattenSeq(s) \o FlattenSeq(U(0))
    <3>1. s \o U(0) = s
      BY <2>1, <2>2
    <3>2. FlattenSeq(U(0)) = << >>
      BY <2>1, FlattenNothing
    <3> QED
      BY <2>2, <3>1, <3>2
  <2>4. 0 \in 0..Len(t)
    BY <1>1
  <2> HIDE DEF U
  <2> QED
    BY <2>3, <2>4
<1>3. ASSUME NEW k \in 0..(Len(t) - 1), k \in T PROVE k + 1 \in T
  <2>1. PICK u \in Seq(Seq(S)), e \in Seq(S) : u = U(k) /\ U(k + 1) = Append(u, e)
    <3>1. U(k) \in Seq(Seq(S)) /\ t[k + 1] \in Seq(S) /\ U(k + 1) = Append(U(k), t[k + 1])
      BY OneMore
    <3> QED
      BY <3>1
  <2>2. FlattenSeq(s \o u) = FlattenSeq(s) \o FlattenSeq(u)
    BY <1>3, <2>1
  <2>3. s \o Append(u, e) = Append(s \o u, e) /\ s \o u \in Seq(Seq(S))
    OBVIOUS
  <2>4. /\ FlattenSeq(Append(s \o u, e)) = FlattenSeq(s \o u) \o e
        /\ FlattenSeq(Append(u, e)) = FlattenSeq(u) \o e
    BY <2>3, FlattenAppend
  <2>5. (FlattenSeq(s) \o FlattenSeq(u)) \o e = FlattenSeq(s) \o (FlattenSeq(u) \o e)
    <3>1. PICK a \in Seq(S), b \in Seq(S) : a = FlattenSeq(s) /\ b = FlattenSeq(u)
      BY <1>1, FlattenType
    <3>2. (a \o b) \o e = a \o (b \o e)
      BY ConcatAssociative, SMTT(30)
    <3> QED
      BY <3>1, <3>2
  <2>6. FlattenSeq(s \o Append(u, e)) = FlattenSeq(s) \o FlattenSeq(Append(u, e))
    BY <2>2, <2>3, <2>4, <2>5
  <2>7. k + 1 \in 0..Len(t)
    BY <1>1
  <2> QED
    BY <2>1, <2>6, <2>7
<1> HIDE DEF T
<1>4. Len(t) \in T
  <2>1. \A k \in 0..(Len(t) - 1) : k \in T => k + 1 \in T
    BY <1>3
  <2>2. Len(t) \in 0..Len(t)
    BY <1>1
  <2> QED
    BY <1>1, <1>2, <2>1, <2>2, UpTo
<1>5. U(Len(t)) = t
  BY SubSeqFull
<1> QED
  BY <1>4, <1>5 DEF T

(* What joined sequences begin with, and what follows. *)
LEMMA FlattenHead ==
  ASSUME NEW S, NEW s \in Seq(Seq(S)), s # << >>
  PROVE  /\ Head(s) \in Seq(S) /\ Head(s) = s[1] /\ Tail(s) \in Seq(Seq(S))
         /\ FlattenSeq(Tail(s)) \in Seq(S)
         /\ FlattenSeq(s) = Head(s) \o FlattenSeq(Tail(s))
<1>1. PICK SS : SS = Seq(S)
  OBVIOUS
<1>2. PICK h \in Seq(S), t \in Seq(Seq(S)) : h = Head(s) /\ h = s[1] /\ t = Tail(s)
  <2>1. Head(s) \in SS /\ Head(s) = s[1] /\ Tail(s) \in Seq(SS)
    BY <1>1, TailElements
  <2> QED
    BY <1>1, <2>1, Zenon
<1>3. s = << h >> \o t
  <2>1. s \in Seq(SS)
    BY <1>1
  <2>2. s = << Head(s) >> \o Tail(s)
    BY ONLY <2>1, s # << >>
  <2> QED
    BY <1>2, <2>2
<1>4. << h >> \in Seq(Seq(S)) /\ FlattenSeq(<< h >>) = h
  <2>1. << >> \in Seq(Seq(S)) /\ << >> \in Seq(S)
    OBVIOUS
  <2>2. Append(<< >>, h) = << h >>
    OBVIOUS
  <2>3. FlattenSeq(Append(<< >>, h)) = FlattenSeq(<< >>) \o h
    BY ONLY <2>1, FlattenAppend, h \in Seq(S)
  <2>4. << >> \o h = h
    BY ConcatEmptySeq
  <2>5. << h >> \in Seq(SS)
    BY <1>1
  <2> QED
    BY <1>1, <2>2, <2>3, <2>4, <2>5, FlattenNothing, Zenon
<1>5. FlattenSeq(<< h >> \o t) = FlattenSeq(<< h >>) \o FlattenSeq(t)
  BY ONLY <1>4, FlattenConcat, t \in Seq(Seq(S))
<1>6. FlattenSeq(t) \in Seq(S)
  BY FlattenType
<1> QED
  BY <1>2, <1>3, <1>4, <1>5, <1>6, Zenon

(* One element more in one of them, behind which there are only empty ones.  *)
ExtendedAt(t, s, c, e) ==
  t = [s EXCEPT ![c] = Append(s[c], e)] /\ \A d \in 1..Len(s) : c < d => s[d] = << >>

(* It is one more of what they are when joined.                              *)
LEMMA FlattenLater ==
  ASSUME NEW S, NEW s \in Seq(Seq(S)), NEW c \in 1..Len(s), NEW e \in S,
         NEW t, ExtendedAt(t, s, c, e)
  PROVE  t \in Seq(Seq(S)) /\ FlattenSeq(t) = Append(FlattenSeq(s), e)
<1> USE DEF ExtendedAt
<1>1. Len(s) \in Nat /\ DOMAIN s = 1..Len(s) /\ \A k \in 1..Len(s) : s[k] \in Seq(S)
  BY ElementOfSeq
<1>2. s[c] \in Seq(S) /\ Append(s[c], e) \in Seq(S)
  BY <1>1, AppendElements
<1>3. /\ DOMAIN t = 1..Len(s) /\ t[c] = Append(s[c], e)
      /\ \A k \in 1..Len(s) : k # c => t[k] = s[k]
  BY <1>1
<1>4. t \in Seq(Seq(S)) /\ Len(t) = Len(s)
  <2>1. PICK SS : SS = Seq(S)
    OBVIOUS
  <2>2. t = [k \in 1..Len(s) |-> t[k]] /\ \A k \in 1..Len(s) : t[k] \in SS
    BY <1>1, <1>2, <1>3, <2>1
  <2>3. t \in [1..Len(s) -> SS]
    BY <1>3, <2>2
  <2>4. t \in Seq(SS)
    <3>1. t \in UNION {[1..n -> SS] : n \in Nat}
      BY <1>1, <2>3, Zenon
    <3>2. Seq(SS) = UNION {[1..n -> SS] : n \in Nat}
      BY SeqDef, Zenon
    <3> QED
      BY <3>1, <3>2, Zenon
  <2>5. Len(t) = Len(s)
    BY ONLY <1>1, <1>3, <2>4, LenProperties
  <2> QED
    BY <2>1, <2>4, <2>5
<1>5. PICK f : Joins(f, s, S)
  BY JoinsExist
<1>6. f \in [0..Len(s) -> Seq(S)] /\ f[0] = << >> /\ \A k \in 1..Len(s) : f[k] = f[k - 1] \o s[k]
  BY <1>5 DEF Joins
<1> DEFINE g == [k \in 0..Len(s) |-> IF k < c THEN f[k] ELSE Append(f[k], e)]
<1>7. g \in [0..Len(s) -> Seq(S)]
  <2> SUFFICES ASSUME NEW k \in 0..Len(s) PROVE (IF k < c THEN f[k] ELSE Append(f[k], e)) \in Seq(S)
    OBVIOUS
  <2>1. f[k] \in Seq(S)
    BY <1>6
  <2>2. Append(f[k], e) \in Seq(S)
    BY <2>1, AppendElements
  <2> QED
    BY <2>1, <2>2
<1>8. \A k \in 0..Len(s) : g[k] = IF k < c THEN f[k] ELSE Append(f[k], e)
  OBVIOUS
<1> HIDE DEF g
<1>9. g[0] = << >>
  <2>1. 0 \in 0..Len(s) /\ 0 < c
    BY <1>1
  <2> QED
    BY <1>6, <1>8, <2>1
<1>10. ASSUME NEW k \in 1..Len(s) PROVE g[k] = g[k - 1] \o t[k]
  <2>1. k \in Nat /\ c \in Nat /\ k \in 0..Len(s) /\ k - 1 \in 0..Len(s)
    BY <1>1
  <2>2. PICK a \in Seq(S), b \in Seq(S), y \in Seq(S) :
          a = f[k - 1] /\ b = f[k] /\ y = s[k] /\ b = a \o y
    BY <1>1, <1>6, <2>1
  <2>3. CASE k < c
    <3>1. k - 1 < c /\ k # c
      BY <2>1, <2>3
    <3>2. g[k - 1] = a /\ g[k] = b /\ t[k] = y
      BY <1>3, <1>8, <2>1, <2>2, <2>3, <3>1
    <3> QED
      BY <2>2, <3>2
  <2>4. CASE k = c
    <3>1. a \o Append(y, e) = Append(a \o y, e)
      BY ONLY AppendBehind, a \in Seq(S), y \in Seq(S), e \in S
    <3>2. k - 1 < c /\ ~(k < c)
      BY <2>1, <2>4
    <3>3. g[k - 1] = a /\ g[k] = Append(b, e) /\ t[k] = Append(y, e)
      BY <1>3, <1>8, <2>1, <2>2, <2>4, <3>2
    <3> QED
      BY <2>2, <3>1, <3>3
  <2>5. CASE c < k
    <3>1. ~(k < c) /\ ~(k - 1 < c) /\ k # c
      BY <2>1, <2>5
    <3>2. y = << >>
      BY <2>2, <2>5
    <3>3. a \o << >> = a /\ Append(a, e) \o << >> = Append(a, e)
      <4>1. Append(a, e) \in Seq(S)
        BY AppendElements
      <4> QED
        BY <4>1, ConcatEmptySeq
    <3>4. g[k - 1] = Append(a, e) /\ g[k] = Append(b, e) /\ t[k] = << >>
      BY <1>3, <1>8, <2>1, <2>2, <3>1, <3>2
    <3> QED
      BY <2>2, <3>2, <3>3, <3>4
  <2>6. k < c \/ k = c \/ c < k
    BY ONLY <2>1
  <2> QED
    BY <2>3, <2>4, <2>5, <2>6, Zenon
<1>11. Joins(g, t, S)
  BY <1>4, <1>7, <1>9, <1>10 DEF Joins
<1>12. FlattenSeq(t) = g[Len(s)] /\ FlattenSeq(s) = f[Len(s)]
  BY <1>4, <1>5, <1>11, FlattenJoins
<1>13. g[Len(s)] = Append(f[Len(s)], e)
  <2>1. Len(s) \in 0..Len(s) /\ ~(Len(s) < c)
    BY <1>1
  <2> QED
    BY <1>8, <2>1
<1> QED
  BY <1>4, <1>12, <1>13

(* Empty sequences joined are empty.                                         *)
LEMMA FlattenEmpty ==
  ASSUME NEW S, NEW s \in Seq(Seq(S)), \A k \in 1..Len(s) : s[k] = << >>
  PROVE  FlattenSeq(s) = << >>
<1>1. Len(s) \in Nat
  BY LenProperties
<1> DEFINE f == [k \in 0..Len(s) |-> << >>]
<1>2. << >> \in Seq(S) /\ << >> \o << >> = << >>
  OBVIOUS
<1>3. f \in [0..Len(s) -> Seq(S)] /\ \A k \in 0..Len(s) : f[k] = << >>
  BY <1>2
<1> HIDE DEF f
<1>4. 0 \in 0..Len(s) /\ Len(s) \in 0..Len(s)
      /\ \A k \in 1..Len(s) : k \in 0..Len(s) /\ k - 1 \in 0..Len(s)
  BY <1>1
<1>5. \A k \in 1..Len(s) : f[k] = f[k - 1] \o s[k]
  BY <1>2, <1>3, <1>4
<1>6. Joins(f, s, S) /\ f[Len(s)] = << >>
  BY <1>3, <1>4, <1>5 DEF Joins
<1> QED
  BY <1>6, FlattenJoins

-----------------------------------------------------------------------------
(* Taking sequences apart *)

(* A sequence is what comes first and what is left.                          *)
LEMMA Split ==
  ASSUME NEW S, NEW s \in Seq(S), NEW k \in 0..Len(s)
  PROVE  /\ SubSeq(s, 1, k) \in Seq(S) /\ Len(SubSeq(s, 1, k)) = k
         /\ SubSeq(s, k + 1, Len(s)) \in Seq(S) /\ Len(SubSeq(s, k + 1, Len(s))) = Len(s) - k
         /\ s = SubSeq(s, 1, k) \o SubSeq(s, k + 1, Len(s))
<1>1. PICK n \in Nat : n = Len(s)
  OBVIOUS
<1>2. k \in Nat /\ k <= n /\ \A i \in 1..n : s[i] \in S
  BY <1>1, ElementOfSeq
<1>3. PICK a : a = SubSeq(s, 1, k)
  OBVIOUS
<1>4. PICK b : b = SubSeq(s, k + 1, n)
  OBVIOUS
<1>5. a \in Seq(S) /\ Len(a) = k /\ \A i \in 1..k : a[i] = s[i]
  <2>1. \A i \in 1..k : s[i] \in S
    BY <1>2
  <2>2. /\ SubSeq(s, 1, k) \in Seq(S)
        /\ Len(SubSeq(s, 1, k)) = IF 1 <= k THEN k - 1 + 1 ELSE 0
        /\ \A i \in 1..(k - 1 + 1) : SubSeq(s, 1, k)[i] = s[1 + i - 1]
    BY <1>2, <2>1, SubSeqProperties
  <2> QED
    BY <1>2, <1>3, <2>2
<1>6. b \in Seq(S) /\ Len(b) = n - k /\ \A i \in 1..(n - k) : b[i] = s[k + i]
  <2>1. \A i \in (k + 1)..n : s[i] \in S
    BY <1>1, <1>2
  <2>2. /\ SubSeq(s, k + 1, n) \in Seq(S)
        /\ Len(SubSeq(s, k + 1, n)) = IF k + 1 <= n THEN n - (k + 1) + 1 ELSE 0
        /\ \A i \in 1..(n - (k + 1) + 1) : SubSeq(s, k + 1, n)[i] = s[(k + 1) + i - 1]
    BY <1>1, <1>2, <2>1, SubSeqProperties
  <2> QED
    BY <1>1, <1>2, <1>4, <2>2
<1>7. PICK c : c = a \o b
  OBVIOUS
<1>8. c \in Seq(S) /\ Len(c) = n /\ \A i \in 1..n : c[i] = IF i <= k THEN a[i] ELSE b[i - k]
  <2>1. /\ a \o b \in Seq(S) /\ Len(a \o b) = Len(a) + Len(b)
        /\ \A i \in 1 .. Len(a) + Len(b) :
             (a \o b)[i] = IF i <= Len(a) THEN a[i] ELSE b[i - Len(a)]
    BY <1>5, <1>6, ConcatProperties
  <2>2. k + (n - k) = n
    BY <1>1, <1>2
  <2> QED
    BY <1>5, <1>6, <1>7, <2>1, <2>2
<1>9. ASSUME NEW i \in 1..n PROVE c[i] = s[i]
  <2>1. CASE i <= k
    <3>1. i \in 1..k
      BY <1>2, <2>1
    <3> QED
      BY <1>5, <1>8, <2>1, <3>1
  <2>2. CASE ~(i <= k)
    <3>1. i - k \in 1..(n - k) /\ k + (i - k) = i
      BY <1>1, <1>2, <2>2
    <3>2. b[i - k] = s[k + (i - k)]
      BY <1>6, <3>1
    <3> QED
      BY <1>8, <2>2, <3>1, <3>2
  <2> QED
    BY <2>1, <2>2
<1>10. c = s
  BY <1>1, <1>8, <1>9, SeqEqual
<1> QED
  BY <1>1, <1>3, <1>4, <1>5, <1>6, <1>7, <1>10

(* What stands behind the same beginning is the same.                        *)
LEMMA SameBehind ==
  ASSUME NEW S, NEW a \in Seq(S), NEW b \in Seq(S), NEW c \in Seq(S), a \o b = a \o c
  PROVE  b = c
<1>1. PICK k \in Nat, m \in Nat, n \in Nat : k = Len(a) /\ m = Len(b) /\ n = Len(c)
  BY LenProperties
<1>2. /\ Len(a \o b) = k + m
      /\ \A i \in 1 .. k + m : (a \o b)[i] = IF i <= k THEN a[i] ELSE b[i - k]
  BY <1>1, ConcatProperties
<1>3. /\ Len(a \o c) = k + n
      /\ \A i \in 1 .. k + n : (a \o c)[i] = IF i <= k THEN a[i] ELSE c[i - k]
  BY <1>1, ConcatProperties
<1>4. m = n
  BY <1>2, <1>3
<1>5. ASSUME NEW i \in 1..m PROVE b[i] = c[i]
  <2>1. k + i \in 1 .. k + m /\ ~(k + i <= k) /\ (k + i) - k = i
    OBVIOUS
  <2> QED
    BY <1>2, <1>3, <1>4, <2>1
<1> QED
  BY <1>1, <1>4, <1>5, SeqEqual

(* Of two ways to put the same together, the longer beginning goes on where  *)
(* the shorter one ends.                                                     *)
SameJoined(a, b, c, d) == a \o b = c \o d

GoesOn(a, b, c, d, S) == \E e \in Seq(S) : c = a \o e /\ b = e \o d

(* If two joined sequences are the same, the longer first part goes on from the*)
(* shorter one.                                                             *)
LEMMA LongerBegins ==
  ASSUME NEW S, NEW a \in Seq(S), NEW b \in Seq(S), NEW c \in Seq(S), NEW d \in Seq(S),
         SameJoined(a, b, c, d), Len(a) <= Len(c)
  PROVE  GoesOn(a, b, c, d, S)
<1>1. PICK k \in Nat, m \in Nat : k = Len(a) /\ m = Len(c) /\ k <= m
  BY LenProperties
<1>2. PICK u \in Seq(S), e \in Seq(S) : Len(u) = k /\ c = u \o e
  <2>1. k \in 0..Len(c)
    BY <1>1
  <2>2. /\ SubSeq(c, 1, k) \in Seq(S) /\ Len(SubSeq(c, 1, k)) = k
        /\ SubSeq(c, k + 1, Len(c)) \in Seq(S)
        /\ c = SubSeq(c, 1, k) \o SubSeq(c, k + 1, Len(c))
    BY <2>1, Split
  <2> QED
    BY ONLY <2>2
<1>3. PICK x : x = a \o b /\ x = c \o d
  BY DEF SameJoined
<1>4. \A i \in 1..k : x[i] = a[i]
  <2>1. \A i \in 1 .. Len(a) + Len(b) :
          (a \o b)[i] = IF i <= Len(a) THEN a[i] ELSE b[i - Len(a)]
    BY ConcatProperties
  <2>2. Len(b) \in Nat
    BY LenProperties
  <2> QED
    BY <1>1, <1>3, <2>1, <2>2, SMTT(30)
<1>5. \A i \in 1..m : x[i] = c[i]
  <2>1. \A i \in 1 .. Len(c) + Len(d) :
          (c \o d)[i] = IF i <= Len(c) THEN c[i] ELSE d[i - Len(c)]
    BY ConcatProperties
  <2>2. Len(d) \in Nat
    BY LenProperties
  <2> QED
    BY <1>1, <1>3, <2>1, <2>2
<1>6. \A i \in 1..k : u[i] = c[i]
  <2>1. \A i \in 1 .. Len(u) + Len(e) :
          (u \o e)[i] = IF i <= Len(u) THEN u[i] ELSE e[i - Len(u)]
    BY ConcatProperties
  <2>2. Len(e) \in Nat
    BY LenProperties
  <2> QED
    BY <1>2, <2>1, <2>2
<1>7. u = a
  <2>1. ASSUME NEW i \in 1..k PROVE u[i] = a[i]
    <3>1. i \in 1..m
      BY <1>1
    <3> QED
      BY <1>4, <1>5, <1>6, <3>1
  <2> QED
    BY <1>1, <1>2, <2>1, SeqEqual
<1>8. a \o b = a \o (e \o d)
  <2>1. a \in Seq(S) /\ e \in Seq(S) /\ d \in Seq(S)
    OBVIOUS
  <2>2. (a \o e) \o d = a \o (e \o d)
    BY ONLY <2>1, ConcatAssociative, SMTT(30)
  <2> QED
    BY <1>2, <1>7, <2>2 DEF SameJoined
<1>9. e \o d \in Seq(S)
  BY ConcatProperties
<1>10. b = e \o d
  BY <1>8, <1>9, SameBehind
<1> QED
  BY <1>2, <1>7, <1>10 DEF GoesOn

(* The two parts of what has been put together.                              *)
LEMMA Parts ==
  ASSUME NEW S, NEW a \in Seq(S), NEW c \in Seq(S)
  PROVE  /\ SubSeq(a \o c, 1, Len(a)) = a
         /\ SubSeq(a \o c, Len(a) + 1, Len(a \o c)) = c
<1>1. PICK s \in Seq(S), k \in Nat : s = a \o c /\ k = Len(a) /\ k \in 0..Len(s)
  <2>1. a \o c \in Seq(S) /\ Len(a \o c) = Len(a) + Len(c)
    BY ConcatProperties
  <2>2. Len(a) \in Nat /\ Len(c) \in Nat
    BY LenProperties
  <2>3. Len(a) \in 0..Len(a \o c)
    BY <2>1, <2>2
  <2> QED
    BY ONLY <2>1, <2>2, <2>3
<1>2. PICK u \in Seq(S), v \in Seq(S) :
        u = SubSeq(s, 1, k) /\ v = SubSeq(s, k + 1, Len(s)) /\ s = u \o v /\ Len(u) = k
  <2>1. /\ SubSeq(s, 1, k) \in Seq(S) /\ Len(SubSeq(s, 1, k)) = k
        /\ SubSeq(s, k + 1, Len(s)) \in Seq(S)
        /\ s = SubSeq(s, 1, k) \o SubSeq(s, k + 1, Len(s))
    BY <1>1, Split
  <2> QED
    BY ONLY <2>1
<1>3. SameJoined(u, v, a, c) /\ Len(u) <= Len(a)
  <2>1. u \o v = a \o c
    BY <1>1, <1>2
  <2>2. Len(u) <= Len(a)
    BY <1>1, <1>2
  <2> QED
    BY <2>1, <2>2 DEF SameJoined
<1>4. GoesOn(u, v, a, c, S)
  BY <1>3, LongerBegins
<1>5. PICK e \in Seq(S) : a = u \o e /\ v = e \o c
  BY <1>4 DEF GoesOn
<1>6. e = << >>
  <2>1. Len(u \o e) = Len(u) + Len(e) /\ Len(e) \in Nat
    BY ConcatProperties, LenProperties
  <2>2. Len(u) = Len(u \o e) /\ Len(u) \in Nat
    BY ONLY <1>1, <1>2, <1>5, Zenon
  <2>3. Len(e) = 0
    BY ONLY <2>1, <2>2
  <2> QED
    BY ONLY <2>3, EmptySeq, e \in Seq(S)
<1>7. a = u /\ v = c
  <2>1. u \o << >> = u /\ << >> \o c = c
    BY ConcatEmptySeq
  <2> QED
    BY <1>5, <1>6, <2>1
<1> QED
  BY <1>1, <1>2, <1>7

(* What follows the first of two sequences' first element.                   *)
LEMMA TailOfJoined ==
  ASSUME NEW S, NEW a \in Seq(S), NEW b \in Seq(S), a # << >>
  PROVE  Tail(a \o b) = Tail(a) \o b
<1>1. PICK h \in S, t \in Seq(S) : h = Head(a) /\ t = Tail(a) /\ a = << h >> \o t
  <2>1. Head(a) \in S /\ Tail(a) \in Seq(S)
    BY TailElements
  <2>2. a = << Head(a) >> \o Tail(a)
    OBVIOUS
  <2> QED
    BY <2>1, <2>2
<1>2. << h >> \in Seq(S) /\ t \o b \in Seq(S)
  BY ConcatProperties
<1>3. a \o b = << h >> \o (t \o b)
  BY <1>1, <1>2, ConcatAssociative
<1>4. Tail(<< h >> \o (t \o b)) = t \o b
  BY ONLY <1>2
<1> QED
  BY <1>1, <1>3, <1>4

(* What is left when k elements have been taken, and when one more has.      *)
LEMMA TailOfRest ==
  ASSUME NEW S, NEW s \in Seq(S), NEW k \in 0..(Len(s) - 1)
  PROVE  /\ SubSeq(s, k + 1, Len(s)) # << >>
         /\ Tail(SubSeq(s, k + 1, Len(s))) = SubSeq(s, (k + 1) + 1, Len(s))
<1>1. Len(s) \in Nat
  BY LenProperties
<1>2. PICK m \in 1..Len(s), n \in Nat : m = k + 1 /\ n = Len(s) /\ n \in m..Len(s)
  BY <1>1
<1>3. Tail(SubSeq(s, m, n)) = SubSeq(s, m + 1, n)
  BY <1>2, HeadTailOfSubSeq
<1>4. SubSeq(s, k + 1, Len(s)) # << >>
  <2>1. k \in 0..Len(s)
    BY <1>1
  <2>2. Len(SubSeq(s, k + 1, Len(s))) = Len(s) - k
    BY <2>1, Split
  <2>3. Len(<< >>) = 0 /\ Len(s) - k # 0
    BY <1>1
  <2> QED
    BY <2>2, <2>3
<1> QED
  BY <1>2, <1>3, <1>4

-----------------------------------------------------------------------------
(* Messages that count *)

(* Of the messages of a queue those in R count, and have an id: the ids, and *)
(* that they rise.                                                           *)
IdsIn(s, R) == {s[i].id : i \in {j \in DOMAIN s : s[j] \in R}}

RisingIn(s, R) ==
  \A i, j \in DOMAIN s : i < j /\ s[i] \in R /\ s[j] \in R => s[i].id < s[j].id

IdIn(m, R) == IF m \in R THEN {m.id} ELSE {}

(* Those that count, when the first message is taken.                        *)
LEMMA IdsOfTail ==
  ASSUME NEW S, NEW R, NEW s \in Seq(S), s # << >>, RisingIn(s, R)
  PROVE  /\ IdsIn(s, R) = IdIn(Head(s), R) \cup IdsIn(Tail(s), R)
         /\ RisingIn(Tail(s), R)
         /\ \A x \in IdIn(Head(s), R), y \in IdsIn(Tail(s), R) : x < y
<1> DEFINE t == Tail(s)
<1>1. /\ Head(s) = s[1] /\ Len(s) \in Nat \ {0} /\ DOMAIN s = 1..Len(s)
      /\ DOMAIN t = 1..(Len(s) - 1)
      /\ \A i \in 1..(Len(s) - 1) : t[i] = s[i + 1]
  BY TailElements
<1> HIDE DEF t
<1>2. RisingIn(t, R)
  <2> SUFFICES ASSUME NEW i \in DOMAIN t, NEW j \in DOMAIN t,
                      i < j, t[i] \in R, t[j] \in R
               PROVE  t[i].id < t[j].id
    BY DEF RisingIn
  <2>1. /\ i + 1 \in DOMAIN s /\ j + 1 \in DOMAIN s /\ i + 1 < j + 1
        /\ t[i] = s[i + 1] /\ t[j] = s[j + 1]
    BY <1>1
  <2> QED
    BY <2>1 DEF RisingIn
<1>3. ASSUME NEW x \in IdsIn(s, R) PROVE x \in IdIn(s[1], R) \cup IdsIn(t, R)
  <2>1. PICK i \in 1..Len(s) : s[i] \in R /\ x = s[i].id
    BY <1>1 DEF IdsIn
  <2>2. CASE i = 1
    BY <2>1, <2>2 DEF IdIn
  <2>3. CASE i # 1
    <3>1. i - 1 \in 1..(Len(s) - 1) /\ t[i - 1] = s[i]
      BY <1>1, <2>1, <2>3
    <3> QED
      BY <1>1, <2>1, <3>1 DEF IdsIn
  <2> QED
    BY <2>2, <2>3
<1>4. ASSUME NEW y \in IdsIn(t, R)
      PROVE  y \in IdsIn(s, R) /\ \A x \in IdIn(s[1], R) : x < y
  <2>1. PICK i \in 1..(Len(s) - 1) : t[i] \in R /\ y = t[i].id
    BY <1>1 DEF IdsIn
  <2>2. i + 1 \in DOMAIN s /\ 1 \in DOMAIN s /\ 1 < i + 1 /\ t[i] = s[i + 1]
    BY <1>1, <2>1
  <2> QED
    BY <2>1, <2>2 DEF IdsIn, IdIn, RisingIn
<1>5. IdIn(s[1], R) \subseteq IdsIn(s, R)
  BY <1>1 DEF IdIn, IdsIn
<1> QED
  BY <1>1, <1>2, <1>3, <1>4, <1>5 DEF t

(* Those that count, when one that comes after them is put behind.           *)
LEMMA IdsOfAppend ==
  ASSUME NEW S, NEW R, NEW s \in Seq(S), NEW m \in S, RisingIn(s, R),
         \A x \in IdsIn(s, R), y \in IdIn(m, R) : x < y
  PROVE  IdsIn(Append(s, m), R) = IdsIn(s, R) \cup IdIn(m, R) /\ RisingIn(Append(s, m), R)
<1> DEFINE t == Append(s, m)
<1>1. /\ Len(s) \in Nat /\ DOMAIN s = 1..Len(s) /\ DOMAIN t = 1..(Len(s) + 1)
      /\ \A i \in 1..Len(s) : t[i] = s[i]
      /\ t[Len(s) + 1] = m
  BY AppendElements
<1> HIDE DEF t
<1>2. ASSUME NEW x \in IdsIn(t, R) PROVE x \in IdsIn(s, R) \cup IdIn(m, R)
  <2>1. PICK i \in 1..(Len(s) + 1) : t[i] \in R /\ x = t[i].id
    BY <1>1 DEF IdsIn
  <2>2. CASE i = Len(s) + 1
    BY <1>1, <2>1, <2>2 DEF IdIn
  <2>3. CASE i # Len(s) + 1
    BY <1>1, <2>1, <2>3 DEF IdsIn
  <2> QED
    BY <2>2, <2>3
<1>3. IdsIn(s, R) \subseteq IdsIn(t, R)
  BY <1>1 DEF IdsIn
<1>4. IdIn(m, R) \subseteq IdsIn(t, R)
  BY <1>1 DEF IdsIn, IdIn
<1>5. RisingIn(t, R)
  <2> SUFFICES ASSUME NEW i \in 1..(Len(s) + 1), NEW j \in 1..(Len(s) + 1), i < j,
                      t[i] \in R, t[j] \in R
               PROVE  t[i].id < t[j].id
    BY <1>1 DEF RisingIn
  <2>1. i \in DOMAIN s /\ t[i] = s[i]
    BY <1>1
  <2>2. CASE j = Len(s) + 1
    BY <1>1, <2>1, <2>2 DEF IdsIn, IdIn
  <2>3. CASE j # Len(s) + 1
    BY <1>1, <2>1, <2>3 DEF RisingIn
  <2> QED
    BY <2>2, <2>3
<1> QED
  BY <1>2, <1>3, <1>4, <1>5 DEF t

(* Those that count, when one message is lost.                               *)
LEMMA IdsOfRemoveAt ==
  ASSUME NEW S, NEW R, NEW s \in Seq(S), NEW i \in DOMAIN s, RisingIn(s, R)
  PROVE  IdsIn(RemoveAt(s, i), R) \subseteq IdsIn(s, R) /\ RisingIn(RemoveAt(s, i), R)
<1> DEFINE t == RemoveAt(s, i)
<1>1. Len(s) \in Nat /\ i \in Nat /\ DOMAIN s = 1..Len(s) /\ i \in 1..Len(s)
  OBVIOUS
<1>2. /\ t \in Seq(S) /\ Len(t) = Len(s) - 1
      /\ \A j \in 1..(Len(s) - 1) : t[j] = IF j < i THEN s[j] ELSE s[j + 1]
  BY <1>1, RemoveAtElements
<1>3. /\ Len(s) \in Nat /\ i \in Nat /\ DOMAIN s = 1..Len(s) /\ DOMAIN t = 1..(Len(s) - 1)
      /\ \A j \in 1..(Len(s) - 1) : t[j] = IF j < i THEN s[j] ELSE s[j + 1]
  <2> HIDE DEF t
  <2> QED
    BY <1>1, <1>2
<1> HIDE DEF t
<1>4. ASSUME NEW x \in IdsIn(t, R) PROVE x \in IdsIn(s, R)
  <2>1. PICK j \in 1..(Len(s) - 1) : t[j] \in R /\ x = t[j].id
    BY <1>3 DEF IdsIn
  <2>2. \E k \in DOMAIN s : t[j] = s[k]
    BY <1>3, <2>1
  <2> QED
    BY <2>1, <2>2 DEF IdsIn
<1>5. RisingIn(t, R)
  <2> SUFFICES ASSUME NEW j \in 1..(Len(s) - 1), NEW k \in 1..(Len(s) - 1), j < k,
                      t[j] \in R, t[k] \in R
               PROVE  t[j].id < t[k].id
    BY <1>3 DEF RisingIn
  <2>1. PICK a \in DOMAIN s, b \in DOMAIN s : a < b /\ t[j] = s[a] /\ t[k] = s[b]
    <3>1. CASE k < i
      BY <1>3, <3>1
    <3>2. CASE j < i /\ ~(k < i)
      BY <1>3, <3>2
    <3>3. CASE ~(j < i)
      BY <1>3, <3>3
    <3> QED
      BY <1>3, <3>1, <3>2, <3>3
  <2> QED
    BY <2>1 DEF RisingIn
<1> QED
  BY <1>4, <1>5 DEF t

(* A number put behind smaller ones that rise.                               *)
LEMMA StoredBehind ==
  ASSUME NEW saved \in Seq(Nat), NEW n \in Nat, \A x \in ToSet(saved) : x < n,
         \A i, j \in DOMAIN saved : i < j => saved[i] < saved[j],
         NEW t, t = Append(saved, n)
  PROVE  /\ ToSet(t) = ToSet(saved) \cup {n}
         /\ \A i, j \in DOMAIN t : i < j => t[i] < t[j]
<1>1. /\ Len(saved) \in Nat /\ DOMAIN saved = 1..Len(saved) /\ DOMAIN t = 1..(Len(saved) + 1)
      /\ \A i \in 1..Len(saved) : t[i] = saved[i]
      /\ t[Len(saved) + 1] = n
  BY AppendElements
<1>2. ToSet(t) = ToSet(saved) \cup {n}
  BY <1>1 DEF ToSet
<1>3. ASSUME NEW i \in 1..(Len(saved) + 1), NEW j \in 1..(Len(saved) + 1), i < j
      PROVE  t[i] < t[j]
  <2>1. i \in DOMAIN saved /\ t[i] = saved[i] /\ saved[i] \in ToSet(saved)
    BY <1>1, <1>3 DEF ToSet
  <2>2. CASE j = Len(saved) + 1
    BY <1>1, <2>1, <2>2
  <2>3. CASE j # Len(saved) + 1
    BY <1>1, <1>3, <2>1, <2>3
  <2> QED
    BY <2>2, <2>3
<1> QED
  BY <1>1, <1>2, <1>3

(* Reports that are stored in the order in which they are made: those stored *)
(* come before those to be read, those before the ones on their way.         *)
Sorted(stored, unread, underWay, n) ==
  /\ \A x \in stored, y \in unread \cup underWay : x < y
  /\ \A x \in unread, y \in underWay : x < y
  /\ \A x \in stored \cup unread \cup underWay : x \in Nat /\ x <= n

=============================================================================
