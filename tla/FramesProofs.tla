----------------------------- MODULE FramesProofs -----------------------------
(***************************************************************************)
(* What the frames, the Bluetooth framing and the codecs do to every       *)
(* sequence of bytes that fits a frame.  A response reads the same over    *)
(* both transports; a request goes out as it was built but for its source; *)
(* no frame is both a response and a push; the segments of a notification, *)
(* the varints and the fields of a message come back as they were sent.    *)
(*                                                                         *)
(* The loops of the decoders are recursive functions.  What they collect   *)
(* is proved by induction in the form of sets of numbers (Induct), from    *)
(* the position at which a loop stands to the end of the buffer.           *)
(***************************************************************************)
EXTENDS Frames, Proto3, FiniteSetTheorems, SequenceTheorems, WellFoundedInduction, TLAPS

Byte == 0..255

\* What a frame carries: its length byte counts to 255.
Bodies == {b \in Seq(Byte) : Len(b) < 256}

-----------------------------------------------------------------------------
(***************************************************************************)
(* Induction, as facts about sets of numbers; and the loops.               *)
(***************************************************************************)
(* A set of numbers that is not empty has a least element.                *)
LEMMA Least ==
    ASSUME NEW T \in SUBSET Nat, T # {}
    PROVE  \E n \in T : \A m \in T : n <= m
<1> DEFINE R == OpToRel(<, Nat)
<1>1. IsWellFoundedOn(R, Nat)
  BY NatLessThanWellFounded
<1>2. \A x, y \in Nat : <<x, y>> \in R <=> x < y
  BY DEF OpToRel
<1> HIDE DEF R
<1>3. PICK n \in T : \A m \in T : ~(<<m, n>> \in R)
  BY <1>1, WFMin
<1>4. n \in Nat /\ \A m \in T : m \in Nat /\ ~(m < n)
  BY <1>2, <1>3
<1> QED BY <1>4

(* Induction over the numbers, for the elements of a set.                  *)
LEMMA Induct ==
    ASSUME NEW T, 0 \in T, \A n \in Nat : n \in T => n + 1 \in T
    PROVE  Nat \subseteq T
<1> DEFINE U == Nat \ T
<1>1. CASE U = {}
  BY <1>1
<1>2. CASE U # {}
  <2>1. PICK n \in U : \A m \in U : n <= m
    BY <1>2, Least
  <2>2. n # 0 /\ n - 1 \in Nat /\ n - 1 \in T
    BY <2>1
  <2>3. n - 1 + 1 \in T
    BY <2>2
  <2> QED BY <2>1, <2>3
<1> QED BY <1>1, <1>2

(* Induction from all the smaller numbers.                                 *)
LEMMA StrongInduct ==
    ASSUME NEW T, \A n \in Nat : (\A m \in Nat : m < n => m \in T) => n \in T
    PROVE  Nat \subseteq T
<1> DEFINE U == Nat \ T
<1>1. CASE U = {}
  BY <1>1
<1>2. CASE U # {}
  <2>1. PICK n \in U : \A m \in U : n <= m
    BY <1>2, Least
  <2>2. \A m \in Nat : m < n => m \in T
    BY <2>1
  <2> QED BY <2>1, <2>2
<1> QED BY <1>1, <1>2

\* A loop over n positions never goes back, so it ends.
Advances(read, n) ==
    /\ n \in Nat /\ DOMAIN read = 1..n
    /\ \A k \in 1..n : read[k].next \in Nat /\ (read[k].next = 0 \/ read[k].next > k)

(* A loop takes a step where it stands and then goes on: the recursive     *)
(* function is defined at every position.                                  *)
LEMMA WalkUnfolds ==
    ASSUME NEW n, NEW read, Advances(read, n)
    PROVE  /\ \A i \in 1..n : Walk(read, i) = read[i].found \o Walk(read, read[i].next)
           /\ \A i \in Nat : i \notin 1..n => Walk(read, i) = <<>>
<1> DEFINE Step(f, k) == IF k \in DOMAIN read THEN read[k].found \o f[read[k].next] ELSE <<>>
           F == CHOOSE f : f = [k \in Nat |-> Step(f, k)]
           T == {m \in Nat : \E f : /\ f = [k \in Nat |-> f[k]]
                                    /\ \A k \in Nat : k > n - m \/ k = 0 => f[k] = Step(f, k)}
<1>0. n \in Nat /\ DOMAIN read = 1..n
  BY DEF Advances
<1>1. \A k \in 1..n : read[k].next \in Nat /\ (read[k].next = 0 \/ read[k].next > k)
  BY DEF Advances
<1>2. 0 \in T
  <2> DEFINE f == [k \in Nat |-> <<>>]
  <2>1. \A k \in Nat : k > n - 0 \/ k = 0 => f[k] = Step(f, k)
    BY <1>0, <1>1
  <2>2. f = [k \in Nat |-> f[k]]
    OBVIOUS
  <2> QED BY <2>1, <2>2
<1>3. ASSUME NEW m \in Nat, m \in T PROVE m + 1 \in T
  <2>1. PICK f : /\ f = [k \in Nat |-> f[k]]
                 /\ \A k \in Nat : k > n - m \/ k = 0 => f[k] = Step(f, k)
    BY <1>3
  <2> DEFINE g == [k \in Nat |-> IF k = n - m /\ k # 0 THEN Step(f, k) ELSE f[k]]
  <2>2. g = [k \in Nat |-> g[k]]
    OBVIOUS
  <2>3. ASSUME NEW k \in Nat, k > n - (m + 1) \/ k = 0 PROVE g[k] = Step(g, k)
    <3>1. CASE k \notin 1..n
      <4>1. Step(f, k) = <<>> /\ Step(g, k) = <<>>
        BY <1>0, <1>1, <3>1
      <4>2. f[k] = <<>> \/ (k = n - m /\ k # 0)
        <5>1. k = 0 \/ k > n - m \/ (k = n - m /\ k # 0)
          BY <1>0, <1>1, <2>3
        <5> HIDE DEF Step
        <5> QED BY <2>1, <4>1, <5>1
      <4>3. g[k] = <<>>
        <5> HIDE DEF Step
        <5> QED BY <4>1, <4>2
      <4> QED BY <4>1, <4>3
    <3>2. CASE k \in 1..n
      <4>1. read[k].next \in Nat /\ ~(read[k].next = n - m /\ read[k].next # 0)
        <5>1. k >= n - m
          BY <1>0, <2>3, <3>2
        <5>2. read[k].next \in Nat /\ (read[k].next = 0 \/ read[k].next > k)
          BY <1>1, <3>2
        <5> QED BY <1>0, <5>1, <5>2
      <4>2. g[read[k].next] = f[read[k].next]
        BY <4>1
      <4>3. Step(g, k) = Step(f, k)
        BY <1>0, <1>1, <3>2, <4>2
      <4>4. g[k] = Step(f, k)
        <5>1. k > n - m \/ (k = n - m /\ k # 0)
          BY <1>0, <2>3, <3>2
        <5> HIDE DEF Step
        <5> QED BY <2>1, <5>1
      <4> QED BY <4>3, <4>4
    <3> QED BY <3>1, <3>2
  <2>4. \E h : /\ h = [k \in Nat |-> h[k]]
               /\ \A k \in Nat : k > n - (m + 1) \/ k = 0 => h[k] = Step(h, k)
    <3> HIDE DEF g, Step
    <3> QED BY <2>2, <2>3
  <2>5. m + 1 \in Nat
    OBVIOUS
  <2> HIDE DEF Step
  <2> QED BY <2>4, <2>5
<1>4. n \in T
  <2> HIDE DEF T
  <2>1. Nat \subseteq T
    BY <1>2, <1>3, Induct
  <2> QED BY <1>0, <1>1, <2>1
<1>5. \E f : f = [k \in Nat |-> Step(f, k)]
  <2>1. PICK f : /\ f = [k \in Nat |-> f[k]]
                 /\ \A k \in Nat : k > n - n \/ k = 0 => f[k] = Step(f, k)
    BY <1>4
  <2> HIDE DEF Step
  <2>2. \A k \in Nat : f[k] = Step(f, k)
    <3>1. \A k \in Nat : k > n - n \/ k = 0
      BY <1>0
    <3> QED BY <2>1, <3>1
  <2>3. f = [k \in Nat |-> Step(f, k)]
    BY <2>1, <2>2
  <2> QED BY <2>3
<1>6. F = [k \in Nat |-> Step(F, k)]
  <2> HIDE DEF Step
  <2> QED BY <1>5
<1>7. \A i : Walk(read, i) = F[i]
  BY DEF Walk
<1>8. \A i \in Nat : F[i] = Step(F, i)
  <2> HIDE DEF Step, F
  <2> QED BY <1>6
<1>9. \A i \in 1..n : Step(F, i) = read[i].found \o F[read[i].next]
  BY <1>0, <1>1
<1>10. \A i \in Nat : i \notin 1..n => Step(F, i) = <<>>
  BY <1>0, <1>1
<1> HIDE DEF F, Step, T
<1>11. \A i \in 1..n : i \in Nat
  BY <1>0
<1> QED BY <1>7, <1>8, <1>9, <1>10, <1>11

(* Induction from the end of a range to its start.                         *)
LEMMA InductDown ==
    ASSUME NEW n \in Nat, NEW T, n + 1 \in T, \A k \in 1..n : k + 1 \in T => k \in T
    PROVE  \A k \in 1..(n + 1) : k \in T
<1> DEFINE U == {m \in Nat : m > n \/ n + 1 - m \in T}
<1>1. 0 \in U
  OBVIOUS
<1>2. ASSUME NEW m \in Nat, m \in U PROVE m + 1 \in U
  <2>1. CASE m + 1 > n
    BY <2>1
  <2>2. CASE m + 1 <= n
    <3>1. n - m \in 1..n /\ n - m + 1 = n + 1 - m /\ n + 1 - (m + 1) = n - m
      BY <2>2
    <3>2. n - m + 1 \in T
      BY <1>2, <2>2, <3>1
    <3> QED BY <3>1, <3>2
  <2> QED BY <2>1, <2>2
<1>3. Nat \subseteq U
  <2> HIDE DEF U
  <2> QED BY <1>1, <1>2, Induct
<1>4. ASSUME NEW k \in 1..(n + 1) PROVE k \in T
  <2>1. n + 1 - k \in Nat /\ n + 1 - (n + 1 - k) = k /\ ~(n + 1 - k > n)
    OBVIOUS
  <2>2. n + 1 - k \in U
    BY <1>3, <2>1
  <2> QED BY <2>1, <2>2
<1> QED BY <1>4

(* A loop that keeps parts of a kind collects a sequence of that kind.     *)
LEMMA WalkType ==
    ASSUME NEW S, NEW n, NEW read, Advances(read, n), \A k \in 1..n : read[k].found \in Seq(S)
    PROVE  \A i \in Nat : Walk(read, i) \in Seq(S)
<1> DEFINE U == {m \in Nat : \A i \in Nat : i \notin 1..n \/ i + m >= n + 1 => Walk(read, i) \in Seq(S)}
<1>0. n \in Nat /\ \A k \in 1..n : read[k].next \in Nat /\ (read[k].next = 0 \/ read[k].next > k)
  BY DEF Advances
<1>1. /\ \A i \in 1..n : Walk(read, i) = read[i].found \o Walk(read, read[i].next)
      /\ \A i \in Nat : i \notin 1..n => Walk(read, i) = <<>>
  BY WalkUnfolds
<1>2. 0 \in U
  <2>1. \A i \in Nat : i \notin 1..n \/ i + 0 >= n + 1 => i \notin 1..n
    BY <1>0
  <2>2. <<>> \in Seq(S)
    BY EmptySeq
  <2> QED BY <1>1, <2>1, <2>2
<1>3. ASSUME NEW m \in Nat, m \in U PROVE m + 1 \in U
  <2>1. ASSUME NEW i \in 1..n, i + (m + 1) >= n + 1 PROVE Walk(read, i) \in Seq(S)
    <3>1. read[i].next \in Nat /\ (read[i].next \notin 1..n \/ read[i].next + m >= n + 1)
      BY <1>0, <2>1
    <3>2. Walk(read, read[i].next) \in Seq(S)
      BY <1>3, <3>1
    <3>3. read[i].found \o Walk(read, read[i].next) \in Seq(S)
      BY <3>2, ConcatProperties
    <3> QED BY <1>1, <3>3
  <2>2. ASSUME NEW i \in Nat, i \notin 1..n PROVE Walk(read, i) \in Seq(S)
    BY <1>1, <2>2, EmptySeq
  <2> QED BY <2>1, <2>2
<1>4. n \in U
  <2> HIDE DEF U
  <2>1. Nat \subseteq U
    BY <1>2, <1>3, Induct
  <2> QED BY <1>0, <2>1
<1>5. ASSUME NEW i \in Nat PROVE i \notin 1..n \/ i + n >= n + 1
  BY <1>0
<1> QED BY <1>4, <1>5

\* The parts from the k-th on, one after the other.
Rest(parts, k) == Walk([j \in DOMAIN parts |-> [found |-> parts[j], next |-> j + 1]], k)

(* Flatten takes the parts one by one.                                     *)
LEMMA FlattenUnfolds ==
    ASSUME NEW S, NEW n \in Nat, NEW parts, DOMAIN parts = 1..n, \A k \in 1..n : parts[k] \in Seq(S)
    PROVE  /\ Flatten(parts) = Rest(parts, 1)
           /\ \A k \in 1..n : Rest(parts, k) = parts[k] \o Rest(parts, k + 1)
           /\ Rest(parts, n + 1) = <<>>
           /\ \A k \in Nat : Rest(parts, k) \in Seq(S)
<1> DEFINE read == [j \in DOMAIN parts |-> [found |-> parts[j], next |-> j + 1]]
<1>1. \A k \in 1..n : read[k].found = parts[k] /\ read[k].next = k + 1
  OBVIOUS
<1>2. Advances(read, n)
  BY <1>1 DEF Advances
<1>3. \A k : Rest(parts, k) = Walk(read, k)
  BY DEF Rest
<1>4. Flatten(parts) = Walk(read, 1)
  BY DEF Flatten
<1> HIDE DEF read
<1>5. /\ \A i \in 1..n : Walk(read, i) = read[i].found \o Walk(read, read[i].next)
      /\ \A i \in Nat : i \notin 1..n => Walk(read, i) = <<>>
  BY <1>2, WalkUnfolds
<1>6. \A i \in Nat : Walk(read, i) \in Seq(S)
  BY <1>1, <1>2, WalkType
<1>7. n + 1 \in Nat /\ n + 1 \notin 1..n
  OBVIOUS
<1>8. \A k \in 1..n : Walk(read, k) = parts[k] \o Walk(read, k + 1)
  BY <1>1, <1>5
<1> QED BY <1>3, <1>4, <1>5, <1>6, <1>7, <1>8

(* The same for a sequence of sequences.                                   *)
LEMMA FlattenOfSeq ==
    ASSUME NEW S, NEW ps \in Seq(Seq(S))
    PROVE  /\ Len(ps) \in Nat /\ Flatten(ps) \in Seq(S)
           /\ Flatten(ps) = Rest(ps, 1)
           /\ \A k \in 1..Len(ps) : Rest(ps, k) = ps[k] \o Rest(ps, k + 1)
           /\ Rest(ps, Len(ps) + 1) = <<>>
           /\ \A k \in 1..(Len(ps) + 1) : Rest(ps, k) \in Seq(S)
<1>1. Len(ps) \in Nat /\ DOMAIN ps = 1..Len(ps) /\ \A k \in 1..Len(ps) : ps[k] \in Seq(S)
  BY LenProperties, ElementOfSeq
<1>2. 1 \in Nat /\ \A k \in 1..(Len(ps) + 1) : k \in Nat
  BY <1>1
<1> DEFINE n == Len(ps)
<1>3. /\ Flatten(ps) = Rest(ps, 1)
      /\ \A k \in 1..n : Rest(ps, k) = ps[k] \o Rest(ps, k + 1)
      /\ Rest(ps, n + 1) = <<>>
      /\ \A k \in Nat : Rest(ps, k) \in Seq(S)
  <2> HIDE DEF n
  <2>1. n \in Nat /\ DOMAIN ps = 1..n /\ \A k \in 1..n : ps[k] \in Seq(S)
    BY <1>1 DEF n
  <2> QED BY <2>1, FlattenUnfolds
<1> QED BY <1>1, <1>2, <1>3

(* What is flattened can be cut into two.                                  *)
LEMMA FlattenConcat ==
    ASSUME NEW S, NEW ps \in Seq(Seq(S)), NEW qs \in Seq(Seq(S))
    PROVE  Flatten(ps \o qs) = Flatten(ps) \o Flatten(qs)
<1> DEFINE m == Len(ps)
           n == Len(qs)
           all == ps \o qs
           After == {j \in 1..(n + 1) : Rest(all, m + j) = Rest(qs, j)}
           Before == {k \in 1..(m + 1) : Rest(all, k) = Rest(ps, k) \o Flatten(qs)}
<1>1. m \in Nat /\ n \in Nat
  BY LenProperties
<1>2. /\ all \in Seq(Seq(S)) /\ Len(all) = m + n
      /\ \A k \in 1..m : all[k] = ps[k]
      /\ \A j \in 1..n : all[m + j] = qs[j]
  <2>1. /\ all \in Seq(Seq(S)) /\ Len(all) = Len(ps) + Len(qs)
        /\ \A i \in 1 .. Len(ps) + Len(qs) : all[i] = IF i <= Len(ps) THEN ps[i] ELSE qs[i - Len(ps)]
    BY ConcatProperties
  <2> HIDE DEF all
  <2>2. \A k \in 1..m : all[k] = ps[k]
    BY <1>1, <2>1
  <2>3. ASSUME NEW j \in 1..n PROVE all[m + j] = qs[j]
    <3>1. m + j \in 1..(m + n) /\ ~(m + j <= m) /\ m + j - m = j
      BY <1>1
    <3> QED BY <2>1, <3>1
  <2> QED BY <2>1, <2>2, <2>3
<1>3. /\ Flatten(all) = Rest(all, 1)
      /\ \A k \in 1..(m + n) : Rest(all, k) = all[k] \o Rest(all, k + 1)
      /\ Rest(all, m + n + 1) = <<>>
  <2>1. /\ Flatten(all) = Rest(all, 1)
        /\ \A k \in 1..Len(all) : Rest(all, k) = all[k] \o Rest(all, k + 1)
        /\ Rest(all, Len(all) + 1) = <<>>
    BY <1>2, FlattenOfSeq
  <2> HIDE DEF all
  <2> QED BY <1>2, <2>1
<1>4. /\ Flatten(ps) = Rest(ps, 1) /\ Rest(ps, m + 1) = <<>>
      /\ \A k \in 1..m : Rest(ps, k) = ps[k] \o Rest(ps, k + 1)
      /\ \A k \in 1..(m + 1) : Rest(ps, k) \in Seq(S)
  BY FlattenOfSeq
<1>5. /\ Flatten(qs) = Rest(qs, 1) /\ Rest(qs, n + 1) = <<>> /\ Flatten(qs) \in Seq(S)
      /\ \A k \in 1..n : Rest(qs, k) = qs[k] \o Rest(qs, k + 1)
  BY FlattenOfSeq
<1>6. \A k \in 1..m : ps[k] \in Seq(S)
  BY ElementOfSeq
<1> HIDE DEF m, n, all
<1>7. \A j \in 1..(n + 1) : j \in After
  <2>1. n + 1 \in After
    <3>1. m + (n + 1) = m + n + 1
      BY <1>1
    <3> QED BY <1>1, <1>3, <1>5, <3>1
  <2>2. ASSUME NEW j \in 1..n, j + 1 \in After PROVE j \in After
    <3>1. m + j \in 1..(m + n) /\ m + j + 1 = m + (j + 1) /\ j \in 1..(n + 1)
      BY <1>1
    <3>2. Rest(all, m + j) = qs[j] \o Rest(qs, j + 1)
      <4>1. Rest(all, m + (j + 1)) = Rest(qs, j + 1)
        BY <2>2
      <4>2. all[m + j] = qs[j]
        BY <1>2
      <4>3. Rest(all, m + j) = all[m + j] \o Rest(all, m + j + 1)
        BY <1>3, <3>1
      <4> QED BY <3>1, <4>1, <4>2, <4>3
    <3> QED BY <1>5, <3>1, <3>2
  <2> HIDE DEF After
  <2> QED BY <1>1, <2>1, <2>2, InductDown
<1>8. \A k \in 1..(m + 1) : k \in Before
  <2>1. m + 1 \in Before
    <3>1. 1 \in After
      BY <1>1, <1>7
    <3>2. Rest(all, m + 1) = Flatten(qs)
      BY <1>5, <3>1
    <3>3. <<>> \o Flatten(qs) = Flatten(qs)
      BY <1>5, ConcatEmptySeq
    <3>4. m + 1 \in 1..(m + 1)
      BY <1>1
    <3>5. Rest(all, m + 1) = Rest(ps, m + 1) \o Flatten(qs)
      BY <1>4, <3>2, <3>3
    <3> QED BY <3>4, <3>5
  <2>2. ASSUME NEW k \in 1..m, k + 1 \in Before PROVE k \in Before
    <3>1. k \in 1..(m + n) /\ k \in 1..(m + 1) /\ k + 1 \in 1..(m + 1)
      BY <1>1
    <3>2. Rest(all, k) = ps[k] \o (Rest(ps, k + 1) \o Flatten(qs))
      BY <1>2, <1>3, <2>2, <3>1
    <3>3. Rest(all, k) = (ps[k] \o Rest(ps, k + 1)) \o Flatten(qs)
      <4>1. ps[k] \in Seq(S) /\ Rest(ps, k + 1) \in Seq(S) /\ Flatten(qs) \in Seq(S)
        BY <1>4, <1>5, <1>6, <3>1
      <4>2. \A t, u, v \in Seq(S) : (t \o u) \o v = t \o (u \o v)
        BY ConcatAssociative
      <4> QED BY <3>2, <4>1, <4>2
    <3> QED BY <1>4, <3>1, <3>3
  <2> HIDE DEF Before
  <2> QED BY <1>1, <2>1, <2>2, InductDown
<1>9. 1 \in Before
  BY <1>1, <1>8
<1> QED BY <1>3, <1>4, <1>9 DEF all

\* The elements of s that are in V.
KeptParts(s, V) == [k \in DOMAIN s |-> IF s[k] \in V THEN <<s[k]>> ELSE <<>>]
Kept(s, V) == Flatten(KeptParts(s, V))

(* What is kept of each position: the element or nothing.                  *)
LEMMA KeptPartsType ==
    ASSUME NEW S, NEW s \in Seq(S), NEW V
    PROVE  /\ KeptParts(s, V) \in Seq(Seq(S \cap V)) /\ KeptParts(s, V) \in Seq(Seq(S))
           /\ Len(KeptParts(s, V)) = Len(s)
<1> DEFINE P == KeptParts(s, V)
<1>1. Len(s) \in Nat /\ DOMAIN s = 1..Len(s) /\ \A k \in 1..Len(s) : s[k] \in S
  BY LenProperties, ElementOfSeq
<1>2. P = [k \in 1..Len(s) |-> IF s[k] \in V THEN <<s[k]>> ELSE <<>>]
  BY <1>1 DEF KeptParts
<1>3. \A k \in 1..Len(s) : P[k] = IF s[k] \in V THEN <<s[k]>> ELSE <<>>
  BY <1>2
<1>4. \A k \in 1..Len(s) : P[k] \in Seq(S \cap V) /\ P[k] \in Seq(S)
  <2>1. \A x \in S : <<x>> \in Seq(S) /\ (x \in V => <<x>> \in Seq(S \cap V))
    OBVIOUS
  <2>2. <<>> \in Seq(S) /\ <<>> \in Seq(S \cap V)
    BY EmptySeq
  <2> QED BY <1>1, <1>3, <2>1, <2>2
<1>5. \A T : (\A k \in 1..Len(s) : P[k] \in Seq(T)) => P \in Seq(Seq(T)) /\ Len(P) = Len(s)
  <2> DEFINE n == Len(s)
  <2> SUFFICES ASSUME NEW T, \A k \in 1..n : P[k] \in Seq(T) PROVE P \in Seq(Seq(T)) /\ Len(P) = n
    OBVIOUS
  <2>1. P = [k \in 1..n |-> P[k]]
    BY <1>2
  <2>2. n \in Nat
    BY <1>1
  <2> HIDE DEF P, n
  <2>3. P \in [1..n -> Seq(T)]
    BY <2>1
  <2>4. DOMAIN P = 1..n
    BY <2>1
  <2> QED BY <2>2, <2>3, <2>4, LenProperties, IsASeq
<1> HIDE DEF P
<1>6. P \in Seq(Seq(S \cap V)) /\ P \in Seq(Seq(S)) /\ Len(P) = Len(s)
  BY <1>4, <1>5
<1> QED BY <1>6 DEF P

(* At a position it is the element, if that is in V.                       *)
LEMMA KeptPartsAt ==
    ASSUME NEW S, NEW s \in Seq(S), NEW V, NEW k \in 1..Len(s)
    PROVE  KeptParts(s, V)[k] = IF s[k] \in V THEN <<s[k]>> ELSE <<>>
<1>1. DOMAIN s = 1..Len(s)
  BY LenProperties
<1> QED BY <1>1 DEF KeptParts

(* The elements that are kept are of their kind, and in V.                 *)
LEMMA KeptType ==
    ASSUME NEW S, NEW s \in Seq(S), NEW V
    PROVE  Kept(s, V) \in Seq(S \cap V)
BY KeptPartsType, FlattenOfSeq DEF Kept

(* A sequence can be cut into two before its elements are chosen.          *)
LEMMA KeptConcat ==
    ASSUME NEW S, NEW s \in Seq(S), NEW t \in Seq(S), NEW V
    PROVE  Kept(s \o t, V) = Kept(s, V) \o Kept(t, V)
<1> DEFINE A == KeptParts(s, V)
           B == KeptParts(t, V)
           C == KeptParts(s \o t, V)
           st == s \o t
<1>1. /\ A \in Seq(Seq(S)) /\ Len(A) = Len(s)
      /\ \A k \in 1..Len(s) : A[k] = IF s[k] \in V THEN <<s[k]>> ELSE <<>>
  <2>1. A \in Seq(Seq(S)) /\ Len(A) = Len(s)
    BY KeptPartsType
  <2>2. \A k \in 1..Len(s) : A[k] = IF s[k] \in V THEN <<s[k]>> ELSE <<>>
    BY KeptPartsAt
  <2> QED BY <2>1, <2>2
<1>2. /\ B \in Seq(Seq(S)) /\ Len(B) = Len(t)
      /\ \A k \in 1..Len(t) : B[k] = IF t[k] \in V THEN <<t[k]>> ELSE <<>>
  <2>1. B \in Seq(Seq(S)) /\ Len(B) = Len(t)
    BY KeptPartsType
  <2>2. \A k \in 1..Len(t) : B[k] = IF t[k] \in V THEN <<t[k]>> ELSE <<>>
    BY KeptPartsAt
  <2> QED BY <2>1, <2>2
<1>3. /\ st \in Seq(S) /\ Len(st) = Len(s) + Len(t)
      /\ \A i \in 1 .. Len(s) + Len(t) : st[i] = IF i <= Len(s) THEN s[i] ELSE t[i - Len(s)]
  BY ConcatProperties
<1>4. Len(s) \in Nat /\ Len(t) \in Nat
  BY LenProperties
<1>5. /\ C \in Seq(Seq(S)) /\ Len(C) = Len(st)
      /\ \A k \in 1..Len(st) : C[k] = IF st[k] \in V THEN <<st[k]>> ELSE <<>>
  <2> HIDE DEF st
  <2> DEFINE D == KeptParts(st, V)
  <2>1. D \in Seq(Seq(S)) /\ Len(D) = Len(st)
    BY <1>3, KeptPartsType
  <2>2. ASSUME NEW k \in 1..Len(st) PROVE D[k] = IF st[k] \in V THEN <<st[k]>> ELSE <<>>
    <3>1. st \in Seq(S)
      BY <1>3
    <3> QED BY <3>1, KeptPartsAt
  <2>3. C = D
    BY DEF st
  <2> QED BY <2>1, <2>2, <2>3
<1>6. /\ A \o B \in Seq(Seq(S)) /\ Len(A \o B) = Len(A) + Len(B)
      /\ \A i \in 1 .. Len(A) + Len(B) : (A \o B)[i] = IF i <= Len(A) THEN A[i] ELSE B[i - Len(A)]
  <2> HIDE DEF A, B
  <2>1. A \in Seq(Seq(S)) /\ B \in Seq(Seq(S))
    BY <1>1, <1>2
  <2> QED BY <2>1, ConcatProperties
<1> DEFINE AB == A \o B
<1> HIDE DEF A, B, C, st, AB
<1>7. C = AB
  <2>1. Len(C) = Len(AB)
    BY <1>1, <1>2, <1>3, <1>5, <1>6 DEF AB
  <2>2. ASSUME NEW i \in 1..Len(C) PROVE C[i] = AB[i]
    <3>1. i \in 1..(Len(s) + Len(t)) /\ i \in 1..Len(st) /\ i \in Nat
      BY <1>3, <1>4, <1>5
    <3>2. CASE i <= Len(s)
      <4>1. i \in 1..Len(s)
        BY <1>4, <3>1, <3>2
      <4>2. C[i] = IF s[i] \in V THEN <<s[i]>> ELSE <<>>
        BY <1>3, <1>5, <3>1, <3>2
      <4>3. AB[i] = A[i]
        BY <1>1, <1>2, <1>6, <3>1, <3>2 DEF AB
      <4> QED BY <1>1, <4>1, <4>2, <4>3
    <3>3. CASE ~(i <= Len(s))
      <4>1. i - Len(s) \in 1..Len(t)
        BY <1>4, <3>1, <3>3
      <4>2. C[i] = IF t[i - Len(s)] \in V THEN <<t[i - Len(s)]>> ELSE <<>>
        BY <1>3, <1>5, <3>1, <3>3
      <4>3. AB[i] = B[i - Len(s)]
        BY <1>1, <1>2, <1>6, <3>1, <3>3 DEF AB
      <4> QED BY <1>2, <4>1, <4>2, <4>3
    <3> QED BY <3>2, <3>3
  <2> QED BY <1>5, <1>6, <2>1, <2>2, SeqEqual DEF AB
<1>8. Flatten(A \o B) = Flatten(A) \o Flatten(B)
  BY <1>1, <1>2, FlattenConcat
<1> QED BY <1>7, <1>8 DEF A, B, C, st, AB, Kept

(* Of a single element, it or nothing is kept.                             *)
LEMMA KeptOfOne ==
    ASSUME NEW S, NEW x \in S, NEW V
    PROVE  Kept(<<x>>, V) = IF x \in V THEN <<x>> ELSE <<>>
<1> DEFINE P == KeptParts(<<x>>, V)
           p == IF x \in V THEN <<x>> ELSE <<>>
<1>1. <<x>> \in Seq(S) /\ Len(<<x>>) = 1 /\ <<x>>[1] = x
  OBVIOUS
<1>2. P \in Seq(Seq(S)) /\ Len(P) = 1 /\ P[1] = p
  <2> DEFINE s == <<x>>
  <2>1. s \in Seq(S) /\ Len(s) = 1 /\ s[1] = x /\ 1 \in 1..Len(s)
    BY <1>1
  <2> HIDE DEF s
  <2>2. KeptParts(s, V) \in Seq(Seq(S)) /\ Len(KeptParts(s, V)) = Len(s)
    BY <2>1, KeptPartsType
  <2>3. KeptParts(s, V)[1] = IF s[1] \in V THEN <<s[1]>> ELSE <<>>
    BY <2>1, KeptPartsAt
  <2> QED BY <2>1, <2>2, <2>3 DEF s
<1>3. p \in Seq(S)
  OBVIOUS
<1> HIDE DEF P, p
<1>4. Flatten(P) = P[1] \o Rest(P, 2) /\ Rest(P, 2) = <<>>
  <2>1. /\ Flatten(P) = Rest(P, 1)
        /\ \A k \in 1..Len(P) : Rest(P, k) = P[k] \o Rest(P, k + 1)
        /\ Rest(P, Len(P) + 1) = <<>>
    BY <1>2, FlattenOfSeq
  <2>2. 1 \in 1..Len(P) /\ Len(P) + 1 = 2 /\ 1 + 1 = 2
    BY <1>2
  <2>3. Rest(P, 1) = P[1] \o Rest(P, 1 + 1)
    BY <2>1, <2>2
  <2> QED BY <2>1, <2>2, <2>3
<1>5. p \o <<>> = p
  BY <1>3, ConcatEmptySeq
<1> QED BY <1>2, <1>4, <1>5 DEF P, p, Kept

(* Of no elements, none is kept.                                           *)
LEMMA KeptOfNone == \A V : Kept(<<>>, V) = <<>>
<1> SUFFICES ASSUME NEW V PROVE Kept(<<>>, V) = <<>>
  OBVIOUS
<1>1. <<>> \in Seq({}) /\ Len(<<>>) = 0
  BY EmptySeq
<1>2. KeptParts(<<>>, V) \in Seq(Seq({})) /\ Len(KeptParts(<<>>, V)) = 0
  BY <1>1, KeptPartsType
<1>3. Flatten(KeptParts(<<>>, V)) = Rest(KeptParts(<<>>, V), 1) /\ Rest(KeptParts(<<>>, V), 0 + 1) = <<>>
  BY <1>2, FlattenOfSeq
<1> QED BY <1>3 DEF Kept

(* To choose the positions of the elements in V is to keep these elements. *)
LEMMA ChosenIsKept ==
    ASSUME NEW S, NEW s \in Seq(S), NEW ks, NEW V, \A k \in DOMAIN s : k \in ks <=> s[k] \in V
    PROVE  Chosen(s, ks) = Kept(s, V)
<1>1. [k \in DOMAIN s |-> IF k \in ks THEN <<s[k]>> ELSE <<>>] = KeptParts(s, V)
  BY DEF KeptParts
<1> QED BY <1>1 DEF Chosen, Kept

(* To keep all is to keep the sequence.                                    *)
LEMMA KeptAll ==
    ASSUME NEW S, NEW s \in Seq(S)
    PROVE  Kept(s, S) = s
<1> DEFINE P == KeptParts(s, S)
           n == Len(s)
           T == {k \in 1..(n + 1) : Rest(P, k) = SubSeq(s, k, n)}
<1>1. n \in Nat /\ P \in Seq(Seq(S)) /\ Len(P) = n /\ \A k \in 1..n : P[k] = <<s[k]>>
  <2>1. P \in Seq(Seq(S)) /\ Len(P) = Len(s)
    BY KeptPartsType
  <2>2. \A k \in 1..Len(s) : P[k] = IF s[k] \in S THEN <<s[k]>> ELSE <<>>
    BY KeptPartsAt
  <2>3. Len(s) \in Nat /\ \A k \in 1..Len(s) : s[k] \in S
    BY LenProperties, ElementOfSeq
  <2> QED BY <2>1, <2>2, <2>3
<1> HIDE DEF P
<1>2. /\ Flatten(P) = Rest(P, 1) /\ Rest(P, n + 1) = <<>>
      /\ \A k \in 1..n : Rest(P, k) = P[k] \o Rest(P, k + 1)
  <2>1. /\ Flatten(P) = Rest(P, 1) /\ Rest(P, Len(P) + 1) = <<>>
        /\ \A k \in 1..Len(P) : Rest(P, k) = P[k] \o Rest(P, k + 1)
    BY <1>1, FlattenOfSeq
  <2> QED BY <1>1, <2>1
<1>3. n + 1 \in T
  <2>1. SubSeq(s, n + 1, n) = <<>> /\ n + 1 \in 1..(n + 1)
    BY <1>1, SubSeqEmpty
  <2> HIDE DEF n
  <2> QED BY <1>2, <2>1
<1>4. ASSUME NEW k \in 1..n, k + 1 \in T PROVE k \in T
  <2>0. k \in 1..Len(s) /\ n \in k..Len(s)
    BY <1>1
  <2>1. SubSeq(s, k, n) = <<s[k]>> \o SubSeq(s, k + 1, n)
    <3> HIDE DEF n, T
    <3> QED BY <2>0, SubSeqRecursiveFirst, Zenon
  <2>2. k \in 1..(n + 1)
    BY <1>1
  <2>3. Rest(P, k) = <<s[k]>> \o SubSeq(s, k + 1, n)
    BY <1>1, <1>2, <1>4
  <2> QED BY <2>1, <2>2, <2>3
<1>5. \A k \in 1..(n + 1) : k \in T
  <2> HIDE DEF T
  <2> QED BY <1>1, <1>3, <1>4, InductDown
<1>6. Rest(P, 1) = SubSeq(s, 1, n)
  BY <1>1, <1>5
<1>7. SubSeq(s, 1, n) = s
  BY SubSeqFull
<1> QED BY <1>2, <1>6, <1>7 DEF Kept, P

-----------------------------------------------------------------------------
\* The bytes of s stand in p from position i on.
Has(p, i, s) ==
    /\ i \in Nat /\ i > 0 /\ i + Len(s) <= Len(p) + 1
    /\ \A k \in 1..Len(s) : p[i + k - 1] = s[k]

(* A sequence stands in itself.                                            *)
LEMMA HasItself ==
    ASSUME NEW p \in Seq(Byte)
    PROVE  Has(p, 1, p)
BY LenProperties DEF Has

(* Where two sequences stand one after the other, each of them stands.     *)
LEMMA HasParts ==
    ASSUME NEW p \in Seq(Byte), NEW s \in Seq(Byte), NEW t \in Seq(Byte), NEW i, Has(p, i, s \o t)
    PROVE  /\ Has(p, i, s) /\ Has(p, i + Len(s), t)
           /\ Len(s \o t) = Len(s) + Len(t) /\ s \o t \in Seq(Byte)
<1> DEFINE st == s \o t
<1>1. Len(s) \in Nat /\ Len(t) \in Nat /\ Len(p) \in Nat
  BY LenProperties
<1>2. /\ st \in Seq(Byte) /\ Len(st) = Len(s) + Len(t)
      /\ \A k \in 1 .. Len(s) + Len(t) : st[k] = IF k <= Len(s) THEN s[k] ELSE t[k - Len(s)]
  BY ConcatProperties
<1>3. /\ i \in Nat /\ i > 0 /\ i + Len(st) <= Len(p) + 1
      /\ \A k \in 1..Len(st) : p[i + k - 1] = st[k]
  BY DEF Has
<1> HIDE DEF st
<1>4. ASSUME NEW k \in 1..Len(s) PROVE p[i + k - 1] = s[k]
  <2>1. k \in 1..(Len(s) + Len(t)) /\ k <= Len(s)
    BY <1>1
  <2> QED BY <1>2, <1>3, <2>1
<1>5. ASSUME NEW k \in 1..Len(t) PROVE p[i + Len(s) + k - 1] = t[k]
  <2> DEFINE j == Len(s) + k
  <2>1. j \in 1..(Len(s) + Len(t)) /\ ~(j <= Len(s)) /\ j - Len(s) = k /\ i + Len(s) + k - 1 = i + j - 1
    BY <1>1, <1>3
  <2> HIDE DEF j
  <2> QED BY <1>2, <1>3, <2>1
<1> QED BY <1>1, <1>2, <1>3, <1>4, <1>5 DEF Has, st

(* What stands in p can be cut out of it.                                  *)
LEMMA HasSub ==
    ASSUME NEW p \in Seq(Byte), NEW s \in Seq(Byte), NEW i, Has(p, i, s)
    PROVE  SubSeq(p, i, i + Len(s) - 1) = s /\ Slice(p, i, Len(s)) = s
<1>1. /\ Len(s) \in Nat /\ Len(p) \in Nat
      /\ i \in Nat /\ i > 0 /\ i + Len(s) <= Len(p) + 1
      /\ \A k \in 1..Len(s) : p[i + k - 1] = s[k]
  BY LenProperties DEF Has
<1> DEFINE j == i + Len(s) - 1
<1>2. i \in Int /\ j \in Int /\ j - i + 1 = Len(s) /\ (IF i <= j THEN j - i + 1 ELSE 0) = Len(s)
  BY <1>1
<1>3. \A k \in i..j : p[k] \in Byte
  <2>1. \A k \in i..j : k \in 1..Len(p)
    BY <1>1
  <2> QED BY <2>1, ElementOfSeq
<1> HIDE DEF j
<1>4. /\ SubSeq(p, i, j) \in Seq(Byte) /\ Len(SubSeq(p, i, j)) = IF i <= j THEN j - i + 1 ELSE 0
      /\ \A k \in 1..(j - i + 1) : SubSeq(p, i, j)[k] = p[i + k - 1]
  BY <1>2, <1>3, SubSeqProperties
<1>5. SubSeq(p, i, j) = s
  <2> DEFINE q == SubSeq(p, i, j)
  <2>1. q \in Seq(Byte) /\ Len(q) = Len(s) /\ \A k \in 1..Len(s) : q[k] = s[k]
    BY <1>1, <1>2, <1>4
  <2> HIDE DEF q
  <2>2. q = s
    BY <2>1, SeqEqual
  <2> QED BY <2>2 DEF q
<1>6. Slice(p, i, Len(s)) = SubSeq(p, i, j)
  <2>1. (IF i + Len(s) > Len(p) THEN Len(p) ELSE i + Len(s) - 1) = j
    BY <1>1 DEF j
  <2> QED BY <2>1 DEF Slice
<1> QED BY <1>5, <1>6 DEF j

(* The bytes of what stands in p are within p.                             *)
LEMMA HasBytes ==
    ASSUME NEW p \in Seq(Byte), NEW i, NEW s, Has(p, i, s), NEW k \in 1..Len(s), Len(s) \in Nat
    PROVE  i + k - 1 \in 1..Len(p) /\ p[i + k - 1] = s[k]
<1>1. Len(p) \in Nat
  BY LenProperties
<1> QED BY <1>1 DEF Has

-----------------------------------------------------------------------------
(* To the end of a sequence, Slice drops what comes before.                 *)
LEMMA SliceDrops ==
    ASSUME NEW S, NEW s \in Seq(S), NEW i \in 1..(Len(s) + 1), NEW n \in Nat, n >= Len(s) - i + 1
    PROVE  /\ Slice(s, i, n) \in Seq(S) /\ Len(Slice(s, i, n)) = Len(s) - i + 1
           /\ \A k \in 1..(Len(s) - i + 1) : Slice(s, i, n)[k] = s[i + k - 1]
<1>1. Slice(s, i, n) = SubSeq(s, i, Len(s))
  BY DEF Slice
<1>2. \A k \in i..Len(s) : s[k] \in S
  BY ElementOfSeq
<1> QED BY <1>1, <1>2, SubSeqProperties

(* Two bytes in front of a payload, whichever these are: they are told,    *)
(* and the rest is the payload.                                            *)
LEMMA Prefixed ==
    ASSUME NEW h \in Seq(Byte), NEW p \in Seq(Byte), Len(h) = 2
    PROVE  /\ h \o p \in Seq(Byte) /\ Len(h \o p) = Len(p) + 2 /\ Len(p) \in Nat
           /\ (h \o p)[1] = h[1] /\ (h \o p)[2] = h[2] /\ SubSeq(h \o p, 1, 2) = h
           /\ \A n \in Nat : n >= Len(p) => Slice(h \o p, 3, n) = p
<1> DEFINE s == h \o p
<1>1. Len(p) \in Nat
  BY LenProperties
<1>2. /\ s \in Seq(Byte) /\ Len(s) = Len(p) + 2
      /\ \A i \in 1..(Len(p) + 2) : s[i] = IF i <= 2 THEN h[i] ELSE p[i - 2]
  <2>1. /\ s \in Seq(Byte) /\ Len(s) = Len(h) + Len(p)
        /\ \A i \in 1..(Len(h) + Len(p)) : s[i] = IF i <= Len(h) THEN h[i] ELSE p[i - Len(h)]
    BY ConcatProperties
  <2> HIDE DEF s
  <2> QED BY <1>1, <2>1
<1> HIDE DEF s
<1>3. /\ s[1] = h[1] /\ s[2] = h[2] /\ s[1] \in Byte /\ s[2] \in Byte
      /\ \A k \in 1..Len(p) : s[3 + k - 1] = p[k]
  BY <1>1, <1>2, ElementOfSeq
<1>4. SubSeq(s, 1, 2) = h
  <2>1. \A i \in 1..2 : s[i] \in Byte
    BY <1>3
  <2>2. /\ SubSeq(s, 1, 2) \in Seq(Byte) /\ Len(SubSeq(s, 1, 2)) = 2
        /\ \A i \in 1..2 : SubSeq(s, 1, 2)[i] = s[1 + i - 1]
    BY <2>1, SubSeqProperties
  <2>3. \A i \in 1..2 : SubSeq(s, 1, 2)[i] = h[i]
    BY <1>3, <2>2
  <2> QED BY <2>2, <2>3, SeqEqual
<1>5. ASSUME NEW n \in Nat, n >= Len(p) PROVE Slice(s, 3, n) = p
  <2>1. 3 \in 1..(Len(s) + 1) /\ Len(s) - 3 + 1 = Len(p) /\ n >= Len(s) - 3 + 1
    BY <1>1, <1>2, <1>5
  <2>2. /\ Slice(s, 3, n) \in Seq(Byte) /\ Len(Slice(s, 3, n)) = Len(p)
        /\ \A k \in 1..Len(p) : Slice(s, 3, n)[k] = s[3 + k - 1]
    <3>1. /\ Slice(s, 3, n) \in Seq(Byte) /\ Len(Slice(s, 3, n)) = Len(s) - 3 + 1
          /\ \A k \in 1..(Len(s) - 3 + 1) : Slice(s, 3, n)[k] = s[3 + k - 1]
      BY <1>2, <2>1, SliceDrops
    <3> QED BY <2>1, <3>1
  <2> QED BY <1>3, <2>2, SeqEqual
<1> QED BY <1>1, <1>2, <1>3, <1>4, <1>5 DEF s

(* The body of a frame is the body it was wrapped around.                  *)
LEMMA WrapKeepsBody ==
    ASSUME NEW b \in Bodies
    PROVE  BodyOf(Wrap(b)) = b /\ Slice(Wrap(b), 3, Len(Wrap(b))) = b
<1> DEFINE header == <<BlockOp, Len(b) % 256>>
<1>1. b \in Seq(Byte) /\ Len(b) < 256
  BY DEF Bodies
<1>2. Len(b) \in Nat
  BY <1>1, LenProperties
<1>3. Len(b) % 256 = Len(b) /\ Len(b) \in Byte /\ BlockOp \in Byte
  <2>1. \A n \in Nat : n < 256 => n % 256 = n /\ n \in Byte
    BY DEF Byte
  <2>2. BlockOp \in Byte
    BY DEF BlockOp, Byte
  <2> QED BY <1>1, <1>2, <2>1, <2>2
<1>4. header \in Seq(Byte) /\ Len(header) = 2 /\ header[1] = BlockOp /\ header[2] = Len(b)
  BY <1>3
<1>5. Wrap(b) = header \o b
  BY DEF Wrap
<1> HIDE DEF header
<1>6. /\ Wrap(b)[1] = BlockOp /\ Wrap(b)[2] = Len(b) /\ Len(Wrap(b)) = Len(b) + 2
      /\ \A n \in Nat : n >= Len(b) => Slice(Wrap(b), 3, n) = b
  BY <1>1, <1>4, <1>5, Prefixed
<1> QED BY <1>2, <1>6 DEF BodyOf

-----------------------------------------------------------------------------
(* No frame is taken both for a response and for a push, whatever its      *)
(* bytes: a caller that waits for one cannot be answered with the other.   *)
THEOREM ResponseOrPush ==
    ASSUME NEW bytes \in Seq(Byte)
    PROVE  ParseResponse(bytes) = NotAFrame \/ ParseNotify(bytes) = NotAFrame
BY DEF ParseResponse, ParseNotify

(* What the bike sends to the Bluetooth address of the tool is returned by *)
(* readNextFrame byte for byte as the frame the USB bridge would have      *)
(* returned, with the same destination flag: so every parser reads the     *)
(* same status and payload in it.                                          *)
THEOREM BluetoothReadsAsUsb ==
    ASSUME NEW usb \in Bodies, NEW flag \in {0, 128}, Len(usb) >= 4,
           usb[3] = flag + HostUsb[1], usb[4] = HostUsb[2]
    PROVE  Rebuild([usb EXCEPT ![3] = flag + HostBle[1], ![4] = HostBle[2]]) = Wrap(usb)
<1> DEFINE half == [usb EXCEPT ![3] = flag + HostBle[1]]
           ble == [half EXCEPT ![4] = HostBle[2]]
           back == [ble EXCEPT ![3] = ble[3] - Low7(ble[3]) + HostUsb[1]]
           all == [back EXCEPT ![4] = HostUsb[2]]
<1>1. usb \in Seq(Byte) /\ Len(usb) \in Nat /\ 3 \in 1..Len(usb) /\ 4 \in 1..Len(usb)
  BY LenProperties DEF Bodies
<1>2. HostUsb[1] = 14 /\ HostUsb[2] = 16 /\ HostBle[1] = 65 /\ HostBle[2] = 128
  BY DEF HostUsb, HostBle
<1>3. flag + 65 \in Byte /\ flag + 14 \in Byte /\ 16 \in Byte /\ 128 \in Byte
  BY DEF Byte
<1>4. /\ half \in Seq(Byte) /\ Len(half) = Len(usb)
      /\ \A j \in 1..Len(usb) : half[j] = IF j = 3 THEN flag + 65 ELSE usb[j]
  BY <1>1, <1>2, <1>3, ExceptSeq
<1>5. /\ ble \in Seq(Byte) /\ Len(ble) = Len(usb)
      /\ \A j \in 1..Len(usb) : ble[j] = IF j = 4 THEN 128 ELSE half[j]
  <2> HIDE DEF half
  <2> QED BY <1>1, <1>2, <1>3, <1>4, ExceptSeq
<1>6. ble[3] = flag + 65 /\ Low7(ble[3]) = 65
  <2>1. ble[3] = flag + 65
    BY <1>1, <1>4, <1>5
  <2>2. 65 % 128 = 65 /\ 193 % 128 = 65
    OBVIOUS
  <2>3. flag + 65 = 65 \/ flag + 65 = 193
    OBVIOUS
  <2> HIDE DEF half, ble
  <2> QED BY <2>1, <2>2, <2>3 DEF Low7
<1>7. ble[3] - Low7(ble[3]) + HostUsb[1] = flag + 14
  <2> HIDE DEF ble
  <2> QED BY <1>2, <1>6
<1>8. /\ back \in Seq(Byte) /\ Len(back) = Len(usb)
      /\ \A j \in 1..Len(usb) : back[j] = IF j = 3 THEN flag + 14 ELSE ble[j]
  <2> HIDE DEF ble
  <2> QED BY <1>1, <1>3, <1>5, <1>7, ExceptSeq
<1>9. /\ all \in Seq(Byte) /\ Len(all) = Len(usb)
      /\ \A j \in 1..Len(usb) : all[j] = IF j = 4 THEN 16 ELSE back[j]
  <2> HIDE DEF back
  <2> QED BY <1>1, <1>2, <1>3, <1>8, ExceptSeq
<1>10. \A j \in 1..Len(usb) : all[j] = usb[j]
  <2> HIDE DEF half, ble, back, all
  <2> QED BY <1>1, <1>2, <1>4, <1>5, <1>8, <1>9
<1>11. all = usb
  <2> HIDE DEF all
  <2> QED BY <1>1, <1>9, <1>10, SeqEqual
<1>12. Rebuild(ble) = Wrap(all)
  <2>1. Len(ble) >= 4 /\ Low7(ble[3]) = HostBle[1]
    BY <1>2, <1>5, <1>6
  <2> HIDE DEF ble
  <2> QED BY <2>1 DEF Rebuild
<1> QED BY <1>11, <1>12

\* BuildFrame and doMcspWrite keep the address, the type, the sequence number
\* and the payload, and put the source in front.
AsBuilt(addr, type, seq, payload) ==
    LET request == <<128 + Low7(addr[1]), addr[2], 16 * (type % 16) + (seq % 16)>> \o payload
        frame == BuildFrame(addr, type, seq, payload)
    IN /\ BodyOf(frame) = HostUsb \o request
       /\ BleRequest(frame) = EncodeSegment(MessageBus, HostBle \o request)

(* A request goes out over Bluetooth as it does over USB, whatever the     *)
(* address, the type, the sequence number and the payload, but for the     *)
(* source, which is the app's: no byte of the request is taken for it.     *)
THEOREM RequestGoesOutAsBuilt ==
    ASSUME NEW addr \in Byte \X Byte, NEW type \in 0..15, NEW seq \in 0..15,
           NEW payload \in Seq(Byte), Len(payload) <= 250
    PROVE  AsBuilt(addr, type, seq, payload)
<1> DEFINE head == <<128 + Low7(addr[1]), addr[2], 16 * (type % 16) + (seq % 16)>>
           request == head \o payload
           body == HostUsb \o request
           frame == BuildFrame(addr, type, seq, payload)
<1>1. head \in Seq(Byte) /\ Len(head) = 3
  <2>1. addr[1] \in Byte /\ addr[2] \in Byte
    OBVIOUS
  <2>2. \A n \in Byte : 128 + Low7(n) \in Byte
    BY DEF Byte, Low7
  <2>3. 16 * (type % 16) + (seq % 16) \in Byte
    BY DEF Byte
  <2> QED BY <2>1, <2>2, <2>3
<1>2. HostUsb \in Seq(Byte) /\ Len(HostUsb) = 2
  BY DEF HostUsb, Byte
<1>3. frame = Wrap((HostUsb \o head) \o payload)
  BY DEF BuildFrame
<1> HIDE DEF head, frame
<1>4. request \in Seq(Byte) /\ Len(request) = Len(payload) + 3 /\ Len(payload) \in Nat
  <2>1. request \in Seq(Byte) /\ Len(request) = Len(head) + Len(payload)
    BY <1>1, ConcatProperties
  <2>2. Len(payload) \in Nat
    BY LenProperties
  <2> HIDE DEF request
  <2> QED BY <1>1, <2>1, <2>2
<1>5. (HostUsb \o head) \o payload = body
  <2>1. \A t, u, v \in Seq(Byte) : (t \o u) \o v = t \o (u \o v)
    BY ConcatAssociative, SMTT(30)
  <2> QED BY <1>1, <1>2, <2>1
<1> HIDE DEF request
<1>6. /\ body \in Seq(Byte) /\ Len(body) = Len(request) + 2 /\ SubSeq(body, 1, 2) = HostUsb
      /\ \A n \in Nat : n >= Len(request) => Slice(body, 3, n) = request
  BY <1>2, <1>4, Prefixed
<1> HIDE DEF body
<1>7. body \in Bodies /\ Slice(body, 3, Len(body)) = request
  BY <1>4, <1>6 DEF Bodies
<1>8. BodyOf(frame) = body /\ Slice(frame, 3, Len(frame)) = body
  BY <1>3, <1>5, <1>7, WrapKeepsBody
<1>9. BleRequest(frame) = EncodeSegment(MessageBus, HostBle \o request)
  BY <1>6, <1>7, <1>8 DEF BleRequest
<1> QED BY <1>8, <1>9 DEF frame, request, head, body, AsBuilt

(* The two bytes in front of the payload of a segment tell its channel,    *)
(* its end and its length, up to the 4095 bytes the code allows.           *)
LEMMA SegmentHeadTells ==
    ASSUME NEW channel \in 0..7, NEW n \in Nat, n < 4096
    PROVE  /\ SegmentHead(channel, n) \in Seq(Byte) /\ Len(SegmentHead(channel, n)) = 2
           /\ SegmentHead(channel, n)[1] \in Byte /\ SegmentHead(channel, n)[2] \in Byte
           /\ SegmentHead(channel, n)[1] \div 32 = channel
           /\ (SegmentHead(channel, n)[1] \div 16) % 2 = 1
           /\ 256 * (SegmentHead(channel, n)[1] % 16) + SegmentHead(channel, n)[2] = n
<1>1. n \div 256 \in 0..15 /\ n % 256 \in Byte /\ 256 * (n \div 256) + (n % 256) = n
  BY DEF Byte
<1>2. PICK k \in 0..15 : k = n \div 256
  BY <1>1
<1>3. PICK low \in Byte : low = n % 256
  BY <1>1
<1>4. k % 16 = k
  OBVIOUS
<1>5. PICK high : high = 32 * channel + 16 + k
  OBVIOUS
<1>6. high \in Byte /\ high \div 32 = channel /\ (high \div 16) % 2 = 1 /\ high % 16 = k
  BY <1>5 DEF Byte
<1>7. SegmentHead(channel, n) = <<high, low>>
  BY <1>2, <1>3, <1>4, <1>5 DEF SegmentHead
<1>8. 256 * k + low = n
  BY <1>1, <1>2, <1>3
<1>9. <<high, low>> \in Seq(Byte) /\ Len(<<high, low>>) = 2 /\ <<high, low>>[1] = high /\ <<high, low>>[2] = low
  BY <1>6
<1> QED BY <1>6, <1>7, <1>8, <1>9

(* A segment tells its channel, its end and its payload.                   *)
THEOREM SegmentTellsLength ==
    ASSUME NEW channel \in 0..7, NEW payload \in Seq(Byte), Len(payload) < 4096
    PROVE  LET s == EncodeSegment(channel, payload)
           IN /\ s \in Seq(Byte) /\ s[1] \div 32 = channel /\ (s[1] \div 16) % 2 = 1
              /\ 256 * (s[1] % 16) + s[2] = Len(payload)
              /\ Slice(s, 3, Len(payload)) = payload
<1> DEFINE s == EncodeSegment(channel, payload)
<1>1. Len(payload) \in Nat
  BY LenProperties
<1>2. PICK n \in Nat : n = Len(payload) /\ n < 4096
  BY <1>1
<1> DEFINE h == SegmentHead(channel, n)
<1>3. /\ h \in Seq(Byte) /\ Len(h) = 2 /\ h[1] \div 32 = channel /\ (h[1] \div 16) % 2 = 1
      /\ 256 * (h[1] % 16) + h[2] = n
  <2>1. h \in Seq(Byte) /\ Len(h) = 2
    BY <1>2, SegmentHeadTells
  <2>2. h[1] \div 32 = channel
    BY <1>2, SegmentHeadTells, SMTT(30)
  <2>3. (h[1] \div 16) % 2 = 1
    BY <1>2, SegmentHeadTells, SMTT(60)
  <2>4. 256 * (h[1] % 16) + h[2] = n
    BY <1>2, SegmentHeadTells, SMTT(60)
  <2> HIDE DEF h
  <2> QED BY <2>1, <2>2, <2>3, <2>4
<1>4. s = h \o payload
  BY <1>2 DEF EncodeSegment
<1> HIDE DEF s, h
<1>5. /\ s \in Seq(Byte) /\ s[1] = h[1] /\ s[2] = h[2]
      /\ \A k \in Nat : k >= Len(payload) => Slice(s, 3, k) = payload
  BY <1>3, <1>4, Prefixed
<1>6. Slice(s, 3, Len(payload)) = payload
  BY <1>1, <1>5
<1> QED BY <1>2, <1>3, <1>5, <1>6 DEF s

\* What a segment can carry: its length has 12 bits.
Payloads == {s \in Seq(Byte) : Len(s) < 4096}

\* A segment as it is read.
Segment(channel, payload) == [channel |-> channel, end |-> TRUE, payload |-> payload]

(* The position behind a segment, from the two bytes of its head.          *)
LEMMA BehindHead ==
    ASSUME NEW i \in Nat, NEW n \in Nat, NEW a \in Byte, NEW b \in Byte, 256 * (a % 16) + b = n
    PROVE  i + 2 + 256 * (a % 16) + b = i + (2 + n)
<1>1. PICK x \in Nat : x = a
  BY DEF Byte
<1>2. PICK y \in Nat : y = b
  BY DEF Byte
<1>3. x % 16 \in Int
  BY <1>1
<1>4. PICK z \in Int : z = x % 16
  BY <1>3
<1>5. 256 * z + y = n
  BY <1>1, <1>2, <1>4
<1>6. i + 2 + 256 * z + y = i + (2 + n)
  BY <1>5
<1> QED BY <1>1, <1>2, <1>4, <1>6

(* A segment that stands in a buffer is read whole, and the loop goes on   *)
(* behind it.                                                              *)
LEMMA SegmentIsRead ==
    ASSUME NEW channel \in 0..7, NEW payload \in Payloads,
           NEW buffer \in Seq(Byte), NEW i, Has(buffer, i, EncodeSegment(channel, payload))
    PROVE  /\ SegmentAt(buffer, i) = Finds(Segment(channel, payload), i + Len(EncodeSegment(channel, payload)))
           /\ i \in 1..Len(buffer)
<1>0. payload \in Seq(Byte)
  BY DEF Payloads
<1>1. PICK n \in Nat : n = Len(payload) /\ n < 4096
  BY LenProperties DEF Payloads
<1>2. PICK h : h = SegmentHead(channel, n)
  OBVIOUS
<1>3. /\ h \in Seq(Byte) /\ Len(h) = 2
  BY <1>1, <1>2, SegmentHeadTells, SMTT(30)
<1>4. h[1] \in Byte /\ h[2] \in Byte
  BY <1>1, <1>2, SegmentHeadTells
<1>5. h[1] \div 32 = channel
  BY <1>1, <1>2, SegmentHeadTells
<1>6. (h[1] \div 16) % 2 = 1
  BY <1>1, <1>2, SegmentHeadTells, SMTT(60)
<1>7. 256 * (h[1] % 16) + h[2] = n
  BY <1>1, <1>2, SegmentHeadTells, SMTT(60)
<1>8. EncodeSegment(channel, payload) = h \o payload
  BY <1>1, <1>2 DEF EncodeSegment
<1>9. Has(buffer, i, h \o payload)
  BY <1>8
<1>10. /\ Has(buffer, i, h) /\ Has(buffer, i + Len(h), payload)
       /\ Len(h \o payload) = Len(h) + Len(payload)
  <2>1. Has(buffer, i, h)
    BY <1>0, <1>3, <1>9, HasParts
  <2>2. Has(buffer, i + Len(h), payload)
    BY <1>0, <1>3, <1>9, HasParts
  <2>3. Len(h \o payload) = Len(h) + Len(payload)
    BY <1>0, <1>3, ConcatProperties
  <2> QED BY <2>1, <2>2, <2>3
<1>11. Has(buffer, i + 2, payload) /\ Len(h \o payload) = 2 + n
  BY <1>1, <1>3, <1>10
<1>12. i \in Nat /\ i > 0
  BY <1>10 DEF Has
<1>13. i + 2 + n <= Len(buffer) + 1
  BY <1>1, <1>11 DEF Has
<1>14. buffer[i] = h[1] /\ buffer[i + 1] = h[2]
  <2>1. \A k \in 1..2 : buffer[i + k - 1] = h[k]
    BY <1>3, <1>10 DEF Has
  <2>2. i + 1 - 1 = i /\ i + 2 - 1 = i + 1
    BY <1>12
  <2>3. buffer[i + 1 - 1] = h[1] /\ buffer[i + 2 - 1] = h[2]
    BY <2>1
  <2> QED BY <2>2, <2>3
<1>15. SubSeq(buffer, i + 2, i + 2 + n - 1) = payload
  BY <1>0, <1>1, <1>11, HasSub
<1>16. PICK next \in Nat : next = i + (2 + n)
  BY <1>12
<1>17. next = i + 2 + 256 * (buffer[i] % 16) + buffer[i + 1]
  <2> DEFINE a == h[1]
             b == h[2]
  <2>1. a \in Byte /\ b \in Byte /\ 256 * (a % 16) + b = n
    BY <1>4, <1>7
  <2> HIDE DEF a, b
  <2>2. i + 2 + 256 * (a % 16) + b = i + (2 + n)
    BY <1>12, <2>1, BehindHead
  <2> QED BY <1>14, <1>16, <2>2 DEF a, b
<1>18. ~(i + 1 > Len(buffer) \/ next > Len(buffer) + 1) /\ i \in 1..Len(buffer)
  <2>1. Len(buffer) \in Nat
    BY LenProperties
  <2> QED BY <1>12, <1>13, <1>16, <2>1
<1>19. buffer[i] \div 32 = channel /\ (buffer[i] \div 16) % 2 = 1
  BY <1>5, <1>6, <1>14
<1>20. SubSeq(buffer, i + 2, next - 1) = payload
  <2>1. next - 1 = i + 2 + n - 1
    BY <1>12, <1>16
  <2> QED BY <1>15, <2>1
<1>21. SegmentAt(buffer, i) = Finds(Segment(channel, payload), next)
  <2>1. ~(i + 1 > Len(buffer) \/ next > Len(buffer) + 1)
    BY <1>18, Zenon
  <2>2. buffer[i] \div 32 = channel
    BY <1>19, Zenon
  <2>3. (buffer[i] \div 16) % 2 = 1
    BY <1>19, Zenon
  <2>4. SegmentAt(buffer, i) = Finds([channel |-> buffer[i] \div 32, end |-> (buffer[i] \div 16) % 2 = 1,
                                      payload |-> SubSeq(buffer, i + 2, next - 1)], next)
    BY <1>17, <2>1, Zenon DEF SegmentAt
  <2>5. ((buffer[i] \div 16) % 2 = 1) = TRUE
    BY <2>3, Zenon
  <2>6. [channel |-> buffer[i] \div 32, end |-> (buffer[i] \div 16) % 2 = 1,
         payload |-> SubSeq(buffer, i + 2, next - 1)] = Segment(channel, payload)
    BY <1>20, <2>2, <2>5, Zenon DEF Segment
  <2> QED BY <2>4, <2>6, Zenon
<1> QED BY <1>8, <1>11, <1>16, <1>18, <1>21

\* What the loop finds at every position of a buffer.
SegmentsIn(buffer) == [i \in 1..Len(buffer) |-> SegmentAt(buffer, i)]

(* Wherever the loop stands, it goes on further on or stops.               *)
LEMMA SegmentsGoOn ==
    ASSUME NEW buffer \in Seq(Byte)
    PROVE  Advances(SegmentsIn(buffer), Len(buffer))
<1>1. Len(buffer) \in Nat
  BY LenProperties
<1>2. ASSUME NEW i \in 1..Len(buffer)
      PROVE  SegmentAt(buffer, i).next \in Nat /\ (SegmentAt(buffer, i).next = 0 \/ SegmentAt(buffer, i).next > i)
  <2>1. CASE SegmentAt(buffer, i) = Stops
    BY <2>1 DEF Stops
  <2>2. CASE SegmentAt(buffer, i) # Stops
    <3>1. PICK next : next = i + 2 + 256 * (buffer[i] % 16) + buffer[i + 1]
      OBVIOUS
    <3>2. ~(i + 1 > Len(buffer)) /\ SegmentAt(buffer, i).next = next
      BY <2>2, <3>1, Zenon DEF SegmentAt, Finds
    <3>3. i + 1 \in 1..Len(buffer) /\ i \in Nat
      BY <1>1, <3>2
    <3>4. buffer[i] \in Byte /\ buffer[i + 1] \in Byte
      BY <3>3, ElementOfSeq
    <3> \A x \in Byte : x \in Nat
      BY DEF Byte
    <3>5. PICK a \in Nat : a = buffer[i]
      BY <3>4
    <3>6. PICK b \in Nat : b = buffer[i + 1]
      BY <3>4
    <3>7. a % 16 \in Nat
      BY <3>5
    <3>8. PICK z \in Nat : z = a % 16
      BY <3>7
    <3>9. i + 2 + 256 * z + b \in Nat /\ i + 2 + 256 * z + b > i
      BY <3>3
    <3>10. next = i + 2 + 256 * z + b
      BY <3>1, <3>5, <3>6, <3>8
    <3> QED BY <3>2, <3>9, <3>10
  <2> QED BY <2>1, <2>2
<1>3. DOMAIN SegmentsIn(buffer) = 1..Len(buffer) /\ \A i \in 1..Len(buffer) : SegmentsIn(buffer)[i] = SegmentAt(buffer, i)
  BY DEF SegmentsIn
<1> QED BY <1>1, <1>2, <1>3 DEF Advances

\* A notification: the bodies in it, one after the other.
SegmentsOf(bs) == [k \in DOMAIN bs |-> EncodeSegment(MessageBus, bs[k])]
Join(bs) == Flatten(SegmentsOf(bs))

\* What is to be read in it.
Told(bs) == [k \in DOMAIN bs |-> Segment(MessageBus, bs[k])]

(* The segments of bodies are sequences of bytes.                           *)
LEMMA SegmentsOfType ==
    ASSUME NEW bs \in Seq(Payloads)
    PROVE  /\ SegmentsOf(bs) \in Seq(Seq(Byte)) /\ Len(SegmentsOf(bs)) = Len(bs) /\ Len(bs) \in Nat
           /\ \A k \in 1..Len(bs) : bs[k] \in Payloads /\ SegmentsOf(bs)[k] = EncodeSegment(MessageBus, bs[k])
<1> DEFINE P == SegmentsOf(bs)
           n == Len(bs)
<1>1. n \in Nat /\ DOMAIN bs = 1..n /\ \A k \in 1..n : bs[k] \in Payloads
  BY LenProperties, ElementOfSeq
<1>2. P = [k \in 1..n |-> EncodeSegment(MessageBus, bs[k])]
  BY <1>1 DEF SegmentsOf
<1>3. \A b \in Payloads : EncodeSegment(MessageBus, b) \in Seq(Byte)
  <2> SUFFICES ASSUME NEW b \in Payloads PROVE EncodeSegment(MessageBus, b) \in Seq(Byte)
    OBVIOUS
  <2>1. PICK m \in Nat : m = Len(b) /\ m < 4096
    BY LenProperties DEF Payloads
  <2>2. SegmentHead(MessageBus, m) \in Seq(Byte)
    <3>1. MessageBus \in 0..7
      BY DEF MessageBus
    <3> QED BY <2>1, <3>1, SegmentHeadTells
  <2>3. b \in Seq(Byte)
    BY DEF Payloads
  <2>4. SegmentHead(MessageBus, m) \o b \in Seq(Byte)
    BY <2>2, <2>3, ConcatProperties
  <2> QED BY <2>1, <2>4 DEF EncodeSegment
<1> HIDE DEF n
<1>4. P \in [1..n -> Seq(Byte)] /\ \A k \in 1..n : P[k] = EncodeSegment(MessageBus, bs[k])
  BY <1>1, <1>2, <1>3
<1>5. P \in Seq(Seq(Byte)) /\ Len(P) = n
  <2> HIDE DEF P
  <2>1. DOMAIN P = 1..n
    BY <1>4
  <2> QED BY <1>1, <1>4, <2>1, LenProperties, IsASeq
<1> QED BY <1>1, <1>4, <1>5 DEF n

(* As many are told as there are bodies.                                   *)
LEMMA ToldType ==
    ASSUME NEW bs \in Seq(Payloads)
    PROVE  /\ Told(bs) \in Seq({Segment(MessageBus, b) : b \in Payloads}) /\ Len(Told(bs)) = Len(bs)
           /\ \A k \in 1..Len(bs) : Told(bs)[k] = Segment(MessageBus, bs[k])
<1> DEFINE P == Told(bs)
           n == Len(bs)
           S == {Segment(MessageBus, b) : b \in Payloads}
<1>1. n \in Nat /\ DOMAIN bs = 1..n /\ \A k \in 1..n : bs[k] \in Payloads
  BY LenProperties, ElementOfSeq
<1>2. P = [k \in 1..n |-> Segment(MessageBus, bs[k])]
  BY <1>1 DEF Told
<1>3. \A k \in 1..n : Segment(MessageBus, bs[k]) \in S
  BY <1>1
<1> HIDE DEF n, S
<1>4. P \in [1..n -> S] /\ \A k \in 1..n : P[k] = Segment(MessageBus, bs[k])
  BY <1>2, <1>3
<1>5. P \in Seq(S) /\ Len(P) = n
  <2> HIDE DEF P
  <2>1. DOMAIN P = 1..n
    BY <1>4
  <2> QED BY <1>1, <1>4, <2>1, LenProperties, IsASeq
<1> QED BY <1>4, <1>5 DEF n, S

(* A notification is read as the bodies that were put in it, each whole    *)
(* and in its place, however many share it: what encodeSegment writes,     *)
(* decodeSegments reads.                                                   *)
THEOREM SegmentsComeBack ==
    ASSUME NEW bs \in Seq(Payloads)
    PROVE  DecodeSegments(Join(bs)) = Told(bs)
<1> DEFINE n == Len(bs)
           P == SegmentsOf(bs)
           S == {Segment(MessageBus, b) : b \in Payloads}
           buffer == Join(bs)
           read == SegmentsIn(buffer)
           T == {k \in 1..(n + 1) : \A i \in Nat :
                     Has(buffer, i, Rest(P, k)) /\ i + Len(Rest(P, k)) = Len(buffer) + 1
                        => Walk(read, i) = SubSeq(Told(bs), k, n)}
<1>1. /\ P \in Seq(Seq(Byte)) /\ Len(P) = n /\ n \in Nat
      /\ \A k \in 1..n : bs[k] \in Payloads /\ P[k] = EncodeSegment(MessageBus, bs[k])
  BY SegmentsOfType
<1>2. /\ Told(bs) \in Seq(S) /\ Len(Told(bs)) = n
      /\ \A k \in 1..n : Told(bs)[k] = Segment(MessageBus, bs[k])
  BY ToldType
<1>3. buffer = Flatten(P)
  BY DEF Join
<1>4. DecodeSegments(buffer) = Walk(read, 1)
  BY DEF DecodeSegments, SegmentsIn
<1> HIDE DEF n, P, buffer
<1>5. /\ buffer \in Seq(Byte) /\ buffer = Rest(P, 1)
      /\ \A k \in 1..n : Rest(P, k) = P[k] \o Rest(P, k + 1)
      /\ Rest(P, n + 1) = <<>>
      /\ \A k \in 1..(n + 1) : Rest(P, k) \in Seq(Byte)
  <2>1. /\ Flatten(P) \in Seq(Byte)
        /\ Flatten(P) = Rest(P, 1)
        /\ \A k \in 1..Len(P) : Rest(P, k) = P[k] \o Rest(P, k + 1)
        /\ Rest(P, Len(P) + 1) = <<>>
        /\ \A k \in 1..(Len(P) + 1) : Rest(P, k) \in Seq(Byte)
    BY <1>1, FlattenOfSeq
  <2> QED BY <1>1, <1>3, <2>1
<1>6. Len(buffer) \in Nat
  BY <1>5, LenProperties
<1>7. /\ \A i \in 1..Len(buffer) : Walk(read, i) = read[i].found \o Walk(read, read[i].next)
      /\ \A i \in Nat : i \notin 1..Len(buffer) => Walk(read, i) = <<>>
  BY <1>5, <1>6, SegmentsGoOn, WalkUnfolds
<1>8. \A i \in 1..Len(buffer) : read[i] = SegmentAt(buffer, i)
  BY DEF SegmentsIn
<1> HIDE DEF read, S
<1>9. n + 1 \in T
  <2>1. ASSUME NEW i \in Nat, i + Len(Rest(P, n + 1)) = Len(buffer) + 1
        PROVE  Walk(read, i) = SubSeq(Told(bs), n + 1, n)
    <3>1. i \notin 1..Len(buffer)
      <4>1. Len(Rest(P, n + 1)) = 0
        BY <1>5
      <4> QED BY <1>6, <2>1, <4>1
    <3>2. Walk(read, i) = <<>>
      BY <1>7, <3>1
    <3>3. SubSeq(Told(bs), n + 1, n) = <<>>
      BY <1>1, <1>2, SubSeqEmpty
    <3> QED BY <3>2, <3>3
  <2>2. n + 1 \in 1..(n + 1)
    BY <1>1
  <2> QED BY <2>1, <2>2
<1>10. ASSUME NEW k \in 1..n, k + 1 \in T PROVE k \in T
  <2>0. k \in 1..(n + 1) /\ k + 1 \in 1..(n + 1) /\ MessageBus \in 0..7
    BY <1>1 DEF MessageBus
  <2>1. ASSUME NEW i \in Nat, Has(buffer, i, Rest(P, k)), i + Len(Rest(P, k)) = Len(buffer) + 1
        PROVE  Walk(read, i) = SubSeq(Told(bs), k, n)
    <3> DEFINE s == P[k]
               t == Rest(P, k + 1)
    <3>1. s \in Seq(Byte) /\ t \in Seq(Byte) /\ Rest(P, k) = s \o t /\ s = EncodeSegment(MessageBus, bs[k])
      BY <1>1, <1>5, <2>0, ElementOfSeq
    <3> HIDE DEF s, t
    <3>2. Has(buffer, i, s)
      BY <1>5, <2>1, <3>1, HasParts
    <3>3. Has(buffer, i + Len(s), t)
      BY <1>5, <2>1, <3>1, HasParts
    <3>4. Len(s \o t) = Len(s) + Len(t) /\ Len(s) \in Nat /\ Len(t) \in Nat
      BY <3>1, ConcatProperties, LenProperties
    <3>5. i + Len(s) + Len(t) = Len(buffer) + 1 /\ i + Len(s) \in Nat
      BY <1>6, <2>1, <3>1, <3>4
    <3>6. bs[k] \in Payloads
      BY <1>1
    <3>7. SegmentAt(buffer, i) = Finds(Segment(MessageBus, bs[k]), i + Len(s)) /\ i \in 1..Len(buffer)
      BY <1>5, <2>0, <3>1, <3>2, <3>6, SegmentIsRead
    <3>8. read[i].found = <<Segment(MessageBus, bs[k])>> /\ read[i].next = i + Len(s)
      BY <1>8, <3>7 DEF Finds
    <3>9. Walk(read, i + Len(s)) = SubSeq(Told(bs), k + 1, n)
      BY <1>10, <3>3, <3>5 DEF t
    <3>10. Walk(read, i) = <<Told(bs)[k]>> \o SubSeq(Told(bs), k + 1, n)
      BY <1>2, <1>7, <3>7, <3>8, <3>9
    <3>11. SubSeq(Told(bs), k, n) = <<Told(bs)[k]>> \o SubSeq(Told(bs), k + 1, n)
      BY <1>1, <1>2, SubSeqRecursiveFirst
    <3> QED BY <3>10, <3>11
  <2> QED BY <2>0, <2>1
<1>11. \A k \in 1..(n + 1) : k \in T
  <2> HIDE DEF T
  <2> QED BY <1>1, <1>9, <1>10, InductDown
<1>12. Has(buffer, 1, Rest(P, 1)) /\ 1 + Len(Rest(P, 1)) = Len(buffer) + 1
  <2>1. Has(buffer, 1, buffer)
    BY <1>5, HasItself
  <2> QED BY <1>5, <1>6, <2>1
<1>13. Walk(read, 1) = SubSeq(Told(bs), 1, n)
  <2>1. 1 \in 1..(n + 1) /\ 1 \in Nat
    BY <1>1
  <2> QED BY <1>11, <1>12, <2>1
<1>14. SubSeq(Told(bs), 1, n) = Told(bs)
  BY <1>2, SubSeqFull
<1> QED BY <1>4, <1>13, <1>14 DEF buffer

-----------------------------------------------------------------------------
(***************************************************************************)
(* Varints.                                                                *)
(***************************************************************************)
\* One group of the recursion.
Groups(f, k) == IF k < 128 THEN <<k>> ELSE <<128 + (k % 128)>> \o f[k \div 128]

\* The recursion up to m.
Below(f, m) == f = [k \in Nat |-> f[k]] /\ \A k \in Nat : k < m => f[k] = Groups(f, k)

(* Two solutions of the recursion agree as far as both go.                 *)
LEMMA BelowAgree ==
    ASSUME NEW f, NEW g, NEW m \in Nat, NEW l \in Nat, Below(f, m), Below(g, l)
    PROVE  \A k \in Nat : k < m /\ k < l => f[k] = g[k]
<1> DEFINE T == {k \in Nat : k < m /\ k < l => f[k] = g[k]}
<1>1. ASSUME NEW k \in Nat, \A j \in Nat : j < k => j \in T PROVE k \in T
  <2>1. ASSUME k < m, k < l PROVE f[k] = g[k]
    <3>1. f[k] = Groups(f, k) /\ g[k] = Groups(g, k)
      BY <2>1 DEF Below
    <3>2. k >= 128 => k \div 128 \in Nat /\ k \div 128 < k
      OBVIOUS
    <3>3. k >= 128 => f[k \div 128] = g[k \div 128]
      BY <1>1, <2>1, <3>2
    <3>4. Groups(f, k) = Groups(g, k)
      BY <3>3 DEF Groups
    <3> QED BY <3>1, <3>4
  <2> QED BY <2>1
<1>2. Nat \subseteq T
  <2> HIDE DEF T
  <2> QED BY <1>1, StrongInduct
<1> QED BY <1>2

(* A varint is a last group, or a group and the varint of the rest.        *)
LEMMA VarintUnfolds ==
    ASSUME NEW n \in Nat
    PROVE  Varint(n) = IF n < 128 THEN <<n>> ELSE <<128 + (n % 128)>> \o Varint(n \div 128)
<1> DEFINE F == CHOOSE f : f = [k \in Nat |-> Groups(f, k)]
           T == {m \in Nat : \E f : Below(f, m)}
           C(m) == CHOOSE f : Below(f, m)
           G == [k \in Nat |-> C(k + 1)[k]]
<1>1. \A k \in Nat : k \div 128 \in Nat /\ (k >= 128 => k \div 128 < k)
  OBVIOUS
<1>2. 0 \in T
  <2> DEFINE f == [k \in Nat |-> <<>>]
  <2>1. Below(f, 0)
    BY DEF Below
  <2> QED BY <2>1
<1>3. ASSUME NEW m \in Nat, m \in T PROVE m + 1 \in T
  <2>1. PICK f : Below(f, m)
    BY <1>3
  <2> DEFINE g == [k \in Nat |-> IF k = m THEN Groups(f, m) ELSE f[k]]
  <2>2. g = [k \in Nat |-> g[k]]
    OBVIOUS
  <2>3. ASSUME NEW k \in Nat, k < m + 1 PROVE g[k] = Groups(g, k)
    <3>1. g[k] = Groups(f, k)
      <4>1. k < m \/ k = m
        BY <2>3
      <4> QED BY <2>1, <4>1 DEF Below
    <3>2. k >= 128 => g[k \div 128] = f[k \div 128]
      BY <1>1, <2>3
    <3>3. Groups(g, k) = Groups(f, k)
      <4> HIDE DEF g
      <4> QED BY <3>2 DEF Groups
    <3> QED BY <3>1, <3>3
  <2>4. Below(g, m + 1)
    <3> HIDE DEF g
    <3> QED BY <2>2, <2>3 DEF Below
  <2>5. m + 1 \in Nat
    OBVIOUS
  <2> HIDE DEF g
  <2> QED BY <2>4, <2>5
<1>4. Nat \subseteq T
  <2> HIDE DEF T
  <2> QED BY <1>2, <1>3, Induct
<1>5. \A m \in Nat : Below(C(m), m)
  BY <1>4
<1> HIDE DEF T, C
<1>6. \A k \in Nat : G[k] = C(k + 1)[k]
  OBVIOUS
<1>7. ASSUME NEW k \in Nat PROVE G[k] = Groups(G, k)
  <2>1. Below(C(k + 1), k + 1) /\ k + 1 \in Nat /\ k < k + 1
    BY <1>5
  <2>2. C(k + 1)[k] = Groups(C(k + 1), k)
    BY <2>1 DEF Below
  <2>3. k >= 128 => C(k + 1)[k \div 128] = G[k \div 128]
    <3> SUFFICES ASSUME k >= 128 PROVE C(k + 1)[k \div 128] = G[k \div 128]
      OBVIOUS
    <3>1. PICK j \in Nat : j = k \div 128
      BY <1>1
    <3>2. j < k + 1 /\ j < j + 1 /\ j + 1 \in Nat
      BY <1>1, <3>1
    <3>3. C(k + 1)[j] = C(j + 1)[j]
      BY <1>5, <2>1, <3>2, BelowAgree
    <3> QED BY <1>6, <3>1, <3>3
  <2>4. Groups(C(k + 1), k) = Groups(G, k)
    <3> HIDE DEF G
    <3> QED BY <2>3 DEF Groups
  <2> QED BY <1>6, <2>2, <2>4
<1>8. G = [k \in Nat |-> Groups(G, k)]
  BY <1>7
<1>9. F = [k \in Nat |-> Groups(F, k)]
  <2> HIDE DEF G
  <2> QED BY <1>8
<1>10. \A m : Varint(m) = F[m]
  BY DEF Varint, Groups
<1> HIDE DEF F
<1>11. F[n] = Groups(F, n)
  BY <1>9
<1> QED BY <1>10, <1>11 DEF Groups

\* The subsets of the first n numbers; there are 2^n of them.
Subsets(n) == SUBSET (1..n)

(* There are as many sets of numbers to n + 1 with n + 1 as without.       *)
LEMMA TwiceAsManySubsets ==
    ASSUME NEW n \in Nat, IsFiniteSet(Subsets(n))
    PROVE  /\ IsFiniteSet(Subsets(n + 1))
           /\ Cardinality(Subsets(n + 1)) = 2 * Cardinality(Subsets(n))
<1> DEFINE A == Subsets(n)
           B == {s \cup {n + 1} : s \in A}
           f == [s \in A |-> s \cup {n + 1}]
<1>0. n + 1 \notin 1..n /\ 1..(n + 1) = (1..n) \cup {n + 1}
  OBVIOUS
<1>1. \A s \in A : n + 1 \notin s
  BY <1>0 DEF Subsets
<1>2. f \in Bijection(A, B)
  <2>1. f \in [A -> B]
    OBVIOUS
  <2>2. \A s, t \in A : f[s] = f[t] => s = t
    <3> SUFFICES ASSUME NEW s \in A, NEW t \in A, f[s] = f[t] PROVE s = t
      OBVIOUS
    <3>1. s \cup {n + 1} = t \cup {n + 1}
      OBVIOUS
    <3>2. n + 1 \notin s /\ n + 1 \notin t
      BY <1>1
    <3> HIDE DEF A, B, f
    <3> QED BY <3>1, <3>2
  <2>3. \A b \in B : \E s \in A : f[s] = b
    OBVIOUS
  <2> HIDE DEF A, B, f
  <2> QED BY <2>1, <2>2, <2>3 DEF Bijection, Injection, Surjection, IsInjective
<1>3. IsFiniteSet(B) /\ Cardinality(B) = Cardinality(A)
  <2> HIDE DEF B, f
  <2>1. ExistsBijection(A, B)
    BY <1>2 DEF ExistsBijection
  <2> HIDE DEF A
  <2>2. IsFiniteSet(A)
    BY DEF A
  <2> QED BY <2>1, <2>2, FS_Bijection
<1>4. A \cap B = {}
  BY <1>1
<1>5. Subsets(n + 1) = A \cup B
  <2>1. Subsets(n + 1) \subseteq A \cup B
    <3> SUFFICES ASSUME NEW s, s \in Subsets(n + 1) PROVE s \in A \cup B
      OBVIOUS
    <3> DEFINE t == s \ {n + 1}
    <3>1. t \in A
      BY <1>0 DEF Subsets
    <3>2. s = t \/ s = t \cup {n + 1}
      OBVIOUS
    <3> HIDE DEF A, t
    <3> QED BY <3>1, <3>2
  <2>2. A \cup B \subseteq Subsets(n + 1)
    BY <1>0 DEF Subsets
  <2> QED BY <2>1, <2>2
<1> HIDE DEF A, B, f
<1>6. IsFiniteSet(A) /\ Cardinality(A) \in Nat
  BY FS_CardinalityType DEF A
<1>7. /\ IsFiniteSet(A \cup B)
      /\ Cardinality(A \cup B) = Cardinality(A) + Cardinality(B) - Cardinality(A \cap B)
  BY <1>3, <1>6, FS_Union
<1>8. Cardinality(A \cap B) = 0
  BY <1>4, FS_EmptySet
<1>9. Cardinality(A \cup B) = 2 * Cardinality(A)
  BY <1>3, <1>6, <1>7, <1>8
<1> QED BY <1>5, <1>7, <1>9 DEF A

(* Powers of two, as far as they are needed: 2^n is a number that doubles  *)
(* with every step.                                                        *)
LEMMA Powers ==
    /\ 2^0 = 1
    /\ \A n \in Nat : 2^n \in Nat
    /\ \A n \in Nat : 2^(n + 1) = 2 * 2^n
<1> DEFINE T == {n \in Nat : IsFiniteSet(Subsets(n))}
<1>1. \A n \in Nat : IsFiniteSet(Subsets(n)) /\ Cardinality(Subsets(n)) = 2^n /\ Cardinality(Subsets(n)) \in Nat
  <2> SUFFICES ASSUME NEW n \in Nat
               PROVE  IsFiniteSet(Subsets(n)) /\ Cardinality(Subsets(n)) = 2^n /\ Cardinality(Subsets(n)) \in Nat
    OBVIOUS
  <2>1. IsFiniteSet(1..n) /\ Cardinality(1..n) = n
    <3>1. IsFiniteSet(1..n) /\ Cardinality(1..n) = IF 1 > n THEN 0 ELSE n - 1 + 1
      BY FS_Interval
    <3> QED BY <3>1
  <2>2. IsFiniteSet(SUBSET (1..n)) /\ Cardinality(SUBSET (1..n)) = 2^Cardinality(1..n)
    BY <2>1, FS_SUBSET
  <2>3. Cardinality(SUBSET (1..n)) \in Nat
    BY <2>2, FS_CardinalityType
  <2> QED BY <2>1, <2>2, <2>3 DEF Subsets
<1>2. 2^0 = 1
  <2>1. Subsets(0) = {{}}
    BY DEF Subsets
  <2>2. Cardinality({{}}) = 1
    BY FS_Singleton
  <2> QED BY <1>1, <2>1, <2>2
<1>3. \A n \in Nat : 2^(n + 1) = 2 * 2^n
  <2> SUFFICES ASSUME NEW n \in Nat PROVE 2^(n + 1) = 2 * 2^n
    OBVIOUS
  <2>1. Cardinality(Subsets(n + 1)) = 2 * Cardinality(Subsets(n))
    BY <1>1, TwiceAsManySubsets
  <2>2. n + 1 \in Nat
    OBVIOUS
  <2> QED BY <1>1, <2>1, <2>2
<1>4. \A n \in Nat : 2^n \in Nat
  BY <1>1
<1> QED BY <1>2, <1>3, <1>4

(* A sum is its first term and the sum of the rest, whatever the terms.    *)
LEMMA TotalUnfolds ==
    ASSUME NEW a \in Nat, NEW b \in Nat, NEW terms, DOMAIN terms = a..b
    PROVE  /\ \A i \in a..b : Total(terms, i) = terms[i] + Total(terms, i + 1)
           /\ Total(terms, b + 1) = 0
<1> DEFINE Step(f, k) == IF k \in DOMAIN terms THEN terms[k] + f[k + 1] ELSE 0
           F == CHOOSE f : f = [k \in Nat |-> Step(f, k)]
           T == {m \in Nat : \E f : /\ f = [k \in Nat |-> f[k]]
                                    /\ \A k \in Nat : k + m > b => f[k] = Step(f, k)}
<1>2. 0 \in T
  <2> DEFINE f == [k \in Nat |-> 0]
  <2>1. \A k \in Nat : k + 0 > b => f[k] = Step(f, k)
    OBVIOUS
  <2>2. f = [k \in Nat |-> f[k]]
    OBVIOUS
  <2> QED BY <2>1, <2>2
<1>3. ASSUME NEW m \in Nat, m \in T PROVE m + 1 \in T
  <2>1. PICK f : /\ f = [k \in Nat |-> f[k]]
                 /\ \A k \in Nat : k + m > b => f[k] = Step(f, k)
    BY <1>3
  <2> DEFINE g == [k \in Nat |-> IF k + m = b THEN Step(f, k) ELSE f[k]]
  <2>2. g = [k \in Nat |-> g[k]]
    OBVIOUS
  <2>3. ASSUME NEW k \in Nat, k + (m + 1) > b PROVE g[k] = Step(g, k)
    <3>1. k + 1 \in Nat /\ k + 1 + m # b /\ (k + m > b \/ k + m = b)
      BY <2>3
    <3>2. g[k + 1] = f[k + 1]
      BY <3>1
    <3>3. Step(g, k) = Step(f, k)
      <4> HIDE DEF g
      <4> QED BY <3>2
    <3>4. g[k] = Step(f, k)
      <4> HIDE DEF Step
      <4>1. k + m = b \/ f[k] = Step(f, k)
        BY <2>1, <3>1
      <4> QED BY <4>1
    <3> QED BY <3>3, <3>4
  <2>4. \E h : /\ h = [k \in Nat |-> h[k]]
               /\ \A k \in Nat : k + (m + 1) > b => h[k] = Step(h, k)
    <3> HIDE DEF g, Step
    <3> QED BY <2>2, <2>3
  <2>5. m + 1 \in Nat
    OBVIOUS
  <2> HIDE DEF Step
  <2> QED BY <2>4, <2>5
<1>4. b + 1 \in T
  <2> HIDE DEF T
  <2>1. Nat \subseteq T
    BY <1>2, <1>3, Induct
  <2> QED BY <2>1
<1>5. \E f : f = [k \in Nat |-> Step(f, k)]
  <2>1. PICK f : /\ f = [k \in Nat |-> f[k]]
                 /\ \A k \in Nat : k + (b + 1) > b => f[k] = Step(f, k)
    BY <1>4
  <2> HIDE DEF Step
  <2>2. \A k \in Nat : f[k] = Step(f, k)
    <3>1. \A k \in Nat : k + (b + 1) > b
      OBVIOUS
    <3> QED BY <2>1, <3>1
  <2>3. f = [k \in Nat |-> Step(f, k)]
    BY <2>1, <2>2
  <2> QED BY <2>3
<1>6. F = [k \in Nat |-> Step(F, k)]
  <2> HIDE DEF Step
  <2> QED BY <1>5
<1>7. \A i : Total(terms, i) = F[i]
  BY DEF Total
<1>8. \A i \in Nat : F[i] = Step(F, i)
  <2> HIDE DEF Step, F
  <2> QED BY <1>6
<1>9. \A i \in a..b : Step(F, i) = terms[i] + F[i + 1]
  OBVIOUS
<1>10. Step(F, b + 1) = 0 /\ b + 1 \in Nat
  OBVIOUS
<1> HIDE DEF F, Step, T
<1>11. \A i \in a..b : i \in Nat
  OBVIOUS
<1> QED BY <1>7, <1>8, <1>9, <1>10, <1>11

(* The groups of a varint are seven bits wide.                             *)
LEMMA SevenBits == 2^7 = 128 /\ \A n \in Nat : 2^(n + 7) = 128 * 2^n
<1>1. \A n \in Nat : 2^(n + 7) = 128 * 2^n
  <2> SUFFICES ASSUME NEW n \in Nat PROVE 2^(n + 7) = 128 * 2^n
    OBVIOUS
  <2>1. /\ n + 1 \in Nat /\ n + 2 \in Nat /\ n + 3 \in Nat /\ n + 4 \in Nat /\ n + 5 \in Nat /\ n + 6 \in Nat
        /\ n + 1 + 1 = n + 2 /\ n + 2 + 1 = n + 3 /\ n + 3 + 1 = n + 4 /\ n + 4 + 1 = n + 5
        /\ n + 5 + 1 = n + 6 /\ n + 6 + 1 = n + 7
    OBVIOUS
  <2>2. 2^(n + 2) = 4 * 2^n
    BY <2>1, Powers
  <2>3. 2^(n + 4) = 16 * 2^n
    <3>1. 2^(n + 3) = 8 * 2^n
      BY <2>1, <2>2, Powers
    <3> QED BY <2>1, <3>1, Powers
  <2>4. 2^(n + 6) = 64 * 2^n
    <3>1. 2^(n + 5) = 32 * 2^n
      BY <2>1, <2>3, Powers
    <3> QED BY <2>1, <3>1, Powers
  <2> QED BY <2>1, <2>4, Powers
<1>2. 2^7 = 128
  <2>1. 0 \in Nat /\ 0 + 7 = 7
    OBVIOUS
  <2>2. 2^(0 + 7) = 128 * 2^0
    BY <1>1, <2>1
  <2> QED BY <2>1, <2>2, Powers
<1> QED BY <1>1, <1>2

(* Powers grow.                                                            *)
LEMMA PowersGrow ==
    /\ \A n \in Nat : 2^n > 0
    /\ \A m, n \in Nat : m <= n => 2^m <= 2^n
<1> DEFINE T == {n \in Nat : 2^n > 0}
<1>1. Nat \subseteq T
  <2>1. 0 \in T /\ \A n \in Nat : n \in T => n + 1 \in T
    BY Powers
  <2> HIDE DEF T
  <2> QED BY <2>1, Induct
<1> DEFINE U == {d \in Nat : \A m \in Nat : 2^m <= 2^(m + d)}
<1>2. Nat \subseteq U
  <2>1. 0 \in U
    BY Powers
  <2>2. ASSUME NEW d \in Nat, d \in U PROVE d + 1 \in U
    <3>1. ASSUME NEW m \in Nat PROVE 2^m <= 2^(m + (d + 1))
      <4>1. m + d \in Nat /\ m + (d + 1) = m + d + 1 /\ d + 1 \in Nat
        OBVIOUS
      <4>2. 2^m <= 2^(m + d)
        BY <2>2
      <4> QED BY <4>1, <4>2, Powers
    <3> QED BY <3>1
  <2> HIDE DEF U
  <2> QED BY <2>1, <2>2, Induct
<1>3. ASSUME NEW m \in Nat, NEW n \in Nat, m <= n PROVE 2^m <= 2^n
  <2>1. n - m \in Nat /\ m + (n - m) = n
    BY <1>3
  <2>2. n - m \in U
    BY <1>2, <2>1
  <2> QED BY <2>1, <2>2
<1> QED BY <1>1, <1>3

(* What a word holds.                                                      *)
LEMMA WordHolds == 2^Word \in Nat /\ 2^Word >= 65536 /\ 2^Word <= 128 * 128 * 128 * 128 * 16
<1>1. Word \in Nat /\ 16 <= Word /\ Word <= 32
  BY WordAssumption
<1>2. 2^1 = 2 /\ 2^2 = 4
  <2>1. 0 + 1 = 1 /\ 1 + 1 = 2 /\ 0 \in Nat /\ 1 \in Nat
    OBVIOUS
  <2> QED BY <2>1, Powers
<1>3. 2^9 = 512 /\ 2^16 = 65536
  <2>1. 2 + 7 = 9 /\ 9 + 7 = 16 /\ 2 \in Nat /\ 9 \in Nat
    OBVIOUS
  <2> QED BY <1>2, <2>1, SevenBits
<1>4. 2^32 = 128 * 128 * 128 * 128 * 16
  <2>1. 16 + 7 = 23 /\ 23 + 7 = 30 /\ 30 + 1 = 31 /\ 31 + 1 = 32 /\ 16 \in Nat /\ 23 \in Nat /\ 30 \in Nat /\ 31 \in Nat
    OBVIOUS
  <2>2. 2^30 = 128 * 128 * 65536
    BY <1>3, <2>1, SevenBits
  <2> QED BY <2>1, <2>2, Powers
<1>5. 16 \in Nat /\ 32 \in Nat
  OBVIOUS
<1>6. 2^16 <= 2^Word /\ 2^Word <= 2^32
  BY <1>1, <1>5, PowersGrow
<1> QED BY <1>1, <1>3, <1>4, <1>6, Powers

\* The bytes a number takes.
Long(n) == Len(Varint(n))

(* One byte in front of a sequence.                                        *)
LEMMA ByteBefore ==
    ASSUME NEW x \in Byte, NEW s \in Seq(Byte)
    PROVE  /\ <<x>> \o s \in Seq(Byte) /\ Len(<<x>> \o s) = Len(s) + 1 /\ Len(s) \in Nat
           /\ (<<x>> \o s)[1] = x
           /\ \A k \in 1..Len(s) : (<<x>> \o s)[k + 1] = s[k]
<1>1. <<x>> \in Seq(Byte) /\ Len(<<x>>) = 1 /\ <<x>>[1] = x /\ Len(s) \in Nat
  BY LenProperties
<1> DEFINE h == <<x>>
           t == h \o s
<1>2. /\ t \in Seq(Byte) /\ Len(t) = Len(h) + Len(s)
      /\ \A i \in 1 .. Len(h) + Len(s) : t[i] = IF i <= Len(h) THEN h[i] ELSE s[i - Len(h)]
  <2> HIDE DEF h
  <2>1. h \in Seq(Byte)
    BY <1>1 DEF h
  <2> QED BY <2>1, ConcatProperties
<1>3. Len(h) = 1 /\ h[1] = x
  BY <1>1
<1> HIDE DEF h, t
<1>4. t \in Seq(Byte) /\ Len(t) = Len(s) + 1 /\ t[1] = x /\ \A k \in 1..Len(s) : t[k + 1] = s[k]
  BY <1>1, <1>2, <1>3
<1> QED BY <1>1, <1>4 DEF h, t

(* The first group of a varint, and the rest.                              *)
LEMMA VarintHead ==
    ASSUME NEW n \in Nat
    PROVE  /\ n \div 128 \in Nat /\ n % 128 \in Nat /\ n % 128 < 128 /\ n = 128 * (n \div 128) + (n % 128)
           /\ n >= 128 => n \div 128 < n /\ n \div 128 > 0
           /\ n < 128 => Varint(n) = <<n>>
           /\ n >= 128 => Varint(n) = <<128 + (n % 128)>> \o Varint(n \div 128)
<1>1. n \div 128 \in Nat /\ n % 128 \in Nat /\ n % 128 < 128 /\ n = 128 * (n \div 128) + (n % 128)
  OBVIOUS
<1>2. n >= 128 => n \div 128 < n /\ n \div 128 > 0
  OBVIOUS
<1>3. Varint(n) = IF n < 128 THEN <<n>> ELSE <<128 + (n % 128)>> \o Varint(n \div 128)
  BY VarintUnfolds
<1> QED BY <1>1, <1>2, <1>3

(* A varint is a sequence of bytes, at least one.                          *)
LEMMA VarintType ==
    ASSUME NEW n \in Nat
    PROVE  Varint(n) \in Seq(Byte) /\ Long(n) \in Nat /\ Long(n) >= 1
<1> DEFINE T == {k \in Nat : Varint(k) \in Seq(Byte) /\ Long(k) \in Nat /\ Long(k) >= 1}
<1>1. ASSUME NEW k \in Nat, \A j \in Nat : j < k => j \in T PROVE k \in T
  <2>1. CASE k < 128
    <3>1. Varint(k) = <<k>>
      BY <2>1, VarintHead
    <3>0. k \in Byte
      BY <2>1 DEF Byte
    <3>2. <<k>> \in Seq(Byte)
      BY <3>0
    <3>3. Varint(k) \in Seq(Byte)
      BY <3>1, <3>2
    <3>4. Long(k) = 1
      BY <3>1 DEF Long
    <3> QED BY <3>3, <3>4
  <2>2. CASE k >= 128
    <3>1. /\ Varint(k) = <<128 + (k % 128)>> \o Varint(k \div 128) /\ 128 + (k % 128) \in Byte
          /\ k \div 128 \in T
      <4>1. k \div 128 \in Nat /\ k \div 128 < k /\ k % 128 \in Nat /\ k % 128 < 128
        BY <2>2
      <4>2. 128 + (k % 128) \in Byte
        BY <4>1 DEF Byte
      <4>3. Varint(k) = <<128 + (k % 128)>> \o Varint(k \div 128)
        BY <2>2, VarintHead
      <4> QED BY <1>1, <4>1, <4>2, <4>3
    <3>2. Varint(k) \in Seq(Byte) /\ Len(Varint(k)) = Len(Varint(k \div 128)) + 1 /\ Len(Varint(k \div 128)) \in Nat
      BY <3>1, ByteBefore
    <3> QED BY <3>2 DEF Long
  <2> QED BY <2>1, <2>2
<1>2. Nat \subseteq T
  <2> HIDE DEF T
  <2> QED BY <1>1, StrongInduct
<1> QED BY <1>2

(* A varint of more than a byte: the bytes behind the first.               *)
LEMMA VarintTail ==
    ASSUME NEW n \in Nat, n >= 128
    PROVE  /\ Long(n) = Long(n \div 128) + 1
           /\ Varint(n)[1] = 128 + (n % 128)
           /\ \A k \in 1..Long(n \div 128) : Varint(n)[k + 1] = Varint(n \div 128)[k]
<1>1. n \div 128 \in Nat /\ n % 128 \in Nat /\ n % 128 < 128
  BY VarintHead
<1>2. Varint(n) = <<128 + (n % 128)>> \o Varint(n \div 128)
  BY VarintHead
<1>3. 128 + (n % 128) \in Byte
  BY <1>1 DEF Byte
<1>4. Varint(n \div 128) \in Seq(Byte)
  BY <1>1, VarintType
<1> DEFINE x == 128 + (n % 128)
           s == Varint(n \div 128)
<1>5. /\ <<x>> \o s \in Seq(Byte) /\ Len(<<x>> \o s) = Len(s) + 1 /\ Len(s) \in Nat
      /\ (<<x>> \o s)[1] = x
      /\ \A k \in 1..Len(s) : (<<x>> \o s)[k + 1] = s[k]
  <2> HIDE DEF x, s
  <2>1. x \in Byte /\ s \in Seq(Byte)
    BY <1>3, <1>4 DEF x, s
  <2> QED BY <2>1, ByteBefore
<1> QED BY <1>2, <1>5 DEF Long

(* Every byte but the last says that another one follows.                  *)
LEMMA VarintFlags ==
    ASSUME NEW n \in Nat
    PROVE  \A k \in 1..Long(n) : Varint(n)[k] < 128 <=> k = Long(n)
<1> DEFINE T == {m \in Nat : \A k \in 1..Long(m) : Varint(m)[k] < 128 <=> k = Long(m)}
<1>1. ASSUME NEW m \in Nat, \A j \in Nat : j < m => j \in T PROVE m \in T
  <2>1. CASE m < 128
    <3>1. Varint(m) = <<m>>
      BY <2>1, VarintHead
    <3>2. Long(m) = 1 /\ Varint(m)[1] = m
      BY <3>1 DEF Long
    <3> QED BY <2>1, <3>2
  <2>2. CASE m >= 128
    <3>1. m \div 128 \in Nat /\ m \div 128 < m /\ m % 128 \in Nat
      BY <2>2, VarintHead
    <3>2. \A k \in 1..Long(m \div 128) : Varint(m \div 128)[k] < 128 <=> k = Long(m \div 128)
      BY <1>1, <3>1
    <3>3. /\ Long(m) = Long(m \div 128) + 1 /\ Varint(m)[1] = 128 + (m % 128)
          /\ \A k \in 1..Long(m \div 128) : Varint(m)[k + 1] = Varint(m \div 128)[k]
      BY <2>2, VarintTail
    <3>4. Long(m \div 128) \in Nat /\ Long(m \div 128) >= 1
      BY <3>1, VarintType
    <3>5. ASSUME NEW k \in 1..Long(m) PROVE Varint(m)[k] < 128 <=> k = Long(m)
      <4>1. CASE k = 1
        BY <3>1, <3>3, <3>4, <4>1
      <4>2. CASE k # 1
        <5>1. k - 1 \in 1..Long(m \div 128) /\ k - 1 + 1 = k /\ (k - 1 = Long(m \div 128) <=> k = Long(m))
          BY <3>3, <3>4, <4>2
        <5>2. Varint(m)[k] = Varint(m \div 128)[k - 1]
          BY <3>3, <5>1
        <5> QED BY <3>2, <5>1, <5>2
      <4> QED BY <4>1, <4>2
    <3> QED BY <3>5
  <2> QED BY <2>1, <2>2
<1>2. Nat \subseteq T
  <2> HIDE DEF T
  <2> QED BY <1>1, StrongInduct
<1> QED BY <1>2

(* How many bytes a number takes: one for every seven bits of it.          *)
LEMMA VarintLength ==
    ASSUME NEW n \in Nat
    PROVE  /\ n < 2^(7 * Long(n))
           /\ Long(n) = 1 \/ 2^(7 * (Long(n) - 1)) <= n
<1> DEFINE T == {m \in Nat : m < 2^(7 * Long(m)) /\ (Long(m) = 1 \/ 2^(7 * (Long(m) - 1)) <= m)}
<1>1. ASSUME NEW m \in Nat, \A j \in Nat : j < m => j \in T PROVE m \in T
  <2>1. CASE m < 128
    <3>1. Varint(m) = <<m>>
      BY <2>1, VarintHead
    <3>2. Long(m) = 1 /\ 7 * Long(m) = 7
      BY <3>1 DEF Long
    <3> QED BY <2>1, <3>2, SevenBits
  <2>2. CASE m >= 128
    <3> DEFINE d == m \div 128
               r == m % 128
    <3>1. d \in Nat /\ d < m /\ d > 0 /\ r \in Nat /\ r < 128 /\ m = 128 * d + r
      BY <2>2, VarintHead
    <3>2. Long(m) = Long(d) + 1
      BY <2>2, VarintTail
    <3> HIDE DEF d, r
    <3>3. Long(d) \in Nat /\ Long(d) >= 1
      BY <3>1, VarintType
    <3>4. d < 2^(7 * Long(d)) /\ (Long(d) = 1 \/ 2^(7 * (Long(d) - 1)) <= d)
      BY <1>1, <3>1
    <3>5. PICK a \in Nat : a = 7 * Long(d)
      BY <3>3
    <3>6. 7 * Long(m) = a + 7 /\ 7 * (Long(m) - 1) = a
      BY <3>2, <3>3, <3>5
    <3>7. 2^(a + 7) = 128 * 2^a /\ 2^a \in Nat
      BY Powers, SevenBits
    <3>8. d < 2^a
      BY <3>4, <3>5
    <3>9. m < 2^(a + 7)
      BY <3>1, <3>7, <3>8
    <3>10. 2^a <= m
      <4>1. CASE Long(d) = 1
        <5>1. a = 7
          BY <3>5, <4>1
        <5> QED BY <2>2, <5>1, SevenBits
      <4>2. CASE Long(d) # 1
        <5>1. PICK b \in Nat : b = 7 * (Long(d) - 1) /\ a = b + 7
          BY <3>3, <3>5, <4>2
        <5>2. 2^b <= d /\ 2^(b + 7) = 128 * 2^b /\ 2^b \in Nat
          BY <3>4, <4>2, <5>1, Powers, SevenBits
        <5> QED BY <3>1, <5>1, <5>2
      <4> QED BY <4>1, <4>2
    <3>11. m < 2^(7 * Long(m)) /\ 2^(7 * (Long(m) - 1)) <= m
      BY <3>6, <3>9, <3>10
    <3> QED BY <3>11
  <2> QED BY <2>1, <2>2
<1>2. Nat \subseteq T
  <2> HIDE DEF T
  <2> QED BY <1>1, StrongInduct
<1> QED BY <1>2

(* The bytes of a number of w bits: no shift of a group reaches w.         *)
LEMMA VarintFits ==
    ASSUME NEW n \in Nat, NEW w \in Nat, w > 0, n < 2^w
    PROVE  7 * (Long(n) - 1) < w
<1>1. Long(n) \in Nat /\ Long(n) >= 1
  BY VarintType
<1>2. CASE Long(n) = 1
  BY <1>2
<1>3. CASE Long(n) # 1
  <2>1. PICK a \in Nat : a = 7 * (Long(n) - 1)
    BY <1>1
  <2>2. 2^a <= n /\ 2^a \in Nat /\ 2^w \in Nat
    BY <1>3, <2>1, VarintLength, Powers
  <2>3. ~(w <= a)
    <3> SUFFICES ASSUME w <= a PROVE FALSE
      OBVIOUS
    <3>1. 2^w <= 2^a
      BY PowersGrow
    <3> QED BY <2>2, <3>1
  <2> QED BY <2>1, <2>3
<1> QED BY <1>2, <1>3

(* A number of a word takes at most five bytes, a small one a single byte. *)
LEMMA VarintShort ==
    ASSUME NEW n \in Nat, n < 2^Word
    PROVE  Long(n) \in 1..5 /\ (n < 128 => Long(n) = 1) /\ (n < 16384 => Long(n) <= 2)
<1>1. Word \in Nat /\ 16 <= Word /\ Word <= 32
  BY WordAssumption
<1>2. Long(n) \in Nat /\ Long(n) >= 1
  BY VarintType
<1>3. 7 * (Long(n) - 1) < Word
  BY <1>1, VarintFits
<1>4. 2^14 = 16384
  <2>1. 7 \in Nat /\ 7 + 7 = 14
    OBVIOUS
  <2> QED BY <2>1, SevenBits
<1>5. n < 16384 => 7 * (Long(n) - 1) < 14
  <2>1. ASSUME n < 16384 PROVE 7 * (Long(n) - 1) < 14
    <3>1. n < 2^14 /\ 14 \in Nat /\ 14 > 0
      BY <1>4, <2>1
    <3> QED BY <3>1, VarintFits
  <2> QED BY <2>1
<1>6. n < 128 => Varint(n) = <<n>>
  BY VarintHead
<1>7. n < 128 => Long(n) = 1
  BY <1>6 DEF Long
<1> QED BY <1>1, <1>2, <1>3, <1>5, <1>7

(* A byte of a sequence, where another one stands in it.                   *)
LEMMA HasByteAt ==
    ASSUME NEW p \in Seq(Byte), NEW i, NEW s \in Seq(Byte), Has(p, i, s), NEW k \in 1..Len(s)
    PROVE  ByteAt(p, i + k - 1) = s[k]
<1>1. Len(s) \in Nat
  BY LenProperties
<1>2. i + k - 1 \in 1..Len(p) /\ p[i + k - 1] = s[k]
  BY <1>1, HasBytes
<1> QED BY <1>2 DEF ByteAt

(* The loop of the readers ends at the first byte without a flag.          *)
LEMMA LastGroupIs ==
    ASSUME NEW p \in Seq(Byte), NEW i, NEW s \in Seq(Byte), Has(p, i, s), Len(s) >= 1,
           \A k \in 1..Len(s) : s[k] < 128 <=> k = Len(s)
    PROVE  LastGroup(p, i) = i + Len(s) - 1
<1> DEFINE P(j) == ByteAt(p, j) < 128 /\ \A k \in i..(j - 1) : ByteAt(p, k) >= 128
           l == i + Len(s) - 1
<1>1. Len(s) \in Nat
  BY LenProperties
<1>2. i \in Nat /\ i > 0 /\ i + Len(s) <= Len(p) + 1 /\ Len(p) \in Nat
  BY LenProperties DEF Has
<1>3. \A k \in 1..Len(s) : ByteAt(p, i + k - 1) = s[k]
  BY <1>1, HasByteAt
<1>4. \A k \in 1..Len(s) : s[k] \in Byte /\ (s[k] < 128 <=> k = Len(s))
  BY <1>1, ElementOfSeq
<1>5. ASSUME NEW j \in i..l PROVE ByteAt(p, j) < 128 <=> j = l
  <2>1. j - i + 1 \in 1..Len(s) /\ i + (j - i + 1) - 1 = j
    BY <1>1, <1>2
  <2>2. ByteAt(p, j) = s[j - i + 1]
    BY <1>3, <2>1
  <2>3. j - i + 1 = Len(s) <=> j = l
    BY <1>1, <1>2
  <2>4. s[j - i + 1] < 128 <=> j - i + 1 = Len(s)
    BY <1>4, <2>1
  <2> QED BY <2>2, <2>3, <2>4
<1>6. \A j \in i..l : ByteAt(p, j) \in Nat
  <2> SUFFICES ASSUME NEW j \in i..l PROVE ByteAt(p, j) \in Nat
    OBVIOUS
  <2>1. j - i + 1 \in 1..Len(s) /\ i + (j - i + 1) - 1 = j
    BY <1>1, <1>2
  <2>2. ByteAt(p, j) = s[j - i + 1]
    BY <1>3, <2>1
  <2>3. \A x \in Byte : x \in Nat
    BY DEF Byte
  <2> QED BY <1>4, <2>1, <2>2, <2>3
<1>7. l \in i..(i + Len(p)) /\ l \in Nat
  BY <1>1, <1>2
<1>8. P(l)
  <2>1. ByteAt(p, l) < 128
    BY <1>1, <1>2, <1>5
  <2>2. ASSUME NEW k \in i..(l - 1) PROVE ByteAt(p, k) >= 128
    <3>1. k \in i..l /\ k # l
      BY <1>7, <1>2
    <3>2. ~(ByteAt(p, k) < 128) /\ ByteAt(p, k) \in Nat
      BY <1>5, <1>6, <3>1
    <3> QED BY <3>2
  <2> QED BY <2>1, <2>2
<1>9. ASSUME NEW j \in i..(i + Len(p)), P(j) PROVE j = l
  <2>0. j \in Nat
    BY <1>2
  <2>1. CASE j < l
    <3>1. j \in i..l
      BY <1>2, <1>7, <2>1
    <3> QED BY <1>5, <1>9, <2>1, <3>1
  <2>2. CASE j > l
    <3>1. l \in i..(j - 1) /\ l \in i..l
      BY <1>1, <1>2, <1>7, <2>0, <2>2
    <3>2. ByteAt(p, l) >= 128 /\ ByteAt(p, l) < 128 /\ ByteAt(p, l) \in Nat
      BY <1>6, <1>8, <1>9, <3>1
    <3> QED BY <3>2
  <2> QED BY <1>7, <2>0, <2>1, <2>2
<1>10. LastGroup(p, i) = CHOOSE j \in i..(i + Len(p)) : P(j)
  BY DEF LastGroup
<1> HIDE DEF P, l
<1>11. LastGroup(p, i) = l
  BY <1>7, <1>8, <1>9, <1>10
<1> QED BY <1>11 DEF l

(* The last byte of a varint.                                              *)
LEMMA LastGroupOfVarint ==
    ASSUME NEW p \in Seq(Byte), NEW i, NEW n \in Nat, Has(p, i, Varint(n))
    PROVE  LastGroup(p, i) = i + Long(n) - 1
<1> DEFINE s == Varint(n)
<1>1. s \in Seq(Byte) /\ Len(s) >= 1 /\ Len(s) = Long(n)
  BY VarintType DEF Long
<1>2. \A k \in 1..Len(s) : s[k] < 128 <=> k = Len(s)
  BY VarintFlags DEF Long
<1> HIDE DEF s
<1>3. Has(p, i, s)
  BY DEF s
<1>4. LastGroup(p, i) = i + Len(s) - 1
  BY <1>1, <1>2, <1>3, LastGroupIs
<1> QED BY <1>1, <1>4

\* From position i on, the terms are the groups of n, shifted by s bits.
GroupsAt(terms, i, s, n) ==
    \A k \in 1..Long(n) : terms[i + k - 1] = (Varint(n)[k] % 128) * 2^(s + 7 * (k - 1))

(* The groups of a number, each in its place, add up to the number.        *)
LEMMA GroupsAddUp ==
    ASSUME NEW a \in Nat, NEW b \in Nat, NEW terms, DOMAIN terms = a..b
    PROVE  \A n \in Nat : \A i \in Nat, s \in Nat :
               i >= a /\ i + Long(n) - 1 = b /\ GroupsAt(terms, i, s, n) => Total(terms, i) = n * 2^s
<1>1. /\ \A i \in a..b : Total(terms, i) = terms[i] + Total(terms, i + 1)
      /\ Total(terms, b + 1) = 0
  BY TotalUnfolds
<1> DEFINE Q(n) == \A i \in Nat, s \in Nat :
                     i >= a /\ i + Long(n) - 1 = b /\ GroupsAt(terms, i, s, n) => Total(terms, i) = n * 2^s
           T == {n \in Nat : Q(n)}
<1>2. ASSUME NEW n \in Nat, \A m \in Nat : m < n => Q(m) PROVE Q(n)
  <2> SUFFICES ASSUME NEW i \in Nat, NEW s \in Nat,
                      i >= a, i + Long(n) - 1 = b, GroupsAt(terms, i, s, n)
               PROVE  Total(terms, i) = n * 2^s
    OBVIOUS
  <2>1. Long(n) \in Nat /\ Long(n) >= 1
    BY VarintType
  <2>2. i \in a..b /\ 1 \in 1..Long(n) /\ i + 1 - 1 = i /\ s + 7 * (1 - 1) = s
    BY <2>1
  <2>3. terms[i] = (Varint(n)[1] % 128) * 2^s
    <3>1. terms[i + 1 - 1] = (Varint(n)[1] % 128) * 2^(s + 7 * (1 - 1))
      BY <2>2 DEF GroupsAt
    <3> QED BY <2>2, <3>1
  <2>4. 2^s \in Nat
    BY Powers
  <2>5. CASE n < 128
    <3>1. Varint(n) = <<n>>
      BY <2>5, VarintHead
    <3>2. Long(n) = 1
      BY <3>1 DEF Long
    <3>3. Varint(n)[1] = n
      BY <3>1
    <3>4. n % 128 = n
      BY <2>5
    <3>5. i = b /\ Total(terms, i) = terms[i] + 0
      BY <1>1, <2>2, <3>2
    <3>6. terms[i] = n * 2^s
      BY <2>3, <3>3, <3>4
    <3>7. n * 2^s \in Nat
      BY <2>4
    <3> QED BY <3>5, <3>6, <3>7
  <2>6. CASE n >= 128
    <3> DEFINE d == n \div 128
               r == n % 128
    <3>1. d \in Nat /\ d < n /\ r \in Nat /\ r < 128 /\ n = 128 * d + r
      BY <2>6, VarintHead
    <3>2. /\ Long(n) = Long(d) + 1 /\ Varint(n)[1] = 128 + r
          /\ \A k \in 1..Long(d) : Varint(n)[k + 1] = Varint(d)[k]
      BY <2>6, VarintTail
    <3> HIDE DEF d, r
    <3>3. Long(d) \in Nat /\ Long(d) >= 1
      BY <3>1, VarintType
    <3>4. (128 + r) % 128 = r
      BY <3>1
    <3>5. GroupsAt(terms, i + 1, s + 7, d)
      <4> SUFFICES ASSUME NEW k \in 1..Long(d)
                   PROVE  terms[i + 1 + k - 1] = (Varint(d)[k] % 128) * 2^(s + 7 + 7 * (k - 1))
        BY DEF GroupsAt
      <4>1. k + 1 \in 1..Long(n) /\ i + (k + 1) - 1 = i + 1 + k - 1 /\ s + 7 * (k + 1 - 1) = s + 7 + 7 * (k - 1)
        BY <3>2, <3>3
      <4>2. terms[i + (k + 1) - 1] = (Varint(n)[k + 1] % 128) * 2^(s + 7 * (k + 1 - 1))
        BY <4>1 DEF GroupsAt
      <4> QED BY <3>2, <4>1, <4>2
    <3>6. i + 1 \in Nat /\ s + 7 \in Nat /\ i + 1 >= a /\ i + 1 + Long(d) - 1 = b
      BY <3>2, <3>3
    <3>7. Total(terms, i + 1) = d * 2^(s + 7)
      BY <1>2, <3>1, <3>5, <3>6
    <3>8. 2^(s + 7) = 128 * 2^s
      BY SevenBits
    <3>9. Total(terms, i) = r * 2^s + d * (128 * 2^s)
      BY <1>1, <2>2, <2>3, <3>2, <3>4, <3>7, <3>8
    <3>10. PICK w \in Nat : w = 2^s
      BY <2>4
    <3>11. r * w + d * (128 * w) = (128 * d + r) * w
      BY <3>1
    <3> QED BY <3>1, <3>9, <3>10, <3>11
  <2> QED BY <2>5, <2>6
<1>3. \A n \in Nat : (\A m \in Nat : m < n => m \in T) => n \in T
  <2> HIDE DEF Q
  <2> QED BY <1>2
<1>4. Nat \subseteq T
  <2> HIDE DEF T
  <2> QED BY <1>3, StrongInduct
<1>5. \A n \in Nat : Q(n)
  <2> HIDE DEF Q
  <2> QED BY <1>4
<1> QED BY <1>5

\* A varint as it is read.
ReadAs(n, next) == [value |-> n, next |-> next]

\* What the byte at j adds to the varint that starts at i.
Place(p, i, j) == (ByteAt(p, j) % 128) * 2^(7 * (j - i))

(* Terms that are the groups of a varint in their places add up to it.     *)
LEMMA TotalOfVarint ==
    ASSUME NEW p \in Seq(Byte), NEW i, NEW n \in Nat, Has(p, i, Varint(n)),
           NEW terms, DOMAIN terms = i..LastGroup(p, i),
           \A j \in i..LastGroup(p, i) : terms[j] = Place(p, i, j)
    PROVE  Total(terms, i) = n
<1>1. Varint(n) \in Seq(Byte) /\ Long(n) \in Nat /\ Long(n) >= 1
  BY VarintType
<1>2. i \in Nat /\ i > 0
  BY DEF Has
<1>3. PICK b \in Nat : b = LastGroup(p, i) /\ i + Long(n) - 1 = b
  BY <1>1, <1>2, LastGroupOfVarint
<1>4. GroupsAt(terms, i, 0, n)
  <2> SUFFICES ASSUME NEW k \in 1..Long(n)
               PROVE  terms[i + k - 1] = (Varint(n)[k] % 128) * 2^(0 + 7 * (k - 1))
    BY DEF GroupsAt
  <2>1. PICK j \in i..b : j = i + k - 1 /\ 7 * (j - i) = 0 + 7 * (k - 1)
    BY <1>1, <1>2, <1>3
  <2>2. ByteAt(p, j) = Varint(n)[k]
    BY <1>1, <2>1, HasByteAt DEF Long
  <2>3. terms[j] = (ByteAt(p, j) % 128) * 2^(7 * (j - i))
    BY <1>3 DEF Place
  <2> QED BY <2>1, <2>2, <2>3
<1>5. i >= i /\ DOMAIN terms = i..b
  BY <1>2, <1>3
<1>6. 0 \in Nat
  OBVIOUS
<1>7. Total(terms, i) = n * 2^0
  <2>1. \A m \in Nat : \A j \in Nat, s \in Nat :
            j >= i /\ j + Long(m) - 1 = b /\ GroupsAt(terms, j, s, m) => Total(terms, j) = m * 2^s
    BY <1>2, <1>3, <1>5, GroupsAddUp
  <2> QED BY <1>2, <1>3, <1>4, <1>5, <1>6, <2>1
<1>8. n * 2^0 = n
  BY Powers
<1> QED BY <1>7, <1>8

(* Behind a varint.                                                        *)
LEMMA BehindVarint ==
    ASSUME NEW p \in Seq(Byte), NEW i, NEW n \in Nat, Has(p, i, Varint(n))
    PROVE  LastGroup(p, i) + 1 = i + Long(n)
<1>1. Long(n) \in Nat
  BY VarintType
<1>2. i \in Nat
  BY DEF Has
<1> QED BY <1>1, <1>2, LastGroupOfVarint

(* A varint is read exactly.                                               *)
THEOREM ExactReadsVarint ==
    ASSUME NEW p \in Seq(Byte), NEW i, NEW n \in Nat, Has(p, i, Varint(n))
    PROVE  VarintExact(p, i) = ReadAs(n, i + Long(n))
<1> DEFINE b == LastGroup(p, i)
           terms == [k \in i..b |-> (ByteAt(p, k) % 128) * 2^(7 * (k - i))]
<1>1. \A j \in i..b : terms[j] = Place(p, i, j)
  BY DEF Place
<1>2. DOMAIN terms = i..b
  OBVIOUS
<1>3. VarintExact(p, i) = [value |-> Total(terms, i), next |-> b + 1]
  BY DEF VarintExact
<1> HIDE DEF terms
<1>4. Total(terms, i) = n
  <2>1. DOMAIN terms = i..LastGroup(p, i) /\ \A j \in i..LastGroup(p, i) : terms[j] = Place(p, i, j)
    BY <1>1, <1>2
  <2> QED BY <2>1, TotalOfVarint
<1>6. b + 1 = i + Long(n)
  BY BehindVarint
<1> QED BY <1>3, <1>4, <1>6 DEF ReadAs

(* A group of a number that fits a word, in its place, is no more than the *)
(* number: neither the shift nor the sum leaves the word.                  *)
LEMMA GroupInWord ==
    ASSUME NEW n \in Nat, n < 2^Word, NEW k \in 1..Long(n)
    PROVE  /\ 7 * (k - 1) \in Nat /\ 7 * (k - 1) < Word /\ (7 * (k - 1)) % Word = 7 * (k - 1)
           /\ ((Varint(n)[k] % 128) * 2^(7 * (k - 1))) % 2^Word = (Varint(n)[k] % 128) * 2^(7 * (k - 1))
<1>1. Varint(n) \in Seq(Byte) /\ Long(n) \in Nat /\ Long(n) >= 1
  BY VarintType
<1>2. Word \in Nat /\ Word > 0 /\ 2^Word \in Nat /\ 2^Word > 0
  BY WordAssumption, WordHolds
<1>3. 7 * (Long(n) - 1) < Word
  BY <1>2, VarintFits
<1>4. 7 * (k - 1) \in Nat /\ 7 * (k - 1) < Word
  <2>1. PICK l \in Nat : l = Long(n) /\ l >= 1
    BY <1>1
  <2>2. 7 * (l - 1) < Word /\ k \in 1..l
    BY <1>3, <2>1
  <2> QED BY <1>2, <2>1, <2>2
<1>5. (7 * (k - 1)) % Word = 7 * (k - 1)
  BY <1>2, <1>4
<1> DEFINE Q(m) == \A j \in 1..Long(m) : (Varint(m)[j] % 128) \in Nat /\ (Varint(m)[j] % 128) * 2^(7 * (j - 1)) <= m
           T == {m \in Nat : Q(m)}
<1>6. ASSUME NEW m \in Nat, \A l \in Nat : l < m => Q(l) PROVE Q(m)
  <2>1. Long(m) \in Nat /\ Long(m) >= 1
    BY VarintType
  <2>2. CASE m < 128
    <3>1. Varint(m) = <<m>>
      BY <2>2, VarintHead
    <3>2. Long(m) = 1
      BY <3>1 DEF Long
    <3>3. Varint(m)[1] = m /\ m % 128 = m
      BY <2>2, <3>1
    <3>4. 2^(7 * (1 - 1)) = 1
      BY Powers
    <3> QED BY <3>2, <3>3, <3>4
  <2>3. CASE m >= 128
    <3> DEFINE d == m \div 128
               r == m % 128
    <3>1. d \in Nat /\ d < m /\ r \in Nat /\ r < 128 /\ m = 128 * d + r
      BY <2>3, VarintHead
    <3>2. /\ Long(m) = Long(d) + 1 /\ Varint(m)[1] = 128 + r
          /\ \A j \in 1..Long(d) : Varint(m)[j + 1] = Varint(d)[j]
      BY <2>3, VarintTail
    <3> HIDE DEF d, r
    <3>3. Long(d) \in Nat /\ Long(d) >= 1
      BY <3>1, VarintType
    <3>4. Q(d)
      BY <1>6, <3>1
    <3>5. ASSUME NEW j \in 1..Long(m)
          PROVE  (Varint(m)[j] % 128) \in Nat /\ (Varint(m)[j] % 128) * 2^(7 * (j - 1)) <= m
      <4>1. CASE j = 1
        <5>1. (128 + r) % 128 = r /\ 2^(7 * (1 - 1)) = 1
          BY <3>1, Powers
        <5>2. Varint(m)[j] % 128 = r /\ 7 * (j - 1) = 7 * (1 - 1)
          BY <3>2, <4>1, <5>1
        <5>3. r * 1 = r /\ r <= m
          BY <3>1
        <5>4. (Varint(m)[j] % 128) * 2^(7 * (j - 1)) = r
          BY <5>1, <5>2, <5>3
        <5> QED BY <3>1, <5>2, <5>3, <5>4
      <4>2. CASE j # 1
        <5>1. j - 1 \in 1..Long(d) /\ j - 1 + 1 = j
          BY <3>2, <3>3, <4>2
        <5>2. Varint(m)[j] = Varint(d)[j - 1]
          BY <3>2, <5>1
        <5>3. (Varint(d)[j - 1] % 128) \in Nat /\ (Varint(d)[j - 1] % 128) * 2^(7 * (j - 1 - 1)) <= d
          BY <3>4, <5>1
        <5>4. PICK s \in Nat : s = 7 * (j - 1 - 1)
          BY <5>1, <3>3
        <5>5. 7 * (j - 1) = s + 7
          BY <5>1, <5>4
        <5>6. 2^(s + 7) = 128 * 2^s /\ 2^s \in Nat
          BY Powers, SevenBits
        <5>7. PICK x \in Nat : x = Varint(d)[j - 1] % 128
          BY <5>3
        <5>8. PICK w \in Nat : w = 2^s
          BY <5>6
        <5>9. x * w <= d
          BY <5>3, <5>4, <5>7, <5>8
        <5>10. PICK y \in Nat : y = x * w
          BY <5>7, <5>8
        <5>11. x * (128 * w) = 128 * y
          BY <5>7, <5>8, <5>10
        <5>12. x * (128 * w) <= m
          BY <3>1, <5>9, <5>10, <5>11
        <5>13. (Varint(m)[j] % 128) * 2^(7 * (j - 1)) = x * (128 * w)
          BY <5>2, <5>5, <5>6, <5>7, <5>8
        <5> QED BY <5>2, <5>3, <5>12, <5>13
      <4> QED BY <4>1, <4>2
    <3> QED BY <3>5
  <2> QED BY <2>2, <2>3
<1>7. \A m \in Nat : (\A l \in Nat : l < m => l \in T) => m \in T
  <2> HIDE DEF Q
  <2> QED BY <1>6
<1>8. Nat \subseteq T
  <2> HIDE DEF T
  <2> QED BY <1>7, StrongInduct
<1>9. (Varint(n)[k] % 128) \in Nat /\ (Varint(n)[k] % 128) * 2^(7 * (k - 1)) <= n
  BY <1>8
<1>10. 2^(7 * (k - 1)) \in Nat
  BY <1>4, Powers
<1>11. PICK y \in Nat : y = (Varint(n)[k] % 128) * 2^(7 * (k - 1))
  BY <1>9, <1>10
<1>12. y % 2^Word = y
  BY <1>2, <1>9, <1>11
<1> QED BY <1>4, <1>5, <1>11, <1>12

(* So it is for the bytes of the buffer.                                   *)
LEMMA ShiftInWord ==
    ASSUME NEW p \in Seq(Byte), NEW i, NEW n \in Nat, n < 2^Word, Has(p, i, Varint(n)), NEW j \in i..LastGroup(p, i)
    PROVE  /\ (7 * (j - i)) % Word = 7 * (j - i) /\ ~(7 * (j - i) >= Word)
           /\ ((ByteAt(p, j) % 128) * 2^(7 * (j - i))) % 2^Word = (ByteAt(p, j) % 128) * 2^(7 * (j - i))
<1>1. Varint(n) \in Seq(Byte) /\ Long(n) \in Nat /\ Long(n) >= 1
  BY VarintType
<1>2. i \in Nat /\ i > 0
  BY DEF Has
<1>3. LastGroup(p, i) = i + Long(n) - 1
  BY LastGroupOfVarint
<1>4. PICK k \in 1..Long(n) : j = i + k - 1 /\ j - i = k - 1
  <2>1. PICK k \in Int : k = j - i + 1
    BY <1>2
  <2>2. k \in 1..Long(n) /\ j = i + k - 1 /\ j - i = k - 1
    BY <1>1, <1>2, <1>3, <2>1
  <2> QED BY <2>2
<1>5. ByteAt(p, j) = Varint(n)[k]
  BY <1>1, <1>4, HasByteAt DEF Long
<1>6. 7 * (k - 1) \in Nat /\ 7 * (k - 1) < Word
  BY GroupInWord
<1>7. (7 * (k - 1)) % Word = 7 * (k - 1)
  BY GroupInWord
<1>8. ((Varint(n)[k] % 128) * 2^(7 * (k - 1))) % 2^Word = (Varint(n)[k] % 128) * 2^(7 * (k - 1))
  BY GroupInWord
<1>9. ~(7 * (k - 1) >= Word)
  BY <1>6, WordAssumption
<1>10. (7 * (j - i)) % Word = 7 * (j - i) /\ ~(7 * (j - i) >= Word)
  BY <1>4, <1>7, <1>9
<1>11. ((ByteAt(p, j) % 128) * 2^(7 * (j - i))) % 2^Word = (ByteAt(p, j) % 128) * 2^(7 * (j - i))
  BY <1>4, <1>5, <1>8, Zenon
<1> QED BY <1>10, <1>11

(* A number that fits a word is read as it is by `|=` and `<<`.            *)
THEOREM WordReadsVarint ==
    ASSUME NEW p \in Seq(Byte), NEW i, NEW n \in Nat, n < 2^Word, Has(p, i, Varint(n))
    PROVE  VarintInWord(p, i) = ReadAs(n, i + Long(n))
<1> DEFINE b == LastGroup(p, i)
           terms == [k \in i..b |-> ((ByteAt(p, k) % 128) * 2^((7 * (k - i)) % Word)) % 2^Word]
<1>1. ASSUME NEW j \in i..b PROVE terms[j] = Place(p, i, j)
  <2>1. terms[j] = ((ByteAt(p, j) % 128) * 2^((7 * (j - i)) % Word)) % 2^Word
    OBVIOUS
  <2> HIDE DEF b, terms
  <2>2. ((ByteAt(p, j) % 128) * 2^((7 * (j - i)) % Word)) % 2^Word = Place(p, i, j)
    BY ShiftInWord DEF b, Place
  <2> QED BY <2>1, <2>2
<1>2. DOMAIN terms = i..b
  OBVIOUS
<1>3. VarintInWord(p, i) = [value |-> Total(terms, i) % 2^Word, next |-> b + 1]
  BY DEF VarintInWord
<1> HIDE DEF terms
<1>4. Total(terms, i) = n
  <2>1. DOMAIN terms = i..LastGroup(p, i) /\ \A j \in i..LastGroup(p, i) : terms[j] = Place(p, i, j)
    BY <1>1, <1>2
  <2> QED BY <2>1, TotalOfVarint
<1>6. b + 1 = i + Long(n)
  BY BehindVarint
<1>5. n % 2^Word = n
  BY WordHolds
<1> QED BY <1>3, <1>4, <1>5, <1>6 DEF ReadAs

(* And so it is from a BigInt of which the low word is kept.               *)
LEMMA LowReadsVarint ==
    ASSUME NEW p \in Seq(Byte), NEW i, NEW n \in Nat, n < 2^Word, Has(p, i, Varint(n))
    PROVE  VarintLow(p, i) = ReadAs(n, i + Long(n))
<1> DEFINE b == LastGroup(p, i)
           terms == [k \in i..b |-> (IF 7 * (k - i) >= Word THEN 0 ELSE ((ByteAt(p, k) % 128) * 2^(7 * (k - i))) % 2^Word)]
<1>1. ASSUME NEW j \in i..b PROVE terms[j] = Place(p, i, j)
  <2>1. terms[j] = (IF 7 * (j - i) >= Word THEN 0 ELSE ((ByteAt(p, j) % 128) * 2^(7 * (j - i))) % 2^Word)
    OBVIOUS
  <2> HIDE DEF b, terms
  <2>2. (IF 7 * (j - i) >= Word THEN 0 ELSE ((ByteAt(p, j) % 128) * 2^(7 * (j - i))) % 2^Word) = Place(p, i, j)
    BY ShiftInWord DEF b, Place
  <2> QED BY <2>1, <2>2
<1>2. DOMAIN terms = i..b
  OBVIOUS
<1>3. VarintLow(p, i) = [value |-> Total(terms, i) % 2^Word, next |-> b + 1]
  BY DEF VarintLow
<1> HIDE DEF terms
<1>4. Total(terms, i) = n
  <2>1. DOMAIN terms = i..LastGroup(p, i) /\ \A j \in i..LastGroup(p, i) : terms[j] = Place(p, i, j)
    BY <1>1, <1>2
  <2> QED BY <2>1, TotalOfVarint
<1>6. b + 1 = i + Long(n)
  BY BehindVarint
<1>5. n % 2^Word = n
  BY WordHolds
<1> QED BY <1>3, <1>4, <1>5, <1>6 DEF ReadAs

(* The tool writes the varints the bike writes.                            *)
LEMMA EncodesVarint ==
    ASSUME NEW n \in Nat, n < 2^Word
    PROVE  EncodeVarint(n) = Varint(n)
<1>1. n % 2^Word = n
  BY WordHolds
<1>2. EncodeVarint(n) = Varint(n % 2^Word)
  BY DEF EncodeVarint, Varint
<1> QED BY <1>1, <1>2

(* A byte past the end reads as 0.                                         *)
LEMMA ByteAtType ==
    ASSUME NEW p \in Seq(Byte), NEW i
    PROVE  ByteAt(p, i) \in Nat /\ (i \notin 1..Len(p) => ByteAt(p, i) = 0)
<1>1. \A k \in 1..Len(p) : p[k] \in Byte
  BY ElementOfSeq
<1>2. \A x \in Byte : x \in Nat
  BY DEF Byte
<1>3. CASE i \in 1..Len(p)
  BY <1>1, <1>2, <1>3 DEF ByteAt
<1>4. CASE i \notin 1..Len(p)
  BY <1>4 DEF ByteAt
<1> QED BY <1>3, <1>4

(* Whatever the bytes are, a varint ends, where it starts or behind.       *)
LEMMA LastGroupType ==
    ASSUME NEW p \in Seq(Byte), NEW i \in Nat, i > 0
    PROVE  LastGroup(p, i) \in Nat /\ LastGroup(p, i) >= i
<1> DEFINE P(j) == ByteAt(p, j) < 128 /\ \A k \in i..(j - 1) : ByteAt(p, k) >= 128
           T == {j \in Nat : j >= i /\ ByteAt(p, j) < 128}
<1>1. Len(p) \in Nat
  BY LenProperties
<1>2. i + Len(p) \in T
  <2>1. i + Len(p) \notin 1..Len(p) /\ i + Len(p) \in Nat /\ i + Len(p) >= i
    BY <1>1
  <2>2. ByteAt(p, i + Len(p)) = 0
    BY <2>1, ByteAtType
  <2> QED BY <2>1, <2>2
<1>3. PICK j \in T : \A m \in T : j <= m
  BY <1>2, Least
<1>4. j \in i..(i + Len(p)) /\ P(j)
  <2>1. j \in i..(i + Len(p))
    BY <1>1, <1>2, <1>3
  <2>2. ASSUME NEW k \in i..(j - 1) PROVE ByteAt(p, k) >= 128
    <3>1. k \in Nat /\ k >= i /\ ~(j <= k)
      BY <1>3
    <3>2. k \notin T
      BY <1>3, <3>1
    <3>3. ByteAt(p, k) \in Nat
      BY ByteAtType
    <3> QED BY <3>1, <3>2, <3>3
  <2> QED BY <1>3, <2>1, <2>2
<1>5. LastGroup(p, i) = CHOOSE l \in i..(i + Len(p)) : P(l)
  BY DEF LastGroup
<1> HIDE DEF P
<1>6. LastGroup(p, i) \in i..(i + Len(p))
  BY <1>4, <1>5
<1> QED BY <1>1, <1>6

(* A sum of numbers is a number.                                           *)
LEMMA TotalType ==
    ASSUME NEW a \in Nat, NEW b \in Nat, a <= b, NEW terms, DOMAIN terms = a..b, \A k \in a..b : terms[k] \in Nat
    PROVE  Total(terms, a) \in Nat
<1>1. /\ \A i \in a..b : Total(terms, i) = terms[i] + Total(terms, i + 1)
      /\ Total(terms, b + 1) = 0
  BY TotalUnfolds
<1> DEFINE T == {k \in Nat : k < a \/ k > b + 1 \/ Total(terms, k) \in Nat}
<1>2. b + 1 \in T
  BY <1>1
<1>3. ASSUME NEW k \in 1..b, k + 1 \in T PROVE k \in T
  <2>1. CASE k < a
    BY <2>1
  <2>2. CASE k >= a
    <3>1. k \in a..b /\ Total(terms, k + 1) \in Nat
      BY <1>3, <2>2
    <3>2. Total(terms, k) = terms[k] + Total(terms, k + 1)
      BY <1>1, <3>1
    <3> QED BY <3>1, <3>2
  <2> QED BY <2>1, <2>2
<1>4. \A k \in 1..(b + 1) : k \in T
  <2> HIDE DEF T
  <2> QED BY <1>2, <1>3, InductDown
<1>5. CASE a # 0
  <2>1. a \in 1..(b + 1)
    BY <1>5
  <2>2. a \in T
    BY <1>4, <2>1
  <2> QED BY <2>2
<1>6. CASE a = 0
  <2>1. Total(terms, a + 1) \in Nat
    <3>1. a + 1 \in 1..(b + 1)
      BY <1>6
    <3>2. a + 1 \in T
      BY <1>4, <3>1
    <3> QED BY <1>6, <3>1, <3>2
  <2>2. a \in a..b
    OBVIOUS
  <2> QED BY <1>1, <2>1, <2>2
<1> QED BY <1>5, <1>6

\* What the readers of varints return: a number, and a position further on.
Reading(v, i) == \E n \in Nat, j \in Nat : j > i /\ v = ReadAs(n, j)

(* The readers do, whatever the bytes are.                                 *)
LEMMA ExactReads ==
    ASSUME NEW p \in Seq(Byte), NEW i \in Nat, i > 0
    PROVE  Reading(VarintExact(p, i), i)
<1> DEFINE b == LastGroup(p, i)
           terms == [k \in i..b |-> (ByteAt(p, k) % 128) * 2^(7 * (k - i))]
<1>1. b \in Nat /\ b >= i
  BY LastGroupType
<1>2. ASSUME NEW k \in i..b PROVE terms[k] \in Nat
  <2>1. ByteAt(p, k) \in Nat /\ 7 * (k - i) \in Nat
    BY <1>1, ByteAtType
  <2>2. ByteAt(p, k) % 128 \in Nat /\ 2^(7 * (k - i)) \in Nat
    BY <2>1, Powers
  <2>3. terms[k] = (ByteAt(p, k) % 128) * 2^(7 * (k - i))
    OBVIOUS
  <2>4. \A x, y \in Nat : x * y \in Nat
    OBVIOUS
  <2> HIDE DEF terms
  <2> QED BY <2>2, <2>3, <2>4
<1>3. VarintExact(p, i) = [value |-> Total(terms, i), next |-> b + 1]
  BY DEF VarintExact
<1>4. DOMAIN terms = i..b
  OBVIOUS
<1> HIDE DEF terms, b
<1>5. Total(terms, i) \in Nat
  BY <1>1, <1>2, <1>4, TotalType
<1>6. b + 1 \in Nat /\ b + 1 > i
  BY <1>1
<1> QED BY <1>3, <1>5, <1>6 DEF Reading, ReadAs

(* The same with `|=` and `<<`.                                            *)
LEMMA WordReads ==
    ASSUME NEW p \in Seq(Byte), NEW i \in Nat, i > 0
    PROVE  Reading(VarintInWord(p, i), i)
<1> DEFINE b == LastGroup(p, i)
           terms == [k \in i..b |-> ((ByteAt(p, k) % 128) * 2^((7 * (k - i)) % Word)) % 2^Word]
<1>0. Word \in Nat /\ Word > 0 /\ 2^Word \in Nat /\ 2^Word > 0
  BY WordAssumption, WordHolds
<1>1. b \in Nat /\ b >= i
  BY LastGroupType
<1>2. ASSUME NEW k \in i..b PROVE terms[k] \in Nat
  <2>1. ByteAt(p, k) \in Nat /\ 7 * (k - i) \in Nat
    BY <1>1, ByteAtType
  <2>2. PICK s \in Nat : s = (7 * (k - i)) % Word
    BY <1>0, <2>1
  <2>3. ByteAt(p, k) % 128 \in Nat /\ 2^s \in Nat
    BY <2>1, Powers
  <2>4. terms[k] = ((ByteAt(p, k) % 128) * 2^((7 * (k - i)) % Word)) % 2^Word
    OBVIOUS
  <2>5. \A x, y \in Nat : x * y \in Nat
    OBVIOUS
  <2>6. \A x \in Nat : x % 2^Word \in Nat
    BY <1>0
  <2> HIDE DEF terms
  <2>7. PICK y \in Nat : y = (ByteAt(p, k) % 128) * 2^s
    BY <2>3, <2>5
  <2> QED BY <2>2, <2>4, <2>6, <2>7
<1>3. VarintInWord(p, i) = [value |-> Total(terms, i) % 2^Word, next |-> b + 1]
  BY DEF VarintInWord
<1>4. DOMAIN terms = i..b
  OBVIOUS
<1> HIDE DEF terms, b
<1>5. Total(terms, i) \in Nat
  BY <1>1, <1>2, <1>4, TotalType
<1>6. b + 1 \in Nat /\ b + 1 > i
  BY <1>1
<1>7. Total(terms, i) % 2^Word \in Nat
  BY <1>0, <1>5
<1> QED BY <1>3, <1>6, <1>7 DEF Reading, ReadAs

(* The same for the low word of a BigInt.                                  *)
LEMMA LowReads ==
    ASSUME NEW p \in Seq(Byte), NEW i \in Nat, i > 0
    PROVE  Reading(VarintLow(p, i), i)
<1> DEFINE b == LastGroup(p, i)
           terms == [k \in i..b |-> IF 7 * (k - i) >= Word THEN 0
                                    ELSE ((ByteAt(p, k) % 128) * 2^(7 * (k - i))) % 2^Word]
<1>0. Word \in Nat /\ Word > 0 /\ 2^Word \in Nat /\ 2^Word > 0
  BY WordAssumption, WordHolds
<1>1. b \in Nat /\ b >= i
  BY LastGroupType
<1>2. ASSUME NEW k \in i..b PROVE terms[k] \in Nat
  <2>1. ByteAt(p, k) \in Nat /\ 7 * (k - i) \in Nat
    BY <1>1, ByteAtType
  <2>3. ByteAt(p, k) % 128 \in Nat /\ 2^(7 * (k - i)) \in Nat
    BY <2>1, Powers
  <2>4. terms[k] = IF 7 * (k - i) >= Word THEN 0
                   ELSE ((ByteAt(p, k) % 128) * 2^(7 * (k - i))) % 2^Word
    OBVIOUS
  <2>5. \A x, y \in Nat : x * y \in Nat
    OBVIOUS
  <2>6. \A x \in Nat : x % 2^Word \in Nat
    BY <1>0
  <2> HIDE DEF terms
  <2>7. PICK y \in Nat : y = (ByteAt(p, k) % 128) * 2^(7 * (k - i))
    BY <2>3, <2>5
  <2> QED BY <2>4, <2>6, <2>7
<1>3. VarintLow(p, i) = [value |-> Total(terms, i) % 2^Word, next |-> b + 1]
  BY DEF VarintLow
<1>4. DOMAIN terms = i..b
  OBVIOUS
<1> HIDE DEF terms, b
<1>5. Total(terms, i) \in Nat
  BY <1>1, <1>2, <1>4, TotalType
<1>6. b + 1 \in Nat /\ b + 1 > i
  BY <1>1
<1>7. Total(terms, i) % 2^Word \in Nat
  BY <1>0, <1>5
<1> QED BY <1>3, <1>6, <1>7 DEF Reading, ReadAs

(* Whatever is sliced, the result is a sequence of the same kind.          *)
LEMMA SliceType ==
    ASSUME NEW p \in Seq(Byte), NEW i \in Nat, i > 0, NEW n \in Nat
    PROVE  Slice(p, i, n) \in Seq(Byte)
<1>1. PICK l \in Nat : l = Len(p)
  BY LenProperties
<1>2. DOMAIN p = 1..l /\ \A k \in 1..l : p[k] \in Byte
  BY <1>1, LenProperties, ElementOfSeq
<1>3. \A m \in Int : m <= l => SubSeq(p, i, m) \in Seq(Byte)
  BY <1>1, <1>2
<1>4. Slice(p, i, n) = SubSeq(p, i, IF i + n > l THEN l ELSE i + n - 1)
  BY <1>1 DEF Slice
<1>5. CASE i + n > l
  <2>1. Slice(p, i, n) = SubSeq(p, i, l) /\ l \in Int /\ l <= l
    BY <1>4, <1>5
  <2> QED BY <1>3, <2>1
<1>6. CASE ~(i + n > l)
  <2>1. Slice(p, i, n) = SubSeq(p, i, i + n - 1) /\ i + n - 1 \in Int /\ i + n - 1 <= l
    BY <1>4, <1>6
  <2> QED BY <1>3, <2>1
<1> QED BY <1>5, <1>6

-----------------------------------------------------------------------------
(***************************************************************************)
(* The loops of the decoders go forward, and what they read is a field.    *)
(* Yields: wherever the bytes s stand, the loop finds xs in them and goes  *)
(* on behind.                                                              *)
(***************************************************************************)
\* The loops of the decoders over a payload.
FieldsIn(p, wireTypes, exact) == [i \in 1..Len(p) |-> FieldAt(p, i, wireTypes, exact)]

TaggedIn(p) == [i \in 1..Len(p) |-> TaggedFieldAt(p, i)]

LiveIn(p) == [i \in 1..Len(p) |-> LiveFieldAt(p, i)]

RunIn(p) == [i \in 1..Len(p) |-> Finds(VarintInWord(p, i).value, VarintInWord(p, i).next)]

\* What they find.
FieldSet == [num : Nat, value : Nat \cup Seq(Byte), whole : BOOLEAN]

LiveSet == [num : Nat, wireType : Nat, value : Nat]

\* A step of a loop goes on further on or stops, and keeps what is in S.
GoesOn(step, i, S) ==
    /\ step.found \in Seq(S)
    /\ step.next \in Nat /\ (step.next = 0 \/ step.next > i)

(* To stop is one way.                                                     *)
LEMMA StopGoesOn == \A i, S : GoesOn(Stops, i, S)
<1>1. \A S : <<>> \in Seq(S)
  BY EmptySeq
<1>2. Stops.found = <<>> /\ Stops.next = 0
  BY DEF Stops
<1> QED BY <1>1, <1>2 DEF GoesOn

(* To find something is another.                                           *)
LEMMA FindGoesOn ==
    ASSUME NEW S, NEW x \in S, NEW next \in Nat, NEW i, next > i
    PROVE  GoesOn(Finds(x, next), i, S)
<1>1. <<x>> \in Seq(S)
  OBVIOUS
<1>2. Finds(x, next).found = <<x>> /\ Finds(x, next).next = next
  BY DEF Finds
<1> QED BY <1>1, <1>2 DEF GoesOn

(* A field with its tag.                                                   *)
LEMMA FieldGoesOn ==
    ASSUME NEW p \in Seq(Byte), NEW tag \in Nat, NEW i \in Nat, i > 0, NEW v, Reading(v, i)
    PROVE  \A j \in Nat : j <= i => GoesOn(Field(p, tag, v), j, FieldSet)
<1>1. PICK n \in Nat, next \in Nat : next > i /\ v = ReadAs(n, next)
  BY DEF Reading
<1>2. v.value = n /\ v.next = next
  BY <1>1 DEF ReadAs
<1>3. PICK num \in Nat : num = tag \div 8
  OBVIOUS
<1>4. CASE tag % 8 = 0
  <2> DEFINE x == [num |-> num, value |-> n, whole |-> TRUE]
  <2>1. x \in FieldSet
    BY DEF FieldSet
  <2>2. Field(p, tag, v) = Finds(x, next)
    BY <1>2, <1>3, <1>4 DEF Field
  <2> HIDE DEF x
  <2> QED BY <1>1, <2>1, <2>2, FindGoesOn
<1>5. CASE tag % 8 # 0
  <2> DEFINE whole == next + n <= Len(p) + 1
             s == Slice(p, next, n)
             x == [num |-> num, value |-> s, whole |-> whole]
  <2>1. s \in Seq(Byte) /\ whole \in BOOLEAN
    BY <1>1, SliceType
  <2>2. x \in FieldSet
    <3> HIDE DEF s, whole
    <3> QED BY <2>1 DEF FieldSet
  <2>3. Field(p, tag, v) = Finds(x, next + n)
    BY <1>2, <1>3, <1>5, Zenon DEF Field
  <2>4. next + n \in Nat /\ next + n > i
    BY <1>1
  <2> HIDE DEF x
  <2> QED BY <2>2, <2>3, <2>4, FindGoesOn
<1> QED BY <1>4, <1>5

(* The loop of protocol.js.                                                *)
LEMMA FieldsGoOn ==
    ASSUME NEW p \in Seq(Byte), NEW wireTypes, NEW exact
    PROVE  /\ Advances(FieldsIn(p, wireTypes, exact), Len(p))
           /\ \A i \in 1..Len(p) : FieldsIn(p, wireTypes, exact)[i].found \in Seq(FieldSet)
<1>1. Len(p) \in Nat /\ \A i \in 1..Len(p) : p[i] \in Byte
  BY LenProperties, ElementOfSeq
<1>2. \A x \in Byte : x \in Nat
  BY DEF Byte
<1>3. ASSUME NEW i \in 1..Len(p) PROVE GoesOn(FieldAt(p, i, wireTypes, exact), i, FieldSet)
  <2>1. i \in Nat /\ i + 1 \in Nat /\ i + 1 > 0 /\ i <= i + 1 /\ p[i] \in Nat
    BY <1>1, <1>2
  <2>2. Reading(VarintAt(p, i + 1, exact), i + 1)
    BY <2>1, ExactReads, WordReads DEF VarintAt
  <2>3. GoesOn(Field(p, p[i], VarintAt(p, i + 1, exact)), i, FieldSet)
    BY <2>1, <2>2, FieldGoesOn
  <2> QED BY <2>3, StopGoesOn DEF FieldAt
<1>4. \A i \in 1..Len(p) : FieldsIn(p, wireTypes, exact)[i] = FieldAt(p, i, wireTypes, exact)
  BY DEF FieldsIn
<1>5. DOMAIN FieldsIn(p, wireTypes, exact) = 1..Len(p)
  BY DEF FieldsIn
<1> QED BY <1>1, <1>3, <1>4, <1>5 DEF Advances, GoesOn

(* The loop of messageTypes.js.                                            *)
LEMMA TaggedGoOn ==
    ASSUME NEW p \in Seq(Byte)
    PROVE  /\ Advances(TaggedIn(p), Len(p))
           /\ \A i \in 1..Len(p) : TaggedIn(p)[i].found \in Seq(FieldSet)
<1>1. Len(p) \in Nat
  BY LenProperties
<1>3. ASSUME NEW i \in 1..Len(p) PROVE GoesOn(TaggedFieldAt(p, i), i, FieldSet)
  <2>1. i \in Nat /\ i > 0
    BY <1>1
  <2>2. PICK tag \in Nat, next \in Nat : next > i /\ VarintInWord(p, i) = ReadAs(tag, next)
    BY <2>1, WordReads DEF Reading
  <2>3. VarintInWord(p, i).value = tag /\ VarintInWord(p, i).next = next
    BY <2>2 DEF ReadAs
  <2>4. Reading(VarintInWord(p, next), next)
    BY <2>1, <2>2, WordReads
  <2>5. GoesOn(Field(p, tag, VarintInWord(p, next)), i, FieldSet)
    BY <2>1, <2>2, <2>4, FieldGoesOn
  <2>6. TaggedFieldAt(p, i) = IF tag % 8 \notin {0, 2} THEN Stops ELSE Field(p, tag, VarintInWord(p, next))
    BY <2>3 DEF TaggedFieldAt
  <2> QED BY <2>5, <2>6, StopGoesOn
<1>4. \A i \in 1..Len(p) : TaggedIn(p)[i] = TaggedFieldAt(p, i)
  BY DEF TaggedIn
<1>5. DOMAIN TaggedIn(p) = 1..Len(p)
  BY DEF TaggedIn
<1> QED BY <1>1, <1>3, <1>4, <1>5 DEF Advances, GoesOn

(* The loop of the live interface.                                         *)
LEMMA LiveGoOn ==
    ASSUME NEW p \in Seq(Byte)
    PROVE  /\ Advances(LiveIn(p), Len(p))
           /\ \A i \in 1..Len(p) : LiveIn(p)[i].found \in Seq(LiveSet)
<1>1. Len(p) \in Nat
  BY LenProperties
<1>3. ASSUME NEW i \in 1..Len(p) PROVE GoesOn(LiveFieldAt(p, i), i, LiveSet)
  <2>1. i \in Nat /\ i > 0
    BY <1>1
  <2>2. PICK tag \in Nat, next \in Nat : next > i /\ VarintLow(p, i) = ReadAs(tag, next)
    BY <2>1, LowReads DEF Reading
  <2>3. VarintLow(p, i).value = tag /\ VarintLow(p, i).next = next
    BY <2>2 DEF ReadAs
  <2>4. PICK n \in Nat, after \in Nat : after > next /\ VarintLow(p, next) = ReadAs(n, after)
    BY <2>1, <2>2, LowReads DEF Reading
  <2>5. VarintLow(p, next).value = n /\ VarintLow(p, next).next = after
    BY <2>4 DEF ReadAs
  <2> DEFINE w == tag % 8
             x == [num |-> tag \div 8, wireType |-> w, value |-> IF w = 0 THEN n ELSE 0]
             to == CASE w = 0 -> after [] w = 1 -> next + 8 [] w = 5 -> next + 4 [] OTHER -> after + n
  <2>6. x \in LiveSet
    <3>1. tag \div 8 \in Nat /\ w \in Nat /\ (IF w = 0 THEN n ELSE 0) \in Nat
      OBVIOUS
    <3> HIDE DEF w
    <3> QED BY <3>1 DEF LiveSet
  <2>7. to \in Nat /\ to > i
    <3>1. w \in Nat
      OBVIOUS
    <3> HIDE DEF w
    <3> QED BY <2>2, <2>4, <3>1
  <2>8. LiveField([value |-> tag, next |-> next], [value |-> n, next |-> after]) = Finds(x, to)
    BY Zenon DEF LiveField
  <2>9. LiveFieldAt(p, i) = IF w \notin {0, 1, 2, 5} THEN Stops ELSE LiveField(ReadAs(tag, next), ReadAs(n, after))
    <3>1. LiveFieldAt(p, i) = IF VarintLow(p, i).value % 8 \notin {0, 1, 2, 5} THEN Stops
                              ELSE LiveField(VarintLow(p, i), VarintLow(p, VarintLow(p, i).next))
      BY Zenon DEF LiveFieldAt
    <3> QED BY <2>2, <2>3, <2>4, <3>1, Zenon
  <2> HIDE DEF w, x, to
  <2>10. GoesOn(Finds(x, to), i, LiveSet)
    BY <2>6, <2>7, FindGoesOn
  <2>11. LiveField(ReadAs(tag, next), ReadAs(n, after)) = Finds(x, to)
    BY <2>8 DEF ReadAs
  <2> QED BY <2>9, <2>10, <2>11, StopGoesOn
<1>4. \A i \in 1..Len(p) : LiveIn(p)[i] = LiveFieldAt(p, i)
  BY DEF LiveIn
<1>5. DOMAIN LiveIn(p) = 1..Len(p)
  BY DEF LiveIn
<1> QED BY <1>1, <1>3, <1>4, <1>5 DEF Advances, GoesOn

(* A run of varints.                                                       *)
LEMMA RunGoesOn ==
    ASSUME NEW p \in Seq(Byte)
    PROVE  /\ Advances(RunIn(p), Len(p))
           /\ \A i \in 1..Len(p) : RunIn(p)[i].found \in Seq(Nat)
<1>1. Len(p) \in Nat
  BY LenProperties
<1>4. \A i \in 1..Len(p) : RunIn(p)[i] = Finds(VarintInWord(p, i).value, VarintInWord(p, i).next)
  BY DEF RunIn
<1>3. ASSUME NEW i \in 1..Len(p) PROVE GoesOn(RunIn(p)[i], i, Nat)
  <2>1. i \in Nat /\ i > 0
    BY <1>1
  <2>2. PICK n \in Nat, next \in Nat : next > i /\ VarintInWord(p, i) = ReadAs(n, next)
    BY <2>1, WordReads DEF Reading
  <2>3. VarintInWord(p, i).value = n /\ VarintInWord(p, i).next = next
    BY <2>2 DEF ReadAs
  <2>4. GoesOn(Finds(n, next), i, Nat)
    BY <2>1, <2>2, FindGoesOn
  <2> QED BY <1>4, <2>3, <2>4
<1>5. DOMAIN RunIn(p) = 1..Len(p)
  BY DEF RunIn
<1> QED BY <1>1, <1>3, <1>5 DEF Advances, GoesOn

\* A loop over a payload that keeps what is in S.
LoopOver(read, p, S) ==
    /\ Advances(read, Len(p))
    /\ \A i \in 1..Len(p) : read[i].found \in Seq(S)

\* Wherever s stands in the payload, the loop passes over it and keeps xs.
Yields(read, p, s, xs) == \A i : Has(p, i, s) => Walk(read, i) = xs \o Walk(read, i + Len(s))

(* Nothing yields nothing.                                                 *)
LEMMA YieldsNothing ==
    ASSUME NEW S, NEW p \in Seq(Byte), NEW read, LoopOver(read, p, S)
    PROVE  Yields(read, p, <<>>, <<>>)
<1> SUFFICES ASSUME NEW i, Has(p, i, <<>>) PROVE Walk(read, i) = <<>> \o Walk(read, i + Len(<<>>))
  BY DEF Yields
<1>1. i \in Nat /\ Len(<<>>) = 0 /\ i + 0 = i
  BY EmptySeq DEF Has
<1>2. \A j \in Nat : Walk(read, j) \in Seq(S)
  <2>1. Advances(read, Len(p)) /\ \A k \in 1..Len(p) : read[k].found \in Seq(S)
    BY DEF LoopOver
  <2> QED BY <2>1, WalkType
<1>3. Walk(read, i) \in Seq(S)
  BY <1>1, <1>2
<1>4. <<>> \o Walk(read, i) = Walk(read, i)
  BY <1>3, ConcatEmptySeq
<1> QED BY <1>1, <1>4

(* What is found at a position, wherever the bytes stand.                  *)
LEMMA YieldsOne ==
    ASSUME NEW S, NEW p \in Seq(Byte), NEW read, LoopOver(read, p, S),
           NEW s \in Seq(Byte), Len(s) > 0, NEW x,
           \A i : Has(p, i, s) => read[i] = Finds(x, i + Len(s))
    PROVE  Yields(read, p, s, <<x>>)
<1> SUFFICES ASSUME NEW i, Has(p, i, s) PROVE Walk(read, i) = <<x>> \o Walk(read, i + Len(s))
  BY DEF Yields
<1>1. Len(s) \in Nat /\ Len(p) \in Nat
  BY LenProperties
<1>2. i \in 1..Len(p)
  BY <1>1 DEF Has
<1>3. read[i] = Finds(x, i + Len(s))
  OBVIOUS
<1>4. read[i].found = <<x>> /\ read[i].next = i + Len(s)
  BY <1>3 DEF Finds
<1>5. Walk(read, i) = read[i].found \o Walk(read, read[i].next)
  BY <1>2, WalkUnfolds DEF LoopOver
<1> QED BY <1>4, <1>5

(* One after the other.                                                    *)
LEMMA YieldsBoth ==
    ASSUME NEW S, NEW p \in Seq(Byte), NEW read, LoopOver(read, p, S),
           NEW s \in Seq(Byte), NEW t \in Seq(Byte), NEW xs \in Seq(S), NEW ys \in Seq(S),
           Yields(read, p, s, xs), Yields(read, p, t, ys)
    PROVE  Yields(read, p, s \o t, xs \o ys)
<1> SUFFICES ASSUME NEW i, Has(p, i, s \o t)
             PROVE  Walk(read, i) = (xs \o ys) \o Walk(read, i + Len(s \o t))
  BY DEF Yields
<1>1. Has(p, i, s) /\ Has(p, i + Len(s), t) /\ Len(s \o t) = Len(s) + Len(t)
  BY HasParts
<1>2. i \in Nat /\ Len(s) \in Nat /\ Len(t) \in Nat
  BY <1>1, LenProperties DEF Has
<1>3. Walk(read, i) = xs \o Walk(read, i + Len(s))
  BY <1>1 DEF Yields
<1>4. Walk(read, i + Len(s)) = ys \o Walk(read, i + Len(s) + Len(t))
  BY <1>1 DEF Yields
<1>5. i + Len(s \o t) = i + Len(s) + Len(t) /\ i + Len(s) + Len(t) \in Nat
  BY <1>1, <1>2
<1>6. Walk(read, i + Len(s) + Len(t)) \in Seq(S)
  BY <1>5, WalkType DEF LoopOver
<1> DEFINE w == Walk(read, i + Len(s) + Len(t))
<1>7. (xs \o ys) \o w = xs \o (ys \o w)
  <2> HIDE DEF w
  <2>1. w \in Seq(S)
    BY <1>6 DEF w
  <2> QED BY <2>1, ConcatAssociative
<1> QED BY <1>3, <1>4, <1>5, <1>7

(* All of a sequence of parts, one after the other.                        *)
LEMMA YieldsParts ==
    ASSUME NEW S, NEW p \in Seq(Byte), NEW read, LoopOver(read, p, S),
           NEW parts \in Seq(Seq(Byte)), NEW xs \in Seq(Seq(S)), Len(xs) = Len(parts),
           \A k \in 1..Len(parts) : Yields(read, p, parts[k], xs[k])
    PROVE  Yields(read, p, Flatten(parts), Flatten(xs))
<1>1. /\ Len(parts) \in Nat /\ Flatten(parts) = Rest(parts, 1)
      /\ \A k \in 1..Len(parts) : Rest(parts, k) = parts[k] \o Rest(parts, k + 1)
      /\ Rest(parts, Len(parts) + 1) = <<>>
      /\ \A k \in 1..(Len(parts) + 1) : Rest(parts, k) \in Seq(Byte)
  BY FlattenOfSeq
<1>2. /\ Flatten(xs) = Rest(xs, 1)
      /\ \A k \in 1..Len(xs) : Rest(xs, k) = xs[k] \o Rest(xs, k + 1)
      /\ Rest(xs, Len(xs) + 1) = <<>>
      /\ \A k \in 1..(Len(xs) + 1) : Rest(xs, k) \in Seq(S)
  BY FlattenOfSeq
<1>3. /\ \A k \in 1..Len(parts) : parts[k] \in Seq(Byte)
      /\ \A k \in 1..Len(parts) : xs[k] \in Seq(S)
  BY ElementOfSeq
<1> DEFINE n == Len(parts)
           T == {k \in Nat : Yields(read, p, Rest(parts, k), Rest(xs, k))}
<1>4. n + 1 \in T
  <2>1. Rest(parts, n + 1) = <<>> /\ Rest(xs, n + 1) = <<>> /\ n + 1 \in Nat
    BY <1>1, <1>2
  <2>2. Yields(read, p, <<>>, <<>>)
    BY YieldsNothing
  <2> QED BY <2>1, <2>2
<1>5. ASSUME NEW k \in 1..n, k + 1 \in T PROVE k \in T
  <2>1. k \in Nat /\ k + 1 \in 1..(n + 1)
    BY <1>1
  <2>2. Rest(parts, k + 1) \in Seq(Byte) /\ Rest(xs, k + 1) \in Seq(S)
    BY <1>1, <1>2, <2>1
  <2>3. Yields(read, p, Rest(parts, k + 1), Rest(xs, k + 1))
    BY <1>5
  <2>4. parts[k] \in Seq(Byte) /\ xs[k] \in Seq(S) /\ Yields(read, p, parts[k], xs[k])
    BY <1>3
  <2>5. Yields(read, p, parts[k] \o Rest(parts, k + 1), xs[k] \o Rest(xs, k + 1))
    BY <2>2, <2>3, <2>4, YieldsBoth
  <2>6. Rest(parts, k) = parts[k] \o Rest(parts, k + 1) /\ Rest(xs, k) = xs[k] \o Rest(xs, k + 1)
    BY <1>1, <1>2
  <2> QED BY <2>1, <2>5, <2>6
<1>6. \A k \in 1..(n + 1) : k \in T
  <2> HIDE DEF T
  <2> QED BY <1>1, <1>4, <1>5, InductDown
<1>7. 1 \in T
  BY <1>1, <1>6
<1> QED BY <1>1, <1>2, <1>7

(* What the whole payload yields is what the loop returns.                 *)
LEMMA YieldsAll ==
    ASSUME NEW S, NEW p \in Seq(Byte), NEW read, LoopOver(read, p, S),
           NEW xs \in Seq(S), Yields(read, p, p, xs)
    PROVE  Walk(read, 1) = xs
<1>1. Len(p) \in Nat
  BY LenProperties
<1>2. Has(p, 1, p)
  BY HasItself
<1>3. Walk(read, 1) = xs \o Walk(read, 1 + Len(p))
  BY <1>2 DEF Yields
<1>4. 1 + Len(p) \in Nat /\ 1 + Len(p) \notin 1..Len(p)
  BY <1>1
<1>5. Walk(read, 1 + Len(p)) = <<>>
  BY <1>4, WalkUnfolds DEF LoopOver
<1> QED BY <1>3, <1>5, ConcatEmptySeq

-----------------------------------------------------------------------------
(***************************************************************************)
(* Fields.                                                                 *)
(***************************************************************************)
\* A field as it is found.
FieldOf(num, v) == [num |-> num, value |-> v, whole |-> TRUE]

(* The loops are loops.                                                    *)
LEMMA FieldLoops ==
    ASSUME NEW p \in Seq(Byte)
    PROVE  /\ \A wireTypes, exact : LoopOver(FieldsIn(p, wireTypes, exact), p, FieldSet)
           /\ LoopOver(TaggedIn(p), p, FieldSet)
           /\ LoopOver(LiveIn(p), p, LiveSet)
           /\ LoopOver(RunIn(p), p, Nat)
<1>1. \A wireTypes, exact : LoopOver(FieldsIn(p, wireTypes, exact), p, FieldSet)
  BY FieldsGoOn DEF LoopOver
<1>2. LoopOver(TaggedIn(p), p, FieldSet)
  BY TaggedGoOn DEF LoopOver
<1>3. LoopOver(LiveIn(p), p, LiveSet)
  BY LiveGoOn DEF LoopOver
<1>4. LoopOver(RunIn(p), p, Nat)
  BY RunGoesOn DEF LoopOver
<1> QED BY <1>1, <1>2, <1>3, <1>4

(* A number field is its tag and a varint; what it takes.                  *)
LEMMA NumberType ==
    ASSUME NEW num \in 1..15, NEW n \in Nat
    PROVE  /\ Number(num, n) \in Seq(Byte) /\ Len(Number(num, n)) = Long(n) + 1
           /\ <<8 * num>> \in Seq(Byte) /\ Len(<<8 * num>>) = 1 /\ <<8 * num>>[1] = 8 * num
<1>1. 8 * num \in Byte
  BY DEF Byte
<1>2. Varint(n) \in Seq(Byte)
  BY VarintType
<1> DEFINE x == 8 * num
           s == Varint(n)
<1>3. <<x>> \o s \in Seq(Byte) /\ Len(<<x>> \o s) = Len(s) + 1
  <2> HIDE DEF x, s
  <2>1. x \in Byte /\ s \in Seq(Byte)
    BY <1>1, <1>2 DEF x, s
  <2> QED BY <2>1, ByteBefore
<1>4. <<x>> \in Seq(Byte) /\ Len(<<x>>) = 1 /\ <<x>>[1] = x
  <2> HIDE DEF x
  <2>1. x \in Byte
    BY <1>1 DEF x
  <2> QED BY <2>1
<1> QED BY <1>3, <1>4 DEF Number, Long

(* Where a number field stands, there is its tag, and the varint behind.   *)
LEMMA NumberStands ==
    ASSUME NEW p \in Seq(Byte), NEW i, NEW num \in 1..15, NEW n \in Nat, Has(p, i, Number(num, n))
    PROVE  /\ i \in 1..Len(p) /\ i \in Nat /\ p[i] = 8 * num
           /\ Has(p, i, <<8 * num>>) /\ Has(p, i + 1, Varint(n))
<1>1. <<8 * num>> \in Seq(Byte) /\ Len(<<8 * num>>) = 1 /\ <<8 * num>>[1] = 8 * num
  BY NumberType
<1>2. Varint(n) \in Seq(Byte)
  BY VarintType
<1> DEFINE h == <<8 * num>>
<1>3. Has(p, i, h \o Varint(n))
  BY DEF Number
<1>4. h \in Seq(Byte) /\ Len(h) = 1 /\ h[1] = 8 * num
  BY <1>1
<1> HIDE DEF h
<1>5. Has(p, i, h) /\ Has(p, i + Len(h), Varint(n))
  BY <1>2, <1>3, <1>4, HasParts
<1>6. 1 \in 1..Len(h) /\ Len(h) \in Nat
  BY <1>4
<1>7. i + 1 - 1 \in 1..Len(p) /\ p[i + 1 - 1] = h[1]
  BY <1>5, <1>6, HasBytes
<1>8. i \in Nat
  BY <1>5 DEF Has
<1>9. i + 1 - 1 = i
  BY <1>8
<1> QED BY <1>4, <1>5, <1>7, <1>8, <1>9 DEF h

(* The field of a number.                                                  *)
LEMMA FieldOfNumber ==
    ASSUME NEW p, NEW num \in 1..15, NEW n, NEW next
    PROVE  Field(p, 8 * num, ReadAs(n, next)) = Finds(FieldOf(num, n), next)
<1>1. (8 * num) % 8 = 0 /\ (8 * num) \div 8 = num
  OBVIOUS
<1>2. ReadAs(n, next).value = n /\ ReadAs(n, next).next = next
  BY DEF ReadAs
<1> DEFINE tag == 8 * num
           v == ReadAs(n, next)
<1>3. Field(p, tag, v) = Finds([num |-> tag \div 8, value |-> v.value, whole |-> TRUE], v.next)
  <2>1. tag % 8 = 0
    BY <1>1
  <2> HIDE DEF tag, v
  <2> QED BY <2>1, Zenon DEF Field
<1> QED BY <1>1, <1>2, <1>3 DEF FieldOf

(* The field of a text.                                                    *)
LEMMA FieldOfBytes ==
    ASSUME NEW p \in Seq(Byte), NEW num \in 1..15, NEW s \in Seq(Byte), NEW next, Has(p, next, s)
    PROVE  Field(p, 8 * num + 2, ReadAs(Len(s), next)) = Finds(FieldOf(num, s), next + Len(s))
<1>1. (8 * num + 2) % 8 # 0 /\ (8 * num + 2) \div 8 = num
  OBVIOUS
<1>2. ReadAs(Len(s), next).value = Len(s) /\ ReadAs(Len(s), next).next = next
  BY DEF ReadAs
<1>3. Slice(p, next, Len(s)) = s
  BY HasSub
<1>4. (next + Len(s) <= Len(p) + 1) = TRUE
  <2>1. next + Len(s) <= Len(p) + 1
    BY DEF Has
  <2> QED BY <2>1, Zenon
<1> DEFINE tag == 8 * num + 2
           v == ReadAs(Len(s), next)
<1>5. Field(p, tag, v) = Finds([num |-> tag \div 8, value |-> Slice(p, v.next, v.value),
                                whole |-> v.next + v.value <= Len(p) + 1], v.next + v.value)
  <2>1. tag % 8 # 0
    BY <1>1
  <2> HIDE DEF tag, v
  <2> QED BY <2>1, Zenon DEF Field
<1>6. tag \div 8 = num /\ v.value = Len(s) /\ v.next = next
  BY <1>1, <1>2
<1> HIDE DEF tag, v
<1>7. Field(p, tag, v) = Finds([num |-> num, value |-> s, whole |-> TRUE], next + Len(s))
  BY <1>3, <1>4, <1>5, <1>6, Zenon
<1> QED BY <1>7 DEF FieldOf, tag, v

(* The loop of protocol.js finds a number field where one stands.          *)
LEMMA NumberYields ==
    ASSUME NEW p \in Seq(Byte), NEW wireTypes, 0 \in wireTypes, NEW exact \in BOOLEAN,
           NEW num \in 1..15, NEW n \in Nat, exact \/ n < 2^Word
    PROVE  Yields(FieldsIn(p, wireTypes, exact), p, Number(num, n), <<FieldOf(num, n)>>)
<1> DEFINE s == Number(num, n)
           read == FieldsIn(p, wireTypes, exact)
<1>1. s \in Seq(Byte) /\ Len(s) = Long(n) + 1 /\ Long(n) \in Nat
  BY NumberType, VarintType
<1>2. LoopOver(read, p, FieldSet)
  BY FieldLoops
<1>3. ASSUME NEW i, Has(p, i, s) PROVE read[i] = Finds(FieldOf(num, n), i + Len(s))
  <2>1. i \in 1..Len(p) /\ i \in Nat /\ p[i] = 8 * num /\ Has(p, i + 1, Varint(n))
    BY <1>3, NumberStands
  <2>2. VarintAt(p, i + 1, exact) = ReadAs(n, i + 1 + Long(n))
    <3>1. VarintExact(p, i + 1) = ReadAs(n, i + 1 + Long(n))
      BY <2>1, ExactReadsVarint
    <3>2. n < 2^Word => VarintInWord(p, i + 1) = ReadAs(n, i + 1 + Long(n))
      BY <2>1, WordReadsVarint
    <3> QED BY <3>1, <3>2 DEF VarintAt
  <2>3. p[i] % 8 = 0
    <3>1. (8 * num) % 8 = 0
      OBVIOUS
    <3> QED BY <2>1, <3>1
  <2>4. read[i] = FieldAt(p, i, wireTypes, exact)
    BY <2>1 DEF FieldsIn
  <2>5. FieldAt(p, i, wireTypes, exact) = Field(p, 8 * num, ReadAs(n, i + 1 + Long(n)))
    BY <2>1, <2>2, <2>3, Zenon DEF FieldAt
  <2>6. i + 1 + Long(n) = i + Len(s)
    BY <1>1, <2>1
  <2> HIDE DEF s, read
  <2> QED BY <2>4, <2>5, <2>6, FieldOfNumber
<1>4. Len(s) > 0
  BY <1>1
<1> HIDE DEF s, read
<1>5. Yields(read, p, s, <<FieldOf(num, n)>>)
  BY <1>1, <1>2, <1>3, <1>4, YieldsOne
<1> QED BY <1>5 DEF s, read

\* A text with its tag and its length.
Delimited(num, s) == <<8 * num + 2>> \o (Varint(Len(s)) \o s)

(* What it takes.                                                          *)
LEMMA DelimitedType ==
    ASSUME NEW num \in 1..15, NEW s \in Seq(Byte)
    PROVE  /\ Delimited(num, s) \in Seq(Byte)
           /\ Len(Delimited(num, s)) = Len(s) + Long(Len(s)) + 1 /\ Len(s) \in Nat /\ Long(Len(s)) \in Nat
<1>1. Len(s) \in Nat
  BY LenProperties
<1>2. Varint(Len(s)) \in Seq(Byte) /\ Long(Len(s)) \in Nat
  BY <1>1, VarintType
<1> DEFINE x == 8 * num + 2
           v == Varint(Len(s))
           t == v \o s
<1>3. x \in Byte
  BY DEF Byte
<1>4. t \in Seq(Byte) /\ Len(t) = Len(v) + Len(s)
  <2> HIDE DEF v
  <2>1. v \in Seq(Byte)
    BY <1>2 DEF v
  <2> QED BY <2>1, ConcatProperties
<1>5. <<x>> \o t \in Seq(Byte) /\ Len(<<x>> \o t) = Len(t) + 1
  <2> HIDE DEF x, t
  <2> QED BY <1>3, <1>4, ByteBefore
<1>6. Len(v) = Long(Len(s))
  BY DEF Long
<1> HIDE DEF x, v, t
<1>7. Len(<<x>> \o t) = Len(s) + Long(Len(s)) + 1
  BY <1>1, <1>2, <1>4, <1>5, <1>6
<1> QED BY <1>1, <1>2, <1>5, <1>7 DEF Delimited, x, v, t

(* Where it stands, there are its tag, its length and its bytes.           *)
LEMMA DelimitedStands ==
    ASSUME NEW p \in Seq(Byte), NEW i, NEW num \in 1..15, NEW s \in Seq(Byte), Has(p, i, Delimited(num, s))
    PROVE  /\ i \in 1..Len(p) /\ i \in Nat /\ p[i] = 8 * num + 2 /\ Has(p, i, <<8 * num + 2>>)
           /\ Has(p, i + 1, Varint(Len(s))) /\ Has(p, i + 1 + Long(Len(s)), s)
<1>1. Len(s) \in Nat
  BY LenProperties
<1>2. Varint(Len(s)) \in Seq(Byte)
  BY <1>1, VarintType
<1> DEFINE h == <<8 * num + 2>>
           v == Varint(Len(s))
           t == v \o s
<1>3. 8 * num + 2 \in Byte
  BY DEF Byte
<1>4. h \in Seq(Byte) /\ Len(h) = 1 /\ h[1] = 8 * num + 2
  BY <1>3
<1>5. Has(p, i, h \o t)
  BY DEF Delimited
<1>6. v \in Seq(Byte) /\ t \in Seq(Byte)
  <2> HIDE DEF v
  <2>1. v \in Seq(Byte)
    BY <1>2 DEF v
  <2> QED BY <2>1, ConcatProperties
<1>7. Len(v) = Long(Len(s))
  BY DEF Long
<1> HIDE DEF h, t, v
<1>8. Has(p, i, h) /\ Has(p, i + Len(h), t)
  BY <1>4, <1>5, <1>6, HasParts
<1>9. Has(p, i + 1, v \o s)
  BY <1>4, <1>8 DEF t
<1>10. Has(p, i + 1, v) /\ Has(p, i + 1 + Len(v), s)
  BY <1>6, <1>9, HasParts
<1>11. 1 \in 1..Len(h) /\ Len(h) \in Nat
  BY <1>4
<1>12. i + 1 - 1 \in 1..Len(p) /\ p[i + 1 - 1] = h[1]
  BY <1>8, <1>11, HasBytes
<1>13. i \in Nat
  BY <1>8 DEF Has
<1>14. i + 1 - 1 = i
  BY <1>13
<1> QED BY <1>4, <1>7, <1>8, <1>10, <1>12, <1>13, <1>14 DEF h, v

(* The loop of protocol.js finds a text field where one stands.            *)
LEMMA DelimitedYields ==
    ASSUME NEW p \in Seq(Byte), NEW wireTypes, 2 \in wireTypes, NEW exact \in BOOLEAN,
           NEW num \in 1..15, NEW s \in Seq(Byte), exact \/ Len(s) < 2^Word
    PROVE  Yields(FieldsIn(p, wireTypes, exact), p, Delimited(num, s), <<FieldOf(num, s)>>)
<1> DEFINE d == Delimited(num, s)
           read == FieldsIn(p, wireTypes, exact)
<1>1. d \in Seq(Byte) /\ Len(d) = Len(s) + Long(Len(s)) + 1 /\ Len(s) \in Nat /\ Long(Len(s)) \in Nat
  BY DelimitedType
<1>2. LoopOver(read, p, FieldSet)
  BY FieldLoops
<1>3. ASSUME NEW i, Has(p, i, d) PROVE read[i] = Finds(FieldOf(num, s), i + Len(d))
  <2>1. /\ i \in 1..Len(p) /\ i \in Nat /\ p[i] = 8 * num + 2
        /\ Has(p, i + 1, Varint(Len(s))) /\ Has(p, i + 1 + Long(Len(s)), s)
    BY <1>3, DelimitedStands
  <2> DEFINE next == i + 1 + Long(Len(s))
  <2>2. VarintAt(p, i + 1, exact) = ReadAs(Len(s), next)
    <3>1. VarintExact(p, i + 1) = ReadAs(Len(s), next)
      BY <1>1, <2>1, ExactReadsVarint
    <3>2. Len(s) < 2^Word => VarintInWord(p, i + 1) = ReadAs(Len(s), next)
      BY <1>1, <2>1, WordReadsVarint
    <3> QED BY <3>1, <3>2 DEF VarintAt
  <2>3. p[i] % 8 = 2
    <3>1. (8 * num + 2) % 8 = 2
      OBVIOUS
    <3> QED BY <2>1, <3>1
  <2>4. read[i] = FieldAt(p, i, wireTypes, exact)
    BY <2>1 DEF FieldsIn
  <2>5. FieldAt(p, i, wireTypes, exact) = Field(p, 8 * num + 2, ReadAs(Len(s), next))
    <3> HIDE DEF next
    <3> QED BY <2>1, <2>2, <2>3, Zenon DEF FieldAt
  <2>6. next + Len(s) = i + Len(d)
    BY <1>1, <2>1
  <2>7. Has(p, next, s)
    BY <2>1
  <2> HIDE DEF d, read, next
  <2>8. Field(p, 8 * num + 2, ReadAs(Len(s), next)) = Finds(FieldOf(num, s), next + Len(s))
    BY <2>7, FieldOfBytes
  <2> QED BY <2>4, <2>5, <2>6, <2>8
<1>4. Len(d) > 0
  BY <1>1
<1> HIDE DEF d, read
<1>5. Yields(read, p, d, <<FieldOf(num, s)>>)
  BY <1>1, <1>2, <1>3, <1>4, YieldsOne
<1> QED BY <1>5 DEF d, read

(* A tag of the fields of this interface is a varint of a byte.            *)
LEMMA TagIsByte ==
    ASSUME NEW p \in Seq(Byte), NEW i, NEW tag \in Nat, tag < 128, Has(p, i, <<tag>>)
    PROVE  /\ VarintInWord(p, i) = ReadAs(tag, i + 1)
           /\ VarintLow(p, i) = ReadAs(tag, i + 1)
<1>1. Varint(tag) = <<tag>>
  BY VarintHead
<1>2. Long(tag) = 1
  BY <1>1 DEF Long
<1>3. tag < 2^Word
  BY WordHolds
<1>4. Has(p, i, Varint(tag))
  BY <1>1
<1> QED BY <1>2, <1>3, <1>4, WordReadsVarint, LowReadsVarint

(* The loop of messageTypes.js finds a number field where one stands.      *)
LEMMA NumberYieldsTagged ==
    ASSUME NEW p \in Seq(Byte), NEW num \in 1..15, NEW n \in Nat, n < 2^Word
    PROVE  Yields(TaggedIn(p), p, Number(num, n), <<FieldOf(num, n)>>)
<1> DEFINE s == Number(num, n)
           read == TaggedIn(p)
<1>1. s \in Seq(Byte) /\ Len(s) = Long(n) + 1 /\ Long(n) \in Nat
  BY NumberType, VarintType
<1>2. LoopOver(read, p, FieldSet)
  BY FieldLoops
<1>3. ASSUME NEW i, Has(p, i, s) PROVE read[i] = Finds(FieldOf(num, n), i + Len(s))
  <2>1. i \in 1..Len(p) /\ i \in Nat /\ Has(p, i, <<8 * num>>) /\ Has(p, i + 1, Varint(n))
    BY <1>3, NumberStands
  <2> DEFINE next == i + 1 + Long(n)
  <2>2. VarintInWord(p, i + 1) = ReadAs(n, next)
    BY <2>1, WordReadsVarint
  <2>3. 8 * num \in Nat /\ 8 * num < 128 /\ (8 * num) % 8 = 0
    OBVIOUS
  <2>4. VarintInWord(p, i) = ReadAs(8 * num, i + 1)
    BY <2>1, <2>3, TagIsByte
  <2>5. VarintInWord(p, i).value = 8 * num /\ VarintInWord(p, i).next = i + 1
    BY <2>4 DEF ReadAs
  <2>6. read[i] = TaggedFieldAt(p, i)
    BY <2>1 DEF TaggedIn
  <2>7. TaggedFieldAt(p, i) = Field(p, 8 * num, ReadAs(n, next))
    <3> HIDE DEF next
    <3>1. (8 * num) % 8 \in {0, 2}
      BY <2>3
    <3> QED BY <2>2, <2>5, <3>1, Zenon DEF TaggedFieldAt
  <2>8. next = i + Len(s)
    BY <1>1, <2>1
  <2> HIDE DEF s, read, next
  <2> QED BY <2>6, <2>7, <2>8, FieldOfNumber, ZenonT(60)
<1>4. Len(s) > 0
  BY <1>1
<1> HIDE DEF s, read
<1>5. Yields(read, p, s, <<FieldOf(num, n)>>)
  BY <1>1, <1>2, <1>3, <1>4, YieldsOne
<1> QED BY <1>5 DEF s, read

(* And a text field.                                                       *)
LEMMA DelimitedYieldsTagged ==
    ASSUME NEW p \in Seq(Byte), NEW num \in 1..15, NEW s \in Seq(Byte), Len(s) < 2^Word
    PROVE  Yields(TaggedIn(p), p, Delimited(num, s), <<FieldOf(num, s)>>)
<1> DEFINE d == Delimited(num, s)
           read == TaggedIn(p)
<1>1. d \in Seq(Byte) /\ Len(d) = Len(s) + Long(Len(s)) + 1 /\ Len(s) \in Nat /\ Long(Len(s)) \in Nat
  BY DelimitedType
<1>2. LoopOver(read, p, FieldSet)
  BY FieldLoops
<1>3. ASSUME NEW i, Has(p, i, d) PROVE read[i] = Finds(FieldOf(num, s), i + Len(d))
  <2>1. /\ i \in 1..Len(p) /\ i \in Nat /\ Has(p, i, <<8 * num + 2>>)
        /\ Has(p, i + 1, Varint(Len(s))) /\ Has(p, i + 1 + Long(Len(s)), s)
    BY <1>3, DelimitedStands
  <2> DEFINE next == i + 1 + Long(Len(s))
  <2>2. VarintInWord(p, i + 1) = ReadAs(Len(s), next)
    BY <1>1, <2>1, WordReadsVarint
  <2>3. 8 * num + 2 \in Nat /\ 8 * num + 2 < 128 /\ (8 * num + 2) % 8 = 2
    OBVIOUS
  <2>4. VarintInWord(p, i) = ReadAs(8 * num + 2, i + 1)
    BY <2>1, <2>3, TagIsByte
  <2>5. VarintInWord(p, i).value = 8 * num + 2 /\ VarintInWord(p, i).next = i + 1
    BY <2>4 DEF ReadAs
  <2>6. read[i] = TaggedFieldAt(p, i)
    BY <2>1 DEF TaggedIn
  <2>7. TaggedFieldAt(p, i) = Field(p, 8 * num + 2, ReadAs(Len(s), next))
    <3> HIDE DEF next
    <3>1. (8 * num + 2) % 8 \in {0, 2}
      BY <2>3
    <3> QED BY <2>2, <2>5, <3>1, Zenon DEF TaggedFieldAt
  <2>8. next + Len(s) = i + Len(d)
    BY <1>1, <2>1
  <2>9. Has(p, next, s)
    BY <2>1
  <2> HIDE DEF d, read, next
  <2>10. Field(p, 8 * num + 2, ReadAs(Len(s), next)) = Finds(FieldOf(num, s), next + Len(s))
    BY <2>9, FieldOfBytes
  <2> QED BY <2>6, <2>7, <2>8, <2>10
<1>4. Len(d) > 0
  BY <1>1
<1> HIDE DEF d, read
<1>5. Yields(read, p, d, <<FieldOf(num, s)>>)
  BY <1>1, <1>2, <1>3, <1>4, YieldsOne
<1> QED BY <1>5 DEF d, read

(* A run of varints yields its numbers one by one.                         *)
LEMMA VarintYields ==
    ASSUME NEW p \in Seq(Byte), NEW n \in Nat, n < 2^Word
    PROVE  Yields(RunIn(p), p, Varint(n), <<n>>)
<1> DEFINE s == Varint(n)
           read == RunIn(p)
<1>1. s \in Seq(Byte) /\ Len(s) = Long(n) /\ Len(s) \in Nat /\ Len(s) > 0
  BY VarintType DEF Long
<1>2. LoopOver(read, p, Nat)
  BY FieldLoops
<1>3. ASSUME NEW i, Has(p, i, s) PROVE read[i] = Finds(n, i + Len(s))
  <2>1. i \in 1..Len(p)
    <3>1. Len(p) \in Nat
      BY LenProperties
    <3>2. i \in Nat /\ i > 0 /\ i + Len(s) <= Len(p) + 1
      BY <1>3 DEF Has
    <3> HIDE DEF s
    <3> QED BY <1>1, <3>1, <3>2
  <2>2. VarintInWord(p, i) = ReadAs(n, i + Long(n))
    BY <1>3, WordReadsVarint
  <2>3. VarintInWord(p, i).value = n /\ VarintInWord(p, i).next = i + Long(n)
    BY <2>2 DEF ReadAs
  <2>4. read[i] = Finds(VarintInWord(p, i).value, VarintInWord(p, i).next)
    BY <2>1 DEF RunIn
  <2> QED BY <1>1, <2>3, <2>4
<1> HIDE DEF s, read
<1>4. Yields(read, p, s, <<n>>)
  BY <1>1, <1>2, <1>3, YieldsOne
<1> QED BY <1>4 DEF s, read

(* Two bytes.                                                              *)
LEMMA TwoBytes ==
    ASSUME NEW x \in Byte, NEW y \in Byte
    PROVE  /\ <<x>> \in Seq(Byte) /\ <<y>> \in Seq(Byte) /\ <<x, y>> \in Seq(Byte)
           /\ <<x>> \o <<y>> = <<x, y>>
<1>1. <<x>> \in Seq(Byte) /\ <<y>> \in Seq(Byte)
  OBVIOUS
<1>2. <<x, y>> \in Seq(Byte) /\ Len(<<x, y>>) = 2 /\ <<x, y>>[1] = x /\ <<x, y>>[2] = y
  OBVIOUS
<1> DEFINE t == <<y>>
           u == <<x>> \o t
           w == <<x, y>>
<1>3. t \in Seq(Byte) /\ Len(t) = 1 /\ t[1] = y
  OBVIOUS
<1>4. /\ u \in Seq(Byte) /\ Len(u) = Len(t) + 1 /\ u[1] = x
      /\ \A k \in 1..Len(t) : u[k + 1] = t[k]
  <2> HIDE DEF t
  <2> QED BY <1>3, ByteBefore
<1>5. w \in Seq(Byte) /\ Len(w) = 2 /\ w[1] = x /\ w[2] = y
  BY <1>2
<1> HIDE DEF t, u, w
<1>6. Len(u) = 2 /\ u[2] = y
  <2>1. 1 \in 1..Len(t) /\ 1 + 1 = 2
    BY <1>3
  <2> QED BY <1>3, <1>4, <2>1
<1>7. ASSUME NEW i \in 1..Len(u) PROVE u[i] = w[i]
  <2>1. i \in 1..2
    BY <1>6
  <2>2. i = 1 \/ i = 2
    BY <2>1
  <2>3. CASE i = 1
    BY <1>4, <1>5, <2>3
  <2>4. CASE i = 2
    BY <1>6, <1>5, <2>4
  <2> QED BY <2>2, <2>3, <2>4
<1>8. u = w
  BY <1>4, <1>5, <1>6, <1>7, SeqEqual
<1> QED BY <1>1, <1>2, <1>8 DEF t, u, w

\* Texts whose length takes one byte.
Short == {s \in Seq(Byte) : Len(s) < 128}

(* Their length is a byte.                                                 *)
LEMMA ShortType ==
    ASSUME NEW s \in Short
    PROVE  s \in Seq(Byte) /\ Len(s) \in Nat /\ Len(s) \in Byte
<1>1. s \in Seq(Byte)
  BY DEF Short
<1>2. Len(s) \in Nat
  BY <1>1, LenProperties
<1>3. PICK l \in Nat : l = Len(s)
  BY <1>2
<1>4. l < 128
  BY <1>3 DEF Short
<1>5. l \in Byte
  BY <1>4 DEF Byte
<1> QED BY <1>1, <1>2, <1>3, <1>5

(* The text fields of the bike, of less than 128 bytes, are delimited.     *)
LEMMA BytesAreDelimited ==
    ASSUME NEW num \in 1..15, NEW s \in Short
    PROVE  Bytes(num, s) = Delimited(num, s)
<1>1. s \in Seq(Byte) /\ Len(s) \in Nat /\ Len(s) \in Byte
  BY ShortType
<1>2. Varint(Len(s)) = <<Len(s)>>
  <2>1. Len(s) < 128
    BY DEF Short
  <2> QED BY <1>1, <2>1, VarintHead
<1>3. 8 * num + 2 \in Byte /\ Len(s) \in Byte
  BY <1>1 DEF Byte
<1> DEFINE x == 8 * num + 2
           l == Len(s)
<1>4. <<x, l>> \o s = <<x>> \o (<<l>> \o s)
  <2> HIDE DEF x, l
  <2>1. x \in Byte /\ l \in Byte
    BY <1>3 DEF x, l
  <2>2. <<x>> \in Seq(Byte) /\ <<l>> \in Seq(Byte) /\ <<x>> \o <<l>> = <<x, l>>
    BY <2>1, TwoBytes
  <2>3. (<<x>> \o <<l>>) \o s = <<x>> \o (<<l>> \o s)
    BY <2>2, ConcatAssociative
  <2> QED BY <2>2, <2>3
<1> QED BY <1>2, <1>4 DEF Bytes, Delimited

-----------------------------------------------------------------------------
(***************************************************************************)
(* The value of a field: of several occurrences, the last one.             *)
(***************************************************************************)
\* Where a field occurs for the last time, and that it occurs.
LastAt(fields, num, k) ==
    /\ k \in 1..Len(fields) /\ fields[k].num = num
    /\ \A j \in (k + 1)..Len(fields) : fields[j].num # num

Occurs(fields, num) == \E k \in 1..Len(fields) : fields[k].num = num

(* The last occurrence of a field wins: where it stands.                   *)
LEMMA ValueIs ==
    ASSUME NEW S, NEW fields \in Seq(S), NEW num, NEW k, LastAt(fields, num, k)
    PROVE  \A default : Value(fields, num, default) = fields[k].value
<1> TAKE default
<1>0. /\ k \in 1..Len(fields) /\ fields[k].num = num
      /\ \A j \in (k + 1)..Len(fields) : fields[j].num # num
  BY DEF LastAt
<1> DEFINE Last(i) == fields[i].num = num /\ \A j \in (i + 1)..Len(fields) : fields[j].num # num
<1>1. Len(fields) \in Nat /\ DOMAIN fields = 1..Len(fields)
  BY LenProperties
<1>2. k \in DOMAIN fields /\ Last(k)
  BY <1>0, <1>1
<1>3. ASSUME NEW i \in DOMAIN fields, Last(i) PROVE i = k
  <2>1. i \in Int /\ k \in Int /\ i <= Len(fields) /\ k <= Len(fields)
    BY <1>0, <1>1
  <2>2. ~(i < k)
    <3>1. i < k => k \in (i + 1)..Len(fields)
      BY <2>1, <1>1
    <3> QED BY <1>0, <1>3, <3>1
  <2>3. ~(k < i)
    <3>1. k < i => i \in (k + 1)..Len(fields)
      BY <2>1, <1>1
    <3> QED BY <1>0, <1>3, <3>1
  <2> QED BY <2>1, <2>2, <2>3
<1>4. (CHOOSE i \in DOMAIN fields : Last(i)) = k
  <2> HIDE DEF Last
  <2> QED BY <1>2, <1>3
<1>5. \E i \in DOMAIN fields : fields[i].num = num
  BY <1>2
<1>6. Value(fields, num, default) = fields[CHOOSE i \in DOMAIN fields : Last(i)].value
  BY <1>5, Zenon DEF Value
<1> QED BY <1>4, <1>6

(* A field that does not occur has its default.                            *)
LEMMA ValueAbsent ==
    ASSUME NEW fields, NEW num, NEW default, \A k \in DOMAIN fields : fields[k].num # num
    PROVE  Value(fields, num, default) = default
<1>1. ~ \E k \in DOMAIN fields : fields[k].num = num
  OBVIOUS
<1> QED BY <1>1, Zenon DEF Value

(* A field that occurs has a last occurrence.                              *)
LEMMA LastOccurrence ==
    ASSUME NEW S, NEW fields \in Seq(S), NEW num, Occurs(fields, num)
    PROVE  \E k : LastAt(fields, num, k)
<1>0. PICK i \in 1..Len(fields) : fields[i].num = num
  BY DEF Occurs
<1>1. PICK n \in Nat : n = Len(fields)
  BY LenProperties
<1> DEFINE T == {m \in Nat : m < n /\ fields[n - m].num = num}
<1>2. n - i \in T
  <2>1. n - i \in Nat /\ n - i < n /\ n - (n - i) = i
    BY <1>1
  <2> QED BY <1>0, <2>1
<1>3. PICK m \in T : \A l \in T : m <= l
  <2>1. T \in SUBSET Nat /\ T # {}
    BY <1>2
  <2> HIDE DEF T
  <2> QED BY <2>1, Least
<1>4. PICK k \in 1..n : k = n - m
  OBVIOUS
<1>5. fields[k].num = num
  BY <1>4
<1>6. ASSUME NEW j \in (k + 1)..n PROVE fields[j].num # num
  <2>1. n - j \in Nat /\ n - j < m /\ n - j < n /\ n - (n - j) = j
    BY <1>4
  <2>2. n - j \notin T
    <3>1. m \in Nat
      OBVIOUS
    <3> HIDE DEF T
    <3> QED BY <1>3, <2>1, <3>1
  <2> QED BY <2>1, <2>2
<1> HIDE DEF T
<1>7. LastAt(fields, num, k)
  BY <1>1, <1>5, <1>6 DEF LastAt
<1> QED BY <1>7

(* What stands behind overrides what stands before it.                     *)
LEMMA ValueConcat ==
    ASSUME NEW S, NEW s \in Seq(S), NEW t \in Seq(S), NEW num, NEW default
    PROVE  Value(s \o t, num, default) = Value(t, num, Value(s, num, default))
<1>1. PICK m \in Nat, n \in Nat : m = Len(s) /\ n = Len(t)
  BY LenProperties
<1> DEFINE st == s \o t
<1>2. /\ st \in Seq(S) /\ Len(st) = m + n
      /\ \A i \in 1..(m + n) : st[i] = IF i <= m THEN s[i] ELSE t[i - m]
  BY <1>1, ConcatProperties
<1>3. DOMAIN s = 1..m /\ DOMAIN t = 1..n /\ DOMAIN st = 1..(m + n)
  BY <1>1, <1>2, LenProperties
<1>4. \A i \in 1..m : st[i] = s[i]
  BY <1>2
<1>5. \A i \in 1..n : m + i \in 1..(m + n) /\ st[m + i] = t[i]
  <2> TAKE i \in 1..n
  <2>1. PICK j \in 1..(m + n) : j = m + i
    OBVIOUS
  <2>2. st[j] = t[i]
    <3>1. ~(j <= m) /\ j - m = i
      BY <2>1
    <3> HIDE DEF st
    <3> QED BY <1>2, <3>1
  <2> QED BY <2>1, <2>2
<1>6. \A j \in 1..(m + n) : j \in 1..m \/ \E i \in 1..n : j = m + i
  <2> TAKE j \in 1..(m + n)
  <2>1. CASE j <= m
    BY <2>1
  <2>2. CASE j > m
    <3>1. j - m \in 1..n /\ j = m + (j - m)
      BY <2>2
    <3> QED BY <3>1
  <2> QED BY <2>1, <2>2
<1> HIDE DEF st
<1>7. CASE Occurs(t, num)
  <2>1. PICK k : LastAt(t, num, k)
    BY <1>7, LastOccurrence
  <2>2. k \in 1..n /\ t[k].num = num /\ \A j \in (k + 1)..n : t[j].num # num
    BY <1>1, <2>1 DEF LastAt
  <2>3. PICK l \in 1..(m + n) : l = m + k
    BY <2>2
  <2>4. st[l] = t[k]
    BY <1>5, <2>2, <2>3
  <2>5. ASSUME NEW j \in (l + 1)..(m + n) PROVE st[j].num # num
    <3>1. PICK i \in 1..n : j = m + i
      <4>1. j - m \in 1..n /\ j = m + (j - m)
        BY <2>2, <2>3
      <4> QED BY <4>1
    <3>2. i \in (k + 1)..n
      BY <2>2, <2>3, <3>1
    <3> QED BY <1>5, <2>2, <3>1, <3>2
  <2>6. LastAt(st, num, l)
    BY <1>2, <2>2, <2>4, <2>5 DEF LastAt
  <2>7. Value(st, num, default) = st[l].value
    BY <1>2, <2>6, ValueIs
  <2>8. Value(t, num, Value(s, num, default)) = t[k].value
    BY <2>1, ValueIs
  <2> QED BY <2>4, <2>7, <2>8 DEF st
<1>8. CASE ~Occurs(t, num)
  <2>0. \A i \in 1..n : t[i].num # num
    BY <1>1, <1>8 DEF Occurs
  <2>1. \A d : Value(t, num, d) = d
    BY <1>3, <2>0, ValueAbsent
  <2>2. CASE Occurs(s, num)
    <3>1. PICK k : LastAt(s, num, k)
      BY <2>2, LastOccurrence
    <3>2. k \in 1..m /\ s[k].num = num /\ \A j \in (k + 1)..m : s[j].num # num
      BY <1>1, <3>1 DEF LastAt
    <3>3. k \in 1..(m + n) /\ st[k] = s[k]
      BY <1>4, <3>2
    <3>4. ASSUME NEW j \in (k + 1)..(m + n) PROVE st[j].num # num
      <4>1. j \in 1..(m + n)
        BY <3>2
      <4>2. CASE j \in 1..m
        <5>1. j \in (k + 1)..m
          BY <3>2, <4>2
        <5> QED BY <1>4, <3>2, <4>2, <5>1
      <4>3. CASE \E i \in 1..n : j = m + i
        BY <1>5, <2>0, <4>3
      <4> QED BY <1>6, <4>1, <4>2, <4>3
    <3>5. LastAt(st, num, k)
      BY <1>2, <3>2, <3>3, <3>4 DEF LastAt
    <3>6. Value(st, num, default) = st[k].value
      BY <1>2, <3>5, ValueIs
    <3>7. Value(s, num, default) = s[k].value
      BY <3>1, ValueIs
    <3> QED BY <2>1, <3>3, <3>6, <3>7 DEF st
  <2>3. CASE ~Occurs(s, num)
    <3>0. \A i \in 1..m : s[i].num # num
      BY <1>1, <2>3 DEF Occurs
    <3>1. Value(s, num, default) = default
      BY <1>3, <3>0, ValueAbsent
    <3>2. ASSUME NEW j \in 1..(m + n) PROVE st[j].num # num
      <4>1. CASE j \in 1..m
        BY <1>4, <3>0, <4>1
      <4>2. CASE \E i \in 1..n : j = m + i
        BY <1>5, <2>0, <4>2
      <4> QED BY <1>6, <4>1, <4>2
    <3>3. Value(st, num, default) = default
      BY <1>3, <3>2, ValueAbsent
    <3> QED BY <2>1, <3>1, <3>3 DEF st
  <2> QED BY <2>2, <2>3
<1> QED BY <1>7, <1>8

(* No field, and one.                                                      *)
LEMMA ValueOfNone == \A num, default : Value(<<>>, num, default) = default
<1>1. DOMAIN <<>> = {}
  BY EmptySeq, LenProperties
<1> QED BY <1>1, ValueAbsent

(* The value of a field in a single one.                                   *)
LEMMA ValueOfOne ==
    ASSUME NEW x, NEW num, NEW default
    PROVE  Value(<<x>>, num, default) = IF x.num = num THEN x.value ELSE default
<1>1. <<x>> \in Seq({x}) /\ Len(<<x>>) = 1 /\ <<x>>[1] = x /\ DOMAIN <<x>> = 1..1
  OBVIOUS
<1> DEFINE s == <<x>>
<1>2. s \in Seq({x}) /\ Len(s) = 1 /\ s[1] = x /\ DOMAIN s = 1..1
  BY <1>1
<1> HIDE DEF s
<1>3. CASE x.num = num
  <2>1. LastAt(s, num, 1)
    <3>1. 1 \in 1..Len(s) /\ s[1].num = num /\ \A j \in (1 + 1)..Len(s) : s[j].num # num
      BY <1>2, <1>3
    <3> QED BY <3>1 DEF LastAt
  <2>2. Value(s, num, default) = s[1].value
    BY <1>2, <2>1, ValueIs
  <2> QED BY <1>2, <1>3, <2>2 DEF s
<1>4. CASE x.num # num
  <2>1. \A k \in DOMAIN s : s[k].num # num
    <3> TAKE k \in DOMAIN s
    <3>1. k = 1
      BY <1>2
    <3> QED BY <1>2, <1>4, <3>1
  <2>2. Value(s, num, default) = default
    BY <2>1, ValueAbsent
  <2> QED BY <1>4, <2>2 DEF s
<1> QED BY <1>3, <1>4

\* Fields that say nothing of a number.
Silent(fields, num) == \A default : Value(fields, num, default) = default

(* When all the parts are silent of a field but one, it is the one that    *)
(* tells; when all are, none does.                                         *)
LEMMA ValueOfSilentParts ==
    ASSUME NEW S, NEW xs \in Seq(Seq(S)), NEW num, \A k \in 1..Len(xs) : Silent(xs[k], num)
    PROVE  Silent(Flatten(xs), num)
<1>1. /\ Len(xs) \in Nat /\ Flatten(xs) = Rest(xs, 1)
      /\ \A k \in 1..Len(xs) : Rest(xs, k) = xs[k] \o Rest(xs, k + 1)
      /\ Rest(xs, Len(xs) + 1) = <<>>
      /\ \A k \in 1..(Len(xs) + 1) : Rest(xs, k) \in Seq(S)
  BY FlattenOfSeq
<1>2. \A k \in 1..Len(xs) : xs[k] \in Seq(S)
  BY ElementOfSeq
<1> DEFINE n == Len(xs)
           T == {k \in Nat : Silent(Rest(xs, k), num)}
<1>3. n + 1 \in T
  BY <1>1, ValueOfNone DEF Silent
<1>4. ASSUME NEW k \in 1..n, k + 1 \in T PROVE k \in T
  <2>1. k \in Nat /\ k + 1 \in 1..(n + 1)
    BY <1>1
  <2>2. Rest(xs, k + 1) \in Seq(S) /\ xs[k] \in Seq(S) /\ Rest(xs, k) = xs[k] \o Rest(xs, k + 1)
    BY <1>1, <1>2, <2>1
  <2>3. Silent(Rest(xs, k + 1), num) /\ Silent(xs[k], num)
    BY <1>4
  <2>4. \A d : Value(xs[k] \o Rest(xs, k + 1), num, d) = Value(Rest(xs, k + 1), num, Value(xs[k], num, d))
    BY <2>2, ValueConcat
  <2>5. Silent(Rest(xs, k), num)
    BY <2>2, <2>3, <2>4, Zenon DEF Silent
  <2> QED BY <2>1, <2>5
<1>5. \A k \in 1..(n + 1) : k \in T
  <2> HIDE DEF T
  <2> QED BY <1>1, <1>3, <1>4, InductDown
<1>6. 1 \in T
  BY <1>1, <1>5
<1> QED BY <1>1, <1>6

(* When all the parts but one are silent of a field, that one tells.       *)
LEMMA ValueOfParts ==
    ASSUME NEW S, NEW xs \in Seq(Seq(S)), NEW num, NEW at \in 1..Len(xs),
           \A k \in 1..Len(xs) : k # at => Silent(xs[k], num)
    PROVE  \A default : Value(Flatten(xs), num, default) = Value(xs[at], num, default)
<1>1. /\ Len(xs) \in Nat /\ Flatten(xs) = Rest(xs, 1)
      /\ \A k \in 1..Len(xs) : Rest(xs, k) = xs[k] \o Rest(xs, k + 1)
      /\ Rest(xs, Len(xs) + 1) = <<>>
      /\ \A k \in 1..(Len(xs) + 1) : Rest(xs, k) \in Seq(S)
  BY FlattenOfSeq
<1>2. \A k \in 1..Len(xs) : xs[k] \in Seq(S)
  BY ElementOfSeq
<1> DEFINE n == Len(xs)
           Gives(k) == \A d : Value(Rest(xs, k), num, d) = IF k <= at THEN Value(xs[at], num, d) ELSE d
           T == {k \in Nat : Gives(k)}
<1>3. n + 1 \in T
  <2>1. ~(n + 1 <= at) /\ n + 1 \in Nat
    BY <1>1
  <2> QED BY <1>1, <2>1, ValueOfNone
<1>4. ASSUME NEW k \in 1..n, k + 1 \in T PROVE k \in T
  <2>1. k \in Nat /\ k + 1 \in 1..(n + 1)
    BY <1>1
  <2>2. Rest(xs, k + 1) \in Seq(S) /\ xs[k] \in Seq(S) /\ Rest(xs, k) = xs[k] \o Rest(xs, k + 1)
    BY <1>1, <1>2, <2>1
  <2>3. Gives(k + 1)
    BY <1>4
  <2>4. \A d : Value(xs[k] \o Rest(xs, k + 1), num, d) = Value(Rest(xs, k + 1), num, Value(xs[k], num, d))
    BY <2>2, ValueConcat, SMTT(30)
  <2>5. CASE k = at
    <3>1. ~(k + 1 <= at) /\ k <= at
      BY <2>5
    <3>2. Gives(k)
      BY <2>2, <2>3, <2>4, <2>5, <3>1, Zenon
    <3> QED BY <2>1, <3>2
  <2>6. CASE k # at
    <3>1. (k + 1 <= at) <=> (k <= at)
      BY <2>6
    <3>2. Silent(xs[k], num)
      BY <2>6
    <3>3. Gives(k)
      BY <2>2, <2>3, <2>4, <3>1, <3>2, Zenon DEF Silent
    <3> QED BY <2>1, <3>3
  <2> QED BY <2>5, <2>6
<1>5. \A k \in 1..(n + 1) : k \in T
  <2> HIDE DEF T
  <2> QED BY <1>1, <1>3, <1>4, InductDown
<1>6. 1 \in T
  BY <1>1, <1>5
<1>7. Gives(1)
  BY <1>6
<1> QED BY <1>1, <1>7

(* The remainder of a number given as quotient and remainder.              *)
LEMMA RestIs ==
    ASSUME NEW w \in Nat, NEW q \in Nat, NEW r \in Nat, r < w
    PROVE  (q * w + r) % w = r
OBVIOUS

-----------------------------------------------------------------------------
(***************************************************************************)
(* The negative numbers of the live interface.                             *)
(***************************************************************************)
(* The low word of -2, shifted.                                            *)
LEMMA MinusTwoShifted ==
    ASSUME NEW v \in Int, v + 2 = 0
    PROVE  v \div 1 = v /\ \A m \in Nat : m >= 2 => v \div m + 1 = 0 /\ v \div m \in Int
OBVIOUS

(* Its lowest group of seven bits.                                         *)
LEMMA MinusTwoGroups ==
    ASSUME NEW v \in Int, v + 2 = 0
    PROVE  v % 128 = 126
OBVIOUS

(* Every further group.                                                    *)
LEMMA MinusOneGroup ==
    ASSUME NEW v \in Int, v + 1 = 0
    PROVE  v % 128 = 127
OBVIOUS

\* The last of the bytes of a negative number, which have seven bits each.
Ends == (2 * Word) \div 7 + 1

\* The bytes of a negative number.
Negative(v) == [k \in 1..Ends |->
                   IF k <= (2 * Word) \div 7 THEN 128 + ((v \div 2^(7 * (k - 1))) % 128)
                   ELSE 2^((2 * Word) % 7) - 1]

(* A negative number is longer than a word.                                *)
LEMMA EndsBehindWord == Ends \in 5..10 /\ 7 * (Ends - 1) >= Word /\ Ends - 1 = (2 * Word) \div 7
<1>1. PICK w \in 16..32 : w = Word
  BY WordAssumption
<1>2. PICK q \in Nat : q = (2 * w) \div 7 /\ 7 * q <= 2 * w /\ 2 * w < 7 * q + 7
  <2>1. (2 * w) \div 7 \in Nat /\ 7 * ((2 * w) \div 7) <= 2 * w /\ 2 * w < 7 * ((2 * w) \div 7) + 7
    OBVIOUS
  <2> QED BY <2>1
<1>3. Ends = q + 1
  BY <1>1, <1>2 DEF Ends
<1> QED BY <1>1, <1>2, <1>3

(* The groups of -2: its own lowest bit is 0, all the others are 1.        *)
LEMMA NegativeType ==
    ASSUME NEW v \in Int, v + 2 = 0
    PROVE  /\ Negative(v) \in Seq(Byte) /\ Len(Negative(v)) = Ends
           /\ Negative(v)[1] = 254
           /\ \A k \in 2..(Ends - 1) : Negative(v)[k] = 255
           /\ Negative(v)[Ends] < 128
<1>1. PICK e \in 5..10 : e = Ends
  BY EndsBehindWord
<1>2. \A k \in 1..e : k <= (2 * Word) \div 7 <=> k < e
  BY <1>1, EndsBehindWord
<1>3. PICK l \in Byte : l = 2^((2 * Word) % 7) - 1 /\ l < 128
  <2>1. PICK r \in 0..6 : r = (2 * Word) % 7
    BY WordAssumption
  <2>2. 2^r \in Nat /\ 2^r > 0 /\ 2^r <= 2^6
    <3>1. r \in Nat /\ 6 \in Nat /\ r <= 6
      OBVIOUS
    <3>2. 2^r \in Nat
      BY <3>1, Powers
    <3>3. 2^r > 0 /\ 2^r <= 2^6
      BY <3>1, PowersGrow
    <3> QED BY <3>2, <3>3
  <2>3. 2^7 = 128 /\ 2^6 <= 2^7
    <3>1. 6 \in Nat /\ 7 \in Nat /\ 6 <= 7
      OBVIOUS
    <3> QED BY <3>1, SevenBits, PowersGrow
  <2>4. 2^6 \in Nat
    BY Powers
  <2>5. PICK l \in 0..127 : l = 2^r - 1
    BY <2>2, <2>3, <2>4
  <2>6. l \in Byte /\ l < 128
    BY <2>5 DEF Byte
  <2> QED BY <2>1, <2>5, <2>6
<1>4. 128 + ((v \div 2^(7 * (1 - 1))) % 128) = 254
  <2>1. 7 * (1 - 1) = 0
    OBVIOUS
  <2>2. v \div 2^(7 * (1 - 1)) = v
    BY <2>1, Powers, MinusTwoShifted
  <2>3. v % 128 = 126
    BY MinusTwoGroups
  <2> QED BY <2>2, <2>3
<1>5. ASSUME NEW k \in 2..(e - 1) PROVE 128 + ((v \div 2^(7 * (k - 1))) % 128) = 255
  <2>1. PICK n \in Nat : n = 7 * (k - 1) /\ n >= 1
    OBVIOUS
  <2>2. 2^n \in Nat /\ 2^n >= 2
    <3>1. 2^0 = 1 /\ 2^(0 + 1) = 2 * 2^0 /\ 0 + 1 = 1 /\ 0 \in Nat /\ 1 \in Nat
      BY Powers
    <3>2. 2^1 <= 2^n
      BY <2>1, <3>1, PowersGrow
    <3> QED BY <2>1, <3>1, <3>2, Powers
  <2>3. PICK q \in Int : q = v \div 2^n /\ q + 1 = 0
    BY <2>2, MinusTwoShifted
  <2>4. q % 128 = 127
    BY <2>3, MinusOneGroup
  <2>5. v \div 2^(7 * (k - 1)) = q
    BY <2>1, <2>3
  <2>6. (v \div 2^(7 * (k - 1))) % 128 = 127
    BY <2>4, <2>5, Zenon
  <2> QED BY <2>6
<1>6. ASSUME NEW k \in 1..e
      PROVE  Negative(v)[k] = IF k = 1 THEN 254 ELSE IF k < e THEN 255 ELSE l
  <2>1. Negative(v)[k] = IF k <= (2 * Word) \div 7 THEN 128 + ((v \div 2^(7 * (k - 1))) % 128)
                         ELSE 2^((2 * Word) % 7) - 1
    BY <1>1 DEF Negative
  <2>2. CASE k = 1
    <3>1. k <= (2 * Word) \div 7
      BY <1>2, <2>2
    <3> QED BY <1>4, <2>1, <2>2, <3>1
  <2>3. CASE k # 1 /\ k < e
    <3>1. k \in 2..(e - 1) /\ k <= (2 * Word) \div 7
      BY <1>2, <2>3
    <3> QED BY <1>5, <2>1, <2>3, <3>1
  <2>4. CASE k # 1 /\ ~(k < e)
    <3>1. ~(k <= (2 * Word) \div 7)
      BY <1>2, <2>4
    <3> QED BY <1>3, <2>1, <2>4, <3>1
  <2>5. CASE k = 1 /\ ~(k < e)
    BY <2>5
  <2> QED BY <2>2, <2>3, <2>4, <2>5
<1>7. DOMAIN Negative(v) = 1..e
  BY <1>1 DEF Negative
<1>8. \A k \in 1..e : Negative(v)[k] \in Byte
  <2>1. 254 \in Byte /\ 255 \in Byte
    BY DEF Byte
  <2> QED BY <1>3, <1>6, <2>1
<1>9. Negative(v) = [k \in 1..e |-> Negative(v)[k]]
  BY <1>1 DEF Negative
<1> DEFINE s == Negative(v)
<1>10. s \in Seq(Byte) /\ Len(s) = e
  <2>1. s = [k \in 1..e |-> s[k]] /\ \A k \in 1..e : s[k] \in Byte
    BY <1>8, <1>9
  <2> HIDE DEF s
  <2> QED BY <2>1
<1>11. s[1] = 254
  BY <1>6
<1>12. \A k \in 2..(e - 1) : s[k] = 255
  <2> HIDE DEF s
  <2>1. \A k \in 1..e : s[k] = IF k = 1 THEN 254 ELSE IF k < e THEN 255 ELSE l
    BY <1>6 DEF s
  <2> QED BY <2>1
<1>13. s[e] < 128
  <2>1. e \in 1..e /\ e # 1 /\ ~(e < e)
    OBVIOUS
  <2>2. s[e] = l
    BY <1>6, <2>1
  <2> QED BY <1>3, <2>2
<1> QED BY <1>1, <1>10, <1>11, <1>12, <1>13

\* What remains of the bits of a word above the first n groups, all of them set.
Above(n) == IF 7 * n >= Word THEN 0 ELSE 2^Word - 2^(7 * n)

\* What one group with all its bits set has in a word.
Ones(n) == IF 7 * n >= Word THEN 0 ELSE (127 * 2^(7 * n)) % 2^Word

(* One group and those above it.                                           *)
LEMMA OnesAndAbove ==
    ASSUME NEW n \in Nat, n >= 1
    PROVE  Ones(n) + Above(n + 1) = Above(n) /\ Above(n) \in Nat /\ Ones(n) \in Nat
<1>1. PICK w \in 16..32 : w = Word
  BY WordAssumption
<1>2. PICK W \in Nat : W = 2^w
  BY Powers
<1>3. PICK m \in Nat : m = 7 * n
  OBVIOUS
<1>4. PICK a \in Nat : a = 2^m /\ a > 0
  BY Powers, PowersGrow
<1>5. 7 * (n + 1) = m + 7 /\ 2^(m + 7) = 128 * a
  BY <1>3, <1>4, SevenBits
<1>6. Above(n + 1) = IF m + 7 >= w THEN 0 ELSE W - 128 * a
  BY <1>1, <1>2, <1>5 DEF Above
<1>7. Above(n) = IF m >= w THEN 0 ELSE W - a
  BY <1>1, <1>2, <1>3, <1>4 DEF Above
<1>8. Ones(n) = IF m >= w THEN 0 ELSE (127 * a) % W
  BY <1>1, <1>2, <1>3, <1>4 DEF Ones
<1>9. CASE m >= w
  BY <1>6, <1>7, <1>8, <1>9
<1>10. CASE m + 7 < w
  <2>1. 128 * a <= W
    <3>1. m + 7 \in Nat /\ w \in Nat /\ m + 7 <= w
      BY <1>10
    <3>2. 2^(m + 7) <= 2^w
      BY <3>1, PowersGrow
    <3> QED BY <1>2, <1>5, <3>2
  <2>2. (127 * a) % W = 127 * a
    <3>1. 127 * a \in Nat /\ 127 * a < W
      BY <1>4, <2>1
    <3>2. PICK x \in Nat : x = 127 * a /\ x < W
      BY <3>1
    <3>3. (0 * W + x) % W = x
      BY <3>2, RestIs
    <3> QED BY <3>2, <3>3
  <2> QED BY <1>4, <1>6, <1>7, <1>8, <1>10, <2>1, <2>2
<1>11. CASE m < w /\ m + 7 >= w
  <2>1. PICK r \in 1..7 : w = m + r
    <3>1. w - m \in 1..7 /\ w = m + (w - m)
      BY <1>11
    <3> QED BY <3>1
  <2>2. PICK c \in {2, 4, 8, 16, 32, 64, 128} : W = c * a
    <3>1. 2^(m + 1) = 2 * a /\ 2^(m + 2) = 4 * a /\ 2^(m + 3) = 8 * a /\ 2^(m + 4) = 16 * a
      <4>1. /\ m + 1 \in Nat /\ m + 2 \in Nat /\ m + 3 \in Nat
            /\ m + 2 = (m + 1) + 1 /\ m + 3 = (m + 2) + 1 /\ m + 4 = (m + 3) + 1
        OBVIOUS
      <4>2. 2^(m + 1) = 2 * a
        BY <1>4, Powers
      <4>3. 2^(m + 2) = 4 * a
        BY <4>1, <4>2, Powers
      <4>4. 2^(m + 3) = 8 * a
        BY <4>1, <4>3, Powers
      <4>5. 2^(m + 4) = 16 * a
        BY <4>1, <4>4, Powers
      <4> QED BY <4>2, <4>3, <4>4, <4>5
    <3>2. 2^(m + 5) = 32 * a /\ 2^(m + 6) = 64 * a
      <4>1. m + 4 \in Nat /\ m + 5 \in Nat /\ m + 5 = (m + 4) + 1 /\ m + 6 = (m + 5) + 1
        OBVIOUS
      <4>2. 2^(m + 5) = 32 * a
        BY <3>1, <4>1, Powers
      <4>3. 2^(m + 6) = 64 * a
        BY <4>1, <4>2, Powers
      <4> QED BY <4>2, <4>3
    <3>3. r = 1 \/ r = 2 \/ r = 3 \/ r = 4 \/ r = 5 \/ r = 6 \/ r = 7
      OBVIOUS
    <3>4. W = 2^(m + r)
      BY <1>2, <2>1
    <3> HIDE DEF Above
    <3> QED BY <1>5, <3>1, <3>2, <3>3, <3>4
  <2>3. (127 * a) % W = (c - 1) * a
    <3>1. PICK q \in {63, 31, 15, 7, 3, 1, 0} : 127 = q * c + (c - 1)
      OBVIOUS
    <3>2. PICK x \in Nat : x = (c - 1) * a /\ x < W
      <4>1. c = 2 \/ c = 4 \/ c = 8 \/ c = 16 \/ c = 32 \/ c = 64 \/ c = 128
        OBVIOUS
      <4>2. (c - 1) * a \in Nat /\ (c - 1) * a < W
        BY <1>4, <2>2, <4>1
      <4> QED BY <4>2
    <3>3. 127 * a = q * W + x
      <4>1. c = 2 \/ c = 4 \/ c = 8 \/ c = 16 \/ c = 32 \/ c = 64 \/ c = 128
        OBVIOUS
      <4>2. q = 63 \/ q = 31 \/ q = 15 \/ q = 7 \/ q = 3 \/ q = 1 \/ q = 0
        OBVIOUS
      <4> QED BY <2>2, <3>1, <3>2, <4>1, <4>2
    <3>4. (q * W + x) % W = x
      BY <3>2, RestIs
    <3> QED BY <3>2, <3>3, <3>4
  <2>4. (c - 1) * a = W - a
    BY <2>2
  <2>5. W - a \in Nat
    <3>1. c >= 1
      OBVIOUS
    <3> QED BY <2>2, <2>4, <3>1
  <2> QED BY <1>6, <1>7, <1>8, <1>11, <2>3, <2>4, <2>5
<1> QED BY <1>1, <1>3, <1>9, <1>10, <1>11

(* The groups of -2 above the first add up to all the bits above it.       *)
LEMMA TotalOfOnes ==
    ASSUME NEW a \in Nat, NEW n \in Nat, 7 * n >= Word, NEW terms, DOMAIN terms = a..(a + n),
           \A k \in 1..n : terms[a + k] = Ones(k)
    PROVE  \A k \in 1..(n + 1) : Total(terms, a + k) = Above(k)
<1>1. PICK b \in Nat : b = a + n
  OBVIOUS
<1>2. \A i \in a..b : Total(terms, i) = terms[i] + Total(terms, i + 1)
  BY <1>1, TotalUnfolds
<1>3. Total(terms, b + 1) = 0
  BY <1>1, TotalUnfolds
<1> DEFINE T == {k \in Nat : Total(terms, a + k) = Above(k)}
<1>4. n + 1 \in T
  <2>1. 7 * (n + 1) >= Word /\ a + (n + 1) = b + 1
    BY <1>1, WordAssumption
  <2>2. Above(n + 1) = 0
    BY <2>1 DEF Above
  <2>3. Total(terms, a + (n + 1)) = 0
    BY <1>3, <2>1
  <2> QED BY <2>2, <2>3
<1>5. ASSUME NEW k \in 1..n, k + 1 \in T PROVE k \in T
  <2>1. PICK i \in a..b : i = a + k /\ i + 1 = a + (k + 1)
    BY <1>1
  <2>2. Total(terms, i) = terms[i] + Total(terms, i + 1)
    BY <1>2
  <2>3. terms[i] = Ones(k)
    BY <2>1
  <2>4. Total(terms, i + 1) = Above(k + 1)
    BY <1>5, <2>1
  <2>5. Ones(k) + Above(k + 1) = Above(k)
    BY OnesAndAbove
  <2>6. Total(terms, a + k) = Above(k)
    BY <2>1, <2>2, <2>3, <2>4, <2>5, Zenon
  <2> QED BY <2>6
<1>6. \A k \in 1..(n + 1) : k \in T
  <2> HIDE DEF T
  <2> QED BY <1>4, <1>5, InductDown
<1> QED BY <1>6

(* The low word of -2 is two less than all the numbers of a word.          *)
LEMMA LowReadsNegative ==
    ASSUME NEW p \in Seq(Byte), NEW i, NEW v \in Int, v + 2 = 0, Has(p, i, Negative(v))
    PROVE  VarintLow(p, i) = ReadAs(2^Word - 2, i + Ends)
<1> DEFINE s == Negative(v)
<1>1. /\ s \in Seq(Byte) /\ Len(s) = Ends /\ s[1] = 254
      /\ \A k \in 2..(Ends - 1) : s[k] = 255
      /\ s[Ends] < 128
  BY NegativeType
<1>2. PICK n \in 4..9 : n = Ends - 1 /\ Ends = n + 1 /\ 7 * n >= Word
  BY EndsBehindWord
<1>3. Has(p, i, s)
  OBVIOUS
<1> HIDE DEF s
<1>4. PICK a \in Nat : a = i /\ a > 0
  BY <1>3 DEF Has
<1>5. LastGroup(p, i) = a + n
  <2>1. Len(s) >= 1
    BY <1>1, <1>2
  <2>2. ASSUME NEW k \in 1..Len(s) PROVE s[k] < 128 <=> k = Len(s)
    <3>1. k = 1 \/ k \in 2..(Ends - 1) \/ k = Ends
      BY <1>1, <1>2
    <3>2. 1 # Ends
      BY <1>2
    <3> QED BY <1>1, <1>2, <3>1, <3>2
  <2>3. LastGroup(p, i) = i + Len(s) - 1
    BY <1>1, <1>3, <2>1, <2>2, LastGroupIs
  <2> QED BY <1>1, <1>2, <1>4, <2>3
<1> DEFINE terms == [k \in i..LastGroup(p, i) |->
                        IF 7 * (k - i) >= Word THEN 0
                        ELSE ((ByteAt(p, k) % 128) * 2^(7 * (k - i))) % 2^Word]
<1>6. VarintLow(p, i) = [value |-> Total(terms, i) % 2^Word, next |-> LastGroup(p, i) + 1]
  BY DEF VarintLow
<1>7. DOMAIN terms = a..(a + n)
  BY <1>4, <1>5
<1>8. \A j \in a..(a + n) : terms[j] = IF 7 * (j - a) >= Word THEN 0
                                       ELSE ((ByteAt(p, j) % 128) * 2^(7 * (j - a))) % 2^Word
  BY <1>4, <1>5
<1> HIDE DEF terms
<1>9. ASSUME NEW k \in 1..n PROVE terms[a + k] = Ones(k)
  <2>1. PICK j \in a..(a + n) : j = a + k /\ j - a = k
    OBVIOUS
  <2>2. CASE 7 * k >= Word
    BY <1>8, <2>1, <2>2 DEF Ones
  <2>3. CASE ~(7 * k >= Word)
    <3>1. k < n
      BY <1>2, <2>3
    <3>2. PICK l \in 2..(Ends - 1) : l = k + 1
      BY <1>2, <3>1
    <3>3. l \in 1..Len(s) /\ a + l - 1 = j
      BY <1>1, <1>2, <2>1, <3>2
    <3>4. ByteAt(p, j) = 255
      BY <1>1, <1>3, <1>4, <3>3, HasByteAt
    <3>5. 255 % 128 = 127
      OBVIOUS
    <3>6. terms[j] = ((ByteAt(p, j) % 128) * 2^(7 * k)) % 2^Word
      BY <1>8, <2>1, <2>3
    <3>7. terms[j] = (127 * 2^(7 * k)) % 2^Word
      BY <3>4, <3>5, <3>6, Zenon
    <3> QED BY <2>1, <2>3, <3>7 DEF Ones
  <2> QED BY <2>2, <2>3
<1>10. terms[a] = 126
  <2>1. a \in a..(a + n) /\ 7 * (a - a) = 0 /\ ~(0 >= Word)
    BY WordAssumption
  <2>2. ByteAt(p, a) = 254
    <3>1. 1 \in 1..Len(s) /\ a + 1 - 1 = a
      BY <1>1, <1>2
    <3> QED BY <1>1, <1>3, <1>4, <3>1, HasByteAt
  <2>3. terms[a] = ((254 % 128) * 2^0) % 2^Word
    <3> DEFINE Term(x, e) == IF e >= Word THEN 0 ELSE ((x % 128) * 2^e) % 2^Word
    <3>1. terms[a] = Term(ByteAt(p, a), 7 * (a - a))
      BY <1>8, <2>1
    <3>2. Term(254, 0) = ((254 % 128) * 2^0) % 2^Word
      BY <2>1
    <3> HIDE DEF Term
    <3> QED BY <2>1, <2>2, <3>1, <3>2
  <2>4. (254 % 128) * 2^0 = 126
    BY Powers
  <2>5. 126 % 2^Word = 126
    <3>1. PICK W \in Nat : W = 2^Word /\ W > 126
      BY WordHolds
    <3>2. (0 * W + 126) % W = 126
      BY <3>1, RestIs
    <3> QED BY <3>1, <3>2
  <2> QED BY <2>3, <2>4, <2>5
<1>11. Total(terms, a + 1) = 2^Word - 128
  <2>1. n \in Nat /\ 1 \in 1..(n + 1)
    OBVIOUS
  <2>2. Total(terms, a + 1) = Above(1)
    BY <1>2, <1>7, <1>9, <2>1, TotalOfOnes, ZenonT(60)
  <2>3. Above(1) = 2^Word - 2^7
    <3>1. 7 * 1 = 7 /\ ~(7 >= Word)
      BY WordAssumption
    <3> QED BY <3>1 DEF Above
  <2>4. 2^7 = 128
    BY SevenBits
  <2> QED BY <2>2, <2>3, <2>4
<1>12. Total(terms, a) = terms[a] + Total(terms, a + 1)
  <2>1. a + n \in Nat /\ a \in a..(a + n)
    OBVIOUS
  <2> QED BY <1>7, <2>1, TotalUnfolds
<1>13. PICK W \in Nat : W = 2^Word /\ W > 128
  BY WordHolds
<1>14. Total(terms, a) % 2^Word = W - 2
  <2>1. PICK x \in Nat : x = W - 2 /\ x < W
    BY <1>13
  <2>2. Total(terms, a) = x
    BY <1>10, <1>11, <1>12, <1>13, <2>1
  <2>3. (0 * W + x) % W = x
    BY <2>1, RestIs
  <2> QED BY <1>13, <2>1, <2>2, <2>3
<1>15. LastGroup(p, i) + 1 = i + Ends
  BY <1>2, <1>4, <1>5
<1> QED BY <1>4, <1>6, <1>13, <1>14, <1>15 DEF ReadAs

-----------------------------------------------------------------------------
(***************************************************************************)
(* The fields of the live interface, and those it does not know.           *)
(***************************************************************************)
\* A field of the live interface as it is found.
LiveFound(num, wireType, v) == [num |-> num, wireType |-> wireType, value |-> v]

\* What the low word of a number is.
LowWord(v) == IF v >= 0 THEN v ELSE 2^Word - 2

(* Where a tag stands, the loop of the live interface reads its field.     *)
LEMMA LiveTagged ==
    ASSUME NEW p \in Seq(Byte), NEW i, NEW tag \in Nat, tag < 2^Word, tag % 8 \in {0, 1, 2, 5},
           NEW s \in Seq(Byte), Has(p, i, Varint(tag) \o s)
    PROVE  /\ LiveFieldAt(p, i) = LiveField(ReadAs(tag, i + Long(tag)), VarintLow(p, i + Long(tag)))
           /\ Has(p, i + Long(tag), s) /\ i \in Nat /\ Long(tag) \in Nat
           /\ Len(Varint(tag) \o s) = Long(tag) + Len(s)
<1>1. Varint(tag) \in Seq(Byte) /\ Long(tag) \in Nat
  BY VarintType
<1>2. /\ Has(p, i, Varint(tag)) /\ Has(p, i + Len(Varint(tag)), s)
      /\ Len(Varint(tag) \o s) = Len(Varint(tag)) + Len(s)
  BY <1>1, HasParts
<1>3. VarintLow(p, i) = ReadAs(tag, i + Long(tag))
  BY <1>2, LowReadsVarint
<1>4. VarintLow(p, i).value = tag /\ VarintLow(p, i).next = i + Long(tag)
  BY <1>3 DEF ReadAs
<1>5. LiveFieldAt(p, i) = LiveField(VarintLow(p, i), VarintLow(p, VarintLow(p, i).next))
  BY <1>4, Zenon DEF LiveFieldAt
<1>6. i \in Nat
  BY <1>2 DEF Has
<1> QED BY <1>1, <1>2, <1>3, <1>4, <1>5, <1>6 DEF Long

(* What the loop finds at a position, given what it reads there.           *)
LEMMA LiveYieldsOne ==
    ASSUME NEW p \in Seq(Byte), NEW tag \in Nat, tag < 2^Word, tag % 8 \in {0, 1, 2, 5},
           NEW s \in Seq(Byte), NEW x,
           \A j \in Nat : Has(p, j + Long(tag), s) =>
               LiveField(ReadAs(tag, j + Long(tag)), VarintLow(p, j + Long(tag)))
                   = Finds(x, j + (Long(tag) + Len(s)))
    PROVE  Yields(LiveIn(p), p, Varint(tag) \o s, <<x>>)
<1> DEFINE t == Varint(tag) \o s
           read == LiveIn(p)
<1>1. Varint(tag) \in Seq(Byte) /\ Long(tag) \in Nat /\ Long(tag) >= 1
  BY VarintType
<1>2. t \in Seq(Byte) /\ Len(t) = Long(tag) + Len(s) /\ Len(s) \in Nat
  <2>1. Len(s) \in Nat
    BY LenProperties
  <2> DEFINE v == Varint(tag)
  <2>2. v \in Seq(Byte) /\ Len(v) = Long(tag)
    BY <1>1 DEF Long
  <2> HIDE DEF v
  <2>3. v \o s \in Seq(Byte) /\ Len(v \o s) = Len(v) + Len(s)
    BY <2>2, ConcatProperties
  <2> QED BY <2>1, <2>2, <2>3 DEF v
<1>3. LoopOver(read, p, LiveSet)
  BY FieldLoops
<1>4. ASSUME NEW i, Has(p, i, t) PROVE read[i] = Finds(x, i + Len(t))
  <2>1. /\ LiveFieldAt(p, i) = LiveField(ReadAs(tag, i + Long(tag)), VarintLow(p, i + Long(tag)))
        /\ Has(p, i + Long(tag), s) /\ i \in Nat
    BY <1>4, LiveTagged
  <2>2. i \in 1..Len(p)
    <3>1. Len(p) \in Nat
      BY LenProperties
    <3>2. i > 0 /\ i + Len(t) <= Len(p) + 1
      BY <1>4 DEF Has
    <3> HIDE DEF t
    <3> QED BY <1>1, <1>2, <2>1, <3>1, <3>2
  <2>3. read[i] = LiveFieldAt(p, i)
    BY <2>2 DEF LiveIn
  <2>4. LiveFieldAt(p, i) = Finds(x, i + (Long(tag) + Len(s)))
    BY <2>1
  <2> HIDE DEF t, read
  <2> QED BY <1>2, <2>3, <2>4
<1>5. Len(t) > 0
  BY <1>1, <1>2
<1> HIDE DEF t, read
<1>6. Yields(read, p, t, <<x>>)
  BY <1>2, <1>3, <1>4, <1>5, YieldsOne
<1> QED BY <1>6 DEF t, read

\* Fields that LiveOccurrences keeps.
Wired == {x \in LiveSet : x.wireType # 2}

(* A field is of its kind.                                                 *)
LEMMA LiveFoundType ==
    ASSUME NEW num \in Nat, NEW wireType \in Nat, NEW v \in Nat
    PROVE  /\ LiveFound(num, wireType, v) \in LiveSet
           /\ LiveFound(num, wireType, v).num = num
           /\ LiveFound(num, wireType, v).value = v
           /\ wireType # 2 => LiveFound(num, wireType, v) \in Wired
           /\ wireType = 2 => LiveFound(num, wireType, v) \notin Wired
BY DEF LiveFound, LiveSet, Wired

\* The bytes yield nothing that a field of the tool is read from.
Unheard(p, s) ==
    \E xs \in Seq(LiveSet) : /\ Yields(LiveIn(p), p, s, xs)
                             /\ \A f \in LiveFields : Silent(Kept(xs, Wired), f)

(* A field of another number is not heard.                                 *)
LEMMA StrangerIsUnheard ==
    ASSUME NEW p \in Seq(Byte), NEW s, NEW num \in Nat, num \notin LiveFields, NEW wireType \in Nat, NEW v \in Nat,
           Yields(LiveIn(p), p, s, <<LiveFound(num, wireType, v)>>)
    PROVE  Unheard(p, s)
<1> DEFINE x == LiveFound(num, wireType, v)
<1>1. x \in LiveSet /\ x.num = num
  BY LiveFoundType
<1> HIDE DEF x
<1>2. Kept(<<x>>, Wired) = IF x \in Wired THEN <<x>> ELSE <<>>
  BY <1>1, KeptOfOne
<1>3. \A f \in LiveFields : Silent(<<x>>, f) /\ Silent(<<>>, f)
  <2> TAKE f \in LiveFields
  <2>1. Silent(<<x>>, f)
    <3>1. x.num # f
      BY <1>1
    <3>2. ASSUME NEW d PROVE Value(<<x>>, f, d) = d
      BY <3>1, ValueOfOne
    <3> QED BY <3>2 DEF Silent
  <2>2. Silent(<<>>, f)
    BY ValueOfNone DEF Silent
  <2> QED BY <2>1, <2>2
<1>4. \A f \in LiveFields : Silent(Kept(<<x>>, Wired), f)
  BY <1>2, <1>3
<1>5. <<x>> \in Seq(LiveSet)
  BY <1>1
<1>6. Yields(LiveIn(p), p, s, <<x>>)
  BY DEF x
<1> QED BY <1>4, <1>5, <1>6 DEF Unheard

(* The strangers, byte by byte.                                            *)
LEMMA StrangerBytes ==
    /\ Varint(24) = << 24 >> /\ Varint(25) = << 25 >> /\ Varint(37) = << 37 >> /\ Varint(2) = << 2 >>
    /\ Varint(200) = <<200, 1>> /\ Varint(242) = <<242, 1>>
<1>1. Varint(24) = <<24>> /\ Varint(25) = <<25>> /\ Varint(37) = <<37>> /\ Varint(2) = <<2>> /\ Varint(1) = <<1>>
  <2>1. \A n \in Nat : n < 128 => Varint(n) = <<n>>
    BY VarintHead
  <2> QED BY <2>1
<1>2. ASSUME NEW n \in {200, 242} PROVE Varint(n) = <<n, 1>>
  <2>1. n \in Nat /\ n >= 128 /\ n \div 128 = 1 /\ 128 + (n % 128) = n
    OBVIOUS
  <2>2. Varint(n) = <<128 + (n % 128)>> \o Varint(n \div 128)
    BY <2>1, VarintHead
  <2>3. Varint(n) = <<n>> \o <<1>>
    BY <1>1, <2>1, <2>2, Zenon
  <2>4. n \in Byte /\ 1 \in Byte
    BY DEF Byte
  <2> QED BY <2>3, <2>4, TwoBytes
<1> QED BY <1>1, <1>2

(* And cut behind their tags.                                              *)
LEMMA StrangerParts ==
    /\ <<24, 200, 1>> = << 24 >> \o <<200, 1>>
    /\ <<25, 8, 1, 8, 1, 8, 1, 8, 1>> = << 25 >> \o <<8, 1, 8, 1, 8, 1, 8, 1>>
    /\ <<242, 1, 2, 8, 1>> = <<242, 1>> \o <<2, 8, 1>>
    /\ <<2, 8, 1>> = << 2 >> \o <<8, 1>>
    /\ <<37, 8, 1, 8, 1>> = << 37 >> \o <<8, 1, 8, 1>>
OBVIOUS

\* A value of a field that the bike may tell.
Tellable(f, v) ==
    \/ v \in Nat /\ v < 2^Word /\ (f = Cadence => 2 * v < 2^Word) /\ (f \in LiveFlags => v \in {0, 1})
    \/ v \in Int /\ v + 2 = 0 /\ f = Cadence

-----------------------------------------------------------------------------
(***************************************************************************)
(* Sizes.                                                                  *)
(***************************************************************************)
\* The sequences of up to n bytes.
Small(n) == {s \in Seq(Byte) : Len(s) <= n}

(* What it is to be small.                                                 *)
LEMMA SmallIs ==
    ASSUME NEW n \in Nat, NEW s \in Small(n)
    PROVE  s \in Seq(Byte) /\ Len(s) \in Nat /\ Len(s) <= n
BY LenProperties DEF Small

(* A sequence is small for every larger bound.                             *)
LEMMA SmallGrows ==
    ASSUME NEW n \in Nat, NEW m \in Nat, n <= m
    PROVE  Small(n) \subseteq Small(m)
<1> SUFFICES ASSUME NEW s \in Small(n) PROVE s \in Small(m)
  OBVIOUS
<1>1. s \in Seq(Byte) /\ Len(s) \in Nat /\ Len(s) <= n
  BY SmallIs
<1>2. Len(s) <= m
  BY <1>1
<1> QED BY <1>1, <1>2 DEF Small

(* The bounds of two sequences add up.                                     *)
LEMMA SmallConcat ==
    ASSUME NEW n \in Nat, NEW m \in Nat, NEW s \in Small(n), NEW t \in Small(m)
    PROVE  s \o t \in Small(n + m)
<1>1. s \in Seq(Byte) /\ Len(s) \in Nat /\ Len(s) <= n
  BY SmallIs
<1>2. t \in Seq(Byte) /\ Len(t) \in Nat /\ Len(t) <= m
  BY SmallIs
<1>3. s \o t \in Seq(Byte) /\ Len(s \o t) = Len(s) + Len(t)
  BY <1>1, <1>2, ConcatProperties
<1>4. Len(s \o t) <= n + m
  BY <1>1, <1>2, <1>3
<1> QED BY <1>3, <1>4 DEF Small

(* One factor more.                                                        *)
LEMMA OneMore == \A m \in Nat, n \in Nat : (m + 1) * n = m * n + n /\ m * n \in Nat
OBVIOUS

(* The parts of a sequence add up.                                         *)
LEMMA SmallFlatten ==
    ASSUME NEW c \in Nat, NEW n \in Nat, NEW parts, DOMAIN parts = 1..n, \A k \in 1..n : parts[k] \in Small(c)
    PROVE  Flatten(parts) \in Small(n * c) /\ Flatten(parts) \in Seq(Byte)
<1> DEFINE T == {k \in 1..(n + 1) : Rest(parts, k) \in Small((n + 1 - k) * c)}
<1>1. \A k \in 1..n : parts[k] \in Seq(Byte)
  BY SmallIs
<1>2. /\ Flatten(parts) = Rest(parts, 1)
      /\ \A k \in 1..n : Rest(parts, k) = parts[k] \o Rest(parts, k + 1)
      /\ Rest(parts, n + 1) = <<>>
      /\ \A k \in Nat : Rest(parts, k) \in Seq(Byte)
  BY <1>1, FlattenUnfolds
<1>3. n + 1 \in T
  <2>1. <<>> \in Seq(Byte) /\ Len(<<>>) = 0
    BY EmptySeq
  <2>2. (n + 1 - (n + 1)) * c = 0
    OBVIOUS
  <2>3. <<>> \in Small(0)
    BY <2>1 DEF Small
  <2> QED BY <1>2, <2>2, <2>3
<1>4. ASSUME NEW k \in 1..n, k + 1 \in T PROVE k \in T
  <2>1. PICK m \in Nat : m = n + 1 - (k + 1)
    OBVIOUS
  <2>2. n + 1 - k = m + 1
    BY <2>1
  <2>3. (m + 1) * c = m * c + c /\ m * c \in Nat
    BY OneMore
  <2>4. Rest(parts, k + 1) \in Small(m * c)
    BY <1>4, <2>1
  <2>5. parts[k] \o Rest(parts, k + 1) \in Small(c + m * c)
    BY <2>3, <2>4, SmallConcat
  <2>6. c + m * c = (n + 1 - k) * c
    BY <2>2, <2>3
  <2>7. k \in 1..(n + 1)
    OBVIOUS
  <2>9. Rest(parts, k) = parts[k] \o Rest(parts, k + 1)
    BY <1>2, Zenon
  <2>8. Rest(parts, k) \in Small((n + 1 - k) * c)
    BY <2>5, <2>6, <2>9, Zenon
  <2> QED BY <2>7, <2>8, Zenon
<1>5. \A k \in 1..(n + 1) : k \in T
  <2> HIDE DEF T
  <2> QED BY <1>3, <1>4, InductDown
<1>6. 1 \in T
  BY <1>5
<1>7. Rest(parts, 1) \in Small((n + 1 - 1) * c)
  BY <1>6
<1>8. n + 1 - 1 = n
  OBVIOUS
<1> QED BY <1>2, <1>7, <1>8

(* Some bytes, and nothing.                                                *)
LEMMA SmallBytes ==
    /\ <<>> \in Small(0)
    /\ \A a \in Byte : <<a>> \in Small(1)
    /\ \A a, b \in Byte : <<a, b>> \in Small(2)
    /\ \A a, b, c \in Byte : <<a, b, c>> \in Small(3)
    /\ \A a, b, c, d, e \in Byte : <<a, b, c, d, e>> \in Small(5)
BY DEF Small

(* A number of the bike takes five bytes at most, a field of it six.       *)
LEMMA SmallNumber ==
    ASSUME NEW num \in 1..15, NEW n \in 0..(2^Word - 1)
    PROVE  Varint(n) \in Small(5) /\ Number(num, n) \in Small(6) /\ Implicit(num, n) \in Small(6)
<1>1. n \in Nat /\ n < 2^Word
  BY WordHolds
<1>2. Long(n) \in 1..5
  BY <1>1, VarintShort
<1>3. Varint(n) \in Seq(Byte) /\ Len(Varint(n)) = Long(n)
  BY <1>1, VarintType DEF Long
<1>4. Varint(n) \in Small(5)
  BY <1>2, <1>3 DEF Small
<1>5. Number(num, n) \in Seq(Byte) /\ Len(Number(num, n)) = Long(n) + 1
  BY <1>1, NumberType
<1>6. Number(num, n) \in Small(6)
  <2>1. Len(Number(num, n)) <= 6
    BY <1>2, <1>5
  <2> QED BY <1>5, <2>1 DEF Small
<1>7. <<>> \in Small(6)
  BY SmallBytes, SmallGrows
<1> QED BY <1>4, <1>6, <1>7 DEF Implicit

(* Bytes behind a tag and a length.                                        *)
LEMMA SmallBytesOf ==
    ASSUME NEW num \in 1..15, NEW n \in Nat, n < 256, NEW s \in Small(n)
    PROVE  Bytes(num, s) \in Small(n + 2) /\ Present(num, s) \in Small(n + 2)
<1>1. s \in Seq(Byte) /\ Len(s) \in Nat /\ Len(s) <= n
  BY SmallIs
<1>2. Len(s) \in Byte
  <2>1. PICK m \in Nat : m = Len(s)
    BY <1>1
  <2>3. m <= n
    BY <1>1, <2>1, Zenon
  <2>2. m \in 0..255
    BY <2>3
  <2> QED BY <2>1, <2>2 DEF Byte
<1>3. <<8 * num + 2, Len(s)>> \in Small(2)
  <2>1. 8 * num + 2 \in Byte
    BY DEF Byte
  <2> QED BY <1>2, <2>1, SmallBytes
<1>4. Bytes(num, s) \in Small(2 + n)
  BY <1>3, SmallConcat DEF Bytes
<1>5. 2 + n = n + 2
  OBVIOUS
<1>6. <<>> \in Small(n + 2)
  BY SmallBytes, SmallGrows
<1> QED BY <1>4, <1>5, <1>6 DEF Present

-----------------------------------------------------------------------------
(***************************************************************************)
(* Maps over sequences, and what is kept of a sequence.                    *)
(***************************************************************************)
(***************************************************************************)
(* Sequences made element by element.                                      *)
(***************************************************************************)
Each(f, s) == [k \in DOMAIN s |-> f[s[k]]]

Maps(f, S, T) == \A x \in S : f[x] \in T

(* As many elements, each from its own.                                    *)
LEMMA EachType ==
    ASSUME NEW S, NEW T, NEW f, Maps(f, S, T), NEW s \in Seq(S)
    PROVE  /\ Each(f, s) \in Seq(T) /\ Len(Each(f, s)) = Len(s) /\ Len(s) \in Nat
           /\ \A k \in 1..Len(s) : Each(f, s)[k] = f[s[k]] /\ s[k] \in S
<1> DEFINE e == Each(f, s)
           n == Len(s)
<1>1. n \in Nat /\ DOMAIN s = 1..n /\ \A k \in 1..n : s[k] \in S
  BY LenProperties, ElementOfSeq
<1>2. e = [k \in 1..n |-> f[s[k]]]
  BY <1>1 DEF Each
<1>3. \A k \in 1..n : f[s[k]] \in T
  BY <1>1 DEF Maps
<1> HIDE DEF n, e
<1>4. e \in [1..n -> T] /\ \A k \in 1..n : e[k] = f[s[k]]
  BY <1>2, <1>3
<1>5. e \in Seq(T) /\ Len(e) = n
  <2>1. DOMAIN e = 1..n
    BY <1>4
  <2> QED BY <1>1, <1>4, <2>1, LenProperties, IsASeq
<1> QED BY <1>1, <1>4, <1>5 DEF e, n

(* Nothing is made from nothing.                                           *)
LEMMA EachOfNone ==
    ASSUME NEW S, NEW T, NEW f, Maps(f, S, T)
    PROVE  Each(f, <<>>) = <<>>
<1>1. PICK u \in Seq(S) : u = <<>> /\ Len(u) = 0
  BY EmptySeq
<1>2. Each(f, u) \in Seq(T) /\ Len(Each(f, u)) = Len(u)
  BY EachType
<1>3. Each(f, u) = <<>>
  BY <1>1, <1>2, EmptySeq
<1> QED BY <1>1, <1>3

(* One from one.                                                           *)
LEMMA EachOfOne ==
    ASSUME NEW S, NEW T, NEW f, Maps(f, S, T), NEW x \in S
    PROVE  Each(f, <<x>>) = <<f[x]>>
<1>0. \A y, U : y \in U => <<y>> \in Seq(U) /\ Len(<<y>>) = 1 /\ <<y>>[1] = y
  OBVIOUS
<1>1. PICK u \in Seq(S) : u = <<x>> /\ Len(u) = 1 /\ u[1] = x
  BY <1>0, Zenon
<1>2. PICK v \in Seq(T) : v = <<f[x]>> /\ Len(v) = 1 /\ v[1] = f[x]
  BY <1>0, Zenon DEF Maps
<1>3. /\ Each(f, u) \in Seq(T) /\ Len(Each(f, u)) = Len(u)
      /\ \A k \in 1..Len(u) : Each(f, u)[k] = f[u[k]]
  BY EachType
<1>4. \A k \in 1..Len(Each(f, u)) : Each(f, u)[k] = v[k]
  BY <1>1, <1>2, <1>3
<1>5. Len(Each(f, u)) = Len(v)
  BY <1>1, <1>2, <1>3
<1>6. Each(f, u) = v
  BY <1>3, <1>4, <1>5, SeqEqual
<1> QED BY <1>1, <1>2, <1>6

(* One after the other.                                                    *)
LEMMA EachConcat ==
    ASSUME NEW S, NEW T, NEW f, Maps(f, S, T), NEW s \in Seq(S), NEW t \in Seq(S)
    PROVE  Each(f, s \o t) = Each(f, s) \o Each(f, t)
<1>1. s \o t \in Seq(S) /\ Len(s \o t) = Len(s) + Len(t)
  BY ConcatProperties
<1>2. \A i \in 1..(Len(s) + Len(t)) : (s \o t)[i] = IF i <= Len(s) THEN s[i] ELSE t[i - Len(s)]
  BY ConcatProperties
<1>3. /\ Each(f, s) \in Seq(T) /\ Len(Each(f, s)) = Len(s) /\ Len(s) \in Nat
      /\ \A k \in 1..Len(s) : Each(f, s)[k] = f[s[k]]
  BY EachType
<1>4. /\ Each(f, t) \in Seq(T) /\ Len(Each(f, t)) = Len(t) /\ Len(t) \in Nat
      /\ \A k \in 1..Len(t) : Each(f, t)[k] = f[t[k]]
  BY EachType
<1>5. /\ Each(f, s \o t) \in Seq(T) /\ Len(Each(f, s \o t)) = Len(s) + Len(t)
      /\ \A k \in 1..(Len(s) + Len(t)) : Each(f, s \o t)[k] = f[(s \o t)[k]]
  <2>1. PICK u \in Seq(S) : u = s \o t
    BY <1>1
  <2>2. /\ Each(f, u) \in Seq(T) /\ Len(Each(f, u)) = Len(u)
        /\ \A k \in 1..Len(u) : Each(f, u)[k] = f[u[k]]
    BY EachType
  <2> QED BY <1>1, <2>1, <2>2
<1>6. Each(f, s) \o Each(f, t) \in Seq(T) /\ Len(Each(f, s) \o Each(f, t)) = Len(s) + Len(t)
  <2>1. /\ Each(f, s) \o Each(f, t) \in Seq(T)
        /\ Len(Each(f, s) \o Each(f, t)) = Len(Each(f, s)) + Len(Each(f, t))
    BY <1>3, <1>4, ConcatProperties
  <2> QED BY <1>3, <1>4, <2>1
<1>7. \A i \in 1..(Len(s) + Len(t)) : (Each(f, s) \o Each(f, t))[i]
          = IF i <= Len(s) THEN Each(f, s)[i] ELSE Each(f, t)[i - Len(s)]
  <2>1. \A i \in 1..(Len(Each(f, s)) + Len(Each(f, t))) : (Each(f, s) \o Each(f, t))[i]
            = IF i <= Len(Each(f, s)) THEN Each(f, s)[i] ELSE Each(f, t)[i - Len(Each(f, s))]
    BY <1>3, <1>4, ConcatProperties
  <2> QED BY <1>3, <1>4, <2>1
<1>8. ASSUME NEW i \in 1..(Len(s) + Len(t))
      PROVE  Each(f, s \o t)[i] = (Each(f, s) \o Each(f, t))[i]
  <2>1. CASE i <= Len(s)
    <3>1. i \in 1..Len(s)
      BY <1>3, <2>1
    <3>2. Each(f, s \o t)[i] = f[s[i]]
      BY <1>2, <1>5, <2>1
    <3>3. (Each(f, s) \o Each(f, t))[i] = Each(f, s)[i]
      BY <1>7, <2>1
    <3> QED BY <1>3, <3>1, <3>2, <3>3
  <2>2. CASE ~(i <= Len(s))
    <3>1. i - Len(s) \in 1..Len(t)
      BY <1>3, <1>4, <2>2
    <3>2. Each(f, s \o t)[i] = f[t[i - Len(s)]]
      BY <1>2, <1>5, <2>2
    <3>3. (Each(f, s) \o Each(f, t))[i] = Each(f, t)[i - Len(s)]
      BY <1>7, <2>2
    <3>4. Each(f, t)[i - Len(s)] = f[t[i - Len(s)]]
      BY <1>4, <3>1
    <3> QED BY <3>2, <3>3, <3>4
  <2> QED BY <2>1, <2>2
<1> QED BY <1>5, <1>6, <1>8, SeqEqual

(* A sequence is its first element and the others.                         *)
LEMMA FirstAndRest ==
    ASSUME NEW S, NEW s \in Seq(S), s # <<>>
    PROVE  /\ s = <<s[1]>> \o Tail(s) /\ Tail(s) \in Seq(S) /\ s[1] \in S
           /\ Len(s) \in Nat /\ Len(s) >= 1 /\ Len(Tail(s)) = Len(s) - 1
           /\ \A k \in 1..Len(Tail(s)) : Tail(s)[k] = s[k + 1]
<1>1. Len(s) \in Nat \ {0}
  BY EmptySeq
<1>2. Tail(s) \in Seq(S) /\ Len(Tail(s)) = Len(s) - 1 /\ \A k \in 1..Len(Tail(s)) : Tail(s)[k] = s[k + 1]
  BY HeadTailProperties
<1>3. s[1] \in S
  BY <1>1, ElementOfSeq
<1>4. Tail(s) = SubSeq(s, 2, Len(s))
  BY TailIsSubSeq
<1>5. SubSeq(s, 1, Len(s)) = <<s[1]>> \o SubSeq(s, 1 + 1, Len(s))
  <2>1. 1 \in 1..Len(s) /\ Len(s) \in 1..Len(s)
    BY <1>1
  <2> QED BY <2>1, SubSeqRecursiveFirst
<1>6. SubSeq(s, 1, Len(s)) = s
  BY SubSeqFull
<1>7. s = <<s[1]>> \o Tail(s)
  BY <1>4, <1>5, <1>6
<1>8. Len(s) \in Nat /\ Len(s) >= 1
  BY <1>1
<1> QED BY <1>2, <1>3, <1>7, <1>8

\* The last element replaced.
WithLast(s, y) == [s EXCEPT ![Len(s)] = y]

\* A sequence without its last element.
Before(r, s, S) ==
    /\ s = r \o <<s[Len(s)]>> /\ s[Len(s)] \in S
    /\ \A y \in S : WithLast(s, y) = r \o <<y>>

(* A sequence is its last element behind the others, and changing the last *)
(* one changes no other.                                                   *)
LEMMA LastAndRest ==
    ASSUME NEW S, NEW s \in Seq(S), s # <<>>
    PROVE  \E r \in Seq(S) : Before(r, s, S)
<1>1. PICK r \in Seq(S), x \in S : s = Append(r, x)
  BY SequenceEmptyOrAppend
<1>2. /\ Len(s) = Len(r) + 1 /\ Len(r) \in Nat /\ s[Len(r) + 1] = x
      /\ \A i \in 1..Len(r) : s[i] = r[i]
  <2>1. Len(r) \in Nat
    BY LenProperties
  <2> QED BY <1>1, <2>1, AppendProperties
<1>3. s[Len(s)] = x
  BY <1>2
<1>4. s = r \o <<x>>
  BY <1>1, AppendIsConcat
<1>5. ASSUME NEW y \in S PROVE WithLast(s, y) = r \o <<y>>
  <2>1. Len(s) \in 1..Len(s)
    BY <1>2
  <2>2. /\ [s EXCEPT ![Len(s)] = y] \in Seq(S) /\ Len([s EXCEPT ![Len(s)] = y]) = Len(s)
        /\ \A j \in 1..Len(s) : [s EXCEPT ![Len(s)] = y][j] = IF j = Len(s) THEN y ELSE s[j]
    BY <2>1, ExceptSeq
  <2>3. /\ Append(r, y) \in Seq(S) /\ Len(Append(r, y)) = Len(r) + 1
        /\ \A i \in 1..Len(r) : Append(r, y)[i] = r[i]
        /\ Append(r, y)[Len(r) + 1] = y
    BY AppendProperties
  <2>4. ASSUME NEW j \in 1..Len(s) PROVE [s EXCEPT ![Len(s)] = y][j] = Append(r, y)[j]
    <3>1. CASE j = Len(s)
      BY <1>2, <2>2, <2>3, <3>1
    <3>2. CASE j # Len(s)
      <4>1. j \in 1..Len(r)
        BY <1>2, <3>2
      <4> QED BY <1>2, <2>2, <2>3, <3>2, <4>1
    <3> QED BY <3>1, <3>2
  <2>5. [s EXCEPT ![Len(s)] = y] = Append(r, y)
    <3>1. Len([s EXCEPT ![Len(s)] = y]) = Len(Append(r, y))
      BY <1>2, <2>2, <2>3
    <3>2. \A j \in 1..Len([s EXCEPT ![Len(s)] = y]) : [s EXCEPT ![Len(s)] = y][j] = Append(r, y)[j]
      BY <2>2, <2>4
    <3> QED BY <2>2, <2>3, <3>1, <3>2, SeqEqual
  <2> QED BY <2>5, AppendIsConcat DEF WithLast
<1> QED BY <1>3, <1>4, <1>5 DEF Before

Segmenting == [b \in Bodies |-> EncodeSegment(MessageBus, b)]

(* One part alone.                                                         *)
LEMMA FlattenOfOne ==
    ASSUME NEW S, NEW x \in Seq(S)
    PROVE  Flatten(<<x>>) = x
<1>0. \A y, U : y \in U => <<y>> \in Seq(U) /\ Len(<<y>>) = 1 /\ <<y>>[1] = y
  OBVIOUS
<1>1. PICK ps \in Seq(Seq(S)) : ps = <<x>> /\ Len(ps) = 1 /\ ps[1] = x
  BY <1>0, Zenon
<1>2. /\ Flatten(ps) = Rest(ps, 1)
      /\ \A k \in 1..Len(ps) : Rest(ps, k) = ps[k] \o Rest(ps, k + 1)
      /\ Rest(ps, Len(ps) + 1) = <<>>
  BY FlattenOfSeq
<1>5. Len(ps) = 1
  BY <1>1, Zenon
<1>3. Rest(ps, 1) = ps[1] \o Rest(ps, 2) /\ Rest(ps, 2) = <<>>
  BY <1>2, <1>5
<1>4. x \o <<>> = x
  BY ConcatEmptySeq
<1> QED BY <1>1, <1>2, <1>3, <1>4, Zenon

(* A body fits a segment.                                                  *)
LEMMA BodiesFit == Bodies \subseteq Payloads /\ Seq(Bodies) \subseteq Seq(Payloads) /\ Bodies \subseteq Seq(Byte)
<1>1. ASSUME NEW b \in Bodies PROVE b \in Payloads /\ b \in Seq(Byte)
  <2>1. b \in Seq(Byte) /\ Len(b) \in Nat /\ Len(b) < 256
    BY LenProperties DEF Bodies
  <2>2. Len(b) < 4096
    BY <2>1
  <2> QED BY <2>1, <2>2 DEF Payloads
<1>2. ASSUME NEW bs \in Seq(Bodies) PROVE bs \in Seq(Payloads)
  BY <1>1, SeqMonotonic
<1> QED BY <1>1, <1>2

(* A segment is a sequence of bytes.                                       *)
LEMMA SegmentingMaps == Maps(Segmenting, Bodies, Seq(Byte)) /\ \A b \in Bodies : Segmenting[b] = EncodeSegment(MessageBus, b)
<1>1. ASSUME NEW b \in Bodies PROVE EncodeSegment(MessageBus, b) \in Seq(Byte)
  <2>1. b \in Seq(Byte) /\ Len(b) \in Nat
    BY LenProperties DEF Bodies
  <2>2. PICK n \in Nat : n = Len(b)
    BY <2>1
  <2>3. SegmentHead(MessageBus, n) \in Seq(Byte)
    BY DEF SegmentHead, MessageBus, Byte
  <2>4. SegmentHead(MessageBus, Len(b)) \in Seq(Byte)
    BY <2>2, <2>3, Zenon
  <2> QED BY <2>1, <2>4, ConcatProperties DEF EncodeSegment
<1> QED BY <1>1 DEF Segmenting, Maps

(* The segments, made body by body.                                        *)
LEMMA SegmentsOfEach ==
    ASSUME NEW bs \in Seq(Bodies)
    PROVE  SegmentsOf(bs) = Each(Segmenting, bs)
<1>1. \A k \in DOMAIN bs : bs[k] \in Bodies
  BY LenProperties, ElementOfSeq
<1> QED BY <1>1, SegmentingMaps DEF SegmentsOf, Each

(* One body more in a notification.                                        *)
LEMMA JoinMore ==
    ASSUME NEW bs \in Seq(Bodies), NEW b \in Bodies
    PROVE  /\ Join(bs \o <<b>>) = Join(bs) \o EncodeSegment(MessageBus, b)
           /\ Join(<<b>>) = EncodeSegment(MessageBus, b)
           /\ <<b>> \in Seq(Bodies) /\ bs \o <<b>> \in Seq(Bodies)
<1>1. <<b>> \in Seq(Bodies)
  OBVIOUS
<1>2. bs \o <<b>> \in Seq(Bodies)
  BY <1>1, ConcatProperties
<1>3. Maps(Segmenting, Bodies, Seq(Byte)) /\ Segmenting[b] = EncodeSegment(MessageBus, b)
  BY SegmentingMaps
<1>4. Each(Segmenting, bs \o <<b>>) = Each(Segmenting, bs) \o Each(Segmenting, <<b>>)
  <2>1. PICK u \in Seq(Bodies) : u = <<b>>
    BY <1>1, Zenon
  <2>2. Each(Segmenting, bs \o u) = Each(Segmenting, bs) \o Each(Segmenting, u)
    BY <1>3, EachConcat
  <2> QED BY <2>1, <2>2
<1>5. Each(Segmenting, <<b>>) = <<EncodeSegment(MessageBus, b)>>
  BY <1>3, EachOfOne
<1>6. EncodeSegment(MessageBus, b) \in Seq(Byte)
  BY <1>3 DEF Maps
<1>7. Flatten(<<EncodeSegment(MessageBus, b)>>) = EncodeSegment(MessageBus, b)
  BY <1>6, FlattenOfOne
<1>8. Each(Segmenting, bs) \in Seq(Seq(Byte))
  BY <1>3, EachType
<1>9. <<EncodeSegment(MessageBus, b)>> \in Seq(Seq(Byte))
  BY <1>6
<1>10. Flatten(Each(Segmenting, bs) \o <<EncodeSegment(MessageBus, b)>>)
          = Flatten(Each(Segmenting, bs)) \o Flatten(<<EncodeSegment(MessageBus, b)>>)
  BY <1>8, <1>9, FlattenConcat
<1>11. Join(bs \o <<b>>) = Join(bs) \o EncodeSegment(MessageBus, b)
  BY <1>2, <1>4, <1>5, <1>7, <1>10, SegmentsOfEach DEF Join
<1>12. Join(<<b>>) = EncodeSegment(MessageBus, b)
  BY <1>1, <1>5, <1>7, SegmentsOfEach DEF Join
<1> QED BY <1>1, <1>2, <1>11, <1>12

(* What is kept when nothing is to be, and the last that is kept.          *)
LEMMA KeptNone ==
    ASSUME NEW S, NEW s \in Seq(S), NEW V, \A k \in 1..Len(s) : s[k] \notin V
    PROVE  Kept(s, V) = <<>>
<1>1. KeptParts(s, V) = KeptParts(s, {})
  <2>1. DOMAIN s = 1..Len(s)
    BY LenProperties
  <2> QED BY <2>1 DEF KeptParts
<1>2. Kept(s, {}) \in Seq(S \cap {})
  BY KeptType
<1>3. Kept(s, {}) \in Seq({})
  <2>1. S \cap {} = {}
    OBVIOUS
  <2> QED BY <1>2, <2>1
<1>4. ASSUME Kept(s, {}) # <<>> PROVE FALSE
  <2>1. Len(Kept(s, {})) \in Nat \ {0}
    BY <1>3, <1>4, EmptySeq
  <2>2. 1 \in 1..Len(Kept(s, {}))
    BY <2>1
  <2>3. Kept(s, {})[1] \in {}
    BY <1>3, <2>2, ElementOfSeq
  <2> QED BY <2>3
<1> QED BY <1>1, <1>4 DEF Kept

(* A sequence is what is before a position, the element there and what is  *)
(* behind it.                                                              *)
LEMMA CutAt ==
    ASSUME NEW S, NEW s \in Seq(S), NEW k \in 1..Len(s)
    PROVE  /\ SubSeq(s, 1, k - 1) \in Seq(S) /\ SubSeq(s, k + 1, Len(s)) \in Seq(S) /\ <<s[k]>> \in Seq(S)
           /\ s = SubSeq(s, 1, k - 1) \o (<<s[k]>> \o SubSeq(s, k + 1, Len(s)))
           /\ \A j \in 1..Len(SubSeq(s, k + 1, Len(s))) : SubSeq(s, k + 1, Len(s))[j] = s[k + j]
           /\ Len(SubSeq(s, k + 1, Len(s))) = Len(s) - k
<1>1. PICK n \in Nat : n = Len(s)
  BY LenProperties
<1>2. k \in 1..n /\ \A j \in 1..n : s[j] \in S
  BY <1>1, ElementOfSeq
<1>3. SubSeq(s, 1, k - 1) \in Seq(S)
  <2>1. \A j \in 1..(k - 1) : s[j] \in S
    BY <1>2
  <2>2. k - 1 \in Int
    BY <1>2
  <2> QED BY <2>1, <2>2, SubSeqProperties
<1>4. /\ SubSeq(s, k + 1, n) \in Seq(S)
      /\ Len(SubSeq(s, k + 1, n)) = n - k
      /\ \A j \in 1..(n - k) : SubSeq(s, k + 1, n)[j] = s[k + j]
  <2>1. \A j \in (k + 1)..n : s[j] \in S
    BY <1>2
  <2>2. k + 1 \in Int /\ n \in Int
    BY <1>2
  <2>3. /\ SubSeq(s, k + 1, n) \in Seq(S)
        /\ Len(SubSeq(s, k + 1, n)) = IF k + 1 <= n THEN n - (k + 1) + 1 ELSE 0
        /\ \A j \in 1..(n - (k + 1) + 1) : SubSeq(s, k + 1, n)[j] = s[k + 1 + j - 1]
    BY <2>1, <2>2, SubSeqProperties
  <2> QED BY <1>2, <2>3
<1>5. SubSeq(s, k, n) = <<s[k]>> \o SubSeq(s, k + 1, n)
  <2>1. k \in 1..Len(s) /\ n \in k..Len(s)
    BY <1>1, <1>2
  <2> QED BY <2>1, SubSeqRecursiveFirst
<1>6. SubSeq(s, 1, k - 1) \o SubSeq(s, k, n) = SubSeq(s, 1, n)
  <2>1. 1 \in 1..(Len(s) + 1) /\ k - 1 \in (1 - 1)..Len(s) /\ n \in (k - 1)..Len(s)
    BY <1>1, <1>2
  <2>2. SubSeq(s, 1, k - 1) \o SubSeq(s, (k - 1) + 1, n) = SubSeq(s, 1, n)
    BY <2>1, ConcatAdjacentSubSeq
  <2>3. (k - 1) + 1 = k
    BY <1>2
  <2> QED BY <2>2, <2>3
<1>7. SubSeq(s, 1, n) = s
  BY <1>1, SubSeqFull
<1>8. <<s[k]>> \in Seq(S)
  BY <1>2
<1> QED BY <1>1, <1>3, <1>4, <1>5, <1>6, <1>7, <1>8

(* The last element that is kept, and that something is.                   *)
LEMMA LastKept ==
    ASSUME NEW S, NEW s \in Seq(S), NEW V, NEW k \in 1..Len(s), s[k] \in V,
           \A j \in 1..Len(s) : j > k => s[j] \notin V
    PROVE  Kept(s, V) # <<>> /\ Kept(s, V)[Len(Kept(s, V))] = s[k]
<1> DEFINE u == SubSeq(s, 1, k - 1)
           v == SubSeq(s, k + 1, Len(s))
           x == s[k]
<1>1. /\ u \in Seq(S) /\ v \in Seq(S) /\ <<x>> \in Seq(S) /\ s = u \o (<<x>> \o v)
      /\ Len(v) = Len(s) - k
      /\ \A j \in 1..Len(v) : v[j] = s[k + j]
  <2>1. u \in Seq(S) /\ v \in Seq(S) /\ <<x>> \in Seq(S)
    BY CutAt
  <2>2. s = u \o (<<x>> \o v)
    BY CutAt
  <2>3. Len(v) = Len(s) - k /\ \A j \in 1..Len(v) : v[j] = s[k + j]
    BY CutAt
  <2> QED BY <2>1, <2>2, <2>3
<1>2. Len(s) \in Nat
  BY LenProperties
<1>3. \A j \in 1..Len(v) : v[j] \notin V
  <2> SUFFICES ASSUME NEW j \in 1..Len(v) PROVE v[j] \notin V
    OBVIOUS
  <2>1. PICK i \in Nat : i = k + j
    BY <1>1, <1>2
  <2>2. i \in 1..Len(s) /\ i > k
    BY <1>1, <1>2, <2>1
  <2>3. v[j] = s[i]
    BY <1>1, <2>1
  <2> QED BY <2>2, <2>3
<1>4. x \in S /\ x \in V
  BY ElementOfSeq
<1> HIDE DEF u, v, x
<1>0. \A a, b \in Seq(S) : Kept(a \o b, V) = Kept(a, V) \o Kept(b, V)
  BY KeptConcat
<1>5. Kept(v, V) = <<>>
  BY <1>1, <1>3, KeptNone
<1>6. Kept(<<x>>, V) = <<x>>
  BY <1>4, KeptOfOne
<1>7. PICK w \in Seq(S) : w = <<x>> \o v
  BY <1>1, ConcatProperties
<1>8. PICK y \in Seq(S) : y = <<x>>
  BY <1>1
<1>9. Kept(w, V) = <<x>>
  <2>1. Kept(y \o v, V) = Kept(y, V) \o Kept(v, V)
    BY <1>0, <1>1, Zenon
  <2>2. <<x>> \o <<>> = <<x>>
    BY <1>1, ConcatEmptySeq
  <2> QED BY <1>5, <1>6, <1>7, <1>8, <2>1, <2>2, Zenon
<1>10. Kept(s, V) = Kept(u, V) \o <<x>>
  <2>1. Kept(u \o w, V) = Kept(u, V) \o Kept(w, V)
    BY <1>0, <1>1, Zenon
  <2> QED BY <1>1, <1>7, <1>9, <2>1, Zenon
<1>11. Kept(u, V) \in Seq(S \cap V) /\ x \in S \cap V
  BY <1>1, <1>4, KeptType
<1>12. Append(Kept(u, V), x) = Kept(u, V) \o <<x>>
  BY <1>11, AppendIsConcat
<1>13. /\ Append(Kept(u, V), x) # <<>>
       /\ Len(Append(Kept(u, V), x)) = Len(Kept(u, V)) + 1
       /\ Append(Kept(u, V), x)[Len(Kept(u, V)) + 1] = x
  BY <1>11, AppendProperties
<1>14. Kept(s, V) = Append(Kept(u, V), x)
  BY <1>10, <1>12
<1> QED BY <1>13, <1>14 DEF x

(* A set of positions has a last one.                                      *)
LEMMA LastOne ==
    ASSUME NEW n \in Nat, NEW V \in SUBSET (1..n), V # {}
    PROVE  \E k \in V : \A j \in V : j <= k
<1> DEFINE T == {m \in Nat : m <= n /\ n - m \in V}
<1>1. PICK v \in V : TRUE
  OBVIOUS
<1>2. n - v \in T
  <2>1. v \in 1..n
    BY <1>1
  <2>2. n - v \in Nat /\ n - v <= n /\ n - (n - v) = v
    BY <2>1
  <2> QED BY <2>2
<1>3. T \in SUBSET Nat /\ T # {}
  BY <1>2
<1> HIDE DEF T
<1>4. PICK m \in T : \A l \in T : m <= l
  BY <1>3, Least
<1>5. m \in Nat /\ m <= n /\ n - m \in V
  BY <1>4 DEF T
<1>6. ASSUME NEW j \in V PROVE j <= n - m
  <2>1. j \in 1..n
    OBVIOUS
  <2>2. n - j \in Nat /\ n - j <= n /\ n - (n - j) = j
    BY <2>1
  <2>3. n - j \in T
    BY <2>2 DEF T
  <2>4. m <= n - j
    BY <1>4, <2>3
  <2> QED BY <1>5, <2>1, <2>4
<1> QED BY <1>5, <1>6

\* The sequence y is made of what is behind the first n elements.
MadeBehind(f, s, n, y) == y = Each(f, SubSeq(s, n + 1, Len(s)))

SplitsInto(f, s, x, y) == Each(f, s) = x \o y

(* Where elements come from, first ones and others.                        *)
LEMMA EachSplits ==
    ASSUME NEW S, NEW T, NEW f, Maps(f, S, T), NEW s \in Seq(S), NEW x \in Seq(T), NEW y \in Seq(T),
           SplitsInto(f, s, x, y)
    PROVE  /\ Len(x) \in Nat /\ Len(x) <= Len(s) /\ \A k \in 1..Len(x) : x[k] = f[s[k]] /\ s[k] \in S
           /\ SubSeq(s, 1, Len(x)) \in Seq(S) /\ Len(SubSeq(s, 1, Len(x))) = Len(x)
           /\ \A k \in 1..Len(x) : SubSeq(s, 1, Len(x))[k] = s[k]
           /\ SubSeq(s, Len(x) + 1, Len(s)) \in Seq(S)
           /\ MadeBehind(f, s, Len(x), y)
<1>0. Each(f, s) = x \o y
  BY DEF SplitsInto
<1>1. /\ Each(f, s) \in Seq(T) /\ Len(Each(f, s)) = Len(s) /\ Len(s) \in Nat
      /\ \A k \in 1..Len(s) : Each(f, s)[k] = f[s[k]] /\ s[k] \in S
  BY EachType
<1>2. /\ Len(x \o y) = Len(x) + Len(y)
      /\ \A i \in 1..(Len(x) + Len(y)) : (x \o y)[i] = IF i <= Len(x) THEN x[i] ELSE y[i - Len(x)]
  BY ConcatProperties
<1>3. PICK m \in Nat : m = Len(x)
  BY LenProperties
<1>4. PICK n \in Nat : n = Len(y)
  BY LenProperties
<1>5. Len(s) = m + n
  BY <1>0, <1>1, <1>2, <1>3, <1>4
<1>6. /\ \A k \in 1..m : x[k] = f[s[k]]
      /\ \A k \in 1..n : y[k] = f[s[m + k]]
  <2>1. ASSUME NEW k \in 1..m PROVE x[k] = f[s[k]]
    <3>1. k \in 1..(m + n) /\ k <= m
      OBVIOUS
    <3>2. (x \o y)[k] = x[k] /\ (x \o y)[k] = f[s[k]]
      BY <1>0, <1>1, <1>2, <1>3, <1>4, <1>5, <3>1
    <3> QED BY <3>2
  <2>2. ASSUME NEW k \in 1..n PROVE y[k] = f[s[m + k]]
    <3>1. PICK i \in Nat : i = m + k
      OBVIOUS
    <3>2. i \in 1..(m + n) /\ ~(i <= m) /\ i - m = k
      BY <3>1
    <3>3. (x \o y)[i] = y[i - m]
      BY <1>2, <1>3, <1>4, <3>2
    <3>4. (x \o y)[i] = f[s[i]]
      BY <1>0, <1>1, <1>5, <3>2
    <3> QED BY <3>1, <3>2, <3>3, <3>4
  <2> QED BY <2>1, <2>2
<1>7. /\ SubSeq(s, 1, m) \in Seq(S) /\ Len(SubSeq(s, 1, m)) = m
      /\ \A k \in 1..m : SubSeq(s, 1, m)[k] = s[k]
  <2>1. \A j \in 1..m : s[j] \in S
    BY <1>1, <1>5
  <2>2. 1 \in Int /\ m \in Int
    OBVIOUS
  <2>3. /\ SubSeq(s, 1, m) \in Seq(S) /\ Len(SubSeq(s, 1, m)) = IF 1 <= m THEN m - 1 + 1 ELSE 0
        /\ \A j \in 1..(m - 1 + 1) : SubSeq(s, 1, m)[j] = s[1 + j - 1]
    BY <2>1, <2>2, SubSeqProperties
  <2> QED BY <2>3
<1> DEFINE t == SubSeq(s, m + 1, m + n)
<1>8. t \in Seq(S) /\ Len(t) = n /\ \A k \in 1..n : t[k] = s[m + k]
  <2>1. \A j \in (m + 1)..(m + n) : s[j] \in S
    BY <1>1, <1>5
  <2>2. m + 1 \in Int /\ m + n \in Int
    OBVIOUS
  <2>3. /\ t \in Seq(S) /\ Len(t) = IF m + 1 <= m + n THEN (m + n) - (m + 1) + 1 ELSE 0
        /\ \A j \in 1..((m + n) - (m + 1) + 1) : t[j] = s[(m + 1) + j - 1]
    BY <2>1, <2>2, SubSeqProperties
  <2> HIDE DEF t
  <2>4. Len(t) = n
    BY <2>3
  <2>5. ASSUME NEW k \in 1..n PROVE t[k] = s[m + k]
    <3>1. k \in 1..((m + n) - (m + 1) + 1) /\ (m + 1) + k - 1 = m + k
      OBVIOUS
    <3> QED BY <2>3, <3>1
  <2> QED BY <2>3, <2>4, <2>5
<1> HIDE DEF t
<1>9. /\ Each(f, t) \in Seq(T) /\ Len(Each(f, t)) = Len(t)
      /\ \A k \in 1..Len(t) : Each(f, t)[k] = f[t[k]]
  <2>1. t \in Seq(S)
    BY <1>8
  <2> QED BY <2>1, EachType
<1>10. y = Each(f, t)
  <2>1. \A k \in 1..Len(y) : y[k] = Each(f, t)[k]
    BY <1>4, <1>6, <1>8, <1>9
  <2>2. Len(y) = Len(Each(f, t))
    BY <1>4, <1>8, <1>9
  <2> QED BY <1>9, <2>1, <2>2, SeqEqual
<1>11. t = SubSeq(s, Len(x) + 1, Len(s))
  BY <1>3, <1>5, Zenon DEF t
<1>12. SubSeq(s, 1, m) = SubSeq(s, 1, Len(x))
  BY <1>3
<1>14. MadeBehind(f, s, Len(x), y)
  BY <1>10, <1>11, Zenon DEF MadeBehind
<1>13. Len(x) <= Len(s) /\ \A k \in 1..Len(x) : x[k] = f[s[k]] /\ s[k] \in S
  BY <1>1, <1>3, <1>5, <1>6
<1> QED BY <1>3, <1>7, <1>8, <1>11, <1>12, <1>13, <1>14

-----------------------------------------------------------------------------
(***************************************************************************)
(* What is in a notification: the bike's own requests, which are answered, *)
(* and the rest, which is handed on.                                       *)
(***************************************************************************)
(***************************************************************************)
(* The bike's own requests, told apart from what it answers and pushes.    *)
(***************************************************************************)
Requests == {b \in Bodies : IsMobileAppRequest(b)}

Others == {b \in Bodies : ~IsMobileAppRequest(b)}

StageWrites == {b \in Bodies : WritesStage(b)}

\* What BikeAsks may have asked, and its body.
OwnRequests == [type : {READ, WRITE}, low : {StageLow, FeaturesLow}, stage : {0, 9}, number : 0..15]

OwnBody(a) ==
    <<32, 40, 128 + MobileAppHigh, a.low, 16 * a.type + a.number>>
    \o (IF a.type = WRITE THEN Implicit(1, a.stage) ELSE <<>>)

Asking == [a \in OwnRequests |-> OwnBody(a)]

TellsStage(a) == a.type = WRITE /\ a.low = StageLow

(* The bytes of the field with the stage.                                  *)
LEMMA StageField == Implicit(1, 0) = <<>> /\ Implicit(1, 9) = <<8, 9>>
<1>1. \A n \in Nat : n < 128 => Varint(n) = <<n>>
  BY VarintHead
<1>2. PICK n \in Nat : n = 9
  OBVIOUS
<1>3. PICK f \in Nat : f = 1
  OBVIOUS
<1>4. Varint(n) = <<n>>
  BY <1>1, <1>2
<1>5. Number(f, n) = <<8 * f>> \o <<n>>
  BY <1>4 DEF Number
<1>6. 8 * f = 8 /\ n # 0
  BY <1>2, <1>3
<1>7. <<8, 9>> = <<8>> \o <<9>>
  OBVIOUS
<1>8. Implicit(f, n) = <<8>> \o <<9>>
  BY <1>2, <1>5, <1>6, Zenon DEF Implicit
<1>9. Implicit(1, 9) = <<8, 9>>
  BY <1>2, <1>3, <1>7, <1>8, Zenon
<1> QED BY <1>9 DEF Implicit

(* A request of the bike's own is seven bytes at most.                     *)
LEMMA OwnBodyBytes ==
    ASSUME NEW a \in OwnRequests
    PROVE  \/ OwnBody(a) = <<32, 40, 192, a.low, 16 * a.type + a.number>> /\ (a.type = WRITE => a.stage = 0)
           \/ OwnBody(a) = <<32, 40, 192, a.low, 16 * a.type + a.number, 8, 9>> /\ a.type = WRITE /\ a.stage = 9
<1> DEFINE h == <<32, 40, 192, a.low, 16 * a.type + a.number>>
<1>0. 128 + MobileAppHigh = 192
  BY DEF MobileAppHigh
<1>1. a.stage \in {0, 9} /\ READ # WRITE
  BY DEF OwnRequests, READ, WRITE
<1>2. OwnBody(a) = h \o (IF a.type = WRITE THEN Implicit(1, a.stage) ELSE <<>>)
  BY <1>0, Zenon DEF OwnBody
<1>3. h \o <<>> = h /\ h \o <<8, 9>> = <<32, 40, 192, a.low, 16 * a.type + a.number, 8, 9>>
  <2>1. \A l, c : /\ <<32, 40, 192, l, c>> = <<32, 40, 192, l, c>> \o <<>>
                  /\ <<32, 40, 192, l, c, 8, 9>> = <<32, 40, 192, l, c>> \o <<8, 9>>
    OBVIOUS
  <2> QED BY <2>1, ZenonT(60)
<1>4. CASE a.type # WRITE
  BY <1>2, <1>3, <1>4, Zenon
<1>5. CASE a.type = WRITE /\ a.stage = 0
  BY <1>2, <1>3, <1>5, StageField, ZenonT(60)
<1>6. CASE a.type = WRITE /\ a.stage = 9
  BY <1>2, <1>3, <1>6, StageField, Zenon
<1> QED BY <1>1, <1>4, <1>5, <1>6

(* Of what its fields can be.                                              *)
LEMMA OwnFields ==
    ASSUME NEW a \in OwnRequests
    PROVE  /\ a.low \in Byte /\ 16 * a.type + a.number \in Byte
           /\ (16 * a.type + a.number) \div 16 = a.type /\ (16 * a.type + a.number) % 16 = a.number
           /\ a.type \in {READ, WRITE} /\ a.stage \in {0, 9} /\ a.number \in 0..15
BY DEF OwnRequests, READ, WRITE, StageLow, FeaturesLow, Byte

(* The tool takes it for what it is.                                       *)
LEMMA OwnBodyIs ==
    ASSUME NEW a \in OwnRequests
    PROVE  /\ OwnBody(a) \in Requests
           /\ OwnBody(a) \in StageWrites <=> TellsStage(a)
           /\ TellsStage(a) => (StageIn(OwnBody(a)) = 9 <=> a.stage = 9)
           /\ OwnBody(a)[1] = 32 /\ OwnBody(a)[2] = 40 /\ OwnBody(a)[4] = a.low
           /\ OwnBody(a)[5] = 16 * a.type + a.number
<1> DEFINE b == OwnBody(a)
           c == 16 * a.type + a.number
<1>1. /\ a.low \in Byte /\ c \in Byte /\ c \div 16 = a.type /\ c % 16 = a.number
      /\ a.type \in {READ, WRITE}
  BY OwnFields
<1>2. \/ b = <<32, 40, 192, a.low, c>> /\ (a.type = WRITE => a.stage = 0)
      \/ b = <<32, 40, 192, a.low, c, 8, 9>> /\ a.type = WRITE /\ a.stage = 9
  BY OwnBodyBytes
<1> HIDE DEF c
<1> HIDE DEF b
<1>3. /\ b \in Seq(Byte) /\ Len(b) \in {5, 7} /\ b[1] = 32 /\ b[2] = 40 /\ b[3] = 192
      /\ b[4] = a.low /\ b[5] = c
      /\ (a.type = WRITE => (a.stage = 9 <=> Len(b) = 7)) /\ (Len(b) = 7 => b[7] = 9)
  <2>1. CASE b = <<32, 40, 192, a.low, c>> /\ (a.type = WRITE => a.stage = 0)
    BY <1>1, <2>1 DEF Byte
  <2>2. CASE b = <<32, 40, 192, a.low, c, 8, 9>> /\ a.type = WRITE /\ a.stage = 9
    BY <1>1, <2>2 DEF Byte
  <2> QED BY <1>2, <2>1, <2>2
<1>4. b \in Bodies
  <2>2. Len(b) \in {5, 7}
    BY <1>3, Zenon
  <2>3. 5 < 256 /\ 7 < 256
    OBVIOUS
  <2>1. Len(b) < 256
    BY <2>2, <2>3, Zenon
  <2> QED BY <1>3, <2>1, Zenon DEF Bodies
<1>5. IsMobileAppRequest(b)
  <2>1. Low7(b[3]) = MobileAppHigh
    BY <1>3 DEF Low7, MobileAppHigh
  <2>2. b[5] \div 16 \in {READ, WRITE}
    BY <1>1, <1>3
  <2>3. Len(b) >= 5
    BY <1>3
  <2> QED BY <2>1, <2>2, <2>3 DEF IsMobileAppRequest
<1>6. WritesStage(b) <=> TellsStage(a)
  BY <1>1, <1>3, <1>5 DEF WritesStage, TellsStage
<1>7. TellsStage(a) => (StageIn(b) = 9 <=> a.stage = 9)
  <2>1. NotAFrame # 9
    BY NotAFrameAssumption
  <2>4. Len(b) \in {5, 7}
    BY <1>3, Zenon
  <2>5. ~(5 >= 7) /\ 7 >= 7 /\ 5 # 7
    OBVIOUS
  <2>2. Len(b) >= 7 <=> Len(b) = 7
    <3>1. CASE Len(b) = 5
      BY <2>5, <3>1, Zenon
    <3>2. CASE Len(b) = 7
      BY <2>5, <3>2, Zenon
    <3> QED BY <2>4, <3>1, <3>2
  <2>3. StageIn(b) = IF Len(b) = 7 THEN 9 ELSE NotAFrame
    BY <1>3, <2>2, Zenon DEF StageIn
  <2> QED BY <1>3, <2>1, <2>3, Zenon DEF TellsStage
<1> QED BY <1>3, <1>4, <1>5, <1>6, <1>7 DEF Requests, StageWrites, b, c

(* The reply goes back to the requester, under the number and the field of *)
(* the request (_mobileAppReply).                                          *)
LEMMA OwnBodyIsAnswered ==
    ASSUME NEW a \in OwnRequests
    PROVE  SubSeq(MobileAppReply(OwnBody(a)), 1, 5)
             = <<MobileAppHigh, a.low, 128 + 32, 40, 16 * (a.type + 1) + a.number>>
<1> DEFINE b == OwnBody(a)
           c == 16 * a.type + a.number
           more == IF b[5] \div 16 = READ /\ b[4] = FeaturesLow THEN <<24, 1>> ELSE <<>>
           h == <<MobileAppHigh, b[4], 128 + Low7(b[1]), b[2], 16 * (b[5] \div 16 + 1) + (b[5] % 16)>>
           g == <<MobileAppHigh, a.low, 128 + 32, 40, 16 * (a.type + 1) + a.number>>
<1>1. b[1] = 32 /\ b[2] = 40 /\ b[4] = a.low /\ b[5] = c
  BY OwnBodyIs
<1>2. c \div 16 = a.type /\ c % 16 = a.number /\ a.type \in {READ, WRITE} /\ a.number \in 0..15 /\ a.low \in Byte
  BY OwnFields
<1>3. Low7(32) = 32
  BY DEF Low7
<1>4. h = g
  BY <1>1, <1>2, <1>3, Zenon
<1>5. g \in Seq(Nat) /\ Len(g) = 5
  <2>1. MobileAppHigh \in Nat /\ a.low \in Nat /\ 128 + 32 \in Nat /\ 16 * (a.type + 1) + a.number \in Nat
    <3>1. a.type \in Nat
      BY <1>2 DEF READ, WRITE
    <3>2. a.number \in Nat
      BY <1>2
    <3>3. 16 * (a.type + 1) + a.number \in Nat
      BY <3>1, <3>2
    <3>4. MobileAppHigh \in Nat /\ a.low \in Nat /\ 128 + 32 \in Nat
      BY <1>2 DEF MobileAppHigh, Byte
    <3> QED BY <3>3, <3>4
  <2>2. \A i, j, k, l, m \in Nat : <<i, j, k, l, m>> \in Seq(Nat) /\ Len(<<i, j, k, l, m>>) = 5
    OBVIOUS
  <2>3. 40 \in Nat
    OBVIOUS
  <2> QED BY <2>1, <2>2, <2>3, Zenon
<1>6. more \in Seq(Nat)
  OBVIOUS
<1>7. MobileAppReply(b) = h \o more
  BY Zenon DEF MobileAppReply
<1> HIDE DEF h, g, more, b, c
<1>8. SubSeq(g \o more, 1, 5) = SubSeq(g, 1, 5)
  <2>1. 1 \in 1..Len(g) /\ 5 \in 1..Len(g)
    BY <1>5
  <2> QED BY <1>5, <1>6, <2>1, SubSeqOfConcat1
<1>9. SubSeq(g, 1, 5) = g
  BY <1>5, SubSeqFull
<1> QED BY <1>4, <1>7, <1>8, <1>9 DEF g, b

(* The body of a request of the bike, as a map.                            *)
LEMMA AskingMaps == Maps(Asking, OwnRequests, Bodies) /\ \A a \in OwnRequests : Asking[a] = OwnBody(a)
<1>1. ASSUME NEW a \in OwnRequests PROVE OwnBody(a) \in Bodies
  BY OwnBodyIs DEF Requests
<1> QED BY <1>1 DEF Asking, Maps

Rebuilding == [b \in Bodies |-> Rebuild(b)]

(* A wrapped body is a sequence of bytes.                                  *)
LEMMA WrapType ==
    ASSUME NEW b \in Bodies
    PROVE  Wrap(b) \in Seq(Byte)
<1>1. b \in Seq(Byte) /\ Len(b) \in Nat
  BY LenProperties DEF Bodies
<1>2. PICK n \in Nat : n = Len(b)
  BY <1>1
<1>3. <<BlockOp, n % 256>> \in Seq(Byte)
  BY DEF BlockOp, Byte
<1>4. <<BlockOp, Len(b) % 256>> \in Seq(Byte)
  BY <1>2, <1>3, Zenon
<1> QED BY <1>1, <1>4, ConcatProperties DEF Wrap

(* A frame that was rebuilt is a sequence of bytes.                        *)
LEMMA RebuildingMaps == Maps(Rebuilding, Bodies, Seq(Byte)) /\ \A b \in Bodies : Rebuilding[b] = Rebuild(b)
<1>1. ASSUME NEW b \in Bodies PROVE Rebuild(b) \in Seq(Byte)
  <2> DEFINE x == b[3] - Low7(b[3]) + HostUsb[1]
             c == [b EXCEPT ![3] = x]
             d == [c EXCEPT ![4] = HostUsb[2]]
  <2>1. b \in Seq(Byte) /\ Len(b) \in Nat /\ Len(b) < 256
    BY LenProperties DEF Bodies
  <2>2. CASE Len(b) >= 4 /\ Low7(b[3]) = HostBle[1]
    <3>1. 3 \in 1..Len(b) /\ 4 \in 1..Len(b)
      BY <2>1, <2>2
    <3>2. b[3] \in Byte
      BY <2>1, <3>1, ElementOfSeq
    <3>3. x \in Byte
      BY <3>2 DEF Low7, HostUsb, Byte
    <3>4. HostUsb[2] \in Byte
      BY DEF HostUsb, Byte
    <3> HIDE DEF x
    <3>5. c \in Seq(Byte) /\ Len(c) = Len(b)
      BY <2>1, <3>1, <3>3, ExceptSeq
    <3>6. d \in Seq(Byte) /\ Len(d) = Len(c)
      <4> HIDE DEF c
      <4>1. 4 \in 1..Len(c)
        BY <3>1, <3>5
      <4> QED BY <3>4, <3>5, <4>1, ExceptSeq
    <3>7. [b EXCEPT ![3] = x, ![4] = HostUsb[2]] = d
      OBVIOUS
    <3> HIDE DEF d, c
    <3>8. d \in Bodies
      BY <2>1, <3>5, <3>6 DEF Bodies
    <3>9. Rebuild(b) = Wrap(d)
      BY <2>2, <3>7, Zenon DEF Rebuild, x
    <3> QED BY <3>8, <3>9, WrapType
  <2>3. CASE ~(Len(b) >= 4 /\ Low7(b[3]) = HostBle[1])
    <3>1. Rebuild(b) = Wrap(b)
      BY <2>3, Zenon DEF Rebuild
    <3> QED BY <3>1, WrapType
  <2> QED BY <2>2, <2>3
<1> QED BY <1>1 DEF Rebuilding, Maps

(***************************************************************************)
(* What is on its way to the tool, and what the bike meant by it: the one  *)
(* queue is as long as the other, and each frame fits its meaning.         *)
(***************************************************************************)
\* A sequence, of whatever.
IsSeq(s) == \E S : s \in Seq(S)

(* A queue to which something is appended.                                 *)
LEMMA Appends ==
    ASSUME NEW s, IsSeq(s), NEW x
    PROVE  /\ IsSeq(Append(s, x)) /\ Len(s) \in Nat /\ Len(Append(s, x)) = Len(s) + 1
           /\ Append(s, x)[Len(s) + 1] = x /\ \A k \in 1..Len(s) : Append(s, x)[k] = s[k]
<1>1. PICK S : s \in Seq(S)
  BY DEF IsSeq
<1>2. PICK T : T = S \cup {x}
  OBVIOUS
<1>3. s \in Seq(T)
  <2>1. \A k \in 1..Len(s) : s[k] \in S
    BY <1>1, ElementOfSeq
  <2>2. s = [k \in 1..Len(s) |-> s[k]] /\ Len(s) \in Nat /\ DOMAIN s = 1..Len(s)
    BY <1>1, LenProperties
  <2>3. \A k \in 1..Len(s) : s[k] \in T
    BY <1>2, <2>1
  <2>4. PICK n \in Nat : n = Len(s)
    BY <2>2
  <2>5. s = [k \in 1..n |-> s[k]] /\ \A k \in 1..n : s[k] \in T
    BY <2>2, <2>3, <2>4
  <2> HIDE <2>2, <2>3
  <2>6. s \in [1..n -> T]
    BY <2>5
  <2> QED BY <2>6, IsASeq
<1>4. x \in T
  BY <1>2
<1>5. /\ Append(s, x) \in Seq(T) /\ Len(Append(s, x)) = Len(s) + 1
      /\ Append(s, x)[Len(s) + 1] = x /\ \A k \in 1..Len(s) : Append(s, x)[k] = s[k]
  BY <1>3, <1>4, AppendProperties
<1> QED BY <1>1, <1>5, LenProperties DEF IsSeq

(* A queue from which the first element is taken.                          *)
LEMMA TakesFirst ==
    ASSUME NEW s, IsSeq(s), Len(s) # 0
    PROVE  /\ IsSeq(Tail(s)) /\ Len(s) \in Nat /\ Len(Tail(s)) = Len(s) - 1
           /\ \A k \in 1..(Len(s) - 1) : Tail(s)[k] = s[k + 1]
<1>1. PICK S : s \in Seq(S)
  BY DEF IsSeq
<1>2. Len(s) \in Nat /\ s # <<>>
  BY <1>1, LenProperties, EmptySeq
<1>3. /\ Tail(s) \in Seq(S) /\ Len(Tail(s)) = Len(s) - 1
      /\ \A k \in 1..Len(Tail(s)) : Tail(s)[k] = s[k + 1]
  BY <1>1, <1>2, HeadTailProperties
<1> QED BY <1>2, <1>3 DEF IsSeq

\* The value a row is read to have and shows, where h is what its point holds.
RowSays(shows, h, p, r) ==
    /\ h \in Meanings(r.shape) /\ shows = Meant(r.shape, h)
    /\ ValueAt(r.address, p) = shows /\ DisplayAt(r.address, p) = MeantDisplay(r.shape, h)

\* A push of a point that was subscribed to.
FitsPush(f, m) ==
    /\ ParseResponse(f) = NotAFrame /\ ParseNotify(f) # NotAFrame
    /\ ParseNotify(f).addr = m.addr /\ m.point = "range"
    /\ DecodeUint32List(ParseNotify(f).payload) = m.shows

(* What is kept with one more.                                             *)
LEMMA KeptMore ==
    ASSUME NEW S, NEW s \in Seq(S), NEW x \in S, NEW V
    PROVE  Kept(s \o <<x>>, V) = IF x \in V THEN Append(Kept(s, V), x) ELSE Kept(s, V)
<1>0. <<x>> \in Seq(S)
  OBVIOUS
<1>1. PICK u \in Seq(S) : u = <<x>>
  BY <1>0, Zenon
<1>2. Kept(s \o u, V) = Kept(s, V) \o Kept(u, V)
  BY KeptConcat
<1>3. Kept(<<x>>, V) = IF x \in V THEN <<x>> ELSE <<>>
  BY KeptOfOne
<1>4. Kept(s, V) \in Seq(S \cap V)
  BY KeptType
<1>5. CASE x \in V
  <2>1. x \in S \cap V
    BY <1>5
  <2>2. Append(Kept(s, V), x) = Kept(s, V) \o <<x>>
    BY <1>4, <2>1, AppendIsConcat
  <2> QED BY <1>1, <1>2, <1>3, <1>5, <2>2, Zenon
<1>6. CASE x \notin V
  <2>1. Kept(s, V) \o <<>> = Kept(s, V)
    BY <1>4, ConcatEmptySeq
  <2> QED BY <1>1, <1>2, <1>3, <1>6, <2>1, Zenon
<1> QED BY <1>5, <1>6

(* One more of what is made element by element.                            *)
LEMMA EachMore ==
    ASSUME NEW S, NEW T, NEW f, Maps(f, S, T), NEW s \in Seq(S), NEW x \in S
    PROVE  Each(f, Append(s, x)) = Append(Each(f, s), f[x]) /\ Append(s, x) \in Seq(S)
<1>0. <<x>> \in Seq(S)
  OBVIOUS
<1>1. PICK u \in Seq(S) : u = <<x>>
  BY <1>0, Zenon
<1>2. Each(f, s \o u) = Each(f, s) \o Each(f, u)
  BY EachConcat
<1>3. Each(f, <<x>>) = <<f[x]>>
  BY EachOfOne
<1>4. Append(s, x) = s \o <<x>>
  BY AppendIsConcat
<1>5. Each(f, s) \in Seq(T)
  BY EachType
<1>6. f[x] \in T
  BY DEF Maps
<1>7. Append(Each(f, s), f[x]) = Each(f, s) \o <<f[x]>>
  BY <1>5, <1>6, AppendIsConcat
<1>8. Append(s, x) \in Seq(S)
  BY AppendProperties
<1> QED BY <1>1, <1>2, <1>3, <1>4, <1>7, <1>8, Zenon

(* An element in front of a sequence.                                      *)
LEMMA OneBefore ==
    ASSUME NEW S, NEW x \in S, NEW w \in Seq(S)
    PROVE  <<x>> \o w \in Seq(S) /\ <<x>> \o w # <<>> /\ (<<x>> \o w)[1] = x /\ Tail(<<x>> \o w) = w
<1>0. <<x>> \in Seq(S) /\ Len(<<x>>) = 1 /\ <<x>>[1] = x
  OBVIOUS
<1>1. PICK u \in Seq(S) : u = <<x>> /\ Len(u) = 1 /\ u[1] = x
  BY <1>0, Zenon
<1>2. PICK n \in Nat : n = Len(w)
  BY LenProperties
<1>3. /\ u \o w \in Seq(S) /\ Len(u \o w) = Len(u) + Len(w)
      /\ \A i \in 1..(Len(u) + Len(w)) : (u \o w)[i] = IF i <= Len(u) THEN u[i] ELSE w[i - Len(u)]
  BY ConcatProperties
<1>4. PICK v \in Seq(S) : v = u \o w
  BY <1>3
<1>5. Len(v) = 1 + n /\ v[1] = x /\ \A i \in 1..n : v[i + 1] = w[i]
  <2>1. Len(v) = 1 + n /\ v[1] = x
    BY <1>1, <1>2, <1>3, <1>4
  <2>2. ASSUME NEW i \in 1..n PROVE v[i + 1] = w[i]
    <3>1. PICK j \in Nat : j = i + 1
      OBVIOUS
    <3>2. j \in 1..(1 + n) /\ ~(j <= 1) /\ j - 1 = i
      BY <3>1
    <3>3. v[j] = w[j - 1]
      BY <1>1, <1>2, <1>3, <1>4, <3>2
    <3> QED BY <3>1, <3>2, <3>3
  <2> QED BY <2>1, <2>2
<1>6. v # <<>>
  BY <1>2, <1>5, EmptySeq
<1>7. Tail(v) \in Seq(S) /\ Len(Tail(v)) = Len(v) - 1 /\ \A i \in 1..Len(Tail(v)) : Tail(v)[i] = v[i + 1]
  BY <1>6, HeadTailProperties
<1>8. Tail(v) = w
  <2>1. Len(Tail(v)) = Len(w)
    BY <1>2, <1>5, <1>7
  <2>2. \A i \in 1..Len(Tail(v)) : Tail(v)[i] = w[i]
    BY <1>2, <1>5, <1>7
  <2> QED BY <1>7, <2>1, <2>2, SeqEqual
<1> QED BY <1>1, <1>4, <1>5, <1>6, <1>8, Zenon

\* The first n of the requests on their way are these.
FirstAsked(reqs, as) ==
    /\ Len(reqs) \in Nat /\ Len(SubSeq(as, 1, Len(reqs))) = Len(reqs)
    /\ \A k \in 1..Len(reqs) : /\ as[k] \in OwnRequests /\ reqs[k] = OwnBody(as[k])
                               /\ SubSeq(as, 1, Len(reqs))[k] = as[k]

(* The requests asked, first ones and others.                              *)
LEMMA AskedSplits ==
    ASSUME NEW as \in Seq(OwnRequests), NEW x \in Seq(Bodies), NEW y \in Seq(Bodies),
           SplitsInto(Asking, as, x, y)
    PROVE  /\ FirstAsked(x, as)
           /\ SubSeq(as, Len(x) + 1, Len(as)) \in Seq(OwnRequests)
           /\ y = Each(Asking, SubSeq(as, Len(x) + 1, Len(as)))
<1>1. Maps(Asking, OwnRequests, Bodies) /\ \A a \in OwnRequests : Asking[a] = OwnBody(a)
  BY AskingMaps
<1>2. Maps(Asking, OwnRequests, Bodies)
  BY <1>1
<1>3. Len(x) \in Nat /\ \A k \in 1..Len(x) : x[k] = Asking[as[k]] /\ as[k] \in OwnRequests
  BY <1>2, EachSplits
<1>4. Len(SubSeq(as, 1, Len(x))) = Len(x) /\ \A k \in 1..Len(x) : SubSeq(as, 1, Len(x))[k] = as[k]
  BY <1>2, EachSplits
<1>5. SubSeq(as, Len(x) + 1, Len(as)) \in Seq(OwnRequests)
  BY <1>2, EachSplits
<1>6. MadeBehind(Asking, as, Len(x), y)
  BY <1>2, EachSplits
<1>7. FirstAsked(x, as)
  BY <1>1, <1>3, <1>4 DEF FirstAsked
<1> QED BY <1>5, <1>6, <1>7, Zenon DEF MadeBehind

(* And the writes of the stage among the requests.                         *)
LEMMA StagesToldApart ==
    ASSUME NEW requests \in Seq(Bodies)
    PROVE  Chosen(requests, {k \in DOMAIN requests : WritesStage(requests[k])}) = Kept(requests, StageWrites)
<1> DEFINE ks == {k \in DOMAIN requests : WritesStage(requests[k])}
<1>1. \A k \in DOMAIN requests : requests[k] \in Bodies
  <2>1. DOMAIN requests = 1..Len(requests)
    BY LenProperties
  <2> QED BY <2>1, ElementOfSeq
<1>2. \A k \in DOMAIN requests : k \in ks <=> requests[k] \in StageWrites
  BY <1>1, Zenon DEF StageWrites
<1> HIDE DEF ks
<1>3. Chosen(requests, ks) = Kept(requests, StageWrites)
  BY <1>2, ChosenIsKept
<1> QED BY <1>3 DEF ks

\* The five bytes in front of a value: where it comes from, where it goes to,
\* and its type and number.
Head5(a, h, c) == <<a[1], a[2], h[1], h[2], c>>

(* A value behind five bytes.                                              *)
LEMMA Headed ==
    ASSUME NEW h \in Seq(Byte), Len(h) = 5, NEW v \in Seq(Byte)
    PROVE  /\ h \o v \in Seq(Byte) /\ Len(v) \in Nat /\ Len(h \o v) = Len(v) + 5
           /\ \A k \in 1..5 : (h \o v)[k] = h[k]
           /\ \A k \in 1..Len(v) : (h \o v)[k + 5] = v[k]
           /\ \A n \in Nat : n >= Len(v) => Slice(h \o v, 6, n) = v
<1>1. PICK n \in Nat : n = Len(v)
  BY LenProperties
<1>2. /\ h \o v \in Seq(Byte) /\ Len(h \o v) = Len(h) + Len(v)
      /\ \A i \in 1..(Len(h) + Len(v)) : (h \o v)[i] = IF i <= Len(h) THEN h[i] ELSE v[i - Len(h)]
  BY ConcatProperties
<1>3. PICK s \in Seq(Byte) : s = h \o v
  BY <1>2
<1>4. Len(s) = n + 5 /\ \A i \in 1..(n + 5) : s[i] = IF i <= 5 THEN h[i] ELSE v[i - 5]
  BY <1>1, <1>2, <1>3
<1>5. \A k \in 1..5 : s[k] = h[k]
  BY <1>4
<1>6. ASSUME NEW k \in 1..n PROVE s[k + 5] = v[k]
  <2>1. PICK i \in Nat : i = k + 5
    OBVIOUS
  <2>2. i \in 1..(n + 5) /\ ~(i <= 5) /\ i - 5 = k
    BY <2>1
  <2>3. s[i] = v[i - 5]
    BY <1>4, <2>2
  <2> QED BY <2>1, <2>2, <2>3
<1>7. ASSUME NEW m \in Nat, m >= n PROVE Slice(s, 6, m) = v
  <2>0. PICK j \in Nat : j = 6
    OBVIOUS
  <2>1. j \in 1..(Len(s) + 1) /\ m >= Len(s) - j + 1
    BY <1>4, <1>7, <2>0
  <2>7. Len(s) - j + 1 = n
    BY <1>4, <2>0
  <2>2. /\ Slice(s, j, m) \in Seq(Byte) /\ Len(Slice(s, j, m)) = Len(s) - j + 1
        /\ \A k \in 1..(Len(s) - j + 1) : Slice(s, j, m)[k] = s[j + k - 1]
    BY <2>1, SliceDrops
  <2>3. Len(Slice(s, j, m)) = n
    BY <2>7, <2>2, Zenon
  <2>4. ASSUME NEW k \in 1..n PROVE Slice(s, j, m)[k] = v[k]
    <3>1. PICK i \in Nat : i = k + 5
      OBVIOUS
    <3>2. j + k - 1 = i /\ k \in 1..(Len(s) - j + 1)
      BY <2>0, <2>7, <3>1
    <3>3. Slice(s, j, m)[k] = s[i]
      BY <2>2, <3>2, Zenon
    <3> QED BY <1>6, <3>1, <3>3
  <2>5. \A k \in 1..Len(Slice(s, j, m)) : Slice(s, j, m)[k] = v[k]
    BY <2>3, <2>4
  <2>6. Len(Slice(s, j, m)) = Len(v)
    BY <1>1, <2>3
  <2>8. Slice(s, j, m) \in Seq(Byte)
    BY <2>2, Zenon
  <2>9. Slice(s, j, m) = v
    BY <2>5, <2>6, <2>8, SeqEqual
  <2> QED BY <2>0, <2>9, Zenon
<1> QED BY <1>1, <1>3, <1>4, <1>5, <1>6, <1>7

\* What the tool is to read in a response.
ReadsResponse(f, a, c, status, v) ==
    /\ f \in Seq(Byte) /\ ParseNotify(f) = NotAFrame /\ ParseResponse(f) # NotAFrame
    /\ ParseResponse(f).addr = <<a[1], a[2]>> /\ ParseResponse(f).type = c \div 16 /\ ParseResponse(f).seq = c % 16
    /\ ParseResponse(f).status = status
    /\ status = 0 => ParseResponse(f).payload = v

(* The tool reads a success with its value.                                *)
LEMMA SuccessIsRead ==
    ASSUME NEW a \in (0..127) \X Byte, NEW c \in Byte, NEW v \in Small(250)
    PROVE  /\ ReadsResponse(Wrap(Head5(a, <<128 + HostUsb[1], HostUsb[2]>>, c) \o v), a, c, 0, v)
           /\ Head5(a, <<128 + HostUsb[1], HostUsb[2]>>, c) \o v \in Bodies
<1> DEFINE h == Head5(a, <<128 + HostUsb[1], HostUsb[2]>>, c)
           b == h \o v
           f == Wrap(b)
<1>1. a[1] \in 0..127 /\ a[2] \in Byte
  OBVIOUS
<1>2. /\ h \in Seq(Byte) /\ Len(h) = 5 /\ h[1] = a[1] /\ h[2] = a[2] /\ h[3] = 142 /\ h[5] = c
  BY <1>1 DEF Head5, HostUsb, Byte
<1> HIDE DEF h
<1>3. v \in Seq(Byte) /\ Len(v) \in Nat /\ Len(v) <= 250
  BY SmallIs
<1>4. /\ b \in Seq(Byte) /\ Len(b) = Len(v) + 5 /\ \A k \in 1..5 : b[k] = h[k]
      /\ \A n \in Nat : n >= Len(v) => Slice(b, 6, n) = v
  BY <1>2, <1>3, Headed
<1> HIDE DEF b
<1>5. b[1] = a[1] /\ b[2] = a[2] /\ b[3] = 142 /\ b[5] = c
  BY <1>2, <1>4
<1>6. Slice(b, 6, Len(b)) = v
  BY <1>3, <1>4
<1>7. b \in Bodies
  BY <1>3, <1>4 DEF Bodies
<1>8. BodyOf(f) = b
  BY <1>7, WrapKeepsBody
<1>9. f \in Seq(Byte)
  BY <1>7, WrapType
<1> HIDE DEF f
<1>10. b # NotAFrame
  BY <1>4, NotAFrameAssumption DEF Byte
<1>11. ~(Len(b) < 5) /\ ~Flagged(b[1]) /\ Low7(b[3]) = HostUsb[1] /\ Flagged(b[3])
  <2>1. ~(Len(b) < 5)
    BY <1>3, <1>4
  <2>2. ~Flagged(b[1])
    BY <1>1, <1>5 DEF Flagged
  <2>3. Low7(142) = HostUsb[1] /\ Flagged(142)
    BY DEF Flagged, Low7, HostUsb
  <2> QED BY <1>5, <2>1, <2>2, <2>3, Zenon
<1>12. ParseNotify(f) = NotAFrame
  BY <1>8, <1>11, Zenon DEF ParseNotify
<1>13. ParseResponse(f) = [addr |-> <<b[1], b[2]>>, type |-> b[5] \div 16, seq |-> b[5] % 16,
                           status |-> 0, payload |-> Slice(b, 6, Len(b))]
  BY <1>8, <1>10, <1>11, Zenon DEF ParseResponse
<1>14. PICK r : r = [addr |-> <<a[1], a[2]>>, type |-> c \div 16, seq |-> c % 16, status |-> 0, payload |-> v]
  OBVIOUS
<1>15. ParseResponse(f) = r
  BY <1>5, <1>6, <1>13, <1>14, Zenon
<1>16. r \in [addr : Seq(0..255), type : Nat, seq : Nat, status : Nat, payload : Seq(0..255)]
  <2>1. <<a[1], a[2]>> \in Seq(0..255)
    BY <1>1 DEF Byte
  <2>2. c \div 16 \in Nat /\ c % 16 \in Nat /\ v \in Seq(0..255)
    BY <1>3 DEF Byte
  <2> QED BY <1>14, <2>1, <2>2
<1>17. ParseResponse(f) # NotAFrame
  BY <1>15, <1>16, NotAFrameAssumption, Zenon
<1>18. r.addr = <<a[1], a[2]>> /\ r.type = c \div 16 /\ r.seq = c % 16 /\ r.status = 0 /\ r.payload = v
  BY <1>14
<1>19. ReadsResponse(f, a, c, 0, v)
  BY <1>9, <1>12, <1>15, <1>17, <1>18, Zenon DEF ReadsResponse
<1> QED BY <1>7, <1>19 DEF f, b, h

(* The tool reads a failure with its status.                               *)
LEMMA FailureIsRead ==
    ASSUME NEW a \in (0..127) \X Byte, NEW c \in Byte, NEW status \in 1..255
    PROVE  /\ ReadsResponse(Wrap(Head5(a, HostUsb, c) \o <<status>>), a, c, status, <<>>)
           /\ Head5(a, HostUsb, c) \o <<status>> \in Bodies
<1> DEFINE h == Head5(a, HostUsb, c)
           f == Wrap(h \o <<status>>)
<1>1. a[1] \in 0..127 /\ a[2] \in Byte
  OBVIOUS
<1>2. /\ h \in Seq(Byte) /\ Len(h) = 5 /\ h[1] = a[1] /\ h[2] = a[2] /\ h[3] = 14 /\ h[5] = c
  BY <1>1 DEF Head5, HostUsb, Byte
<1> HIDE DEF h
<1>3. <<status>> \in Seq(Byte) /\ Len(<<status>>) = 1 /\ <<status>>[1] = status
  BY DEF Byte
<1>4. PICK v \in Seq(Byte) : v = <<status>> /\ Len(v) = 1 /\ v[1] = status
  BY <1>3, Zenon
<1>5. /\ h \o v \in Seq(Byte) /\ Len(h \o v) = Len(v) + 5 /\ \A k \in 1..5 : (h \o v)[k] = h[k]
      /\ \A k \in 1..Len(v) : (h \o v)[k + 5] = v[k]
  BY <1>2, Headed
<1>6. PICK b \in Seq(Byte) : b = h \o v
  BY <1>5
<1>7. Len(b) = 6 /\ b[1] = a[1] /\ b[2] = a[2] /\ b[3] = 14 /\ b[5] = c /\ b[6] = status
  <2>1. Len(b) = 6 /\ b[1] = a[1] /\ b[2] = a[2] /\ b[3] = 14 /\ b[5] = c
    BY <1>2, <1>4, <1>5, <1>6
  <2>2. PICK k \in 1..1 : k + 5 = 6 /\ k = 1
    OBVIOUS
  <2>3. b[k + 5] = v[k]
    BY <1>4, <1>5, <1>6, <2>2
  <2> QED BY <1>4, <2>1, <2>2, <2>3, Zenon
<1>8. b \in Bodies
  <2>1. 6 < 256
    OBVIOUS
  <2> QED BY <1>7, <2>1, Zenon DEF Bodies
<1>9. f = Wrap(b)
  BY <1>4, <1>6, Zenon
<1>10. BodyOf(f) = b
  BY <1>8, <1>9, WrapKeepsBody
<1>11. f \in Seq(Byte)
  BY <1>8, <1>9, WrapType
<1> HIDE DEF f
<1>12. b # NotAFrame
  BY NotAFrameAssumption DEF Byte
<1>13. ~(Len(b) < 5) /\ Len(b) >= 6 /\ ~Flagged(b[1]) /\ Low7(b[3]) = HostUsb[1] /\ ~Flagged(b[3])
  <2>1. ~(Len(b) < 5) /\ Len(b) >= 6
    <3>1. PICK n \in Nat : n = 6
      OBVIOUS
    <3>2. ~(n < 5) /\ n >= 6 /\ Len(b) = n
      BY <1>7, <3>1
    <3> QED BY <3>2, Zenon
  <2>2. ~Flagged(b[1])
    <3>1. PICK x \in 0..127 : x = a[1]
      BY <1>1
    <3>2. ~Flagged(x)
      BY DEF Flagged
    <3> QED BY <1>7, <3>1, <3>2, Zenon
  <2>3. Low7(14) = HostUsb[1] /\ ~Flagged(14)
    BY DEF Flagged, Low7, HostUsb
  <2> QED BY <1>7, <2>1, <2>2, <2>3, Zenon
<1>14. ParseNotify(f) = NotAFrame
  BY <1>10, <1>13, Zenon DEF ParseNotify
<1>15. ParseResponse(f) = [addr |-> <<b[1], b[2]>>, type |-> b[5] \div 16, seq |-> b[5] % 16,
                           status |-> b[6], payload |-> Slice(b, 7, Len(b))]
  BY <1>10, <1>12, <1>13, Zenon DEF ParseResponse
<1>16. PICK p : p = Slice(b, 7, Len(b))
  OBVIOUS
<1>17. PICK r : r = [addr |-> <<a[1], a[2]>>, type |-> c \div 16, seq |-> c % 16, status |-> status, payload |-> p]
  OBVIOUS
<1>18. ParseResponse(f) = r
  BY <1>7, <1>15, <1>16, <1>17, Zenon
<1>19. r \in [addr : Seq(0..255), type : Nat, seq : Nat, status : Nat, payload : Seq(0..255)]
  <2>1. <<a[1], a[2]>> \in Seq(0..255)
    BY <1>1 DEF Byte
  <2>2. c \div 16 \in Nat /\ c % 16 \in Nat
    BY DEF Byte
  <2>3. p \in Seq(Byte)
    <3>1. PICK n \in Nat : n = Len(b)
      BY <1>7
    <3>2. PICK i \in Nat : i = 7 /\ i > 0
      OBVIOUS
    <3>3. Slice(b, i, n) \in Seq(Byte)
      BY <3>2, SliceType
    <3> QED BY <1>16, <3>1, <3>2, <3>3, Zenon
  <2>4. p \in Seq(0..255)
    BY <2>3 DEF Byte
  <2> QED BY <1>17, <2>1, <2>2, <2>4
<1>20. ParseResponse(f) # NotAFrame
  BY <1>18, <1>19, NotAFrameAssumption, Zenon
<1>21. r.addr = <<a[1], a[2]>> /\ r.type = c \div 16 /\ r.seq = c % 16 /\ r.status = status
  BY <1>17
<1>22. status # 0
  OBVIOUS
<1>23. ReadsResponse(f, a, c, status, <<>>)
  BY <1>11, <1>14, <1>18, <1>20, <1>21, <1>22, Zenon DEF ReadsResponse
<1> QED BY <1>4, <1>6, <1>8, <1>23, Zenon DEF f, h

-----------------------------------------------------------------------------
(***************************************************************************)
(* Answers: what the frame of an answer is parsed to.                      *)
(***************************************************************************)
\* The host of a transport, the frame that the tool has of a body, and the
\* bodies that a transport carries to it.
Host(t) == IF t = "ble" THEN HostBle ELSE HostUsb

FrameOf(t, b) == IF t = "ble" THEN Rebuild(b) ELSE Wrap(b)

BodiesOver(t) == IF t = "ble" THEN Others ELSE Bodies

(* What is sent to the address of the app is read as if it was sent to the *)
(* USB bridge, and is none of the bike's own requests.                     *)
LEMMA BleReadsAsUsb ==
    ASSUME NEW a \in (0..127) \X Byte, NEW c \in Byte, NEW v \in Seq(Byte), NEW flag \in {0, 128},
           Head5(a, <<flag + HostUsb[1], HostUsb[2]>>, c) \o v \in Bodies
    PROVE  /\ Rebuild(Head5(a, <<flag + HostBle[1], HostBle[2]>>, c) \o v)
                = Wrap(Head5(a, <<flag + HostUsb[1], HostUsb[2]>>, c) \o v)
           /\ Head5(a, <<flag + HostBle[1], HostBle[2]>>, c) \o v \in Others
<1> DEFINE g == Head5(a, <<flag + HostUsb[1], HostUsb[2]>>, c)
           h == Head5(a, <<flag + HostBle[1], HostBle[2]>>, c)
           u == g \o v
           b == h \o v
           half == [u EXCEPT ![3] = flag + HostBle[1]]
           x == [half EXCEPT ![4] = HostBle[2]]
<1>0. u \in Bodies /\ HostUsb[1] = 14 /\ HostUsb[2] = 16 /\ HostBle[1] = 65 /\ HostBle[2] = 128
  BY DEF HostUsb, HostBle
<1>1. a[1] \in Byte /\ a[2] \in Byte
  BY DEF Byte
<1>2. /\ g \in Seq(Byte) /\ Len(g) = 5 /\ g[1] = a[1] /\ g[2] = a[2] /\ g[3] = flag + 14 /\ g[4] = 16 /\ g[5] = c
  BY <1>0, <1>1 DEF Head5, Byte
<1>3. /\ h \in Seq(Byte) /\ Len(h) = 5 /\ h[1] = a[1] /\ h[2] = a[2] /\ h[3] = flag + 65 /\ h[4] = 128 /\ h[5] = c
  BY <1>0, <1>1 DEF Head5, Byte
<1> HIDE DEF g, h
<1>4. /\ u \in Seq(Byte) /\ Len(v) \in Nat /\ Len(u) = Len(v) + 5 /\ \A k \in 1..5 : u[k] = g[k]
      /\ \A k \in 1..Len(v) : u[k + 5] = v[k]
  BY <1>2, Headed
<1>5. /\ b \in Seq(Byte) /\ Len(b) = Len(v) + 5 /\ \A k \in 1..5 : b[k] = h[k]
      /\ \A k \in 1..Len(v) : b[k + 5] = v[k]
  BY <1>3, Headed
<1> HIDE DEF u, b
<1>6. 3 \in 1..Len(u) /\ 4 \in 1..Len(u) /\ Len(u) >= 4 /\ flag + 65 \in Byte /\ 128 \in Byte
  BY <1>4 DEF Byte
<1>7. /\ half \in Seq(Byte) /\ Len(half) = Len(u)
      /\ \A j \in 1..Len(u) : half[j] = IF j = 3 THEN flag + 65 ELSE u[j]
  BY <1>0, <1>4, <1>6, ExceptSeq
<1>8. /\ x \in Seq(Byte) /\ Len(x) = Len(u)
      /\ \A j \in 1..Len(u) : x[j] = IF j = 4 THEN 128 ELSE half[j]
  <2> HIDE DEF half
  <2> QED BY <1>0, <1>6, <1>7, ExceptSeq
<1>9. [u EXCEPT ![3] = flag + HostBle[1], ![4] = HostBle[2]] = x
  OBVIOUS
<1> HIDE DEF half, x
<1>10. \A j \in 1..Len(u) : x[j] = b[j]
  <2> SUFFICES ASSUME NEW j \in 1..Len(u) PROVE x[j] = b[j]
    OBVIOUS
  <2>1. CASE j \in 1..5
    BY <1>2, <1>3, <1>4, <1>5, <1>7, <1>8, <2>1
  <2>2. CASE j \notin 1..5
    <3>1. PICK k \in 1..Len(v) : j = k + 5
      <4>1. j - 5 \in 1..Len(v) /\ j = (j - 5) + 5
        BY <1>4, <2>2
      <4> QED BY <4>1
    <3>2. x[j] = u[j]
      BY <1>7, <1>8, <2>2
    <3>3. u[k + 5] = v[k] /\ b[k + 5] = v[k]
      BY <1>4, <1>5
    <3> QED BY <3>1, <3>2, <3>3
  <2> QED BY <2>1, <2>2
<1>11. x = b
  <2>1. Len(x) = Len(b)
    BY <1>4, <1>5, <1>8
  <2> QED BY <1>5, <1>8, <1>10, <2>1, SeqEqual
<1>12. u[3] = flag + HostUsb[1] /\ u[4] = HostUsb[2]
  BY <1>0, <1>2, <1>4
<1>13. Rebuild([u EXCEPT ![3] = flag + HostBle[1], ![4] = HostBle[2]]) = Wrap(u)
  BY <1>0, <1>6, <1>12, BluetoothReadsAsUsb
<1>14. Rebuild(b) = Wrap(u)
  BY <1>9, <1>11, <1>13, Zenon
<1>15. b \in Bodies
  <2>1. Len(u) < 256
    BY <1>0 DEF Bodies
  <2>2. Len(b) = Len(u)
    BY <1>4, <1>5
  <2> QED BY <1>5, <2>1, <2>2, Zenon DEF Bodies
<1>16. ~IsMobileAppRequest(b)
  <2>1. b[3] = flag + 65
    BY <1>3, <1>5
  <2>2. Low7(flag + 65) # MobileAppHigh
    BY DEF Low7, MobileAppHigh
  <2> QED BY <2>1, <2>2, Zenon DEF IsMobileAppRequest
<1> QED BY <1>14, <1>15, <1>16 DEF Others, u, b, g, h

AnswerReads(t, a, c, b, status, v) == ReadsResponse(FrameOf(t, b), a, c, status, v) /\ b \in BodiesOver(t)

(* An answer of the bike is read as it was meant, over each transport.     *)
THEOREM AnswerIsRead ==
    ASSUME NEW t \in {"usb", "ble"}, NEW a \in (0..127) \X Byte, NEW c \in Byte
    PROVE  /\ \A v \in Small(250) :
                  AnswerReads(t, a, c, Head5(a, <<128 + Host(t)[1], Host(t)[2]>>, c) \o v, 0, v)
           /\ \A status \in 1..255 : AnswerReads(t, a, c, Head5(a, Host(t), c) \o <<status>>, status, <<>>)
<1>0. /\ \A h : Head5(a, h, c) = Head5(a, <<0 + h[1], h[2]>>, c) \/ h[1] \notin Nat
      /\ HostUsb[1] \in Nat /\ HostBle[1] \in Nat
  BY DEF Head5, HostUsb, HostBle
<1>1. ASSUME NEW v \in Small(250)
      PROVE  /\ ReadsResponse(FrameOf(t, Head5(a, <<128 + Host(t)[1], Host(t)[2]>>, c) \o v), a, c, 0, v)
             /\ Head5(a, <<128 + Host(t)[1], Host(t)[2]>>, c) \o v \in BodiesOver(t)
  <2>1. /\ ReadsResponse(Wrap(Head5(a, <<128 + HostUsb[1], HostUsb[2]>>, c) \o v), a, c, 0, v)
        /\ Head5(a, <<128 + HostUsb[1], HostUsb[2]>>, c) \o v \in Bodies
    BY SuccessIsRead
  <2>2. CASE t = "usb"
    <3>1. t # "ble"
      BY <2>2
    <3> QED BY <2>1, <3>1, Zenon DEF FrameOf, Host, BodiesOver
  <2>3. CASE t = "ble"
    <3>1. PICK flag \in {0, 128} : flag = 128
      OBVIOUS
    <3>2. v \in Seq(Byte)
      BY SmallIs
    <3>3. Head5(a, <<flag + HostUsb[1], HostUsb[2]>>, c) \o v \in Bodies
      BY <2>1, <3>1, Zenon
    <3>4. /\ Rebuild(Head5(a, <<flag + HostBle[1], HostBle[2]>>, c) \o v)
                = Wrap(Head5(a, <<flag + HostUsb[1], HostUsb[2]>>, c) \o v)
          /\ Head5(a, <<flag + HostBle[1], HostBle[2]>>, c) \o v \in Others
      BY <3>2, <3>3, BleReadsAsUsb, ZenonT(60)
    <3> QED BY <2>1, <2>3, <3>1, <3>4, Zenon DEF FrameOf, Host, BodiesOver
  <2> QED BY <2>2, <2>3
<1>2. ASSUME NEW status \in 1..255
      PROVE  /\ ReadsResponse(FrameOf(t, Head5(a, Host(t), c) \o <<status>>), a, c, status, <<>>)
             /\ Head5(a, Host(t), c) \o <<status>> \in BodiesOver(t)
  <2>1. /\ ReadsResponse(Wrap(Head5(a, HostUsb, c) \o <<status>>), a, c, status, <<>>)
        /\ Head5(a, HostUsb, c) \o <<status>> \in Bodies
    BY FailureIsRead
  <2>2. CASE t = "usb"
    <3>1. t # "ble"
      BY <2>2
    <3> QED BY <2>1, <3>1, Zenon DEF FrameOf, Host, BodiesOver
  <2>3. CASE t = "ble"
    <3>1. PICK flag \in {0, 128} : flag = 0
      OBVIOUS
    <3>2. <<status>> \in Seq(Byte)
      BY DEF Byte
    <3>5. PICK v \in Seq(Byte) : v = <<status>>
      BY <3>2, Zenon
    <3>6. /\ Head5(a, <<flag + HostUsb[1], HostUsb[2]>>, c) = Head5(a, HostUsb, c)
          /\ Head5(a, <<flag + HostBle[1], HostBle[2]>>, c) = Head5(a, HostBle, c)
      BY <1>0, <3>1, Zenon
    <3>3. Head5(a, <<flag + HostUsb[1], HostUsb[2]>>, c) \o v \in Bodies
      BY <2>1, <3>5, <3>6, Zenon
    <3>4. /\ Rebuild(Head5(a, <<flag + HostBle[1], HostBle[2]>>, c) \o v)
                = Wrap(Head5(a, <<flag + HostUsb[1], HostUsb[2]>>, c) \o v)
          /\ Head5(a, <<flag + HostBle[1], HostBle[2]>>, c) \o v \in Others
      BY <3>3, BleReadsAsUsb, ZenonT(60)
    <3> QED BY <2>1, <2>3, <3>4, <3>5, <3>6, Zenon DEF FrameOf, Host, BodiesOver
  <2> QED BY <2>2, <2>3
<1> QED BY <1>1, <1>2, Zenon DEF AnswerReads

-----------------------------------------------------------------------------
(***************************************************************************)
(* Messages field by field.                                                *)
(***************************************************************************)
(***************************************************************************)
(* A message of numbered fields, each of them a number, a run of bytes or  *)
(* left out, as every decoder that knows its wire types finds it.          *)
(***************************************************************************)
Sendable == 0..(2^Word - 1)

Texts == Small(250)

\* The loop keeps the fields it meets, of the wire types it knows.
Hears(read, p, wireTypes) ==
    /\ LoopOver(read, p, FieldSet)
    /\ 0 \in wireTypes => \A num \in 1..15, v \in Sendable : Yields(read, p, Number(num, v), <<FieldOf(num, v)>>)
    /\ 2 \in wireTypes => \A num \in 1..15, s \in Texts : Yields(read, p, Delimited(num, s), <<FieldOf(num, s)>>)

\* The fields 1 to n, those in B runs of bytes, those that are None left out:
\* in bytes, and as found.
FieldBytes(n, B, g) ==
    [f \in 1..n |-> IF g[f] = None THEN <<>> ELSE IF f \in B THEN Delimited(f, g[f]) ELSE Number(f, g[f])]

Fieldwise(n, B, g) == Flatten(FieldBytes(n, B, g))

FoundParts(n, g) == [f \in 1..n |-> IF g[f] = None THEN <<>> ELSE <<FieldOf(f, g[f])>>]

Found(n, g) == Flatten(FoundParts(n, g))

\* What the fields may be.
Fillings(n, B) ==
    {g \in [1..n -> Sendable \cup Texts \cup {None}] :
        \A f \in 1..n : g[f] = None \/ (f \in B /\ g[f] \in Texts) \/ (f \notin B /\ g[f] \in Sendable)}

(* The decoders hear numbers and bytes.                                    *)
LEMMA DecodersHear ==
    ASSUME NEW p \in Seq(Byte)
    PROVE  /\ \A wireTypes : \A exact \in BOOLEAN : Hears(FieldsIn(p, wireTypes, exact), p, wireTypes)
           /\ Hears(TaggedIn(p), p, {0, 2})
<1>1. \A v \in Sendable : v \in Nat /\ v < 2^Word
  BY WordHolds DEF Sendable
<1>2. \A s \in Texts : s \in Seq(Byte) /\ Len(s) < 2^Word
  <2> SUFFICES ASSUME NEW s \in Texts PROVE s \in Seq(Byte) /\ Len(s) < 2^Word
    OBVIOUS
  <2>1. s \in Seq(Byte) /\ Len(s) \in Nat /\ Len(s) <= 250
    <3>1. 250 \in Nat /\ s \in Small(250)
      BY DEF Texts
    <3> QED BY <3>1, SmallIs
  <2> QED BY <2>1, WordHolds
<1>3. ASSUME NEW wireTypes, NEW exact \in BOOLEAN
      PROVE  Hears(FieldsIn(p, wireTypes, exact), p, wireTypes)
  <2>1. LoopOver(FieldsIn(p, wireTypes, exact), p, FieldSet)
    BY FieldLoops
  <2>2. ASSUME 0 \in wireTypes, NEW num \in 1..15, NEW v \in Sendable
        PROVE  Yields(FieldsIn(p, wireTypes, exact), p, Number(num, v), <<FieldOf(num, v)>>)
    BY <1>1, <2>2, NumberYields
  <2>3. ASSUME 2 \in wireTypes, NEW num \in 1..15, NEW s \in Texts
        PROVE  Yields(FieldsIn(p, wireTypes, exact), p, Delimited(num, s), <<FieldOf(num, s)>>)
    BY <1>2, <2>3, DelimitedYields
  <2> QED BY <2>1, <2>2, <2>3 DEF Hears
<1>4. Hears(TaggedIn(p), p, {0, 2})
  <2>1. LoopOver(TaggedIn(p), p, FieldSet)
    BY FieldLoops
  <2>2. ASSUME NEW num \in 1..15, NEW v \in Sendable
        PROVE  Yields(TaggedIn(p), p, Number(num, v), <<FieldOf(num, v)>>)
    BY <1>1, NumberYieldsTagged
  <2>3. ASSUME NEW num \in 1..15, NEW s \in Texts
        PROVE  Yields(TaggedIn(p), p, Delimited(num, s), <<FieldOf(num, s)>>)
    BY <1>2, DelimitedYieldsTagged
  <2> QED BY <2>1, <2>2, <2>3 DEF Hears
<1> QED BY <1>3, <1>4

(* A field that is found.                                                  *)
LEMMA FieldOfType ==
    ASSUME NEW num \in Nat, NEW v \in Nat \cup Seq(Byte)
    PROVE  /\ FieldOf(num, v) \in FieldSet /\ <<FieldOf(num, v)>> \in Seq(FieldSet)
           /\ FieldOf(num, v).num = num /\ FieldOf(num, v).value = v
<1>1. FieldOf(num, v) \in FieldSet /\ FieldOf(num, v).num = num /\ FieldOf(num, v).value = v
  BY DEF FieldOf, FieldSet
<1>2. \A x \in FieldSet : <<x>> \in Seq(FieldSet)
  OBVIOUS
<1> QED BY <1>1, <1>2

(* The parts of such a message.                                            *)
LEMMA FieldwiseParts ==
    ASSUME NEW n \in 0..15, NEW B, NEW g \in Fillings(n, B)
    PROVE  /\ FieldBytes(n, B, g) \in Seq(Seq(Byte)) /\ Len(FieldBytes(n, B, g)) = n
           /\ FoundParts(n, g) \in Seq(Seq(FieldSet)) /\ Len(FoundParts(n, g)) = n
           /\ \A f \in 1..n : /\ FieldBytes(n, B, g)[f] = IF g[f] = None THEN <<>>
                                        ELSE IF f \in B THEN Delimited(f, g[f]) ELSE Number(f, g[f])
                              /\ FoundParts(n, g)[f] = IF g[f] = None THEN <<>> ELSE <<FieldOf(f, g[f])>>
           /\ Fieldwise(n, B, g) \in Seq(Byte) /\ Found(n, g) \in Seq(FieldSet)
<1> DEFINE parts == FieldBytes(n, B, g)
           xs == FoundParts(n, g)
<1>1. ASSUME NEW f \in 1..n
      PROVE  /\ parts[f] = IF g[f] = None THEN <<>> ELSE IF f \in B THEN Delimited(f, g[f]) ELSE Number(f, g[f])
             /\ xs[f] = IF g[f] = None THEN <<>> ELSE <<FieldOf(f, g[f])>>
  BY DEF FieldBytes, FoundParts
<1>2. DOMAIN parts = 1..n /\ parts = [f \in 1..n |-> parts[f]] /\ xs = [f \in 1..n |-> xs[f]]
  BY DEF FieldBytes, FoundParts
<1> HIDE DEF parts, xs
<1>3. ASSUME NEW f \in 1..n PROVE parts[f] \in Seq(Byte) /\ xs[f] \in Seq(FieldSet)
  <2>1. <<>> \in Seq(Byte) /\ <<>> \in Seq(FieldSet) /\ f \in 1..15 /\ f \in Nat
    BY EmptySeq
  <2>2. CASE g[f] = None
    BY <1>1, <2>1, <2>2
  <2>3. CASE g[f] # None /\ f \notin B
    <3>0. g[f] \in Nat
      BY <2>3, WordHolds DEF Fillings, Sendable
    <3>1. Number(f, g[f]) \in Seq(Byte)
      BY <2>1, <3>0, NumberType
    <3>3. <<FieldOf(f, g[f])>> \in Seq(FieldSet)
      BY <2>1, <3>0, FieldOfType
    <3> QED BY <1>1, <2>3, <3>1, <3>3, Zenon
  <2>4. CASE g[f] # None /\ f \in B
    <3>0. g[f] \in Seq(Byte)
      BY <2>4 DEF Fillings, Texts, Small
    <3>1. Delimited(f, g[f]) \in Seq(Byte)
      BY <2>1, <3>0, DelimitedType
    <3>3. <<FieldOf(f, g[f])>> \in Seq(FieldSet)
      BY <2>1, <3>0, FieldOfType
    <3> QED BY <1>1, <2>4, <3>1, <3>3, Zenon
  <2> QED BY <2>2, <2>3, <2>4
<1>4. parts \in Seq(Seq(Byte)) /\ Len(parts) = n
  BY <1>2, <1>3
<1>5. xs \in Seq(Seq(FieldSet)) /\ Len(xs) = n
  BY <1>2, <1>3
<1>6. Flatten(parts) \in Seq(Byte) /\ Flatten(xs) \in Seq(FieldSet)
  BY <1>4, <1>5, FlattenOfSeq
<1> QED BY <1>1, <1>4, <1>5, <1>6 DEF Fieldwise, Found, parts, xs

(* A message of numbers alone is short.                                    *)
LEMMA NumbersAreSmall ==
    ASSUME NEW n \in 0..15, NEW g \in Fillings(n, {})
    PROVE  Fieldwise(n, {}, g) \in Small(n * 6)
<1> DEFINE parts == FieldBytes(n, {}, g)
<1>1. DOMAIN parts = 1..n
  BY DEF FieldBytes
<1>2. \A f \in 1..n : parts[f] = IF g[f] = None THEN <<>> ELSE Number(f, g[f])
  BY DEF FieldBytes
<1> HIDE DEF parts
<1>3. ASSUME NEW f \in 1..n PROVE parts[f] \in Small(6)
  <2>1. <<>> \in Small(6)
    BY SmallBytes, SmallGrows
  <2>2. CASE g[f] = None
    BY <1>2, <2>1, <2>2
  <2>3. CASE g[f] # None
    <3>1. f \in 1..15 /\ g[f] \in 0..(2^Word - 1)
      BY <2>3 DEF Fillings, Sendable
    <3>2. Number(f, g[f]) \in Small(6)
      BY <3>1, SmallNumber
    <3> QED BY <1>2, <2>3, <3>2
  <2> QED BY <2>2, <2>3
<1>4. n \in Nat /\ 6 \in Nat
  OBVIOUS
<1> QED BY <1>1, <1>3, <1>4, SmallFlatten DEF Fieldwise, parts

(* The loop finds what was sent.                                           *)
LEMMA FieldwiseYields ==
    ASSUME NEW p \in Seq(Byte), NEW read, NEW wireTypes, Hears(read, p, wireTypes),
           NEW n \in 0..15, NEW B, NEW g \in Fillings(n, B),
           \A f \in 1..n : IF f \in B THEN 2 \in wireTypes ELSE 0 \in wireTypes
    PROVE  Yields(read, p, Fieldwise(n, B, g), Found(n, g))
<1>0. /\ FieldBytes(n, B, g) \in Seq(Seq(Byte)) /\ Len(FieldBytes(n, B, g)) = n
      /\ FoundParts(n, g) \in Seq(Seq(FieldSet)) /\ Len(FoundParts(n, g)) = n
  BY FieldwiseParts
<1>9. \A f \in 1..n : /\ FieldBytes(n, B, g)[f] = IF g[f] = None THEN <<>>
                                        ELSE IF f \in B THEN Delimited(f, g[f]) ELSE Number(f, g[f])
                     /\ FoundParts(n, g)[f] = IF g[f] = None THEN <<>> ELSE <<FieldOf(f, g[f])>>
  BY DEF FieldBytes, FoundParts
<1> DEFINE parts == FieldBytes(n, B, g)
           xs == FoundParts(n, g)
<1>1. /\ parts \in Seq(Seq(Byte)) /\ Len(parts) = n /\ xs \in Seq(Seq(FieldSet)) /\ Len(xs) = n
      /\ \A f \in 1..n : /\ parts[f] = IF g[f] = None THEN <<>>
                                        ELSE IF f \in B THEN Delimited(f, g[f]) ELSE Number(f, g[f])
                         /\ xs[f] = IF g[f] = None THEN <<>> ELSE <<FieldOf(f, g[f])>>
  BY <1>0, <1>9, Zenon
<1> HIDE DEF parts, xs
<1>2. LoopOver(read, p, FieldSet)
  BY DEF Hears
<1>3. ASSUME NEW f \in 1..n PROVE Yields(read, p, parts[f], xs[f])
  <2>0. f \in 1..15
    OBVIOUS
  <2>1. CASE g[f] = None
    BY <1>1, <1>2, <2>1, YieldsNothing
  <2>2. CASE g[f] # None /\ f \notin B
    <3>1. g[f] \in Sendable /\ 0 \in wireTypes
      BY <2>2 DEF Fillings
    <3>2. Yields(read, p, Number(f, g[f]), <<FieldOf(f, g[f])>>)
      BY <2>0, <3>1 DEF Hears
    <3> QED BY <1>1, <2>2, <3>2, Zenon
  <2>3. CASE g[f] # None /\ f \in B
    <3>1. g[f] \in Texts /\ 2 \in wireTypes
      BY <2>3 DEF Fillings
    <3>2. Yields(read, p, Delimited(f, g[f]), <<FieldOf(f, g[f])>>)
      BY <2>0, <3>1 DEF Hears
    <3> QED BY <1>1, <2>3, <3>2, Zenon
  <2> QED BY <2>1, <2>2, <2>3
<1>4. \A k \in 1..Len(parts) : Yields(read, p, parts[k], xs[k])
  BY <1>1, <1>3
<1>5. Yields(read, p, Flatten(parts), Flatten(xs))
  <2>1. parts \in Seq(Seq(Byte)) /\ xs \in Seq(Seq(FieldSet)) /\ Len(xs) = Len(parts)
    BY <1>1
  <2> QED BY <1>2, <1>4, <2>1, YieldsParts
<1> QED BY <1>5 DEF Fieldwise, Found, parts, xs

(* And every field has the value that was sent.                            *)
LEMMA FoundTells ==
    ASSUME NEW n \in 0..15, NEW B, NEW g \in Fillings(n, B), NEW num
    PROVE  /\ num \in 1..n => \A d : Value(Found(n, g), num, d) = IF g[num] = None THEN d ELSE g[num]
           /\ num \notin 1..n => Silent(Found(n, g), num)
<1>0. /\ FieldBytes(n, B, g) \in Seq(Seq(Byte)) /\ Len(FieldBytes(n, B, g)) = n
      /\ FoundParts(n, g) \in Seq(Seq(FieldSet)) /\ Len(FoundParts(n, g)) = n
  BY FieldwiseParts
<1>9. \A f \in 1..n : /\ FieldBytes(n, B, g)[f] = IF g[f] = None THEN <<>>
                                        ELSE IF f \in B THEN Delimited(f, g[f]) ELSE Number(f, g[f])
                     /\ FoundParts(n, g)[f] = IF g[f] = None THEN <<>> ELSE <<FieldOf(f, g[f])>>
  BY DEF FieldBytes, FoundParts
<1> DEFINE xs == FoundParts(n, g)
<1>1. /\ xs \in Seq(Seq(FieldSet)) /\ Len(xs) = n
      /\ \A f \in 1..n : xs[f] = IF g[f] = None THEN <<>> ELSE <<FieldOf(f, g[f])>>
  BY <1>0, <1>9, Zenon
<1> HIDE DEF xs
<1>2. ASSUME NEW f \in 1..n, NEW d
      PROVE  Value(xs[f], num, d) = IF g[f] # None /\ f = num THEN g[f] ELSE d
  <2>1. CASE g[f] = None
    BY <1>1, <2>1, ValueOfNone
  <2>2. CASE g[f] # None
    <3> DEFINE x == FieldOf(f, g[f])
    <3>0. x.num = f /\ x.value = g[f]
      BY DEF FieldOf
    <3>2. xs[f] = <<x>>
      BY <1>1, <2>2
    <3> HIDE DEF x
    <3>1. Value(<<x>>, num, d) = IF x.num = num THEN x.value ELSE d
      BY ValueOfOne
    <3> QED BY <2>2, <3>0, <3>1, <3>2, Zenon
  <2> QED BY <2>1, <2>2
<1>3. ASSUME num \in 1..n PROVE \A d : Value(Flatten(xs), num, d) = IF g[num] = None THEN d ELSE g[num]
  <2>1. ASSUME NEW k \in 1..n, k # num PROVE Silent(xs[k], num)
    BY <1>2, <2>1 DEF Silent
  <2>2. \A d : Value(Flatten(xs), num, d) = Value(xs[num], num, d)
    BY <1>1, <1>3, <2>1, ValueOfParts
  <2> QED BY <1>2, <1>3, <2>2
<1>4. ASSUME num \notin 1..n PROVE Silent(Flatten(xs), num)
  <2>1. ASSUME NEW k \in 1..Len(xs) PROVE Silent(xs[k], num)
    BY <1>1, <1>2, <1>4 DEF Silent
  <2> QED BY <1>1, <2>1, ValueOfSilentParts
<1> QED BY <1>3, <1>4 DEF Found, xs

(* The decoders take such a message apart.                                 *)
LEMMA MessageIsRead ==
    ASSUME NEW n \in 0..15, NEW B, NEW g \in Fillings(n, B)
    PROVE  /\ \A wireTypes : \A exact \in BOOLEAN :
                  (\A f \in 1..n : IF f \in B THEN 2 \in wireTypes ELSE 0 \in wireTypes) =>
                      Fields(Fieldwise(n, B, g), wireTypes, exact) = Found(n, g)
           /\ ParseFields(Fieldwise(n, B, g)) = Found(n, g)
<1>1. PICK p \in Seq(Byte) : p = Fieldwise(n, B, g)
  BY FieldwiseParts
<1>2. PICK xs \in Seq(FieldSet) : xs = Found(n, g)
  BY FieldwiseParts
<1>3. ASSUME NEW wireTypes, NEW exact \in BOOLEAN, \A f \in 1..n : IF f \in B THEN 2 \in wireTypes ELSE 0 \in wireTypes
      PROVE  Fields(p, wireTypes, exact) = xs
  <2>1. PICK read : read = FieldsIn(p, wireTypes, exact)
    OBVIOUS
  <2>2. Hears(read, p, wireTypes)
    BY <2>1, DecodersHear
  <2>3. Yields(read, p, Fieldwise(n, B, g), Found(n, g))
    BY <1>3, <2>2, FieldwiseYields
  <2>4. Yields(read, p, p, xs)
    BY <1>1, <1>2, <2>3, Zenon
  <2>5. LoopOver(read, p, FieldSet)
    BY <2>2 DEF Hears
  <2>6. Walk(read, 1) = xs
    BY <2>4, <2>5, YieldsAll
  <2> QED BY <2>1, <2>6 DEF Fields, FieldsIn
<1>4. ParseFields(p) = xs
  <2>1. PICK read : read = TaggedIn(p)
    OBVIOUS
  <2>2. Hears(read, p, {0, 2})
    BY <2>1, DecodersHear
  <2>0. \A f \in 1..n : IF f \in B THEN 2 \in {0, 2} ELSE 0 \in {0, 2}
    OBVIOUS
  <2>3. Yields(read, p, Fieldwise(n, B, g), Found(n, g))
    BY <2>0, <2>2, FieldwiseYields
  <2>4. Yields(read, p, p, xs)
    BY <1>1, <1>2, <2>3, Zenon
  <2>5. LoopOver(read, p, FieldSet)
    BY <2>2 DEF Hears
  <2>6. Walk(read, 1) = xs
    BY <2>4, <2>5, YieldsAll
  <2> QED BY <2>1, <2>6 DEF ParseFields, TaggedIn
<1> QED BY <1>1, <1>2, <1>3, <1>4

-----------------------------------------------------------------------------
(***************************************************************************)
(* The record of the settings.                                             *)
(***************************************************************************)
\* As the tool has it, and as the bike has it.
Records == {g \in Fillings(8, {}) : g[8] \in {0, 1, None}}

(* What the fields of a record may be.                                     *)
LEMMA RecordIs ==
    ASSUME NEW g
    PROVE  /\ g \in Records <=> g \in [1..8 -> Sendable \cup {None}] /\ g[8] \in {0, 1, None}
           /\ g \in Records => g \in Fillings(8, {})
<1>1. g \in [1..8 -> Sendable \cup Texts \cup {None}] /\ (\A f \in 1..8 : g[f] = None \/ g[f] \in Sendable)
        <=> g \in [1..8 -> Sendable \cup {None}]
  <2>1. ASSUME g \in [1..8 -> Sendable \cup Texts \cup {None}], \A f \in 1..8 : g[f] = None \/ g[f] \in Sendable
        PROVE  g \in [1..8 -> Sendable \cup {None}]
    BY <2>1
  <2>2. ASSUME g \in [1..8 -> Sendable \cup {None}]
        PROVE  g \in [1..8 -> Sendable \cup Texts \cup {None}] /\ (\A f \in 1..8 : g[f] = None \/ g[f] \in Sendable)
    BY <2>2
  <2> QED BY <2>1, <2>2
<1>2. g \in Fillings(8, {}) <=>
        g \in [1..8 -> Sendable \cup Texts \cup {None}] /\ (\A f \in 1..8 : g[f] = None \/ g[f] \in Sendable)
  BY DEF Fillings
<1> QED BY <1>1, <1>2 DEF Records

(* The tool reads back the record that is encoded, field by field.         *)
THEOREM RecordComesBack ==
    ASSUME NEW g \in Records
    PROVE  DecodeUdamParams(Fieldwise(8, {}, g)) = g
<1>0. 8 \in 0..15 /\ g \in Fillings(8, {}) /\ FALSE \in BOOLEAN
  BY RecordIs
<1>1. Fields(Fieldwise(8, {}, g), {0}, FALSE) = Found(8, g)
  <2>1. \A f \in 1..8 : IF f \in {} THEN 2 \in {0} ELSE 0 \in {0}
    OBVIOUS
  <2> QED BY <1>0, <2>1, MessageIsRead
<1>2. PICK xs : xs = Found(8, g)
  OBVIOUS
<1>3. ASSUME NEW f \in 1..8 PROVE Value(xs, f, None) = g[f]
  BY <1>0, <1>2, FoundTells
<1>4. g \in [1..8 -> Sendable \cup {None}] /\ g[8] \in {0, 1, None}
  BY RecordIs
<1>5. PICK h : h = UdamParamsIn(xs)
  OBVIOUS
<1>6. h = [f \in 1..8 |-> IF f = 8 THEN (IF Value(xs, f, None) \in {None, 0} THEN Value(xs, f, None) ELSE 1)
                          ELSE Value(xs, f, None)]
  BY <1>5 DEF UdamParamsIn, UdamFields, UdamFlag
<1>7. h = g
  <2>1. ASSUME NEW f \in 1..8 PROVE h[f] = g[f]
    BY <1>3, <1>4, <1>6, <2>1
  <2> QED BY <1>4, <1>6, <2>1
<1> QED BY <1>1, <1>2, <1>5, <1>7 DEF DecodeUdamParams

(* What stands behind the same bytes is the same.                          *)
LEMMA SameBehind ==
    ASSUME NEW a \in Seq(Byte), NEW s \in Seq(Byte), NEW t \in Seq(Byte), a \o s = a \o t
    PROVE  s = t
<1>1. PICK l \in Nat, m \in Nat, n \in Nat : l = Len(a) /\ m = Len(s) /\ n = Len(t)
  BY LenProperties
<1>2. /\ a \o s \in Seq(Byte) /\ Len(a \o s) = Len(a) + Len(s)
      /\ \A i \in 1..(Len(a) + Len(s)) : (a \o s)[i] = IF i <= Len(a) THEN a[i] ELSE s[i - Len(a)]
  BY ConcatProperties
<1>3. /\ a \o t \in Seq(Byte) /\ Len(a \o t) = Len(a) + Len(t)
      /\ \A i \in 1..(Len(a) + Len(t)) : (a \o t)[i] = IF i <= Len(a) THEN a[i] ELSE t[i - Len(a)]
  BY ConcatProperties
<1>4. PICK u \in Seq(Byte) : u = a \o s /\ u = a \o t
  BY <1>2
<1>5. m = n /\ Len(u) = l + m
  BY <1>1, <1>2, <1>3, <1>4
<1>6. ASSUME NEW k \in 1..m PROVE s[k] = t[k]
  <2>1. PICK i \in Nat : i = l + k
    OBVIOUS
  <2>2. i \in 1..(l + m) /\ ~(i <= l) /\ i - l = k
    BY <1>1, <2>1
  <2>3. u[i] = s[i - l]
    BY <1>1, <1>2, <1>4, <2>2
  <2>4. u[i] = t[i - l]
    BY <1>1, <1>3, <1>4, <1>5, <2>2
  <2> QED BY <2>2, <2>3, <2>4
<1>7. Len(s) = Len(t) /\ \A k \in 1..Len(s) : s[k] = t[k]
  BY <1>1, <1>5, <1>6
<1> QED BY <1>7, SeqEqual

(* A length below 128 is a byte of its own.                                *)
LEMMA LenDelimitedIs ==
    ASSUME NEW num \in 1..15, NEW s \in Texts
    PROVE  LenDelimited(num, s) = Delimited(num, s)
<1>0. 250 \in Nat /\ s \in Small(250)
  BY DEF Texts
<1>1. s \in Seq(Byte) /\ Len(s) \in Nat /\ Len(s) <= 250
  BY <1>0, SmallIs
<1>2. PICK n \in Nat : n = Len(s) /\ n < 2^Word
  BY <1>1, WordHolds
<1>3. EncodeVarint(n) = Varint(n) /\ Varint(n) \in Seq(Byte)
  BY <1>2, EncodesVarint, VarintType
<1>4. <<8 * num + 2>> \in Seq(Byte)
  BY DEF Byte
<1>5. PICK h \in Seq(Byte) : h = <<8 * num + 2>>
  BY <1>4, Zenon
<1>6. (h \o Varint(n)) \o s = h \o (Varint(n) \o s)
  BY <1>1, <1>3, ConcatAssociative, SMTT(30)
<1> QED BY <1>2, <1>3, <1>5, <1>6, Zenon DEF LenDelimited, Delimited

(* Few bytes are short.                                                    *)
LEMMA SmallIsShort ==
    ASSUME NEW n \in Nat, n < 128, NEW s \in Small(n)
    PROVE  s \in Short /\ s \in Texts
<1>1. s \in Seq(Byte) /\ Len(s) \in Nat /\ Len(s) <= n
  BY SmallIs
<1>2. Len(s) < 128 /\ Len(s) <= 250
  BY <1>1
<1> QED BY <1>1, <1>2 DEF Short, Texts, Small

\* A record with one field changed.
Edited(g, f, n) == [g EXCEPT ![f] = n]

-----------------------------------------------------------------------------
(***************************************************************************)
(* Requests as the bike takes them.                                        *)
(***************************************************************************)
(***************************************************************************)
(* A request, from the tool to the bike.                                   *)
(***************************************************************************)
\* What the bike takes from the transport t.
BodyIn(t, bytes) == IF t = "usb" THEN SubSeq(bytes, 3, Len(bytes)) ELSE DecodeSegments(bytes)[1].payload

\* Where a point is that is no row of the registry.
Where(point) ==
    CASE point = "params" -> <<16, 144>> [] point = "limits" -> <<16, 146>>
      [] point = "statistics" -> <<16, 140>> [] point = "modes" -> <<24, 78>>
      [] point = "names" -> <<24, 12>> [] point = "range" -> <<24, 87>>
      [] point = "time" -> <<32, 34>> [] point = "issue" -> <<16, 133>>
      [] point = "set" -> <<16, 147>> [] point = "colors" -> <<24, 14>>

(* What the tool sends, of few bytes.                                      *)
LEMMA GoesOutAsBuilt ==
    ASSUME NEW addr \in (0..127) \X Byte, NEW type \in {0, 2, 4, 6}, NEW n \in 0..15,
           NEW payload \in Small(250)
    PROVE  AsBuilt(addr, type, n, payload)
<1>1. 250 \in Nat
  OBVIOUS
<1>2. payload \in Seq(Byte) /\ Len(payload) <= 250
  BY <1>1, SmallIs
<1>3. addr \in Byte \X Byte /\ type \in 0..15
  BY DEF Byte
<1> QED BY <1>2, <1>3, RequestGoesOutAsBuilt, Zenon

(***************************************************************************)
(* A request as the bike takes it.                                         *)
(***************************************************************************)
\* h is the host it came from, a the address, type and n are its type and number.
RequestHead(h, a, type, n) == Head5(h, <<128 + a[1], a[2]>>, 16 * type + n)

\* What the bike puts in front of an answer.
AnswerHead(body, to) == <<Low7(body[3]), body[4]>> \o to \o <<body[5] + 16>>

HeadGives(k, h, a, type, n) ==
    /\ k = RequestHead(h, a, type, n) /\ Len(k) = 5 /\ h = <<h[1], h[2]>>
    /\ k[1] = h[1] /\ k[2] = h[2] /\ k[3] = 128 + a[1] /\ k[4] = a[2] /\ k[5] = 16 * type + n

(* The five bytes of a head.                                               *)
LEMMA HeadIs ==
    ASSUME NEW h \in {HostUsb, HostBle}, NEW a \in (0..127) \X Byte, NEW type \in {0, 2, 4, 6}, NEW n \in 0..15
    PROVE  \E k \in Seq(Byte) : HeadGives(k, h, a, type, n)
<1>1. h = <<h[1], h[2]>> /\ h[1] \in Byte /\ h[2] \in Byte
  BY DEF HostUsb, HostBle, Byte
<1>2. PICK x \in Byte : x = 128 + a[1]
  BY DEF Byte
<1>3. PICK c \in Byte : c = 16 * type + n
  BY DEF Byte
<1>4. PICK y \in Byte : y = a[2]
  OBVIOUS
<1>5. PICK u \in Byte, v \in Byte : u = h[1] /\ v = h[2]
  BY <1>1
<1>6. RequestHead(h, a, type, n) = <<u, v, x, y, c>>
  BY <1>2, <1>3, <1>4, <1>5 DEF RequestHead, Head5
<1>7. /\ <<u, v, x, y, c>> \in Seq(Byte) /\ Len(<<u, v, x, y, c>>) = 5
      /\ <<u, v, x, y, c>>[1] = u /\ <<u, v, x, y, c>>[2] = v /\ <<u, v, x, y, c>>[3] = x
      /\ <<u, v, x, y, c>>[4] = y /\ <<u, v, x, y, c>>[5] = c
  OBVIOUS
<1>8. PICK k \in Seq(Byte) : k = <<u, v, x, y, c>> /\ Len(k) = 5 /\ k[1] = u /\ k[2] = v /\ k[3] = x /\ k[4] = y /\ k[5] = c
  BY <1>7, Zenon
<1>9. HeadGives(k, h, a, type, n)
  BY <1>1, <1>2, <1>3, <1>4, <1>5, <1>6, <1>8, Zenon DEF HeadGives
<1> QED BY <1>9, Zenon

(* A sequence of two.                                                      *)
LEMMA PairIs == \A s \in Seq(Byte) : Len(s) = 2 => s = <<s[1], s[2]>>
OBVIOUS

(* The first two of a sequence.                                            *)
LEMMA FirstTwo ==
    ASSUME NEW s \in Seq(Byte), Len(s) >= 2
    PROVE  SubSeq(s, 1, 2) = <<s[1], s[2]>>
<1>1. \A i \in 1..2 : s[i] \in Byte
  BY ElementOfSeq
<1>2. 1 \in Int /\ 2 \in Int
  OBVIOUS
<1>3. /\ SubSeq(s, 1, 2) \in Seq(Byte) /\ Len(SubSeq(s, 1, 2)) = IF 1 <= 2 THEN 2 - 1 + 1 ELSE 0
      /\ \A i \in 1..(2 - 1 + 1) : SubSeq(s, 1, 2)[i] = s[1 + i - 1]
  BY <1>1, <1>2, SubSeqProperties
<1>4. Len(SubSeq(s, 1, 2)) = 2 /\ SubSeq(s, 1, 2)[1] = s[1] /\ SubSeq(s, 1, 2)[2] = s[2]
  BY <1>3
<1>5. PICK t \in Seq(Byte) : t = SubSeq(s, 1, 2) /\ Len(t) = 2 /\ t[1] = s[1] /\ t[2] = s[2]
  BY <1>3, <1>4
<1>6. t = <<t[1], t[2]>>
  BY <1>5, PairIs
<1> QED BY <1>5, <1>6, Zenon

HeadsAnswer(body, to, a, type, n, c) ==
    /\ AnswerHead(body, to) = Head5(a, to, c)
    /\ c = 16 * (type + 1) + n /\ c \div 16 = type + 1 /\ c % 16 = n

-----------------------------------------------------------------------------
(***************************************************************************)
(* What a row may send fits a frame.                                       *)
(***************************************************************************)
(***************************************************************************)
(* The values of the points take few bytes.                                *)
(***************************************************************************)
Shapes == {r.shape : r \in {q \in Registry : q.shape.kind # "hidden"}}

(* Everything that is small is small enough for one message.               *)
LEMMA SmallEnough == \A n \in 0..250 : Small(n) \subseteq Small(250)
<1>1. ASSUME NEW n \in 0..250
      PROVE  Small(n) \subseteq Small(250)
  <2>1. n \in Nat /\ 250 \in Nat /\ n <= 250
    OBVIOUS
  <2> QED BY <2>1, SmallGrows
<1> QED BY <1>1

(* Small numbers are numbers of a word.                                    *)
LEMMA FewAreSendable == 0..255 \subseteq Sendable
<1>1. PICK w \in Nat : w = 2^Word /\ w >= 65536
  BY WordHolds
<1>2. 0..255 \subseteq 0..(w - 1)
  BY <1>1
<1> QED BY <1>1, <1>2 DEF Sendable

(* A few numbers behind one another.                                       *)
LEMMA PackedIsSmall ==
    ASSUME NEW n \in 0..8, NEW ns, DOMAIN ns = 1..n, \A k \in 1..n : ns[k] \in Sendable
    PROVE  Packed(ns) \in Small(n * 5)
<1> DEFINE parts == [k \in DOMAIN ns |-> Varint(ns[k])]
<1>1. DOMAIN parts = 1..n
  OBVIOUS
<1>2. \A k \in 1..n : parts[k] \in Small(5)
  <2>1. ASSUME NEW k \in 1..n
        PROVE  parts[k] \in Small(5)
    <3>1. PICK m \in Sendable : m = ns[k]
      OBVIOUS
    <3>2. PICK num \in 1..15 : num = 1
      OBVIOUS
    <3>3. Varint(m) \in Small(5)
      BY <3>2, SmallNumber DEF Sendable
    <3> QED BY <3>1, <3>3
  <2> QED BY <2>1
<1>3. n \in Nat /\ 5 \in Nat
  OBVIOUS
<1>4. Packed(ns) = Flatten(parts)
  BY DEF Packed
<1> HIDE DEF parts
<1>5. Flatten(parts) \in Small(n * 5)
  BY <1>1, <1>2, <1>3, SmallFlatten
<1> QED BY <1>4, <1>5

(* A field that may be left out.                                           *)
LEMMA SmallFields ==
    ASSUME NEW num \in 1..15, NEW n \in Sendable
    PROVE  Implicit(num, n) \in Small(6) /\ Number(num, n) \in Small(6) /\ Varint(n) \in Small(5)
BY SmallNumber DEF Sendable

(* A flag is a number.                                                     *)
LEMMA BitIs == \A flag \in BOOLEAN : Bit(flag) \in Sendable
BY FewAreSendable DEF Bit

(* Two fields, one behind the other.                                       *)
LEMMA TwoFields ==
    ASSUME NEW m \in Sendable, NEW n \in Sendable
    PROVE  Implicit(1, m) \o Implicit(2, n) \in Small(250)
<1>1. PICK a \in 1..15 : a = 1
  OBVIOUS
<1>2. PICK b \in 1..15 : b = 2
  OBVIOUS
<1>3. Implicit(a, m) \in Small(6) /\ Implicit(b, n) \in Small(6) /\ 6 \in Nat
  BY SmallFields
<1>4. Implicit(a, m) \o Implicit(b, n) \in Small(6 + 6)
  BY <1>3, SmallConcat
<1>5. 6 + 6 \in 0..250
  OBVIOUS
<1> QED BY <1>1, <1>2, <1>4, <1>5, SmallEnough

(* Bytes behind a tag and a length, once or twice.                         *)
LEMMA SmallPresent ==
    ASSUME NEW n \in 0..100, NEW s \in Small(n), NEW num \in 1..15
    PROVE  /\ Bytes(num, s) \in Small(n + 2) /\ Present(num, s) \in Small(n + 2)
           /\ Present(1, s) \in Small(250) /\ Bytes(1, s) \in Small(250) /\ s \in Small(250)
           /\ Present(1, Present(1, s)) \in Small(250)
<1>1. n \in Nat /\ n < 256 /\ n + 2 \in Nat /\ n + 2 < 256 /\ n + 2 \in 0..250 /\ (n + 2) + 2 \in 0..250
  OBVIOUS
<1>2. Bytes(num, s) \in Small(n + 2) /\ Present(num, s) \in Small(n + 2)
  BY <1>1, SmallBytesOf
<1>3. PICK a \in 1..15 : a = 1
  OBVIOUS
<1>4. Bytes(a, s) \in Small(n + 2) /\ Present(a, s) \in Small(n + 2)
  BY <1>1, SmallBytesOf
<1>5. PICK m \in 0..200 : m = n + 2
  OBVIOUS
<1>6. PICK u \in Small(m) : u = Present(a, s)
  BY <1>4, <1>5
<1>7. m \in Nat /\ m < 256 /\ m + 2 \in 0..250
  OBVIOUS
<1>8. Present(a, u) \in Small(m + 2)
  BY <1>7, SmallBytesOf
<1>9. n \in 0..250 /\ m \in 0..250
  OBVIOUS
<1>10. Small(n) \subseteq Small(250) /\ Small(m) \subseteq Small(250) /\ Small(m + 2) \subseteq Small(250)
  BY <1>7, <1>9, SmallEnough
<1> QED BY <1>2, <1>3, <1>4, <1>5, <1>6, <1>8, <1>10, Zenon

(* An item of a certificate.                                               *)
LEMMA TlvIsSmall ==
    ASSUME NEW n \in 0..240, NEW s \in Small(n), NEW tag \in Small(2)
    PROVE  Tlv(tag, s) \in Small(n + 4)
<1>1. n \in Nat /\ 2 \in Nat /\ 1 \in Nat /\ 2 + 2 + n = n + 4 /\ 2 + 1 + n = n + 3 /\ n + 3 \in Nat /\ n + 4 \in Nat /\ n + 3 <= n + 4
  OBVIOUS
<1>2. s \in Seq(Byte) /\ Len(s) \in Nat /\ Len(s) <= n
  BY <1>1, SmallIs
<1>3. PICK l \in Nat : l = Len(s) /\ l <= n
  BY <1>2
<1>4. l < 256 /\ l \in Byte /\ 129 \in Byte
  <2>1. l <= n
    BY <1>3
  <2> QED BY <2>1 DEF Byte
<1>5. <<l>> \in Small(1) /\ <<129, l>> \in Small(2)
  BY <1>4, SmallBytes
<1>6. CASE l < 128
  <2>1. PICK u \in Small(1) : u = <<l>>
    BY <1>5
  <2>2. tag \o u \in Small(2 + 1)
    BY <1>1, SmallConcat
  <2>3. PICK m \in Nat : m = 2 + 1
    OBVIOUS
  <2>4. PICK v \in Small(m) : v = tag \o u
    BY <2>2, <2>3
  <2>5. v \o s \in Small(m + n)
    BY <1>1, SmallConcat
  <2>6. m + n <= n + 4 /\ m + n \in Nat
    BY <2>3
  <2>7. Small(m + n) \subseteq Small(n + 4)
    BY <1>1, <2>6, SmallGrows
  <2>8. Tlv(tag, s) = v \o s
    BY <1>3, <1>6, <2>1, <2>4, Zenon DEF Tlv
  <2> QED BY <2>5, <2>7, <2>8
<1>7. CASE ~(l < 128)
  <2>1. PICK u \in Small(2) : u = <<129, l>>
    BY <1>5
  <2>2. tag \o u \in Small(2 + 2)
    BY <1>1, SmallConcat
  <2>3. PICK m \in Nat : m = 2 + 2
    OBVIOUS
  <2>4. PICK v \in Small(m) : v = tag \o u
    BY <2>2, <2>3
  <2>5. v \o s \in Small(m + n)
    BY <1>1, SmallConcat
  <2>6. m + n <= n + 4 /\ m + n \in Nat
    BY <2>3
  <2>7. Small(m + n) \subseteq Small(n + 4)
    BY <1>1, <2>6, SmallGrows
  <2>8. Tlv(tag, s) = v \o s
    BY <1>3, <1>4, <1>7, <2>1, <2>4, ZenonT(60) DEF Tlv
  <2> QED BY <2>5, <2>7, <2>8
<1> QED BY <1>6, <1>7

(* The parts of the certificate.                                           *)
LEMMA CertificateParts ==
    /\ <<1, 2>> \in Small(2) /\ << 1 >> \o HolderText \o << 0 >> \in Small(6) /\ ValidFrom \in Small(6)
    /\ [k \in 1..200 |-> k] \in Small(200)
    /\ << 66 >> \in Small(2) /\ <<95, 32>> \in Small(2) /\ <<95, 37>> \in Small(2)
    /\ <<127, 78>> \in Small(2) /\ <<95, 55>> \in Small(2) /\ <<127, 33>> \in Small(2)
<1>1. <<1, 2>> \in Small(2) /\ <<66>> \in Small(2) /\ <<95, 32>> \in Small(2) /\ <<95, 37>> \in Small(2)
      /\ <<127, 78>> \in Small(2) /\ <<95, 55>> \in Small(2) /\ <<127, 33>> \in Small(2)
  BY DEF Small, Byte
<1>2. ValidFrom \in Small(6)
  BY DEF Small, Byte, ValidFrom
<1>3. <<1>> \o HolderText \o <<0>> \in Small(6)
  <2>1. <<1, 66, 69, 83, 51, 0>> = (<<1>> \o <<66, 69, 83, 51>>) \o <<0>>
    OBVIOUS
  <2>2. <<1, 66, 69, 83, 51, 0>> \in Small(6)
    BY DEF Small, Byte
  <2> QED BY <2>1, <2>2 DEF HolderText
<1>4. [k \in 1..200 |-> k] \in Small(200)
  <2> DEFINE s == [k \in 1..200 |-> k]
  <2>1. 200 \in Nat /\ \A k \in 1..200 : k \in Byte
    BY DEF Byte
  <2>2. s \in [1..200 -> Byte]
    BY <2>1
  <2>3. s \in Seq(Byte) /\ Len(s) = 200
    BY <2>1, <2>2
  <2>4. Len(s) <= 200
    BY <2>3
  <2> QED BY <2>3, <2>4 DEF Small
<1> QED BY <1>1, <1>2, <1>3, <1>4

(* The certificate and its signature.                                      *)
LEMMA CertificateIsSmall ==
    ASSUME NEW lead \in Small(1)
    PROVE  CertificateBytesOf(lead) \in Small(243)
<1>1. PICK id \in Small(6) : id = Tlv(<<66>>, <<1, 2>>)
  <2>1. 2 \in 0..240
    OBVIOUS
  <2>2. Tlv(<<66>>, <<1, 2>>) \in Small(2 + 4)
    BY <2>1, CertificateParts, TlvIsSmall
  <2>3. Tlv(<<66>>, <<1, 2>>) \in Small(6)
    BY <2>2
  <2> QED BY <2>3, Zenon
<1>2. PICK holder \in Small(10) : holder = Tlv(<<95, 32>>, <<1>> \o HolderText \o <<0>>)
  <2>1. 6 \in 0..240
    OBVIOUS
  <2>2. Tlv(<<95, 32>>, <<1>> \o HolderText \o <<0>>) \in Small(6 + 4)
    BY <2>1, CertificateParts, TlvIsSmall
  <2>3. Tlv(<<95, 32>>, <<1>> \o HolderText \o <<0>>) \in Small(10)
    BY <2>2
  <2> QED BY <2>3, Zenon
<1>3. PICK date \in Small(10) : date = Tlv(<<95, 37>>, ValidFrom)
  <2>1. 6 \in 0..240
    OBVIOUS
  <2>2. Tlv(<<95, 37>>, ValidFrom) \in Small(6 + 4)
    BY <2>1, CertificateParts, TlvIsSmall
  <2>3. Tlv(<<95, 37>>, ValidFrom) \in Small(10)
    BY <2>2
  <2> QED BY <2>3, Zenon
<1>4. PICK signature \in Small(204) : signature = Tlv(<<95, 55>>, [k \in 1..200 |-> k])
  <2>1. 200 \in 0..240
    OBVIOUS
  <2>2. Tlv(<<95, 55>>, [k \in 1..200 |-> k]) \in Small(200 + 4)
    BY <2>1, CertificateParts, TlvIsSmall
  <2>3. Tlv(<<95, 55>>, [k \in 1..200 |-> k]) \in Small(204)
    BY <2>2
  <2> QED BY <2>3, Zenon
<1>6. PICK two \in Small(16) : two = id \o holder
  <2>1. 6 \in Nat /\ 10 \in Nat
    OBVIOUS
  <2>2. id \o holder \in Small(6 + 10)
    BY <2>1, SmallConcat
  <2>3. id \o holder \in Small(16)
    BY <2>2
  <2> QED BY <2>3, Zenon
<1>7. PICK body \in Small(26) : body = two \o date
  <2>1. 16 \in Nat /\ 10 \in Nat
    OBVIOUS
  <2>2. two \o date \in Small(16 + 10)
    BY <2>1, SmallConcat
  <2>3. two \o date \in Small(26)
    BY <2>2
  <2> QED BY <2>3, Zenon
<1>8. PICK first \in Small(30) : first = Tlv(<<127, 78>>, body)
  <2>1. 26 \in 0..240
    OBVIOUS
  <2>2. Tlv(<<127, 78>>, body) \in Small(26 + 4)
    BY <2>1, CertificateParts, TlvIsSmall
  <2>3. Tlv(<<127, 78>>, body) \in Small(30)
    BY <2>2
  <2> QED BY <2>3, Zenon
<1>9. PICK both \in Small(234) : both = first \o signature
  <2>1. 30 \in Nat /\ 204 \in Nat
    OBVIOUS
  <2>2. first \o signature \in Small(30 + 204)
    BY <2>1, SmallConcat
  <2>3. first \o signature \in Small(234)
    BY <2>2
  <2> QED BY <2>3, Zenon
<1>10. PICK whole \in Small(238) : whole = Tlv(<<127, 33>>, both)
  <2>1. 234 \in 0..240
    OBVIOUS
  <2>2. Tlv(<<127, 33>>, both) \in Small(234 + 4)
    BY <2>1, CertificateParts, TlvIsSmall
  <2>3. Tlv(<<127, 33>>, both) \in Small(238)
    BY <2>2
  <2> QED BY <2>3, Zenon
<1>11. PICK all \in Small(239) : all = lead \o whole
  <2>1. 1 \in Nat /\ 238 \in Nat
    OBVIOUS
  <2>2. lead \o whole \in Small(1 + 238)
    BY <2>1, SmallConcat
  <2>3. lead \o whole \in Small(239)
    BY <2>2
  <2> QED BY <2>3, Zenon
<1>12. CertificateBytesOf(lead) = all
  BY <1>1, <1>2, <1>3, <1>4, <1>6, <1>7, <1>8, <1>9, <1>10, <1>11, Zenon DEF CertificateBytesOf
<1>13. Small(239) \subseteq Small(243)
  <2>1. 239 \in Nat /\ 243 \in Nat /\ 239 <= 243
    OBVIOUS
  <2> QED BY <2>1, SmallGrows
<1> QED BY <1>12, <1>13

(* And behind its tag and its length.                                      *)
LEMMA SmallDelimited ==
    ASSUME NEW n \in 0..245, NEW s \in Small(n)
    PROVE  << 10 >> \o Varint(Len(s)) \o s \in Small(n + 3)
<1>1. n \in Nat /\ 1 \in Nat /\ 2 \in Nat /\ 3 \in Nat /\ 1 + 2 = 3 /\ 3 + n = n + 3
  OBVIOUS
<1>2. s \in Seq(Byte) /\ Len(s) \in Nat /\ Len(s) <= n
  BY <1>1, SmallIs
<1>3. PICK l \in Nat : l = Len(s) /\ l <= n
  BY <1>2
<1>4. l < 16384 /\ l < 65536
  <2>1. l <= n
    BY <1>3
  <2> QED BY <2>1
<1>5. l < 2^Word
  BY <1>4, WordHolds
<1>6. Varint(l) \in Seq(Byte) /\ Long(l) <= 2 /\ Long(l) \in Nat
  BY <1>4, <1>5, VarintType, VarintShort
<1>7. Varint(l) \in Small(2)
  BY <1>6 DEF Small, Long
<1>8. <<10>> \in Small(1)
  BY DEF Small, Byte
<1>9. PICK u \in Small(3) : u = <<10>> \o Varint(l)
  BY <1>1, <1>7, <1>8, SmallConcat, Zenon
<1>10. u \o s \in Small(n + 3)
  BY <1>1, SmallConcat, Zenon
<1> QED BY <1>3, <1>9, <1>10, Zenon

(* What is known of a shape.                                               *)
LEMMA ShapeIs ==
    ASSUME NEW shape \in Shapes
    PROVE  /\ shape.kind \in Kinds \ {"hidden"} /\ Fieldset(shape) \subseteq 1..15
           /\ shape.kind = "submessage" => Fieldset(shape) # {}
<1>1. PICK r \in Registry : shape = r.shape /\ r.shape.kind # "hidden"
  BY Zenon DEF Shapes
<1>2. /\ r.shape.kind \in Kinds
      /\ r.shape.bools \cup r.shape.uints \cup r.shape.enums \subseteq 1..15
      /\ r.shape.kind = "submessage" => r.shape.bools \cup r.shape.uints \cup r.shape.enums # {}
  BY KindsAreKnown, Zenon
<1> QED BY <1>1, <1>2, Zenon DEF Fieldset

(* The kinds of the Write Lab, and of the certificate.                     *)
LEMMA TextsAreSmall ==
    /\ \A v \in {<<>>, <<69, 67>>} : v \in Small(2)
    /\ \A v \in {<<>>, [k \in 1..16 |-> 16 * k - 1]} : v \in Small(16)
    /\ \A n \in {0, 64} : [k \in 1..n |-> k] \in Small(64)
    /\ \A v \in {<<>>, << 1 >>} : v \in Small(1)
<1>1. <<>> \in Small(2) /\ <<69, 67>> \in Small(2) /\ <<>> \in Small(16) /\ <<>> \in Small(1) /\ <<1>> \in Small(1)
  BY DEF Small, Byte
<1>2. [k \in 1..16 |-> 16 * k - 1] \in Small(16)
  <2> DEFINE s == [k \in 1..16 |-> 16 * k - 1]
  <2>1. 16 \in Nat /\ \A k \in 1..16 : 16 * k - 1 \in Byte
    BY DEF Byte
  <2>2. s \in [1..16 -> Byte]
    BY <2>1
  <2>3. s \in Seq(Byte) /\ Len(s) = 16
    BY <2>1, <2>2
  <2>4. Len(s) <= 16
    BY <2>3
  <2> QED BY <2>3, <2>4 DEF Small
<1>3. ASSUME NEW n \in 0..64
      PROVE  [k \in 1..n |-> k] \in Small(64)
  <2> DEFINE s == [k \in 1..n |-> k]
  <2>1. n \in Nat /\ \A k \in 1..n : k \in Byte
    BY DEF Byte
  <2>2. s \in [1..n -> Byte]
    BY <2>1
  <2>3. s \in Seq(Byte) /\ Len(s) = n
    BY <2>1, <2>2
  <2>4. Len(s) <= 64
    BY <2>3
  <2> QED BY <2>3, <2>4 DEF Small
<1> QED BY <1>1, <1>2, <1>3

(* A quarter of a word for each of four small numbers.                     *)
LEMMA ColorFits ==
    ASSUME NEW r \in 0..3, NEW g \in 0..15, NEW b \in 0..15, NEW a \in 0..15
    PROVE  ColorWord([r |-> r, g |-> g, b |-> b, a |-> a]) \in Sendable
<1>1. PICK n \in 4..8 : n = Word \div 4
  BY WordAssumption
<1>2. n \in Nat /\ 4 * n <= Word /\ 4 * n \in Nat /\ Word \in Nat
  BY <1>1, WordAssumption
<1>3. 2^(4 * n) <= 2^Word
  BY <1>2, PowersGrow
<1>4. /\ 2^4 = 16 /\ 2^5 = 32 /\ 2^6 = 64 /\ 2^7 = 128 /\ 2^8 = 256
      /\ 2^16 = 65536 /\ 2^20 = 1048576 /\ 2^24 = 16777216 /\ 2^28 = 268435456 /\ 2^32 = 4294967296
  OBVIOUS
<1>5. PICK w \in Nat : w = 2^Word
  BY WordHolds
<1> DEFINE Four(Q) == ((r * Q + g) * Q + b) * Q + a
<1>6. ColorWord([r |-> r, g |-> g, b |-> b, a |-> a]) = Four(2^n)
  BY <1>1 DEF ColorWord
<1>7. Four(2^n) \in 0..(w - 1)
  <2>1. CASE n = 4
    <3>1. w >= 65536
      BY <1>3, <1>4, <1>5, <2>1
    <3>2. Four(16) \in 0..(w - 1)
      BY <3>1
    <3> QED BY <1>4, <2>1, <3>2
  <2>2. CASE n = 5
    <3>1. w >= 1048576
      BY <1>3, <1>4, <1>5, <2>2
    <3>2. Four(32) \in 0..(w - 1)
      BY <3>1
    <3> QED BY <1>4, <2>2, <3>2
  <2>3. CASE n = 6
    <3>1. w >= 16777216
      BY <1>3, <1>4, <1>5, <2>3
    <3>2. Four(64) \in 0..(w - 1)
      BY <3>1
    <3> QED BY <1>4, <2>3, <3>2
  <2>4. CASE n = 7
    <3>1. w >= 268435456
      BY <1>3, <1>4, <1>5, <2>4
    <3>2. Four(128) \in 0..(w - 1)
      BY <3>1
    <3> QED BY <1>4, <2>4, <3>2
  <2>5. CASE n = 8
    <3>1. w >= 4294967296
      BY <1>3, <1>4, <1>5, <2>5
    <3>2. Four(256) \in 0..(w - 1)
      BY <3>1
    <3> QED BY <1>4, <2>5, <3>2
  <2>6. n = 4 \/ n = 5 \/ n = 6 \/ n = 7 \/ n = 8
    OBVIOUS
  <2> QED BY <2>1, <2>2, <2>3, <2>4, <2>5, <2>6, Zenon
<1> QED BY <1>5, <1>6, <1>7 DEF Sendable

(* The number in a field that is at most one.                              *)
LEMMA OneField ==
    ASSUME NEW n \in Sendable
    PROVE  Implicit(1, n) \in Small(250) /\ Number(1, n) \in Small(250) /\ Implicit(1, n) \in Small(6)
<1>1. PICK num \in 1..15 : num = 1
  OBVIOUS
<1>2. Implicit(num, n) \in Small(6) /\ Number(num, n) \in Small(6)
  BY SmallFields
<1>3. 6 \in 0..250
  OBVIOUS
<1>4. Small(6) \subseteq Small(250)
  BY <1>3, SmallEnough
<1> QED BY <1>1, <1>2, <1>4

(* The fields of a submessage.                                             *)
LEMMA SubmessageIsSmall ==
    ASSUME NEW shape \in Shapes, NEW last \in 0..15, NEW v, \A f \in Fieldset(shape) : v[f] \in {0, 1}
    PROVE  Flatten([f \in 1..last |-> IF f \in Fieldset(shape) THEN Implicit(f, v[f]) ELSE <<>>]) \in Small(250)
<1> DEFINE parts == [f \in 1..last |-> IF f \in Fieldset(shape) THEN Implicit(f, v[f]) ELSE <<>>]
<1>1. DOMAIN parts = 1..last
  OBVIOUS
<1>2. \A f \in 1..last : parts[f] \in Small(6)
  <2>1. ASSUME NEW f \in 1..last
        PROVE  parts[f] \in Small(6)
    <3>1. CASE f \in Fieldset(shape)
      <4>1. PICK n \in 0..255 : n = v[f]
        BY <3>1
      <4>2. n \in Sendable
        BY FewAreSendable
      <4>3. PICK num \in 1..15 : num = f
        OBVIOUS
      <4>4. Implicit(num, n) \in Small(6)
        BY <4>2, SmallFields
      <4> QED BY <3>1, <4>1, <4>3, <4>4
    <3>2. CASE f \notin Fieldset(shape)
      <4>1. <<>> \in Small(6)
        BY DEF Small
      <4> QED BY <3>2, <4>1
    <3> QED BY <3>1, <3>2
  <2> QED BY <2>1
<1>3. last \in Nat /\ 6 \in Nat
  OBVIOUS
<1> HIDE DEF parts
<1>4. Flatten(parts) \in Small(last * 6)
  BY <1>1, <1>2, <1>3, SmallFlatten
<1>5. PICK m \in 0..250 : m = last * 6
  OBVIOUS
<1>6. Small(m) \subseteq Small(250)
  BY SmallEnough
<1>7. Flatten(parts) \in Small(250)
  BY <1>4, <1>5, <1>6
<1> QED BY <1>7 DEF parts

(* The last of some fields.                                                *)
LEMMA LastFieldIs ==
    ASSUME NEW shape \in Shapes, shape.kind = "submessage"
    PROVE  LastField(shape) \in 1..15 /\ LastField(shape) \in Fieldset(shape)
           /\ \A g \in Fieldset(shape) : g <= LastField(shape)
<1>1. Fieldset(shape) \subseteq 1..15 /\ Fieldset(shape) # {}
  BY ShapeIs
<1> DEFINE S == Fieldset(shape)
           T == {n \in Nat : \A k \in S : k > n => \E f \in S : \A g \in S : g <= f}
<1>2. PICK x : x \in S
  BY <1>1
<1>3. x \in 1..15
  BY <1>1, <1>2
<1>4. \E f \in S : \A g \in S : g <= f
  <2> SUFFICES ASSUME ~\E f \in S : \A g \in S : g <= f
               PROVE  FALSE
    OBVIOUS
  <2>1. \A f \in S : \E g \in S : g > f
    <3>1. \A f \in S, g \in S : ~(g <= f) => g > f
      BY <1>1
    <3> QED BY <3>1, Zenon
  <2> DEFINE U == {n \in Nat : \E g \in S : g > n}
  <2>2. 0 \in U
    BY <1>2, <1>3
  <2>3. \A n \in U : n + 1 \in U
    <3>1. ASSUME NEW n \in U
          PROVE  n + 1 \in U
      <4>1. PICK g \in S : g > n
        OBVIOUS
      <4>2. PICK h \in S : h > g
        BY <2>1
      <4>3. h > n + 1 /\ n + 1 \in Nat
        BY <1>1, <4>1, <4>2
      <4> QED BY <4>3
    <3> QED BY <3>1
  <2>4. U \subseteq Nat
    OBVIOUS
  <2> HIDE DEF U
  <2>5. Nat \subseteq U
    BY <2>2, <2>3, <2>4, Induct
  <2>6. 15 \in U
    BY <2>5
  <2>7. PICK g \in S : g > 15
    BY <2>6 DEF U
  <2>8. g \in 1..15
    BY <1>1
  <2> QED BY <2>7, <2>8
<1>5. LastField(shape) \in S /\ \A g \in S : g <= LastField(shape)
  BY <1>4, Zenon DEF LastField
<1> QED BY <1>1, <1>5

(* The numbers a point may hold.                                           *)
LEMMA NumbersAreSendable ==
    /\ \A n \in Numbers : n \in Sendable
    /\ \A n \in Instants : n \in Nat /\ 2 * n \in Sendable /\ Zigzag(n) = 2 * n
    /\ \A n \in {-2, 0, 90} : Zigzag(n) \in Sendable
<1>1. \A n \in Numbers : n \in Sendable
  BY NumbersAssumption DEF Sendable
<1>2. ASSUME NEW n \in Instants
      PROVE  n \in Nat /\ 2 * n \in Sendable /\ Zigzag(n) = 2 * n
  <2>1. n \in Sendable /\ 2 * n < 2^Word
    BY <1>1 DEF Instants
  <2>2. PICK w \in Nat : w = 2^Word
    BY WordHolds
  <2>3. n \in Nat
    BY <2>1, <2>2 DEF Sendable
  <2>4. 2 * n \in Sendable
    BY <2>1, <2>2, <2>3 DEF Sendable
  <2>5. Zigzag(n) = 2 * n
    BY <2>3 DEF Zigzag
  <2> QED BY <2>3, <2>4, <2>5
<1>3. Zigzag(-2) = 3 /\ Zigzag(0) = 0 /\ Zigzag(90) = 180
  <2>1. \A m \in Int : m + 2 = 0 => Zigzag(m) = 3
    <3>1. ASSUME NEW m \in Int, m + 2 = 0
          PROVE  Zigzag(m) = 3
      <4>1. ~(m >= 0) /\ -2 * m - 1 = 3
        BY <3>1
      <4> QED BY <4>1 DEF Zigzag
    <3> QED BY <3>1
  <2>2. -2 \in Int /\ -2 + 2 = 0
    OBVIOUS
  <2>3. Zigzag(-2) = 3
    BY <2>1, <2>2
  <2>4. 0 >= 0 /\ 90 >= 0 /\ 2 * 0 = 0 /\ 2 * 90 = 180
    OBVIOUS
  <2>5. Zigzag(0) = 0 /\ Zigzag(90) = 180
    BY <2>4 DEF Zigzag
  <2> QED BY <2>3, <2>5
<1> QED BY <1>1, <1>2, <1>3, FewAreSendable

(* Every value of every point is sent in few bytes.                        *)
LEMMA EncodedIsSmall ==
    ASSUME NEW shape \in Shapes, NEW v \in Meanings(shape)
    PROVE  Encoded(shape, v) \in Small(250)
<1>0. shape.kind \in Kinds \ {"hidden"}
  BY ShapeIs
<1>00. <<>> \in Small(250)
  BY DEF Small
<1>1. CASE shape.kind \in {"string", "unknown"}
  <2>1. v \in {<<>>, <<69, 67>>}
    BY <1>1 DEF Meanings
  <2>2. v \in Small(2) /\ 2 \in 0..100 /\ 1 \in 1..15
    <3>1. v \in Small(2)
      BY <2>1, TextsAreSmall, Zenon
    <3> QED BY <3>1
  <2>3. Present(1, v) \in Small(250)
    BY <2>2, SmallPresent
  <2>4. Encoded(shape, v) = Present(1, v)
    BY <1>1 DEF Encoded
  <2> QED BY <2>3, <2>4
<1>2. CASE shape.kind \in {"uint", "enum", "normFactor"}
  <2>1. v \in Sendable
    BY <1>2, NumbersAreSendable DEF Meanings
  <2>2. Encoded(shape, v) = Implicit(1, v)
    BY <1>2 DEF Encoded
  <2> QED BY <2>1, <2>2, OneField
<1>3. CASE shape.kind = "signedFactor"
  <2>1. v \in {-2, 0, 90}
    BY <1>3 DEF Meanings
  <2>2. Zigzag(v) \in Sendable
    BY <2>1, NumbersAreSendable
  <2>3. Encoded(shape, v) = Implicit(1, Zigzag(v))
    BY <1>3 DEF Encoded
  <2> QED BY <2>2, <2>3, OneField
<1>4. CASE shape.kind = "unixTimestamp"
  <2>1. v \in Instants
    BY <1>4 DEF Meanings
  <2>2. Zigzag(v) \in Sendable
    BY <2>1, NumbersAreSendable
  <2>3. Encoded(shape, v) = Implicit(1, Zigzag(v))
    BY <1>4 DEF Encoded
  <2> QED BY <2>2, <2>3, OneField
<1>5. CASE shape.kind = "bool"
  <2>1. v \in BOOLEAN
    BY <1>5 DEF Meanings
  <2>2. Bit(v) \in Sendable
    BY <2>1, BitIs, Zenon
  <2>3. Encoded(shape, v) = Implicit(1, Bit(v))
    BY <1>5 DEF Encoded
  <2> QED BY <2>2, <2>3, OneField
<1>6. CASE shape.kind = "uuid"
  <2>1. v \in {<<>>, [k \in 1..16 |-> 16 * k - 1]}
    BY <1>6 DEF Meanings
  <2>2. v \in Small(16) /\ 16 \in 0..100 /\ 1 \in 1..15
    <3>1. v \in Small(16)
      BY <2>1, TextsAreSmall, Zenon
    <3> QED BY <3>1
  <2>3. Present(1, Present(1, v)) \in Small(250)
    BY <2>2, SmallPresent
  <2>4. Encoded(shape, v) = Present(1, Present(1, v))
    BY <1>6 DEF Encoded
  <2> QED BY <2>3, <2>4
<1>7. CASE shape.kind = "tuningDetection"
  <2>1. v \in [flag : BOOLEAN, counter : Numbers]
    BY <1>7 DEF Meanings
  <2>2. v.flag \in BOOLEAN /\ v.counter \in Numbers
    BY <2>1
  <2>3. Bit(v.flag) \in Sendable /\ v.counter \in Sendable
    BY <2>2, BitIs, NumbersAreSendable, Zenon
  <2>4. Encoded(shape, v) = Implicit(1, Bit(v.flag)) \o Implicit(2, v.counter)
    BY <1>7 DEF Encoded
  <2> QED BY <2>3, <2>4, TwoFields
<1>8. CASE shape.kind = "startAssistModeOem"
  <2>1. v \in [position : {0, 3}, configurable : BOOLEAN]
    BY <1>8 DEF Meanings
  <2>2. v.configurable \in BOOLEAN /\ v.position \in 0..255
    BY <2>1
  <2>3. Bit(v.configurable) \in Sendable /\ v.position \in Sendable
    BY <2>2, BitIs, FewAreSendable, Zenon
  <2>4. Encoded(shape, v) = Implicit(1, v.position) \o Implicit(2, Bit(v.configurable))
    BY <1>8 DEF Encoded
  <2> QED BY <2>3, <2>4, TwoFields
<1>9. CASE shape.kind = "uint32List"
  <2>1. v \in {<<>>} \cup {<<n, 0>> : n \in Numbers}
    BY <1>9 DEF Meanings
  <2>2. \E n \in 0..8 : DOMAIN v = 1..n /\ \A k \in 1..n : v[k] \in Sendable
    <3>1. CASE v = <<>>
      <4>1. DOMAIN v = 1..0 /\ \A k \in 1..0 : v[k] \in Sendable
        BY <3>1
      <4> QED BY <4>1
    <3>2. CASE \E n \in Numbers : v = <<n, 0>>
      <4>1. PICK n \in Sendable : v = <<n, 0>>
        BY <3>2, NumbersAreSendable
      <4>2. 0 \in Sendable
        BY FewAreSendable
      <4>3. DOMAIN v = 1..2 /\ \A k \in 1..2 : v[k] \in Sendable
        BY <4>1, <4>2
      <4> QED BY <4>3
    <3> QED BY <2>1, <3>1, <3>2
  <2>3. PICK n \in 0..8 : DOMAIN v = 1..n /\ \A k \in 1..n : v[k] \in Sendable
    BY <2>2
  <2>4. PICK m \in 0..40 : m = n * 5
    OBVIOUS
  <2>5. Packed(v) \in Small(m)
    BY <2>3, <2>4, PackedIsSmall
  <2>6. m \in 0..100 /\ 1 \in 1..15
    OBVIOUS
  <2>7. Present(1, Packed(v)) \in Small(250)
    BY <2>5, <2>6, SmallPresent
  <2>8. Encoded(shape, v) = Present(1, Packed(v))
    BY <1>9 DEF Encoded
  <2> QED BY <2>7, <2>8
<1>10. CASE shape.kind = "serviceDue"
  <2>1. v \in [timestamp : Instants, odometer : Numbers]
    BY <1>10 DEF Meanings
  <2>2. v.timestamp \in Instants /\ v.odometer \in Numbers
    BY <2>1
  <2>3. Zigzag(v.timestamp) \in Sendable /\ v.odometer \in Sendable
    BY <2>2, NumbersAreSendable
  <2>4. PICK num \in 1..15 : num = 2
    OBVIOUS
  <2>5. Implicit(1, Zigzag(v.timestamp)) \in Small(6) /\ Implicit(num, v.odometer) \in Small(6)
    BY <2>3, SmallFields, OneField
  <2>6. 6 \in 0..100 /\ 1 \in 1..15
    OBVIOUS
  <2>7. Present(1, Implicit(1, Zigzag(v.timestamp))) \in Small(6 + 2)
    BY <2>5, <2>6, SmallPresent
  <2>8. 6 + 2 \in Nat /\ 6 \in Nat
    OBVIOUS
  <2>9. Present(1, Implicit(1, Zigzag(v.timestamp))) \o Implicit(num, v.odometer) \in Small((6 + 2) + 6)
    BY <2>5, <2>7, <2>8, SmallConcat
  <2>10. (6 + 2) + 6 \in 0..250
    OBVIOUS
  <2>11. Encoded(shape, v) = Present(1, Implicit(1, Zigzag(v.timestamp))) \o Implicit(2, v.odometer)
    BY <1>10 DEF Encoded
  <2> QED BY <2>4, <2>9, <2>10, <2>11, SmallEnough
<1>11. CASE shape.kind = "deactivationProof"
  <2>1. v \in [deactivated : BOOLEAN, signatureLength : {0, 64}]
    BY <1>11 DEF Meanings
  <2>2. v.deactivated \in BOOLEAN /\ v.signatureLength \in {0, 64}
    BY <2>1
  <2>3. Bit(v.deactivated) \in Sendable
    BY <2>2, BitIs, Zenon
  <2>4. [k \in 1..v.signatureLength |-> k] \in Small(64)
    BY <2>2, TextsAreSmall
  <2>5. PICK s \in Small(64) : s = [k \in 1..v.signatureLength |-> k]
    BY <2>4
  <2>6. PICK num \in 1..15 : num = 3
    OBVIOUS
  <2>7. 64 \in 0..100 /\ 64 + 2 \in Nat /\ 6 \in Nat
    OBVIOUS
  <2>8. Present(num, s) \in Small(64 + 2)
    BY <2>7, SmallPresent
  <2>9. Implicit(1, Bit(v.deactivated)) \o Present(num, s) \in Small(6 + (64 + 2))
    BY <2>3, <2>7, <2>8, OneField, SmallConcat
  <2>10. 6 + (64 + 2) \in 0..250
    OBVIOUS
  <2>11. Encoded(shape, v) = Implicit(1, Bit(v.deactivated)) \o Present(num, s)
    BY <1>11, <2>5, <2>6 DEF Encoded
  <2> QED BY <2>9, <2>10, <2>11, SmallEnough
<1>12. CASE shape.kind = "certificateBytes"
  <2>1. v \in {None, <<>>, <<1>>}
    BY <1>12 DEF Meanings
  <2>2. CASE v = None
    <3>1. Encoded(shape, v) = <<>>
      BY <1>12, <2>2 DEF Encoded
    <3> QED BY <1>00, <3>1
  <2>3. CASE v # None
    <3>1. v \in Small(1)
      BY <2>1, <2>3, TextsAreSmall
    <3>2. PICK s \in Small(243) : s = CertificateBytesOf(v)
      BY <3>1, CertificateIsSmall
    <3>3. 243 \in 0..245 /\ 243 + 3 \in 0..250
      OBVIOUS
    <3>4. <<10>> \o Varint(Len(s)) \o s \in Small(243 + 3)
      BY <3>3, SmallDelimited
    <3>5. Encoded(shape, v) = <<10>> \o Varint(Len(s)) \o s
      BY <1>12, <2>3, <3>2 DEF Encoded
    <3> QED BY <3>3, <3>4, <3>5, SmallEnough
  <2> QED BY <2>2, <2>3
<1>13. CASE shape.kind = "assistModeColors"
  <2>1. v \in {<<>>, <<[r |-> 0, g |-> 0, b |-> 0, a |-> 0]>>} \cup {<<q>> : q \in Quarters}
    BY <1>13 DEF Meanings
  <2> DEFINE words == [k \in DOMAIN v |-> ColorWord(v[k])]
  <2>2. \E n \in 0..8 : DOMAIN words = 1..n /\ \A k \in 1..n : words[k] \in Sendable
    <3>1. CASE v = <<>>
      <4>1. DOMAIN v = 1..0
        BY <3>1
      <4>2. DOMAIN words = 1..0 /\ \A k \in 1..0 : words[k] \in Sendable
        BY <4>1
      <4> QED BY <4>2
    <3>2. CASE v # <<>>
      <4>1. \E q \in [r : 0..3, g : 0..15, b : 0..15, a : 0..15] : v = <<q>>
        BY <2>1, <3>2 DEF Quarters
      <4>2. PICK q \in [r : 0..3, g : 0..15, b : 0..15, a : 0..15] : v = <<q>>
        BY <4>1
      <4>3. q = [r |-> q.r, g |-> q.g, b |-> q.b, a |-> q.a] /\ q.r \in 0..3 /\ q.g \in 0..15 /\ q.b \in 0..15 /\ q.a \in 0..15
        OBVIOUS
      <4>4. ColorWord([r |-> q.r, g |-> q.g, b |-> q.b, a |-> q.a]) \in Sendable
        BY <4>3, ColorFits
      <4>5. ColorWord(q) \in Sendable
        BY <4>3, <4>4
      <4>6. DOMAIN v = 1..1 /\ v[1] = q
        BY <4>2
      <4>7. DOMAIN words = 1..1 /\ \A k \in 1..1 : words[k] \in Sendable
        BY <4>5, <4>6
      <4> QED BY <4>7
    <3> QED BY <3>1, <3>2
  <2>3. Encoded(shape, v) = Present(1, Packed(words))
    BY <1>13 DEF Encoded
  <2> HIDE DEF words
  <2>4. PICK n \in 0..8 : DOMAIN words = 1..n /\ \A k \in 1..n : words[k] \in Sendable
    BY <2>2
  <2>5. PICK m \in 0..40 : m = n * 5
    OBVIOUS
  <2>6. Packed(words) \in Small(m)
    BY <2>4, <2>5, PackedIsSmall
  <2>7. m \in 0..100 /\ 1 \in 1..15
    OBVIOUS
  <2>8. Present(1, Packed(words)) \in Small(250)
    BY <2>6, <2>7, SmallPresent
  <2> QED BY <2>3, <2>8
<1>14. CASE shape.kind = "submessage"
  <2>1. v \in {[f \in Fieldset(shape) |-> 0], [f \in Fieldset(shape) |-> 1]}
    BY <1>14 DEF Meanings
  <2>2. \A f \in Fieldset(shape) : v[f] \in {0, 1}
    BY <2>1
  <2>3. LastField(shape) \in 0..15
    BY <1>14, LastFieldIs
  <2>4. Encoded(shape, v) = Flatten([f \in 1..LastField(shape) |-> IF f \in Fieldset(shape) THEN Implicit(f, v[f]) ELSE <<>>])
    BY <1>14 DEF Encoded
  <2> QED BY <2>2, <2>3, <2>4, SubmessageIsSmall
<1> QED BY <1>0, <1>1, <1>2, <1>3, <1>4, <1>5, <1>6, <1>7, <1>8, <1>9, <1>10, <1>11, <1>12, <1>13, <1>14 DEF Kinds

(***************************************************************************)
(* What the tool asks with, and what the bike answers.                     *)
(***************************************************************************)
\* The argument of a write: typed as it is, or in hex.
LabTyped(shape, v) ==
    LabArgument(shape, IF shape.kind \in {"bool", "enum", "uint", "string"} THEN v ELSE Encoded(shape, v))

(* The argument of a write.                                                *)
LEMMA LabTypedIsSmall ==
    ASSUME NEW shape \in Shapes, NEW v \in Meanings(shape)
    PROVE  LabTyped(shape, v) \in Small(250)
<1>0. shape.kind \in Kinds \ {"hidden"} /\ Encoded(shape, v) \in Small(250)
  BY ShapeIs, EncodedIsSmall
<1>1. CASE shape.kind = "bool"
  <2>1. LabTyped(shape, v) \in {<<8, 1>>, <<>>}
    BY <1>1 DEF LabTyped, LabArgument
  <2>2. <<8, 1>> \in Small(250) /\ <<>> \in Small(250)
    BY DEF Small, Byte
  <2> QED BY <2>1, <2>2
<1>2. CASE shape.kind \in {"enum", "uint"}
  <2>1. v \in Sendable
    BY <1>2, NumbersAreSendable DEF Meanings
  <2>2. v \in Nat /\ v < 2^Word
    <3>1. PICK w \in Nat : w = 2^Word
      BY WordHolds
    <3>2. v \in 0..(w - 1)
      BY <2>1, <3>1 DEF Sendable
    <3>3. v \in Nat /\ v < w
      BY <3>2
    <3> QED BY <3>1, <3>3, Zenon
  <2>3. EncodeVarint(v) = Varint(v)
    BY <2>2, EncodesVarint
  <2>4. PICK u \in Small(5) : u = Varint(v)
    <3>1. PICK m \in Sendable : m = v
      BY <2>1
    <3>2. PICK num \in 1..15 : num = 1
      OBVIOUS
    <3>3. Varint(m) \in Small(5)
      BY SmallFields
    <3> QED BY <3>1, <3>3, Zenon
  <2>5. <<8>> \in Small(1) /\ 1 \in Nat /\ 5 \in Nat
    BY DEF Small, Byte
  <2>6. <<8>> \o u \in Small(1 + 5)
    BY <2>5, SmallConcat
  <2>7. 1 + 5 \in 0..250
    OBVIOUS
  <2>8. LabTyped(shape, v) = <<8>> \o EncodeVarint(v)
    BY <1>2 DEF LabTyped, LabArgument
  <2> QED BY <2>3, <2>4, <2>6, <2>7, <2>8, SmallEnough
<1>3. CASE shape.kind = "string"
  <2>1. v \in {<<>>, <<69, 67>>}
    BY <1>3 DEF Meanings
  <2>2. v \in Small(2)
    BY <2>1, TextsAreSmall, Zenon
  <2>3. v \in Seq(Byte) /\ Len(v) \in 0..255
    <3>1. 2 \in Nat
      OBVIOUS
    <3>2. v \in Seq(Byte) /\ Len(v) \in Nat /\ Len(v) <= 2
      BY <2>2, <3>1, SmallIs
    <3>3. PICK n \in Nat : n = Len(v) /\ n <= 2
      BY <3>2, Zenon
    <3>4. n <= 2
      BY <3>3, Zenon
    <3>5. n \in 0..255
      BY <3>4
    <3> QED BY <3>2, <3>3, <3>5, Zenon
  <2>4. PICK n \in 0..255 : n = Len(v)
    BY <2>3, Zenon
  <2>5. n \in Nat /\ n < 2^Word
    BY WordHolds
  <2>6. EncodeVarint(n) = Varint(n)
    BY <2>5, EncodesVarint
  <2>7. 2 \in 0..245 /\ 2 + 3 \in 0..250
    OBVIOUS
  <2>8. <<10>> \o Varint(Len(v)) \o v \in Small(2 + 3)
    BY <2>2, <2>7, SmallDelimited
  <2>9. LabTyped(shape, v) = <<10>> \o EncodeVarint(Len(v)) \o v
    BY <1>3 DEF LabTyped, LabArgument
  <2>10. LabTyped(shape, v) \in Small(2 + 3)
    BY <2>4, <2>6, <2>8, <2>9, Zenon
  <2> QED BY <2>7, <2>10, SmallEnough
<1>4. CASE shape.kind \notin {"bool", "enum", "uint", "string"}
  <2>1. LabTyped(shape, v) = Encoded(shape, v)
    BY <1>4 DEF LabTyped, LabArgument
  <2> QED BY <1>0, <2>1
<1> QED BY <1>1, <1>2, <1>3, <1>4

(* One, two and three parts, one behind the other.                         *)
LEMMA FewParts ==
    ASSUME NEW parts \in Seq(Seq(Byte))
    PROVE  /\ Len(parts) = 1 => Flatten(parts) = parts[1]
           /\ Len(parts) = 2 => Flatten(parts) = parts[1] \o parts[2]
           /\ Len(parts) = 3 => Flatten(parts) = parts[1] \o (parts[2] \o parts[3])
           /\ Len(parts) = 4 => Flatten(parts) = parts[1] \o (parts[2] \o (parts[3] \o parts[4]))
<1>1. /\ Len(parts) \in Nat /\ Flatten(parts) = Rest(parts, 1)
      /\ \A k \in 1..Len(parts) : Rest(parts, k) = parts[k] \o Rest(parts, k + 1)
      /\ Rest(parts, Len(parts) + 1) = <<>>
  BY FlattenOfSeq
<1>2. \A k \in 1..Len(parts) : parts[k] \in Seq(Byte) /\ parts[k] \o <<>> = parts[k]
  <2>1. ASSUME NEW k \in 1..Len(parts)
        PROVE  parts[k] \in Seq(Byte) /\ parts[k] \o <<>> = parts[k]
    <3>1. PICK q \in Seq(Byte) : q = parts[k]
      BY ElementOfSeq
    <3>2. q \o <<>> = q
      BY ConcatEmptySeq
    <3> QED BY <3>1, <3>2
  <2> QED BY <2>1
<1>3. ASSUME Len(parts) = 1
      PROVE  Flatten(parts) = parts[1]
  <2>1. 1 \in 1..Len(parts)
    BY <1>3
  <2>2. 1 + 1 = 2
    OBVIOUS
  <2>3. Rest(parts, 1) = parts[1] \o Rest(parts, 1 + 1)
    BY <1>1, <2>1, Zenon
  <2>4. Rest(parts, 1 + 1) = <<>>
    BY <1>1, <1>3, Zenon
  <2> QED BY <1>1, <1>2, <2>1, <2>2, <2>3, <2>4, Zenon
<1>4. ASSUME Len(parts) = 2
      PROVE  Flatten(parts) = parts[1] \o parts[2]
  <2>1. 1 \in 1..Len(parts) /\ 2 \in 1..Len(parts)
    BY <1>4
  <2>2. 1 + 1 = 2 /\ 2 + 1 = 3
    OBVIOUS
  <2>3. Rest(parts, 1) = parts[1] \o Rest(parts, 1 + 1) /\ Rest(parts, 2) = parts[2] \o Rest(parts, 2 + 1)
    BY <1>1, <2>1, Zenon
  <2>4. Rest(parts, 2 + 1) = <<>>
    BY <1>1, <1>4, Zenon
  <2> QED BY <1>1, <1>2, <2>1, <2>2, <2>3, <2>4, Zenon
<1>5. ASSUME Len(parts) = 3
      PROVE  Flatten(parts) = parts[1] \o (parts[2] \o parts[3])
  <2>1. 1 \in 1..Len(parts) /\ 2 \in 1..Len(parts) /\ 3 \in 1..Len(parts)
    BY <1>5
  <2>2. 1 + 1 = 2 /\ 2 + 1 = 3 /\ 3 + 1 = 4
    OBVIOUS
  <2>3. Rest(parts, 1) = parts[1] \o Rest(parts, 1 + 1) /\ Rest(parts, 2) = parts[2] \o Rest(parts, 2 + 1) /\ Rest(parts, 3) = parts[3] \o Rest(parts, 3 + 1)
    BY <1>1, <2>1, Zenon
  <2>4. Rest(parts, 3 + 1) = <<>>
    BY <1>1, <1>5, Zenon
  <2> QED BY <1>1, <1>2, <2>1, <2>2, <2>3, <2>4, Zenon
<1>6. ASSUME Len(parts) = 4
      PROVE  Flatten(parts) = parts[1] \o (parts[2] \o (parts[3] \o parts[4]))
  <2>1. 1 \in 1..Len(parts) /\ 2 \in 1..Len(parts) /\ 3 \in 1..Len(parts) /\ 4 \in 1..Len(parts)
    BY <1>6
  <2>2. 1 + 1 = 2 /\ 2 + 1 = 3 /\ 3 + 1 = 4 /\ 4 + 1 = 5
    OBVIOUS
  <2>3. Rest(parts, 1) = parts[1] \o Rest(parts, 1 + 1) /\ Rest(parts, 2) = parts[2] \o Rest(parts, 2 + 1) /\ Rest(parts, 3) = parts[3] \o Rest(parts, 3 + 1) /\ Rest(parts, 4) = parts[4] \o Rest(parts, 4 + 1)
    BY <1>1, <2>1, Zenon
  <2>4. Rest(parts, 4 + 1) = <<>>
    BY <1>1, <1>6, Zenon
  <2> QED BY <1>1, <1>2, <2>1, <2>2, <2>3, <2>4, Zenon
<1> QED BY <1>3, <1>4, <1>5, <1>6

-----------------------------------------------------------------------------
(***************************************************************************)
(* Messages of up to four fields.                                          *)
(***************************************************************************)
PartOf(f, B, x) == IF x = None THEN <<>> ELSE IF f \in B THEN Delimited(f, x) ELSE Number(f, x)

(* A message of few fields.                                                *)
LEMMA FewFields ==
    ASSUME NEW n \in 1..4, NEW B, NEW g \in Fillings(n, B)
    PROVE  /\ n = 1 => Fieldwise(n, B, g) = PartOf(1, B, g[1])
           /\ n = 2 => Fieldwise(n, B, g) = PartOf(1, B, g[1]) \o PartOf(2, B, g[2])
           /\ n = 3 => Fieldwise(n, B, g) = PartOf(1, B, g[1]) \o (PartOf(2, B, g[2]) \o PartOf(3, B, g[3]))
           /\ n = 4 => Fieldwise(n, B, g)
                         = PartOf(1, B, g[1]) \o (PartOf(2, B, g[2]) \o (PartOf(3, B, g[3]) \o PartOf(4, B, g[4])))
<1>1. n \in 0..15
  OBVIOUS
<1>2. FieldBytes(n, B, g) \in Seq(Seq(Byte)) /\ Len(FieldBytes(n, B, g)) = n
  BY <1>1, FieldwiseParts
<1>3. \A f \in 1..n : FieldBytes(n, B, g)[f] = PartOf(f, B, g[f])
  BY DEF FieldBytes, PartOf
<1>4. PICK ps \in Seq(Seq(Byte)) : ps = FieldBytes(n, B, g) /\ Len(ps) = n
  BY <1>2, Zenon
<1>5. \A f \in 1..n : ps[f] = PartOf(f, B, g[f])
  BY <1>3, <1>4, Zenon
<1>6. /\ Len(ps) = 1 => Flatten(ps) = ps[1]
      /\ Len(ps) = 2 => Flatten(ps) = ps[1] \o ps[2]
      /\ Len(ps) = 3 => Flatten(ps) = ps[1] \o (ps[2] \o ps[3])
      /\ Len(ps) = 4 => Flatten(ps) = ps[1] \o (ps[2] \o (ps[3] \o ps[4]))
  BY FewParts, Zenon
<1>7. /\ n = 1 => 1 \in 1..n
      /\ n = 2 => 1 \in 1..n /\ 2 \in 1..n
      /\ n = 3 => 1 \in 1..n /\ 2 \in 1..n /\ 3 \in 1..n
      /\ n = 4 => 1 \in 1..n /\ 2 \in 1..n /\ 3 \in 1..n /\ 4 \in 1..n
  OBVIOUS
<1> QED BY <1>4, <1>5, <1>6, <1>7, Zenon DEF Fieldwise

(* One number that may be left out.                                        *)
LEMMA OneNumberIsRead ==
    ASSUME NEW n \in Sendable
    PROVE  /\ Value(ParseFields(Implicit(1, n)), 1, 0) = n
           /\ \A d : Value(ParseFields(Implicit(1, n)), 1, d) = IF n = 0 THEN d ELSE n
           /\ Implicit(1, n) = <<>> <=> n = 0
<1> DEFINE g == [f \in 1..1 |-> IF n = 0 THEN None ELSE n]
<1>0. None \notin Sendable /\ 1 \in 0..15
  <2>1. PICK w \in Nat : w = 2^Word
    BY WordHolds
  <2>2. \A k \in 0..(w - 1) : k \in Int
    OBVIOUS
  <2> QED BY <2>1, <2>2, NoneAssumption DEF Sendable
<1>1. g \in Fillings(1, {})
  BY DEF Fillings
<1>2. g[1] = IF n = 0 THEN None ELSE n
  OBVIOUS
<1> HIDE DEF g
<1>3. ParseFields(Fieldwise(1, {}, g)) = Found(1, g)
  BY <1>0, <1>1, MessageIsRead
<1>4. 1 \in 1..1
  OBVIOUS
<1>5. \A d : Value(Found(1, g), 1, d) = IF g[1] = None THEN d ELSE g[1]
  BY <1>0, <1>1, <1>4, FoundTells
<1>6. Fieldwise(1, {}, g) = Implicit(1, n)
  <2>1. 1 \in 1..4
    OBVIOUS
  <2>2. Fieldwise(1, {}, g) = PartOf(1, {}, g[1])
    BY <1>1, <2>1, FewFields
  <2>3. CASE n = 0
    BY <1>2, <2>2, <2>3, Zenon DEF Implicit, PartOf
  <2>4. CASE n # 0
    <3>1. g[1] = n /\ n # None /\ 1 \notin {}
      BY <1>0, <1>2, <2>4, Zenon
    <3> QED BY <2>2, <2>4, <3>1, Zenon DEF Implicit, PartOf
  <2> QED BY <2>3, <2>4
<1>7. \A d : Value(ParseFields(Implicit(1, n)), 1, d) = IF n = 0 THEN d ELSE n
  <2>1. CASE n = 0
    BY <1>2, <1>3, <1>5, <1>6, <2>1, Zenon
  <2>2. CASE n # 0
    <3>1. g[1] = n /\ n # None
      BY <1>0, <1>2, <2>2, Zenon
    <3> QED BY <1>3, <1>5, <1>6, <2>2, <3>1, Zenon
  <2> QED BY <2>1, <2>2
<1>8. Implicit(1, n) = <<>> <=> n = 0
  <2>1. PICK num \in 1..15 : num = 1
    OBVIOUS
  <2>2. n \in Nat
    <3>1. PICK w \in Nat : w = 2^Word
      BY WordHolds
    <3> QED BY <3>1 DEF Sendable
  <2>3. Number(num, n) \in Seq(Byte) /\ Len(Number(num, n)) = Long(n) + 1 /\ Long(n) \in Nat
    BY <2>2, NumberType, VarintType
  <2>4. Number(num, n) # <<>>
    BY <2>3
  <2> QED BY <2>1, <2>4, Zenon DEF Implicit
<1>9. Value(ParseFields(Implicit(1, n)), 1, 0) = n
  BY <1>7, Zenon
<1> QED BY <1>7, <1>8, <1>9, Zenon

(***************************************************************************)
(* Messages of up to four fields, and how every decoder reads them.        *)
(***************************************************************************)
FieldFits(f, B, x) == x = None \/ (f \in B /\ x \in Texts) \/ (f \notin B /\ x \in Sendable)

Message4(B, a, b, c, d) == PartOf(1, B, a) \o (PartOf(2, B, b) \o (PartOf(3, B, c) \o PartOf(4, B, d)))

Or(x, d) == IF x = None THEN d ELSE x

\* Fields 1 to 4 of those found are a to d, None where there is none.
HasFour(xs, a, b, c, d) ==
    \A e : /\ Value(xs, 1, e) = Or(a, e) /\ Value(xs, 2, e) = Or(b, e)
           /\ Value(xs, 3, e) = Or(c, e) /\ Value(xs, 4, e) = Or(d, e)

Knows(wireTypes, B) == \A f \in 1..4 : IF f \in B THEN 2 \in wireTypes ELSE 0 \in wireTypes

(* What the bike puts in a message of four fields, each decoder finds.     *)
LEMMA FourAreRead ==
    ASSUME NEW B, NEW a, NEW b, NEW c, NEW d,
           FieldFits(1, B, a), FieldFits(2, B, b), FieldFits(3, B, c), FieldFits(4, B, d)
    PROVE  /\ HasFour(ParseFields(Message4(B, a, b, c, d)), a, b, c, d)
           /\ \A wireTypes : \A exact \in BOOLEAN : Knows(wireTypes, B) =>
                  HasFour(Fields(Message4(B, a, b, c, d), wireTypes, exact), a, b, c, d)
<1> DEFINE h == [f \in 1..4 |-> IF f = 1 THEN a ELSE IF f = 2 THEN b ELSE IF f = 3 THEN c ELSE d]
<1>1. h[1] = a /\ h[2] = b /\ h[3] = c /\ h[4] = d
  OBVIOUS
<1>2. h \in Fillings(4, B)
  <2>1. \A f \in 1..4 : FieldFits(f, B, h[f])
    <3>1. ASSUME NEW f \in 1..4
          PROVE  FieldFits(f, B, h[f])
      <4>1. f = 1 \/ f = 2 \/ f = 3 \/ f = 4
        OBVIOUS
      <4> HIDE DEF h
      <4> QED BY <1>1, <4>1, Zenon
    <3> QED BY <3>1
  <2>2. DOMAIN h = 1..4 /\ h = [f \in 1..4 |-> h[f]]
    OBVIOUS
  <2> HIDE DEF h
  <2>3. \A f \in 1..4 : h[f] \in Sendable \cup Texts \cup {None}
    BY <2>1, Zenon DEF FieldFits
  <2>4. h \in [1..4 -> Sendable \cup Texts \cup {None}]
    BY <2>2, <2>3
  <2>5. \A f \in 1..4 : h[f] = None \/ (f \in B /\ h[f] \in Texts) \/ (f \notin B /\ h[f] \in Sendable)
    BY <2>1, Zenon DEF FieldFits
  <2> QED BY <2>4, <2>5, Zenon DEF Fillings
<1> HIDE DEF h
<1>3. PICK g \in Fillings(4, B) : g[1] = a /\ g[2] = b /\ g[3] = c /\ g[4] = d
  BY <1>1, <1>2
<1>4. 4 \in 1..4 /\ 4 \in 0..15 /\ 1 \in 1..4 /\ 2 \in 1..4 /\ 3 \in 1..4
  OBVIOUS
<1>5. Fieldwise(4, B, g) = Message4(B, a, b, c, d)
  <2>1. Fieldwise(4, B, g)
          = PartOf(1, B, g[1]) \o (PartOf(2, B, g[2]) \o (PartOf(3, B, g[3]) \o PartOf(4, B, g[4])))
    BY <1>4, FewFields
  <2> QED BY <1>3, <2>1, Zenon DEF Message4
<1>6. HasFour(Found(4, g), a, b, c, d)
  <2>1. ASSUME NEW num \in 1..4
        PROVE  \A e : Value(Found(4, g), num, e) = IF g[num] = None THEN e ELSE g[num]
    BY <1>4, FoundTells
  <2> QED BY <1>3, <1>4, <2>1, Zenon DEF HasFour, Or
<1>7. /\ \A wireTypes : \A exact \in BOOLEAN :
            Knows(wireTypes, B) => Fields(Fieldwise(4, B, g), wireTypes, exact) = Found(4, g)
      /\ ParseFields(Fieldwise(4, B, g)) = Found(4, g)
  BY <1>4, MessageIsRead, Zenon DEF Knows
<1> QED BY <1>5, <1>6, <1>7, Zenon

(* What stands for a field: nothing, a number, a text.                     *)
LEMMA NoneIsNothing == None \notin Sendable /\ None \notin Texts /\ \A f, B : PartOf(f, B, None) = <<>> /\ FieldFits(f, B, None)
<1>1. None \notin Sendable
  <2>1. PICK w \in Nat : w = 2^Word
    BY WordHolds
  <2>2. \A k \in 0..(w - 1) : k \in Int
    OBVIOUS
  <2> QED BY <2>1, <2>2, NoneAssumption DEF Sendable
<1>2. None \notin Texts
  BY NoneAssumption, Zenon DEF Texts, Small, Byte
<1> QED BY <1>1, <1>2, Zenon DEF PartOf, FieldFits

OrNone(n) == IF n = 0 THEN None ELSE n

SomeText(s) == IF s = <<>> THEN None ELSE s

(* A number, there or left out at 0.                                       *)
LEMMA NumberParts ==
    ASSUME NEW f \in 1..15, NEW B, f \notin B, NEW n \in Sendable
    PROVE  /\ PartOf(f, B, n) = Number(f, n) /\ FieldFits(f, B, n)
           /\ PartOf(f, B, OrNone(n)) = Implicit(f, n) /\ FieldFits(f, B, OrNone(n))
           /\ \A e : Or(n, e) = n /\ Or(OrNone(n), e) = (IF n = 0 THEN e ELSE n)
           /\ Number(f, n) \in Seq(Byte) /\ Implicit(f, n) \in Seq(Byte)
<1>1. n # None
  BY NoneIsNothing
<1>2. PartOf(f, B, n) = Number(f, n) /\ FieldFits(f, B, n) /\ FieldFits(f, B, OrNone(n))
  BY <1>1, Zenon DEF PartOf, FieldFits, OrNone
<1>3. PartOf(f, B, OrNone(n)) = Implicit(f, n)
  <2>1. CASE n = 0
    BY <1>2, <2>1, Zenon DEF PartOf, OrNone, Implicit
  <2>2. CASE n # 0
    BY <1>1, <2>2, Zenon DEF PartOf, OrNone, Implicit
  <2> QED BY <2>1, <2>2
<1>4. \A e : Or(n, e) = n /\ Or(OrNone(n), e) = (IF n = 0 THEN e ELSE n)
  <2>1. CASE n = 0
    BY <1>1, <2>1, Zenon DEF Or, OrNone
  <2>2. CASE n # 0
    BY <1>1, <2>2, Zenon DEF Or, OrNone
  <2> QED BY <2>1, <2>2
<1>5. Number(f, n) \in Small(6) /\ Implicit(f, n) \in Small(6) /\ 6 \in Nat
  BY SmallFields
<1>6. Number(f, n) \in Seq(Byte) /\ Implicit(f, n) \in Seq(Byte)
  BY <1>5 DEF Small
<1> QED BY <1>2, <1>3, <1>4, <1>6, Zenon

(* A text, there or left out where it is empty.                            *)
LEMMA TextParts ==
    ASSUME NEW f \in 1..15, NEW B, f \in B, NEW s \in Small(100)
    PROVE  /\ PartOf(f, B, s) = Bytes(f, s) /\ FieldFits(f, B, s)
           /\ PartOf(f, B, SomeText(s)) = Present(f, s) /\ FieldFits(f, B, SomeText(s))
           /\ \A e : Or(s, e) = s /\ Or(SomeText(s), e) = (IF s = <<>> THEN e ELSE s)
           /\ Bytes(f, s) \in Seq(Byte) /\ Present(f, s) \in Seq(Byte)
<1>1. 100 \in Nat /\ 100 < 128 /\ 100 \in 0..100
  OBVIOUS
<1>2. s \in Short /\ s \in Texts
  BY <1>1, SmallIsShort
<1>3. s # None
  BY <1>2, NoneIsNothing, Zenon
<1>4. Bytes(f, s) = Delimited(f, s)
  BY <1>2, BytesAreDelimited
<1>5. PartOf(f, B, s) = Bytes(f, s) /\ FieldFits(f, B, s) /\ FieldFits(f, B, SomeText(s))
  BY <1>2, <1>3, <1>4, Zenon DEF PartOf, FieldFits, SomeText
<1>6. PartOf(f, B, SomeText(s)) = Present(f, s)
  <2>1. CASE s = <<>>
    BY <2>1, Zenon DEF PartOf, SomeText, Present
  <2>2. CASE s # <<>>
    BY <1>3, <1>4, <2>2, Zenon DEF PartOf, SomeText, Present
  <2> QED BY <2>1, <2>2
<1>7. \A e : Or(s, e) = s /\ Or(SomeText(s), e) = (IF s = <<>> THEN e ELSE s)
  <2>1. CASE s = <<>>
    BY <1>3, <2>1, Zenon DEF Or, SomeText
  <2>2. CASE s # <<>>
    BY <1>3, <2>2, Zenon DEF Or, SomeText
  <2> QED BY <2>1, <2>2
<1>8. Bytes(f, s) \in Small(100 + 2) /\ Present(f, s) \in Small(100 + 2)
  BY <1>1, SmallPresent
<1>9. Bytes(f, s) \in Seq(Byte) /\ Present(f, s) \in Seq(Byte)
  BY <1>8 DEF Small
<1> QED BY <1>5, <1>6, <1>7, <1>9, Zenon

\* The parts of a message, of which those past the ones named are empty.
Parts4(B, a, b, c, d, w, x, y, z) ==
    PartOf(1, B, a) = w /\ PartOf(2, B, b) = x /\ PartOf(3, B, c) = y /\ PartOf(4, B, d) = z

(* Nothing in front or behind.                                             *)
LEMMA NothingMore == (\A s \in Seq(Byte) : s \o <<>> = s /\ <<>> \o s = s) /\ <<>> \o <<>> = <<>>
<1>1. PICK e \in Seq(Byte) : e = <<>>
  BY EmptySeq
<1>2. \A s \in Seq(Byte) : s \o <<>> = s /\ <<>> \o s = s
  BY ConcatEmptySeq
<1>3. <<>> \o <<>> = <<>>
  BY <1>1, <1>2, Zenon
<1> QED BY <1>2, <1>3

(* Messages in which some of the fields are left out: all but the first.   *)
LEMMA MessageOfOne ==
    ASSUME NEW B, NEW a, NEW b, NEW c, NEW d, NEW w \in Seq(Byte),
           Parts4(B, a, b, c, d, w, <<>>, <<>>, <<>>)
    PROVE  Message4(B, a, b, c, d) = w
BY NothingMore, Zenon DEF Message4, Parts4

(* The last two.                                                           *)
LEMMA MessageOfTwo ==
    ASSUME NEW B, NEW a, NEW b, NEW c, NEW d, NEW w \in Seq(Byte), NEW x \in Seq(Byte),
           Parts4(B, a, b, c, d, w, x, <<>>, <<>>)
    PROVE  Message4(B, a, b, c, d) = w \o x
BY NothingMore, Zenon DEF Message4, Parts4

(* The second and the last.                                                *)
LEMMA MessageWithoutSecond ==
    ASSUME NEW B, NEW a, NEW b, NEW c, NEW d, NEW w \in Seq(Byte), NEW y \in Seq(Byte),
           Parts4(B, a, b, c, d, w, <<>>, y, <<>>)
    PROVE  Message4(B, a, b, c, d) = w \o y
<1>1. Message4(B, a, b, c, d) = w \o (<<>> \o (y \o <<>>))
  BY Zenon DEF Message4, Parts4
<1> QED BY <1>1, NothingMore, Zenon

(* The first and the last.                                                 *)
LEMMA MessageWithoutFirst ==
    ASSUME NEW B, NEW a, NEW b, NEW c, NEW d, NEW x \in Seq(Byte), NEW y \in Seq(Byte),
           Parts4(B, a, b, c, d, <<>>, x, y, <<>>)
    PROVE  Message4(B, a, b, c, d) = x \o y
<1>1. Message4(B, a, b, c, d) = <<>> \o (x \o (y \o <<>>))
  BY Zenon DEF Message4, Parts4
<1>2. x \o y \in Seq(Byte)
  BY ConcatProperties
<1> QED BY <1>1, <1>2, NothingMore, Zenon

(* The last.                                                               *)
LEMMA MessageOfThree ==
    ASSUME NEW B, NEW a, NEW b, NEW c, NEW d, NEW w \in Seq(Byte), NEW x \in Seq(Byte), NEW y \in Seq(Byte),
           Parts4(B, a, b, c, d, w, x, y, <<>>)
    PROVE  Message4(B, a, b, c, d) = Concat3(w, x, y)
<1>1. Message4(B, a, b, c, d) = w \o (x \o (y \o <<>>))
  BY Zenon DEF Message4, Parts4
<1>2. w \o (x \o y) = (w \o x) \o y
  BY ConcatAssociative
<1> QED BY <1>1, <1>2, NothingMore, Zenon DEF Concat3

(* The third.                                                              *)
LEMMA MessageWithoutThird ==
    ASSUME NEW B, NEW a, NEW b, NEW c, NEW d, NEW w \in Seq(Byte), NEW x \in Seq(Byte), NEW z \in Seq(Byte),
           Parts4(B, a, b, c, d, w, x, <<>>, z)
    PROVE  Message4(B, a, b, c, d) = Concat3(w, x, z)
<1>1. Message4(B, a, b, c, d) = w \o (x \o (<<>> \o z))
  BY Zenon DEF Message4, Parts4
<1>2. w \o (x \o z) = (w \o x) \o z
  BY ConcatAssociative
<1> QED BY <1>1, <1>2, NothingMore, Zenon DEF Concat3

-----------------------------------------------------------------------------
(***************************************************************************)
(* Runs of numbers, and the statistics.                                    *)
(***************************************************************************)
(***************************************************************************)
(* Runs of varints, and the push of the reachable range.                   *)
(***************************************************************************)
(* The numbers of a run come back in their order.                          *)
LEMMA RunIsRead ==
    ASSUME NEW ns \in Seq(Sendable)
    PROVE  Packed(ns) \in Seq(Byte) /\ VarintsIn(Packed(ns)) = ns
<1> DEFINE parts == [k \in DOMAIN ns |-> Varint(ns[k])]
<1>1. \A n \in Sendable : n \in Nat /\ n < 2^Word
  <2>1. PICK w \in Nat : w = 2^Word
    BY WordHolds
  <2>2. \A n \in 0..(w - 1) : n \in Nat /\ n < w
    OBVIOUS
  <2> QED BY <2>1, <2>2, Zenon DEF Sendable
<1>2. \A k \in 1..Len(ns) : ns[k] \in Sendable /\ Varint(ns[k]) \in Seq(Byte)
  <2>1. ASSUME NEW k \in 1..Len(ns)
        PROVE  ns[k] \in Sendable /\ Varint(ns[k]) \in Seq(Byte)
    <3>1. PICK m \in Sendable : m = ns[k]
      OBVIOUS
    <3>2. m \in Nat
      BY <1>1
    <3>3. Varint(m) \in Seq(Byte)
      BY <3>2, VarintType
    <3> QED BY <3>1, <3>3, Zenon
  <2> QED BY <2>1
<1>3. parts \in Seq(Seq(Byte)) /\ Len(parts) = Len(ns) /\ \A k \in 1..Len(ns) : parts[k] = Varint(ns[k])
  BY <1>2
<1>4. Packed(ns) = Flatten(parts)
  BY DEF Packed
<1> HIDE DEF parts
<1>5. PICK xs \in Seq(Seq(Sendable)) : xs = KeptParts(ns, Sendable) /\ Len(xs) = Len(ns)
  BY KeptPartsType, Zenon
<1>6. \A k \in 1..Len(ns) : xs[k] = <<ns[k]>>
  BY <1>2, <1>5, KeptPartsAt, Zenon
<1>7. Flatten(xs) = ns
  BY <1>5, KeptAll, Zenon DEF Kept
<1>8. Flatten(parts) \in Seq(Byte)
  BY <1>3, FlattenOfSeq
<1>9. PICK p \in Seq(Byte) : p = Packed(ns)
  BY <1>4, <1>8, Zenon
<1>10. LoopOver(RunIn(p), p, Nat)
  BY FieldLoops
<1>11. Seq(Seq(Sendable)) \subseteq Seq(Seq(Nat)) /\ Seq(Sendable) \subseteq Seq(Nat)
  <2>1. Sendable \subseteq Nat
    BY <1>1, Zenon
  <2>2. \A S, T : S \subseteq T => Seq(S) \subseteq Seq(T)
    OBVIOUS
  <2>3. Seq(Sendable) \subseteq Seq(Nat)
    BY <2>1, <2>2, Zenon
  <2> QED BY <2>2, <2>3, Zenon
<1>12. \A k \in 1..Len(parts) : Yields(RunIn(p), p, parts[k], xs[k])
  <2>1. ASSUME NEW k \in 1..Len(ns)
        PROVE  Yields(RunIn(p), p, parts[k], xs[k])
    <3>1. PICK m \in Sendable : m = ns[k]
      BY <1>2, Zenon
    <3>2. m \in Nat /\ m < 2^Word
      BY <1>1
    <3>3. Yields(RunIn(p), p, Varint(m), <<m>>)
      BY <3>2, VarintYields
    <3> QED BY <1>3, <1>6, <3>1, <3>3, Zenon
  <2> QED BY <1>3, <2>1, Zenon
<1>13. Yields(RunIn(p), p, Flatten(parts), Flatten(xs))
  <2>1. xs \in Seq(Seq(Nat)) /\ Len(xs) = Len(parts)
    BY <1>3, <1>5, <1>11, Zenon
  <2> QED BY <1>3, <1>10, <1>12, <2>1, YieldsParts
<1>14. ns \in Seq(Nat) /\ Yields(RunIn(p), p, p, ns)
  BY <1>4, <1>7, <1>9, <1>11, <1>13, Zenon
<1>15. Walk(RunIn(p), 1) = ns
  BY <1>10, <1>14, YieldsAll
<1>16. VarintsIn(p) = Walk(RunIn(p), 1)
  BY DEF VarintsIn, RunIn
<1> QED BY <1>9, <1>15, <1>16, Zenon

(* What is in a push: a run of two numbers in field 1.                     *)
LEMMA RangeIsRead ==
    ASSUME NEW n \in Sendable
    PROVE  /\ Varint(n) \o Varint(3) \in Small(10)
           /\ DecodeUint32List(Bytes(1, Varint(n) \o Varint(3))) = <<n, 3>>
<1>0. 3 \in Sendable /\ 1 \in 1..15 /\ 5 \in Nat
  BY FewAreSendable
<1>1. PICK m \in Sendable : m = 3
  BY <1>0, Zenon
<1>2. Varint(n) \in Small(5) /\ Varint(m) \in Small(5)
  BY <1>0, SmallFields
<1>3. 5 + 5 = 10 /\ 10 \in Nat /\ 100 \in Nat /\ 10 <= 100
  OBVIOUS
<1>4. Varint(n) \o Varint(m) \in Small(5 + 5)
  BY <1>0, <1>2, SmallConcat
<1>5. PICK s \in Small(10) : s = Varint(n) \o Varint(m)
  BY <1>3, <1>4, Zenon
<1>6. s \in Small(100)
  BY <1>3, SmallGrows
<1>7. PICK ns \in Seq(Sendable) : ns = <<n, m>> /\ Len(ns) = 2 /\ ns[1] = n /\ ns[2] = m
  <2>1. <<n, m>> \in Seq(Sendable) /\ Len(<<n, m>>) = 2 /\ <<n, m>>[1] = n /\ <<n, m>>[2] = m
    OBVIOUS
  <2> QED BY <2>1, Zenon
<1>8. Packed(ns) = s
  <2>1. PICK parts \in Seq(Seq(Byte)) : parts = [k \in DOMAIN ns |-> Varint(ns[k])] /\ Len(parts) = 2
                                        /\ parts[1] = Varint(n) /\ parts[2] = Varint(m)
    <3>1. PICK v \in Seq(Byte) : v = Varint(n)
      BY <1>2 DEF Small
    <3>2. PICK u \in Seq(Byte) : u = Varint(m)
      BY <1>2 DEF Small
    <3>3. \A k \in DOMAIN ns : k \in {1, 2}
      BY <1>7
    <3>4. [k \in DOMAIN ns |-> Varint(ns[k])] = [k \in 1..2 |-> IF k = 1 THEN v ELSE u]
      BY <1>7, <3>1, <3>2, <3>3
    <3>5. [k \in 1..2 |-> IF k = 1 THEN v ELSE u] \in Seq(Seq(Byte)) /\ Len([k \in 1..2 |-> IF k = 1 THEN v ELSE u]) = 2
          /\ [k \in 1..2 |-> IF k = 1 THEN v ELSE u][1] = v /\ [k \in 1..2 |-> IF k = 1 THEN v ELSE u][2] = u
      OBVIOUS
    <3> QED BY <3>1, <3>2, <3>4, <3>5, Zenon
  <2>2. Len(parts) = 2 => Flatten(parts) = parts[1] \o parts[2]
    BY FewParts, Zenon
  <2> QED BY <1>5, <2>1, <2>2, Zenon DEF Packed
<1>9. VarintsIn(s) = ns
  BY <1>8, RunIsRead, Zenon
<1>10. PICK one \in 1..15 : one = 1
  OBVIOUS
<1>11. /\ PartOf(one, 1..4, s) = Bytes(one, s) /\ FieldFits(one, 1..4, s) /\ Bytes(one, s) \in Seq(Byte)
       /\ \A e : Or(s, e) = s
  <2>1. one \in 1..4
    BY <1>10
  <2> QED BY <1>6, <2>1, TextParts, Zenon
<1>12. Parts4(1..4, s, None, None, None, Bytes(1, s), <<>>, <<>>, <<>>)
  BY <1>10, <1>11, NoneIsNothing, Zenon DEF Parts4
<1>13. PICK p \in Seq(Byte) : p = Bytes(1, s)
  BY <1>10, <1>11, Zenon
<1>14. Message4(1..4, s, None, None, None) = p
  <2>1. Parts4(1..4, s, None, None, None, p, <<>>, <<>>, <<>>)
    BY <1>12, <1>13, Zenon
  <2> QED BY <2>1, MessageOfOne
<1>15. FieldFits(1, 1..4, s) /\ FieldFits(2, 1..4, None) /\ FieldFits(3, 1..4, None) /\ FieldFits(4, 1..4, None)
  BY <1>10, <1>11, NoneIsNothing, Zenon
<1>16. HasFour(ParseFields(p), s, None, None, None)
  BY <1>14, <1>15, FourAreRead, Zenon
<1>17. DecodeUint32List(p) = ns
  BY <1>9, <1>11, <1>16, Zenon DEF HasFour, DecodeUint32List
<1> QED BY <1>1, <1>5, <1>7, <1>13, <1>17, Zenon

(* Two bytes.                                                              *)
LEMMA PairOfBytes ==
    \A x, y \in Byte : <<x, y>> \in Seq(Byte) /\ Len(<<x, y>>) = 2 /\ <<x, y>>[1] = x /\ <<x, y>>[2] = y
OBVIOUS

\* What stands behind a tag and a length.
Headers(p, tag, s) ==
    /\ p \in Seq(Byte) /\ p[1] = tag /\ p[2] = Len(s) /\ Len(p) = Len(s) + 2 /\ Len(s) \in 0..100
    /\ Slice(p, 3, Len(s)) = s /\ p # <<>> /\ ByteAt(p, 1) = tag
    /\ VarintInWord(p, 2) = ReadAs(Len(s), 3)

(* A text in a field, byte by byte.                                        *)
LEMMA BytesHead ==
    ASSUME NEW num \in 1..15, NEW s \in Small(100)
    PROVE  Headers(Bytes(num, s), 8 * num + 2, s)
<1>1. PICK l \in 0..100 : s \in Seq(Byte) /\ l = Len(s)
  <2>1. 100 \in Nat
    OBVIOUS
  <2>2. s \in Seq(Byte) /\ Len(s) \in Nat /\ Len(s) <= 100
    BY <2>1, SmallIs
  <2>3. PICK l \in Nat : l = Len(s) /\ l <= 100
    BY <2>2, Zenon
  <2>4. l <= 100
    BY <2>3, Zenon
  <2>5. l \in 0..100
    BY <2>4
  <2> QED BY <2>2, <2>3, <2>5, Zenon
<1>2. PICK tag \in Byte : tag = 8 * num + 2
  BY DEF Byte
<1>3. l \in Byte
  BY DEF Byte
<1>4. PICK h \in Seq(Byte) : h = <<tag, l>> /\ Len(h) = 2 /\ h[1] = tag /\ h[2] = l
  <2>1. <<tag, l>> \in Seq(Byte) /\ Len(<<tag, l>>) = 2 /\ <<tag, l>>[1] = tag /\ <<tag, l>>[2] = l
    BY <1>3, PairOfBytes, Zenon
  <2> QED BY <2>1, Zenon
<1>5. PICK p \in Seq(Byte) : /\ p = h \o s /\ Len(p) = Len(s) + 2 /\ p[1] = tag /\ p[2] = l
                             /\ \A j \in Nat : j >= Len(s) => Slice(p, 3, j) = s
  <2>1. /\ h \o s \in Seq(Byte) /\ Len(h \o s) = Len(s) + 2
        /\ (h \o s)[1] = h[1] /\ (h \o s)[2] = h[2]
        /\ \A j \in Nat : j >= Len(s) => Slice(h \o s, 3, j) = s
    <3>1. Len(h) = 2 /\ s \in Seq(Byte)
      BY <1>1, <1>4, Zenon
    <3> QED BY <3>1, Prefixed, Zenon
  <2> QED BY <1>4, <2>1, Zenon
<1>6. Bytes(num, s) = p
  BY <1>1, <1>2, <1>4, <1>5, Zenon DEF Bytes
<1>7. l \in Nat /\ l >= l
  OBVIOUS
<1>8. Slice(p, 3, Len(s)) = s
  BY <1>1, <1>5, <1>7, Zenon
<1>9. PICK m \in Nat : m = Len(p) /\ m = l + 2
  <2>1. l + 2 \in Nat
    OBVIOUS
  <2> QED BY <1>1, <1>5, <2>1, Zenon
<1>10. p # <<>> /\ ByteAt(p, 1) = tag
  <2>1. m >= 1 /\ 1 \in 1..m /\ m # 0
    BY <1>9
  <2>2. 1 \in 1..Len(p) /\ Len(p) # 0
    BY <1>9, <2>1, Zenon
  <2>3. p # <<>>
    <3>1. Len(<<>>) = 0
      OBVIOUS
    <3> QED BY <2>2, <3>1, Zenon
  <2> QED BY <1>5, <2>2, <2>3, Zenon DEF ByteAt
<1>11. Has(p, 2, <<l>>)
  <2>1. Len(<<l>>) = 1 /\ <<l>>[1] = l
    OBVIOUS
  <2>2. \A k \in 1..Len(<<l>>) : p[2 + k - 1] = <<l>>[k]
    BY <1>5, <2>1
  <2>3. 2 + Len(<<l>>) <= Len(p) + 1
    <3>1. 2 + 1 <= m + 1
      BY <1>9
    <3> QED BY <1>9, <2>1, <3>1, Zenon
  <2>4. 2 \in Nat /\ 2 > 0
    OBVIOUS
  <2> QED BY <2>2, <2>3, <2>4, Zenon DEF Has
<1>12. VarintInWord(p, 2) = ReadAs(l, 2 + 1)
  <2>1. l \in Nat /\ l < 128
    OBVIOUS
  <2> QED BY <1>11, <2>1, TagIsByte
<1>13. 2 + 1 = 3
  OBVIOUS
<1>14. VarintInWord(p, 2) = ReadAs(l, 3)
  BY <1>12, <1>13, Zenon
<1> QED BY <1>1, <1>2, <1>5, <1>6, <1>8, <1>10, <1>14, Zenon DEF Headers

(* Two numbers, the first of which may be left out: what stands for them.  *)
LEMMA TwoNumbers ==
    ASSUME NEW m \in Sendable, NEW n \in Sendable
    PROVE  \E p \in Small(12) : /\ p = Implicit(1, m) \o Number(2, n)
                                /\ HasFour(Fields(p, {0}, FALSE), OrNone(m), n, None, None)
<1>1. PICK one \in 1..15 : one = 1
  OBVIOUS
<1>2. PICK two \in 1..15 : two = 2
  OBVIOUS
<1>3. PartOf(one, {}, OrNone(m)) = Implicit(one, m) /\ FieldFits(one, {}, OrNone(m)) /\ Implicit(one, m) \in Seq(Byte)
  <2>1. one \notin {}
    OBVIOUS
  <2> QED BY <2>1, NumberParts, Zenon
<1>4. PartOf(two, {}, n) = Number(two, n) /\ FieldFits(two, {}, n) /\ Number(two, n) \in Seq(Byte)
  <2>1. two \notin {}
    OBVIOUS
  <2> QED BY <2>1, NumberParts, Zenon
<1>5. PICK w \in Seq(Byte) : w = Implicit(1, m)
  BY <1>1, <1>3, Zenon
<1>6. PICK x \in Seq(Byte) : x = Number(2, n)
  BY <1>2, <1>4, Zenon
<1>7. Parts4({}, OrNone(m), n, None, None, w, x, <<>>, <<>>)
  BY <1>1, <1>2, <1>3, <1>4, <1>5, <1>6, NoneIsNothing, Zenon DEF Parts4
<1>8. Message4({}, OrNone(m), n, None, None) = w \o x
  BY <1>7, MessageOfTwo
<1>9. HasFour(Fields(Message4({}, OrNone(m), n, None, None), {0}, FALSE), OrNone(m), n, None, None)
  <2>1. Knows({0}, {})
    BY DEF Knows
  <2>2. FALSE \in BOOLEAN
    OBVIOUS
  <2>3. FieldFits(1, {}, OrNone(m)) /\ FieldFits(2, {}, n) /\ FieldFits(3, {}, None) /\ FieldFits(4, {}, None)
    BY <1>1, <1>2, <1>3, <1>4, NoneIsNothing, Zenon
  <2> QED BY <2>1, <2>2, <2>3, FourAreRead, Zenon
<1>10. w \o x \in Small(6 + 6)
  <2>1. Implicit(one, m) \in Small(6) /\ Number(two, n) \in Small(6) /\ 6 \in Nat
    BY SmallFields
  <2>2. Implicit(one, m) \o Number(two, n) \in Small(6 + 6)
    BY <2>1, SmallConcat
  <2> QED BY <1>1, <1>2, <1>5, <1>6, <2>2, Zenon
<1>11. 6 + 6 = 12
  OBVIOUS
<1> QED BY <1>5, <1>6, <1>8, <1>9, <1>10, <1>11, Zenon

(* The statistics of a mode, in their envelope.                            *)
LEMMA StatisticsAreRead ==
    ASSUME NEW d \in Numbers
    PROVE  /\ Bytes(1, Implicit(1, d) \o Number(2, 7)) \in Small(250)
           /\ DecodeStatistics(Bytes(1, Implicit(1, d) \o Number(2, 7)))
                = [distance |-> IF d = 0 THEN None ELSE d, consumedEnergy |-> 7]
<1>1. d \in Sendable /\ 7 \in Sendable
  BY NumbersAreSendable, FewAreSendable
<1>2. PICK n \in Sendable : n = 7
  BY <1>1, Zenon
<1>3. PICK s \in Small(12) : s = Implicit(1, d) \o Number(2, n) /\ HasFour(Fields(s, {0}, FALSE), OrNone(d), n, None, None)
  BY <1>1, TwoNumbers
<1>4. 12 \in Nat /\ 100 \in Nat /\ 12 <= 100 /\ 100 \in 0..100
  OBVIOUS
<1>5. s \in Small(100)
  BY <1>4, SmallGrows
<1>6. PICK one \in 1..15 : one = 1
  OBVIOUS
<1>7. Headers(Bytes(one, s), 8 * one + 2, s)
  BY <1>5, BytesHead
<1>8. 8 * one + 2 = 10
  BY <1>6
<1>9. PICK p : p = Bytes(1, s) /\ Headers(p, 10, s)
  BY <1>6, <1>7, <1>8, Zenon
<1>10. ReadAs(Len(s), 3).value = Len(s) /\ ReadAs(Len(s), 3).next = 3
  BY DEF ReadAs
<1>11. Unwrapped(p, VarintInWord(p, 2)) = s
  BY <1>9, <1>10, Zenon DEF Headers, Unwrapped
<1>12. /\ Value(Fields(s, {0}, FALSE), 1, None) = Or(OrNone(d), None)
       /\ Value(Fields(s, {0}, FALSE), 2, None) = Or(n, None)
  BY <1>3, Zenon DEF HasFour
<1>13. Or(OrNone(d), None) = (IF d = 0 THEN None ELSE d) /\ Or(n, None) = n
  <2>1. one \notin {}
    OBVIOUS
  <2> QED BY <1>1, <2>1, NumberParts
<1>14. DecodeStatistics(p) = [distance |-> IF d = 0 THEN None ELSE d, consumedEnergy |-> n]
  BY <1>11, <1>12, <1>13, Zenon DEF DecodeStatistics, StatisticsIn
<1>15. Bytes(one, s) \in Small(250)
  <2>1. Bytes(one, s) \in Small(100 + 2)
    BY <1>4, <1>5, SmallPresent, Zenon
  <2>2. 100 + 2 \in 0..250
    OBVIOUS
  <2> QED BY <2>1, <2>2, SmallEnough, Zenon
<1> QED BY <1>2, <1>3, <1>6, <1>9, <1>14, <1>15, Zenon

-----------------------------------------------------------------------------
(***************************************************************************)
(* Lists of texts.                                                         *)
(***************************************************************************)
(***************************************************************************)
(* Lists: a field that is repeated, with a text each time.                 *)
(***************************************************************************)
Entries(es) == [k \in DOMAIN es |-> Bytes(1, es[k])]

Entry(s) == FieldOf(1, s)

Single == [s \in Small(100) |-> Entry(s)]

(* What is known of an entry.                                              *)
LEMMA EntryIs ==
    ASSUME NEW s \in Small(100)
    PROVE  /\ Entry(s) \in FieldSet /\ Entry(s).num = 1 /\ Entry(s).value = s /\ Entry(s).whole
           /\ Bytes(1, s) = Delimited(1, s) /\ Bytes(1, s) \in Small(102) /\ s \in Texts
<1>1. 100 \in Nat /\ 100 < 128 /\ 1 \in Nat /\ 100 \in 0..100
  OBVIOUS
<1>2. s \in Short /\ s \in Texts
  BY <1>1, SmallIsShort
<1>3. s \in Nat \cup Seq(Byte)
  BY DEF Small
<1>4. Entry(s) \in FieldSet /\ Entry(s).num = 1 /\ Entry(s).value = s
  BY <1>1, <1>3, FieldOfType, Zenon DEF Entry
<1>5. Entry(s).whole
  BY DEF Entry, FieldOf
<1>6. PICK one \in 1..15 : one = 1
  OBVIOUS
<1>7. Bytes(one, s) = Delimited(one, s)
  BY <1>2, BytesAreDelimited
<1>8. Bytes(one, s) \in Small(100 + 2)
  BY <1>1, SmallPresent, Zenon
<1>9. 100 + 2 = 102
  OBVIOUS
<1> QED BY <1>2, <1>4, <1>5, <1>6, <1>7, <1>8, <1>9, Zenon

(* The map.                                                                *)
LEMMA SingleMaps ==
    /\ Maps(Single, Small(100), FieldSet)
    /\ \A s \in Small(100) : /\ Single[s] = Entry(s) /\ Single[s] \in FieldSet
                             /\ Single[s].num = 1 /\ Single[s].value = s /\ Single[s].whole
<1>1. \A s \in Small(100) : Single[s] = Entry(s)
  BY DEF Single
<1>2. \A s \in Small(100) : Entry(s) \in FieldSet /\ Entry(s).num = 1 /\ Entry(s).value = s /\ Entry(s).whole
  <2>1. ASSUME NEW s \in Small(100)
        PROVE  Entry(s) \in FieldSet /\ Entry(s).num = 1 /\ Entry(s).value = s /\ Entry(s).whole
    BY EntryIs, Zenon
  <2> QED BY <2>1, Zenon
<1> QED BY <1>1, <1>2, Zenon DEF Maps

(* The loop of protocol.js finds every entry in its place.                 *)
LEMMA EntriesAreFound ==
    ASSUME NEW es \in Seq(Small(100))
    PROVE  /\ Entries(es) \in Seq(Seq(Byte)) /\ Len(Entries(es)) = Len(es)
           /\ Flatten(Entries(es)) \in Seq(Byte)
           /\ Fields(Flatten(Entries(es)), {2}, FALSE) = Each(Single, es)
<1>0. /\ Len(es) \in Nat /\ DOMAIN es = 1..Len(es)
      /\ \A k \in 1..Len(es) : es[k] \in Small(100)
  BY LenProperties, ElementOfSeq
<1>1. \A k \in 1..Len(es) : Bytes(1, es[k]) \in Seq(Byte)
  <2>1. \A s \in Small(100) : Bytes(1, s) \in Seq(Byte)
    BY EntryIs, Zenon DEF Small
  <2> QED BY <1>0, <2>1, Zenon
<1>2. Entries(es) \in Seq(Seq(Byte)) /\ Len(Entries(es)) = Len(es) /\ \A k \in 1..Len(es) : Entries(es)[k] = Bytes(1, es[k])
  BY <1>0, <1>1 DEF Entries
<1>3. PICK ps \in Seq(Seq(Byte)) : ps = Entries(es) /\ Len(ps) = Len(es)
  BY <1>2, Zenon
<1>4. PICK p \in Seq(Byte) : p = Flatten(ps)
  BY FlattenOfSeq
<1>5. PICK fs \in Seq(FieldSet) : fs = Each(Single, es) /\ Len(fs) = Len(es) /\ \A k \in 1..Len(es) : fs[k] = Single[es[k]]
  BY SingleMaps, EachType
<1>6. \A k \in 1..Len(es) : fs[k] = Entry(es[k]) /\ fs[k] \in FieldSet
  BY <1>0, <1>5, SingleMaps, Zenon
<1>7. PICK xs \in Seq(Seq(FieldSet)) : xs = KeptParts(fs, FieldSet) /\ Len(xs) = Len(fs)
  BY KeptPartsType, Zenon
<1>8. \A k \in 1..Len(fs) : xs[k] = <<fs[k]>>
  <2>1. ASSUME NEW k \in 1..Len(fs)
        PROVE  xs[k] = <<fs[k]>>
    <3>1. KeptParts(fs, FieldSet)[k] = IF fs[k] \in FieldSet THEN <<fs[k]>> ELSE <<>>
      BY KeptPartsAt
    <3>2. fs[k] \in FieldSet
      BY <1>5, <1>6, Zenon
    <3> QED BY <1>7, <3>1, <3>2, Zenon
  <2> QED BY <2>1
<1>9. Flatten(xs) = fs
  BY <1>7, KeptAll, Zenon DEF Kept
<1>10. PICK read : read = FieldsIn(p, {2}, FALSE)
  OBVIOUS
<1>11. Hears(read, p, {2}) /\ LoopOver(read, p, FieldSet)
  <2>1. FALSE \in BOOLEAN
    OBVIOUS
  <2>2. Hears(read, p, {2})
    BY <1>10, <2>1, DecodersHear, Zenon
  <2> QED BY <2>2, Zenon DEF Hears
<1>12. \A k \in 1..Len(ps) : Yields(read, p, ps[k], xs[k])
  <2>1. ASSUME NEW k \in 1..Len(es)
        PROVE  Yields(read, p, ps[k], xs[k])
    <3>1. PICK s \in Small(100) : s = es[k]
      BY <1>0, Zenon
    <3>2. Bytes(1, s) = Delimited(1, s) /\ s \in Texts
      BY EntryIs, Zenon
    <3>3. 1 \in 1..15 /\ 2 \in {2}
      OBVIOUS
    <3>4. Yields(read, p, Delimited(1, s), <<FieldOf(1, s)>>)
      BY <1>11, <3>2, <3>3, Zenon DEF Hears
    <3>5. ps[k] = Delimited(1, s) /\ xs[k] = <<Entry(s)>>
      BY <1>2, <1>3, <1>5, <1>6, <1>8, <3>1, <3>2, Zenon
    <3> QED BY <3>4, <3>5, Zenon DEF Entry
  <2> QED BY <1>3, <2>1, Zenon
<1>13. Yields(read, p, Flatten(ps), Flatten(xs))
  <2>1. Len(xs) = Len(ps)
    BY <1>3, <1>5, <1>7, Zenon
  <2> QED BY <1>11, <1>12, <2>1, YieldsParts
<1>14. Walk(read, 1) = fs
  <2>1. Yields(read, p, p, fs)
    BY <1>4, <1>9, <1>13, Zenon
  <2> QED BY <1>11, <2>1, YieldsAll
<1>15. Fields(p, {2}, FALSE) = Walk(read, 1)
  BY <1>10, Zenon DEF Fields, FieldsIn
<1> QED BY <1>2, <1>3, <1>4, <1>5, <1>14, <1>15, Zenon

(* The values of the entries, in their order; and no entry is cut short.   *)
LEMMA EntriesTell ==
    ASSUME NEW es \in Seq(Small(100))
    PROVE  /\ Values(Each(Single, es), 1) = es
           /\ Chosen(Each(Single, es), {k \in DOMAIN Each(Single, es) : Each(Single, es)[k].whole}) = Each(Single, es)
<1>1. PICK fs \in Seq(FieldSet) : fs = Each(Single, es) /\ Len(fs) = Len(es) /\ Len(es) \in Nat /\ \A k \in 1..Len(es) : fs[k] = Single[es[k]] /\ es[k] \in Small(100)
  BY SingleMaps, EachType
<1>2. \A k \in 1..Len(es) : fs[k].num = 1 /\ fs[k].value = es[k] /\ fs[k].whole
  <2>1. ASSUME NEW k \in 1..Len(es)
        PROVE  fs[k].num = 1 /\ fs[k].value = es[k] /\ fs[k].whole
    <3>1. PICK s \in Small(100) : s = es[k]
      BY <1>1, Zenon
    <3>2. Single[s].num = 1 /\ Single[s].value = s /\ Single[s].whole
      BY SingleMaps, Zenon
    <3>3. fs[k] = Single[s]
      BY <1>1, <3>1, Zenon
    <3> QED BY <3>1, <3>2, <3>3
  <2> QED BY <2>1
<1>3. DOMAIN fs = 1..Len(es) /\ DOMAIN es = 1..Len(es)
  BY <1>1, LenProperties
<1>4. Values(fs, 1) = es
  <2>1. \A k \in 1..Len(es) : (IF fs[k].num = 1 THEN <<fs[k].value>> ELSE <<>>) = IF es[k] \in Small(100) THEN <<es[k]>> ELSE <<>>
    BY <1>1, <1>2, Zenon
  <2>2. [k \in DOMAIN fs |-> IF fs[k].num = 1 THEN <<fs[k].value>> ELSE <<>>] = KeptParts(es, Small(100))
    BY <1>3, <2>1, Zenon DEF KeptParts
  <2>3. Values(fs, 1) = Kept(es, Small(100))
    BY <2>2, Zenon DEF Values, Kept
  <2> QED BY <2>3, KeptAll, Zenon
<1>5. Chosen(fs, {k \in DOMAIN fs : fs[k].whole}) = fs
  <2>1. \A k \in DOMAIN fs : k \in {j \in DOMAIN fs : fs[j].whole} <=> fs[k] \in FieldSet
    <3>1. \A k \in 1..Len(es) : fs[k] \in FieldSet
      BY <1>1, SingleMaps, Zenon
    <3> QED BY <1>2, <1>3, <3>1, Zenon
  <2>2. Chosen(fs, {k \in DOMAIN fs : fs[k].whole}) = Kept(fs, FieldSet)
    BY <2>1, ChosenIsKept
  <2> QED BY <2>2, KeptAll, Zenon
<1> QED BY <1>1, <1>4, <1>5, Zenon

\* A message of its own, or a bare text (DecodeConfigIdList).
Bared(e) == IF Len(e) >= 2 /\ e[1] = 10 /\ Len(Slice(e, 3, e[2])) = e[2] THEN Slice(e, 3, e[2]) ELSE e

(* The identifier in a message of its own.                                 *)
LEMMA BaredIs ==
    ASSUME NEW s \in Small(16)
    PROVE  Bared(Bytes(1, s)) = s /\ Bytes(1, s) \in Small(18) /\ Bytes(1, s) \in Small(100) /\ s \in Small(100)
<1>1. 16 \in Nat /\ 18 \in Nat /\ 100 \in Nat /\ 16 <= 100 /\ 18 <= 100 /\ 16 \in 0..100 /\ 16 + 2 = 18
  OBVIOUS
<1>2. s \in Small(100)
  BY <1>1, SmallGrows
<1>3. PICK one \in 1..15 : one = 1
  OBVIOUS
<1>4. Bytes(one, s) \in Small(16 + 2)
  BY <1>1, SmallPresent, Zenon
<1>5. Bytes(1, s) \in Small(18)
  BY <1>1, <1>3, <1>4, Zenon
<1>6. Bytes(1, s) \in Small(100)
  BY <1>1, <1>5, SmallGrows
<1>7. Headers(Bytes(one, s), 8 * one + 2, s)
  BY <1>2, BytesHead
<1>8. 8 * one + 2 = 10
  BY <1>3
<1>9. PICK p : p = Bytes(1, s) /\ Headers(p, 10, s)
  BY <1>3, <1>7, <1>8, Zenon
<1>10. Len(p) >= 2
  <2>1. PICK l \in 0..100 : l = Len(s)
    BY <1>9, Zenon DEF Headers
  <2>2. l + 2 >= 2
    OBVIOUS
  <2> QED BY <1>9, <2>1, <2>2, Zenon DEF Headers
<1>11. Bared(p) = s
  BY <1>9, <1>10, Zenon DEF Headers, Bared
<1> QED BY <1>2, <1>5, <1>6, <1>9, <1>11, Zenon

(* The names, in their order.                                              *)
LEMMA NamesAreRead ==
    ASSUME NEW es \in Seq(Small(100))
    PROVE  DecodeStringList(Flatten(Entries(es))) = es
BY EntriesAreFound, EntriesTell, Zenon DEF DecodeStringList

(* A list of few short texts is short.                                     *)
LEMMA EntriesAreSmall ==
    ASSUME NEW es \in Seq(Small(18)), Len(es) \in 1..3
    PROVE  Flatten(Entries(es)) \in Small(250)
<1>1. PICK n \in 1..3 : n = Len(es)
  OBVIOUS
<1>2. \A s \in Small(18) : Bytes(1, s) \in Small(20)
  <2>1. ASSUME NEW s \in Small(18)
        PROVE  Bytes(1, s) \in Small(20)
    <3>1. PICK one \in 1..15 : one = 1
      OBVIOUS
    <3>2. 18 \in 0..100 /\ 18 + 2 = 20
      OBVIOUS
    <3>3. Bytes(one, s) \in Small(18 + 2)
      BY <3>2, SmallPresent, Zenon
    <3> QED BY <3>1, <3>2, <3>3, Zenon
  <2> QED BY <2>1
<1>3. DOMAIN es = 1..n /\ \A k \in 1..n : es[k] \in Small(18)
  BY <1>1, LenProperties, ElementOfSeq
<1>4. DOMAIN Entries(es) = 1..n /\ \A k \in 1..n : Entries(es)[k] \in Small(20)
  BY <1>2, <1>3 DEF Entries
<1>5. n \in Nat /\ 20 \in Nat /\ n * 20 \in 0..250
  OBVIOUS
<1>6. Flatten(Entries(es)) \in Small(n * 20)
  BY <1>4, <1>5, SmallFlatten
<1> QED BY <1>5, <1>6, SmallEnough, Zenon

(* A message of one text.                                                  *)
LEMMA OneTextIsRead ==
    ASSUME NEW s \in Small(100)
    PROVE  /\ HasFour(ParseFields(Bytes(1, s)), s, None, None, None)
           /\ HasFour(Fields(Bytes(1, s), {0, 2}, TRUE), s, None, None, None)
           /\ Bytes(1, s) # <<>> /\ Bytes(1, s) \in Seq(Byte)
           /\ \A d : Value(ParseFields(Bytes(1, s)), 1, d) = s
<1>1. PICK one \in 1..15 : one = 1
  OBVIOUS
<1>2. /\ PartOf(one, 1..4, s) = Bytes(one, s) /\ FieldFits(one, 1..4, s) /\ Bytes(one, s) \in Seq(Byte)
      /\ \A e : Or(s, e) = s
  <2>1. one \in 1..4
    BY <1>1
  <2> QED BY <2>1, TextParts, Zenon
<1>3. PICK p \in Seq(Byte) : p = Bytes(1, s)
  BY <1>1, <1>2, Zenon
<1>4. Message4(1..4, s, None, None, None) = p
  <2>1. Parts4(1..4, s, None, None, None, p, <<>>, <<>>, <<>>)
    BY <1>1, <1>2, <1>3, NoneIsNothing, Zenon DEF Parts4
  <2> QED BY <2>1, MessageOfOne
<1>5. FieldFits(1, 1..4, s) /\ FieldFits(2, 1..4, None) /\ FieldFits(3, 1..4, None) /\ FieldFits(4, 1..4, None)
  BY <1>1, <1>2, NoneIsNothing, Zenon
<1>6. HasFour(ParseFields(p), s, None, None, None)
  BY <1>4, <1>5, FourAreRead, Zenon
<1>7. HasFour(Fields(p, {0, 2}, TRUE), s, None, None, None)
  <2>1. Knows({0, 2}, 1..4)
    BY DEF Knows
  <2>2. TRUE \in BOOLEAN
    OBVIOUS
  <2> QED BY <1>4, <1>5, <2>1, <2>2, FourAreRead, Zenon
<1>8. p # <<>>
  <2>1. Headers(Bytes(one, s), 8 * one + 2, s)
    BY BytesHead
  <2> QED BY <1>1, <1>3, <2>1, Zenon DEF Headers
<1>9. \A d : Value(ParseFields(p), 1, d) = s
  BY <1>2, <1>6, Zenon DEF HasFour
<1> QED BY <1>3, <1>6, <1>7, <1>8, <1>9, Zenon

(* A number of a word is a number.                                         *)
LEMMA NumbersAreNat == \A n \in Sendable : n \in Nat /\ n < 2^Word
<1>1. PICK w \in Nat : w = 2^Word
  BY WordHolds
<1>2. \A n \in 0..(w - 1) : n \in Nat /\ n < w
  OBVIOUS
<1> QED BY <1>1, <1>2, Zenon DEF Sendable

-----------------------------------------------------------------------------
(***************************************************************************)
(* Which of its fields a message has.                                      *)
(***************************************************************************)
(***************************************************************************)
(* The part of a message that stands for a field, and the messages made of *)
(* some of the first four fields.                                          *)
(***************************************************************************)
Slot(f, B, x, part) == PartOf(f, B, x) = part /\ FieldFits(f, B, x) /\ part \in Seq(Byte)

NumberSlots(f, B) == \A n \in Sendable : Slot(f, B, n, Number(f, n)) /\ Slot(f, B, OrNone(n), Implicit(f, n))

TextSlots(f, B) == \A s \in Small(100) : Slot(f, B, s, Bytes(f, s)) /\ Slot(f, B, SomeText(s), Present(f, s))

IsRead(B, p, a, b, c, d) ==
    /\ p \in Seq(Byte) /\ HasFour(ParseFields(p), a, b, c, d)
    /\ \A wireTypes : \A exact \in BOOLEAN : Knows(wireTypes, B) => HasFour(Fields(p, wireTypes, exact), a, b, c, d)

(* A field is a number, a text, or left out.                               *)
LEMMA SlotsAre ==
    ASSUME NEW B, NEW f \in 1..15
    PROVE  /\ f \notin B => NumberSlots(f, B)
           /\ f \in B => TextSlots(f, B)
           /\ Slot(f, B, None, <<>>)
<1>1. f \notin B => NumberSlots(f, B)
  BY NumberParts, Zenon DEF NumberSlots, Slot
<1>2. f \in B => TextSlots(f, B)
  BY TextParts, Zenon DEF TextSlots, Slot
<1>3. <<>> \in Seq(Byte)
  OBVIOUS
<1> QED BY <1>1, <1>2, <1>3, NoneIsNothing, Zenon DEF Slot

(* The first four.                                                         *)
LEMMA FirstSlots ==
    ASSUME NEW B
    PROVE  /\ 1 \notin B => NumberSlots(1, B)
           /\ 2 \notin B => NumberSlots(2, B)
           /\ 3 \notin B => NumberSlots(3, B)
           /\ 4 \notin B => NumberSlots(4, B)
           /\ 1 \in B => TextSlots(1, B)
           /\ 2 \in B => TextSlots(2, B)
           /\ 3 \in B => TextSlots(3, B)
           /\ Slot(1, B, None, <<>>) /\ Slot(2, B, None, <<>>) /\ Slot(3, B, None, <<>>) /\ Slot(4, B, None, <<>>)
<1>1. 1 \in 1..15 /\ 2 \in 1..15 /\ 3 \in 1..15 /\ 4 \in 1..15
  OBVIOUS
<1> QED BY <1>1, SlotsAre, Zenon

(* Four fields, each of which may be left out.                             *)
LEMMA SlotsAreRead ==
    ASSUME NEW B, NEW a, NEW b, NEW c, NEW d, NEW w, NEW x, NEW y, NEW z, NEW p \in Seq(Byte),
           Slot(1, B, a, w), Slot(2, B, b, x), Slot(3, B, c, y), Slot(4, B, d, z),
           Parts4(B, a, b, c, d, w, x, y, z) => Message4(B, a, b, c, d) = p
    PROVE  IsRead(B, p, a, b, c, d)
<1>1. Parts4(B, a, b, c, d, w, x, y, z)
  BY Zenon DEF Slot, Parts4
<1>2. FieldFits(1, B, a) /\ FieldFits(2, B, b) /\ FieldFits(3, B, c) /\ FieldFits(4, B, d)
  BY Zenon DEF Slot
<1>3. Message4(B, a, b, c, d) = p
  BY <1>1
<1> QED BY <1>2, <1>3, FourAreRead, Zenon DEF IsRead

(* The parts, where some of them are there.                                *)
LEMMA OnlyFirst ==
    ASSUME NEW B, NEW a, NEW w, Slot(1, B, a, w)
    PROVE  IsRead(B, w, a, None, None, None)
<1>1. w \in Seq(Byte)
  BY Zenon DEF Slot
<1>2. Parts4(B, a, None, None, None, w, <<>>, <<>>, <<>>) => Message4(B, a, None, None, None) = w
  BY <1>1, MessageOfOne
<1> QED BY <1>1, <1>2, FirstSlots, SlotsAreRead, Zenon

(* The first two.                                                          *)
LEMMA FirstAndSecond ==
    ASSUME NEW B, NEW a, NEW b, NEW w, NEW x, Slot(1, B, a, w), Slot(2, B, b, x)
    PROVE  IsRead(B, w \o x, a, b, None, None)
<1>1. w \in Seq(Byte) /\ x \in Seq(Byte)
  BY Zenon DEF Slot
<1>2. PICK p \in Seq(Byte) : p = w \o x
  <2>1. w \o x \in Seq(Byte)
    BY <1>1, ConcatProperties
  <2> QED BY <2>1
<1>3. Parts4(B, a, b, None, None, w, x, <<>>, <<>>) => Message4(B, a, b, None, None) = w \o x
  BY <1>1, MessageOfTwo
<1>4. Slot(3, B, None, <<>>) /\ Slot(4, B, None, <<>>)
  BY FirstSlots
<1>5. IsRead(B, p, a, b, None, None)
  BY <1>2, <1>3, <1>4, SlotsAreRead, Zenon
<1> QED BY <1>2, <1>5

(* The first and the third.                                                *)
LEMMA FirstAndThird ==
    ASSUME NEW B, NEW a, NEW c, NEW w, NEW y, Slot(1, B, a, w), Slot(3, B, c, y)
    PROVE  IsRead(B, w \o y, a, None, c, None)
<1>1. w \in Seq(Byte) /\ y \in Seq(Byte)
  BY Zenon DEF Slot
<1>2. PICK p \in Seq(Byte) : p = w \o y
  <2>1. w \o y \in Seq(Byte)
    BY <1>1, ConcatProperties
  <2> QED BY <2>1
<1>3. Parts4(B, a, None, c, None, w, <<>>, y, <<>>) => Message4(B, a, None, c, None) = w \o y
  BY <1>1, MessageWithoutSecond
<1>4. Slot(2, B, None, <<>>) /\ Slot(4, B, None, <<>>)
  BY FirstSlots
<1>5. IsRead(B, p, a, None, c, None)
  BY <1>2, <1>3, <1>4, SlotsAreRead, Zenon
<1> QED BY <1>2, <1>5

(* The second and the third.                                               *)
LEMMA SecondAndThird ==
    ASSUME NEW B, NEW b, NEW c, NEW x, NEW y, Slot(2, B, b, x), Slot(3, B, c, y)
    PROVE  IsRead(B, x \o y, None, b, c, None)
<1>1. x \in Seq(Byte) /\ y \in Seq(Byte)
  BY Zenon DEF Slot
<1>2. PICK p \in Seq(Byte) : p = x \o y
  <2>1. x \o y \in Seq(Byte)
    BY <1>1, ConcatProperties
  <2> QED BY <2>1
<1>3. Parts4(B, None, b, c, None, <<>>, x, y, <<>>) => Message4(B, None, b, c, None) = x \o y
  BY <1>1, MessageWithoutFirst
<1>4. Slot(1, B, None, <<>>) /\ Slot(4, B, None, <<>>)
  BY FirstSlots
<1>5. IsRead(B, p, None, b, c, None)
  BY <1>2, <1>3, <1>4, SlotsAreRead, Zenon
<1> QED BY <1>2, <1>5

(* Three sequences, one behind the other.                                  *)
LEMMA Concat3Type ==
    ASSUME NEW x \in Seq(Byte), NEW y \in Seq(Byte), NEW z \in Seq(Byte)
    PROVE  Concat3(x, y, z) \in Seq(Byte)
<1>1. x \o y \in Seq(Byte)
  BY ConcatProperties
<1>2. PICK v \in Seq(Byte) : v = x \o y
  BY <1>1
<1>3. v \o z \in Seq(Byte)
  BY ConcatProperties
<1> QED BY <1>2, <1>3, Zenon DEF Concat3

(* The first three.                                                        *)
LEMMA FirstThree ==
    ASSUME NEW B, NEW a, NEW b, NEW c, NEW w, NEW x, NEW y, Slot(1, B, a, w), Slot(2, B, b, x), Slot(3, B, c, y)
    PROVE  IsRead(B, Concat3(w, x, y), a, b, c, None)
<1>1. w \in Seq(Byte) /\ x \in Seq(Byte) /\ y \in Seq(Byte)
  BY Zenon DEF Slot
<1>2. PICK p \in Seq(Byte) : p = Concat3(w, x, y)
  <2>1. Concat3(w, x, y) \in Seq(Byte)
    BY <1>1, Concat3Type, Zenon
  <2> QED BY <2>1
<1>3. Parts4(B, a, b, c, None, w, x, y, <<>>) => Message4(B, a, b, c, None) = Concat3(w, x, y)
  BY <1>1, MessageOfThree
<1>4. Slot(4, B, None, <<>>)
  BY FirstSlots
<1>5. IsRead(B, p, a, b, c, None)
  BY <1>2, <1>3, <1>4, SlotsAreRead, Zenon
<1> QED BY <1>2, <1>5

(* All but the third.                                                      *)
LEMMA AllButThird ==
    ASSUME NEW B, NEW a, NEW b, NEW d, NEW w, NEW x, NEW z, Slot(1, B, a, w), Slot(2, B, b, x), Slot(4, B, d, z)
    PROVE  IsRead(B, Concat3(w, x, z), a, b, None, d)
<1>1. w \in Seq(Byte) /\ x \in Seq(Byte) /\ z \in Seq(Byte)
  BY Zenon DEF Slot
<1>2. PICK p \in Seq(Byte) : p = Concat3(w, x, z)
  <2>1. Concat3(w, x, z) \in Seq(Byte)
    BY <1>1, Concat3Type, Zenon
  <2> QED BY <2>1
<1>3. Parts4(B, a, b, None, d, w, x, <<>>, z) => Message4(B, a, b, None, d) = Concat3(w, x, z)
  BY <1>1, MessageWithoutThird
<1>4. Slot(3, B, None, <<>>)
  BY FirstSlots
<1>5. IsRead(B, p, a, b, None, d)
  BY <1>2, <1>3, <1>4, SlotsAreRead, Zenon
<1> QED BY <1>2, <1>5

-----------------------------------------------------------------------------
(***************************************************************************)
(* Messages in messages: the issues.                                       *)
(***************************************************************************)
(***************************************************************************)
(* The answer about an issue.                                              *)
(***************************************************************************)
HoldsNumber(p, n) == ByteAt(p, 1) \div 8 = 1 /\ VarintExact(p, 2).value = n /\ p \in Small(7)

(* A number in a message of its own, of twice a word at most.              *)
LEMMA NumberInMessage ==
    ASSUME NEW n \in Nat, n \div 128 < 2^Word
    PROVE  HoldsNumber(Number(1, n), n)
<1>1. PICK one \in 1..15 : one = 1
  OBVIOUS
<1>2. PICK h \in Seq(Byte) : h = <<8 * one>> /\ Len(h) = 1 /\ h[1] = 8
  <2>1. <<8 * one>> \in Seq(Byte) /\ Len(<<8 * one>>) = 1 /\ <<8 * one>>[1] = 8 * one
    BY NumberType
  <2>2. 8 * one = 8
    BY <1>1
  <2> QED BY <2>1, <2>2, Zenon
<1>3. PICK v \in Seq(Byte) : v = Varint(n)
  BY VarintType
<1>4. PICK p \in Seq(Byte) : p = Number(one, n) /\ p = h \o v /\ Len(p) = Long(n) + 1
  <2>1. Number(one, n) \in Seq(Byte) /\ Len(Number(one, n)) = Long(n) + 1
    BY NumberType
  <2>2. Number(one, n) = h \o v
    BY <1>2, <1>3, Zenon DEF Number
  <2> QED BY <2>1, <2>2, Zenon
<1>5. Has(p, 1, h) /\ Has(p, 1 + Len(h), v)
  <2>1. Has(p, 1, h \o v)
    BY <1>4, HasItself, Zenon
  <2> QED BY <1>2, <2>1, HasParts
<1>6. ByteAt(p, 1) \div 8 = 1
  <2>1. PICK k \in 1..Len(h) : k = 1
    BY <1>2
  <2>2. ByteAt(p, 1 + k - 1) = h[k]
    BY <1>5, HasByteAt
  <2>3. 1 + k - 1 = 1
    BY <2>1
  <2>4. ByteAt(p, 1) = 8
    BY <1>2, <2>1, <2>2, <2>3, Zenon
  <2> QED BY <2>4
<1>7. VarintExact(p, 2).value = n
  <2>1. 1 + Len(h) = 2
    BY <1>2
  <2>2. Has(p, 2, Varint(n))
    BY <1>3, <1>5, <2>1, Zenon
  <2>3. VarintExact(p, 2) = ReadAs(n, 2 + Long(n))
    BY <2>2, ExactReadsVarint
  <2> QED BY <2>3 DEF ReadAs
<1>8. Long(n) \in Nat /\ Long(n) <= 6
  <2>1. CASE n < 128
    <3>1. n < 2^Word
      <4>1. n \in 0..255
        BY <2>1
      <4> QED BY <4>1, FewAreSendable, NumbersAreNat, Zenon
    <3> QED BY <3>1, VarintShort
  <2>2. CASE n >= 128
    <3>1. PICK m \in Nat : m = n \div 128
      BY VarintHead
    <3>2. Long(m) \in 1..5
      <4>1. m < 2^Word
        BY <3>1, Zenon
      <4> QED BY <4>1, VarintShort
    <3>3. Long(n) = Long(m) + 1
      BY <2>2, <3>1, VarintTail, Zenon
    <3> QED BY <3>2, <3>3
  <2> QED BY <2>1, <2>2
<1>9. p \in Small(7)
  <2>1. PICK l \in Nat : l = Long(n) /\ l <= 6
    BY <1>8
  <2>2. l + 1 \in Nat /\ l + 1 <= 7
    BY <2>1
  <2>3. Len(p) <= 7
    BY <1>4, <2>1, <2>2, Zenon
  <2> QED BY <2>3 DEF Small
<1> QED BY <1>1, <1>4, <1>6, <1>7, <1>9, Zenon DEF HoldsNumber

(* A number, and twice a number, of an issue.                              *)
LEMMA IssueNumbers ==
    ASSUME NEW t \in Numbers
    PROVE  HoldsNumber(Number(1, t), t) /\ HoldsNumber(Number(1, 2 * t), 2 * t) /\ ZigzagDecode(2 * t) = t /\ t \in Nat
<1>1. t \in Nat /\ t < 2^Word
  BY NumbersAreSendable, NumbersAreNat
<1>2. t \div 128 < 2^Word /\ (2 * t) \div 128 < 2^Word /\ 2 * t \in Nat
  <2>1. PICK w \in Nat : w = 2^Word
    BY WordHolds
  <2>2. t < w
    BY <1>1, <2>1, Zenon
  <2>3. t \div 128 <= t /\ (2 * t) \div 128 <= t /\ t \div 128 \in Nat /\ (2 * t) \div 128 \in Nat
    BY <1>1
  <2>4. PICK x, y \in Nat : x = t \div 128 /\ y = (2 * t) \div 128
    BY <2>3
  <2>5. x < w /\ y < w
    BY <1>1, <2>2, <2>3, <2>4
  <2> QED BY <1>1, <2>1, <2>4, <2>5
<1>3. HoldsNumber(Number(1, t), t)
  BY <1>1, <1>2, NumberInMessage
<1>4. PICK n \in Nat : n = 2 * t /\ n \div 128 < 2^Word
  BY <1>2, Zenon
<1>5. HoldsNumber(Number(1, n), n)
  BY <1>4, NumberInMessage
<1>6. ZigzagDecode(2 * t) = t
  BY <1>1 DEF ZigzagDecode
<1> QED BY <1>1, <1>3, <1>4, <1>5, <1>6, Zenon

(* What a decoder of up to four fields finds, when a field is there.       *)
LEMMA Given == \A e : (\A n \in Sendable : Or(n, e) = n) /\ (\A s \in Small(100) : Or(s, e) = s) /\ Or(None, e) = e
<1>1. 100 \in 0..250
  OBVIOUS
<1>2. \A s \in Small(100) : s \in Texts
  BY <1>1, SmallEnough DEF Texts
<1> QED BY <1>2, NoneIsNothing, Zenon DEF Or

IssueEcho(t) == Concat3(Number(1, 5), Bytes(2, Number(1, t)), Number(3, 1))
=============================================================================
