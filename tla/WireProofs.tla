------------------------------ MODULE WireProofs ------------------------------
(***************************************************************************)
(* Whatever the bike says arrives as it was meant, whichever transport     *)
(* carries it and however notifications are packed: the inductive          *)
(* invariant of Wire (WireInv) relates every frame on its way, in the      *)
(* queue or inside a notification to what the bike meant by it, and every  *)
(* request to what the tool meant; the theorems follow from it.            *)
(***************************************************************************)
EXTENDS Wire, FramesProofs

-----------------------------------------------------------------------------
(***************************************************************************)
(* The live interface.                                                     *)
(***************************************************************************)
(* The numbers of the tags: of the live fields, and of the strangers.      *)
LEMMA TagsFit ==
    /\ \A f \in LiveTold \cup {3} : 8 * f \in Nat /\ 8 * f < 2^Word /\ (8 * f) % 8 = 0 /\ (8 * f) \div 8 = f
    /\ 25 < 2^Word /\ 242 < 2^Word /\ 37 < 2^Word
<1>1. \A f \in 1..25 : 8 * f \in Nat /\ 8 * f < 65536 /\ (8 * f) % 8 = 0 /\ (8 * f) \div 8 = f
  OBVIOUS
<1>2. LiveTold \cup {3} \subseteq 1..25
  BY DEF LiveTold, Cadence
<1> QED BY <1>1, <1>2, WordHolds

(* A number field that a varint stands behind.                             *)
LEMMA LiveVarintYields ==
    ASSUME NEW p \in Seq(Byte), NEW f \in LiveTold \cup {3}, NEW n \in Nat, n < 2^Word
    PROVE  Yields(LiveIn(p), p, Varint(8 * f) \o Varint(n), <<LiveFound(f, 0, n)>>)
<1> DEFINE tag == 8 * f
           s == Varint(n)
           x == LiveFound(f, 0, n)
<1>1. tag \in Nat /\ tag < 2^Word /\ tag % 8 = 0 /\ tag \div 8 = f
  BY TagsFit
<1>2. s \in Seq(Byte) /\ Len(s) = Long(n) /\ Long(n) \in Nat
  BY VarintType DEF Long
<1>3. Long(tag) \in Nat
  BY <1>1, VarintType
<1>4. ASSUME NEW j \in Nat, Has(p, j + Long(tag), s)
      PROVE  LiveField(ReadAs(tag, j + Long(tag)), VarintLow(p, j + Long(tag))) = Finds(x, j + (Long(tag) + Len(s)))
  <2>1. VarintLow(p, j + Long(tag)) = ReadAs(n, j + Long(tag) + Long(n))
    BY <1>4, LowReadsVarint
  <2>2. j + Long(tag) + Long(n) = j + (Long(tag) + Len(s))
    BY <1>2, <1>3
  <2>3. \A a, b : ReadAs(a, b).value = a /\ ReadAs(a, b).next = b
    BY DEF ReadAs
  <2>4. \A t, v : t.value % 8 = 0 => LiveField(t, v) = Finds(LiveFound(t.value \div 8, 0, v.value), v.next)
    BY DEF LiveField, LiveFound
  <2> HIDE DEF tag, s
  <2> QED BY <1>1, <2>1, <2>2, <2>3, <2>4
<1> HIDE DEF tag, s, x
<1>5. Yields(LiveIn(p), p, Varint(tag) \o s, <<x>>)
  BY <1>1, <1>2, <1>4, LiveYieldsOne
<1> QED BY <1>5 DEF tag, s, x

(* And one that -2 stands behind.                                          *)
LEMMA LiveNegativeYields ==
    ASSUME NEW p \in Seq(Byte), NEW f \in LiveTold, NEW v \in Int, v + 2 = 0
    PROVE  Yields(LiveIn(p), p, Varint(8 * f) \o Negative(v), <<LiveFound(f, 0, 2^Word - 2)>>)
<1> DEFINE tag == 8 * f
           s == Negative(v)
           n == 2^Word - 2
           x == LiveFound(f, 0, n)
<1>1. tag \in Nat /\ tag < 2^Word /\ tag % 8 = 0 /\ tag \div 8 = f
  BY TagsFit
<1>2. s \in Seq(Byte) /\ Len(s) = Ends /\ Ends \in Nat
  BY NegativeType, EndsBehindWord
<1>3. Long(tag) \in Nat
  BY <1>1, VarintType
<1>4. ASSUME NEW j \in Nat, Has(p, j + Long(tag), s)
      PROVE  LiveField(ReadAs(tag, j + Long(tag)), VarintLow(p, j + Long(tag))) = Finds(x, j + (Long(tag) + Len(s)))
  <2>1. VarintLow(p, j + Long(tag)) = ReadAs(n, j + Long(tag) + Ends)
    BY <1>4, LowReadsNegative
  <2>2. j + Long(tag) + Ends = j + (Long(tag) + Len(s))
    BY <1>2, <1>3
  <2>3. \A a, b : ReadAs(a, b).value = a /\ ReadAs(a, b).next = b
    BY DEF ReadAs
  <2>4. \A t, w : t.value % 8 = 0 => LiveField(t, w) = Finds(LiveFound(t.value \div 8, 0, w.value), w.next)
    BY DEF LiveField, LiveFound
  <2> HIDE DEF tag, s, n
  <2> QED BY <1>1, <2>1, <2>2, <2>3, <2>4
<1> HIDE DEF tag, s, x
<1>5. Yields(LiveIn(p), p, Varint(tag) \o s, <<x>>)
  BY <1>1, <1>2, <1>4, LiveYieldsOne
<1> QED BY <1>5 DEF tag, s, x

(* None of the strangers is heard.                                         *)
LEMMA StrangersAreUnheard ==
    ASSUME NEW p \in Seq(Byte), NEW s \in Strangers
    PROVE  s \in Seq(Byte) /\ Unheard(p, s)
<1>1. \/ s = <<>> \/ s = <<24, 200, 1>> \/ s = <<25, 8, 1, 8, 1, 8, 1, 8, 1>>
      \/ s = <<242, 1, 2, 8, 1>> \/ s = <<37, 8, 1, 8, 1>>
  BY DEF Strangers
<1>2. 3 \notin LiveFields /\ 30 \notin LiveFields /\ 4 \notin LiveFields
  BY DEF LiveFields, LiveNumbers, Cadence, LiveFlags
<1>3. Long(24) = 1 /\ Long(25) = 1 /\ Long(37) = 1 /\ Long(242) = 2 /\ Long(2) = 1
  BY StrangerBytes DEF Long
<1>4. LoopOver(LiveIn(p), p, LiveSet)
  BY FieldLoops
<1>5. \A a, b : ReadAs(a, b).value = a /\ ReadAs(a, b).next = b
  BY DEF ReadAs
<1>6. CASE s = <<>>
  <2>1. <<>> \in Seq(Byte) /\ <<>> \in Seq(LiveSet)
    BY EmptySeq
  <2>2. Yields(LiveIn(p), p, <<>>, <<>>)
    BY <1>4, YieldsNothing
  <2>3. \A f \in LiveFields : Silent(Kept(<<>>, Wired), f)
    BY KeptOfNone, ValueOfNone DEF Silent
  <2> QED BY <1>6, <2>1, <2>2, <2>3 DEF Unheard
<1>7. CASE s = <<24, 200, 1>>
  <2>1. 200 \in Nat /\ 200 < 2^Word /\ 3 \in LiveTold \cup {3} /\ 8 * 3 = 24 /\ 3 \in Nat /\ 0 \in Nat
    BY WordHolds
  <2>2. ASSUME NEW f \in LiveTold \cup {3}, NEW n \in Nat, n < 2^Word
        PROVE  Yields(LiveIn(p), p, Varint(8 * f) \o Varint(n), <<LiveFound(f, 0, n)>>)
    BY <2>2, LiveVarintYields
  <2>3. Yields(LiveIn(p), p, s, <<LiveFound(3, 0, 200)>>)
    <3>1. PICK f \in LiveTold \cup {3} : f = 3 /\ 8 * f = 24
      BY <2>1
    <3>2. Yields(LiveIn(p), p, Varint(8 * f) \o Varint(200), <<LiveFound(f, 0, 200)>>)
      BY <2>1, <2>2
    <3>3. Varint(8 * f) \o Varint(200) = s
      BY <1>7, <3>1, StrangerBytes, StrangerParts
    <3> QED BY <3>1, <3>2, <3>3
  <2>4. Unheard(p, s)
    BY <1>2, <2>1, <2>3, StrangerIsUnheard
  <2>5. <<24, 200, 1>> \in Seq(Byte)
    BY DEF Byte
  <2> QED BY <1>7, <2>4, <2>5
<1>8. CASE s = <<25, 8, 1, 8, 1, 8, 1, 8, 1>>
  <2> DEFINE t == <<8, 1, 8, 1, 8, 1, 8, 1>>
             x == LiveFound(3, 1, 0)
  <2>1. t \in Seq(Byte) /\ Len(t) = 8
    BY DEF Byte
  <2>2. 25 \in Nat /\ 25 < 2^Word /\ 25 % 8 = 1 /\ 25 \div 8 = 3 /\ 25 % 8 \in {0, 1, 2, 5}
    BY WordHolds
  <2>3. ASSUME NEW j \in Nat
        PROVE  LiveField(ReadAs(25, j + Long(25)), VarintLow(p, j + Long(25))) = Finds(x, j + (Long(25) + Len(t)))
    <3>1. \A g, v : g.value % 8 = 1 => LiveField(g, v) = Finds(LiveFound(g.value \div 8, 1, 0), g.next + 8)
      BY DEF LiveField, LiveFound
    <3>2. j + 1 + 8 = j + (1 + 8)
      OBVIOUS
    <3> HIDE DEF t
    <3> QED BY <1>3, <1>5, <2>1, <2>2, <3>1, <3>2
  <2> HIDE DEF t, x
  <2>4. Yields(LiveIn(p), p, Varint(25) \o t, <<x>>)
    BY <2>1, <2>2, <2>3, LiveYieldsOne
  <2>5. s = Varint(25) \o t
    BY <1>8, StrangerBytes, StrangerParts DEF t
  <2>6. Unheard(p, s)
    <3>1. 3 \in Nat /\ 1 \in Nat /\ 0 \in Nat
      OBVIOUS
    <3> QED BY <1>2, <2>4, <2>5, <3>1, StrangerIsUnheard DEF x
  <2>7. <<25, 8, 1, 8, 1, 8, 1, 8, 1>> \in Seq(Byte)
    BY DEF Byte
  <2> QED BY <1>8, <2>6, <2>7
<1>9. CASE s = <<242, 1, 2, 8, 1>>
  <2> DEFINE t == <<2, 8, 1>>
             u == <<8, 1>>
             x == LiveFound(30, 2, 0)
  <2>1. t \in Seq(Byte) /\ Len(t) = 3 /\ u \in Seq(Byte) /\ Len(u) = 2
    BY DEF Byte
  <2>2. 242 \in Nat /\ 242 < 2^Word /\ 242 % 8 = 2 /\ 242 \div 8 = 30 /\ 242 % 8 \in {0, 1, 2, 5}
    BY WordHolds
  <2>3. t = Varint(2) \o u
    BY StrangerBytes, StrangerParts
  <2>4. ASSUME NEW j \in Nat, Has(p, j + Long(242), t)
        PROVE  LiveField(ReadAs(242, j + Long(242)), VarintLow(p, j + Long(242))) = Finds(x, j + (Long(242) + Len(t)))
    <3>1. \A g, v : g.value % 8 = 2 => LiveField(g, v) = Finds(LiveFound(g.value \div 8, 2, 0), v.next + v.value)
      BY DEF LiveField, LiveFound
    <3>2. j + 2 + 1 + 2 = j + (2 + 3)
      OBVIOUS
    <3>3. 2 \in Nat /\ 2 < 2^Word
      BY WordHolds
    <3>4. Varint(2) \in Seq(Byte)
      BY VarintType
    <3>5. Has(p, j + 2, Varint(2) \o u)
      <4> HIDE DEF t
      <4> QED BY <1>3, <2>3, <2>4
    <3> HIDE DEF t, u
    <3>6. Has(p, j + 2, Varint(2))
      BY <2>1, <3>4, <3>5, HasParts
    <3>7. VarintLow(p, j + 2) = ReadAs(2, j + 2 + 1)
      BY <1>3, <3>3, <3>6, LowReadsVarint
    <3> QED BY <1>3, <1>5, <2>1, <2>2, <3>1, <3>2, <3>7, SMTT(30)
  <2> HIDE DEF t, x
  <2>5. Yields(LiveIn(p), p, Varint(242) \o t, <<x>>)
    BY <2>1, <2>2, <2>4, LiveYieldsOne, ZenonT(60)
  <2>6. s = Varint(242) \o t
    BY <1>9, StrangerBytes, StrangerParts DEF t
  <2>7. Unheard(p, s)
    <3>1. 30 \in Nat /\ 2 \in Nat /\ 0 \in Nat
      OBVIOUS
    <3> QED BY <1>2, <2>5, <2>6, <3>1, StrangerIsUnheard DEF x
  <2>8. <<242, 1, 2, 8, 1>> \in Seq(Byte)
    BY DEF Byte
  <2> QED BY <1>9, <2>7, <2>8
<1>10. CASE s = <<37, 8, 1, 8, 1>>
  <2> DEFINE t == <<8, 1, 8, 1>>
             x == LiveFound(4, 5, 0)
  <2>1. t \in Seq(Byte) /\ Len(t) = 4
    BY DEF Byte
  <2>2. 37 \in Nat /\ 37 < 2^Word /\ 37 % 8 = 5 /\ 37 \div 8 = 4 /\ 37 % 8 \in {0, 1, 2, 5}
    BY WordHolds
  <2>3. ASSUME NEW j \in Nat
        PROVE  LiveField(ReadAs(37, j + Long(37)), VarintLow(p, j + Long(37))) = Finds(x, j + (Long(37) + Len(t)))
    <3>1. \A g, v : g.value % 8 = 5 => LiveField(g, v) = Finds(LiveFound(g.value \div 8, 5, 0), g.next + 4)
      BY DEF LiveField, LiveFound
    <3>2. j + 1 + 4 = j + (1 + 4)
      OBVIOUS
    <3> HIDE DEF t
    <3> QED BY <1>3, <1>5, <2>1, <2>2, <3>1, <3>2
  <2> HIDE DEF t, x
  <2>4. Yields(LiveIn(p), p, Varint(37) \o t, <<x>>)
    BY <2>1, <2>2, <2>3, LiveYieldsOne
  <2>5. s = Varint(37) \o t
    BY <1>10, StrangerBytes, StrangerParts DEF t
  <2>6. Unheard(p, s)
    <3>1. 4 \in Nat /\ 5 \in Nat /\ 0 \in Nat
      OBVIOUS
    <3> QED BY <1>2, <2>4, <2>5, <3>1, StrangerIsUnheard DEF x
  <2>7. <<37, 8, 1, 8, 1>> \in Seq(Byte)
    BY DEF Byte
  <2> QED BY <1>10, <2>6, <2>7
<1> QED BY <1>1, <1>6, <1>7, <1>8, <1>9, <1>10

(* The values of the model are that.                                       *)
LEMMA LiveValuesAreTellable ==
    ASSUME NEW f \in LiveTold, NEW v \in LiveValues(f)
    PROVE  Tellable(f, v) /\ v # None
<1>1. PICK W \in Nat : W = 2^Word /\ W >= 65536
  BY WordHolds
<1>2. None \notin Int
  BY NoneAssumption
<1>3. CASE f = Cadence
  <2>1. v \in {-2, 90}
    <3>1. f # 17 /\ f \notin LiveFlags
      BY <1>3 DEF LiveFlags, Cadence
    <3> QED BY <1>3, <3>1, Zenon DEF LiveValues
  <2>2. v \in Int /\ (v + 2 = 0 \/ v = 90)
    BY <2>1
  <2>3. CASE v + 2 = 0
    BY <1>2, <1>3, <2>2, <2>3 DEF Tellable
  <2>4. CASE v = 90
    <3>1. v \in Nat /\ v < 2^Word /\ 2 * v < 2^Word /\ f \notin LiveFlags
      BY <1>1, <1>3, <2>4 DEF Cadence, LiveFlags
    <3> QED BY <1>2, <3>1 DEF Tellable
  <2> QED BY <2>2, <2>3, <2>4
<1>4. CASE f # Cadence
  <2>1. v \in Nat /\ v < 2^Word /\ (f \in LiveFlags => v \in {0, 1})
    <3>1. CASE f \in LiveFlags
      <4>1. v \in {0, 1}
        <5>1. f # 17
          BY <3>1 DEF LiveFlags
        <5> QED BY <1>4, <3>1, <5>1, Zenon DEF LiveValues
      <4>2. v = 0 \/ v = 1
        BY <4>1
      <4> QED BY <1>1, <4>1, <4>2
    <3>2. CASE f \notin LiveFlags /\ f = 17
      <4>1. v \in {1, 2}
        BY <1>4, <3>2 DEF LiveValues
      <4>2. v = 1 \/ v = 2
        BY <4>1
      <4> QED BY <1>1, <3>2, <4>2
    <3>3. CASE f \notin LiveFlags /\ f # 17
      <4>1. v \in Numbers
        BY <1>4, <3>3 DEF LiveValues
      <4>2. v \in 0..(2^Word - 1)
        BY <4>1, NumbersAssumption
      <4> QED BY <1>1, <3>3, <4>2
    <3> QED BY <3>1, <3>2, <3>3
  <2> QED BY <1>2, <1>4, <2>1 DEF Tellable
<1> QED BY <1>3, <1>4

\* The updates of the bike: fields that are not told are unset.
LiveUpdate(u) ==
    /\ u = [f \in LiveFields |-> u[f]]
    /\ \A f \in LiveFields : u[f] = None \/ (f \in LiveTold /\ Tellable(f, u[f]) /\ u[f] # None)

(* The updates of the model are such.                                      *)
LEMMA UpdatesAreLive ==
    ASSUME NEW u \in Updates
    PROVE  LiveUpdate(u)
<1>1. LiveTold \subseteq LiveFields /\ 1 \in LiveTold /\ Cadence \in LiveTold /\ 17 \in LiveTold /\ 21 \in LiveTold
  BY DEF LiveTold, LiveFields, LiveNumbers, LiveFlags, Cadence
<1>2. CASE \E f \in LiveTold : \E v \in LiveValues(f) : u = [NothingLive EXCEPT ![f] = v]
  <2>0. PICK f \in LiveTold : \E v \in LiveValues(f) : u = [NothingLive EXCEPT ![f] = v]
    BY <1>2
  <2>1. PICK v \in LiveValues(f) : u = [NothingLive EXCEPT ![f] = v]
    BY <2>0
  <2>2. Tellable(f, v) /\ v # None
    BY LiveValuesAreTellable
  <2>3. u = [g \in LiveFields |-> IF g = f THEN v ELSE None]
    BY <1>1, <2>1 DEF NothingLive
  <2> QED BY <2>2, <2>3 DEF LiveUpdate
<1>3. CASE \E n \in Numbers, c \in LiveValues(Cadence), b \in {0, 1} :
               u = [NothingLive EXCEPT ![1] = n, ![Cadence] = c, ![17] = 1, ![21] = b]
  <2>1. PICK n \in Numbers, c \in LiveValues(Cadence), b \in {0, 1} :
               u = [NothingLive EXCEPT ![1] = n, ![Cadence] = c, ![17] = 1, ![21] = b]
    BY <1>3
  <2>2. n \in LiveValues(1) /\ 1 \in LiveValues(17) /\ b \in LiveValues(21)
    <3>1. 1 \notin LiveFlags /\ 17 \notin LiveFlags /\ 21 \in LiveFlags /\ 1 # Cadence /\ 17 # Cadence /\ 21 # Cadence
      BY DEF LiveFlags, Cadence
    <3> QED BY <3>1 DEF LiveValues
  <2>3. /\ Tellable(1, n) /\ n # None /\ Tellable(Cadence, c) /\ c # None
        /\ Tellable(17, 1) /\ 1 # None /\ Tellable(21, b) /\ b # None
    BY <1>1, <2>2, LiveValuesAreTellable
  <2>4. u = [g \in LiveFields |-> IF g = 21 THEN b ELSE IF g = 17 THEN 1 ELSE IF g = Cadence THEN c
                                  ELSE IF g = 1 THEN n ELSE None]
    BY <1>1, <2>1 DEF NothingLive, Cadence
  <2>5. ASSUME NEW g \in LiveFields PROVE u[g] = None \/ (g \in LiveTold /\ Tellable(g, u[g]) /\ u[g] # None)
    <3>1. u[g] = IF g = 21 THEN b ELSE IF g = 17 THEN 1 ELSE IF g = Cadence THEN c ELSE IF g = 1 THEN n ELSE None
      BY <2>4
    <3>2. CASE g = 21
      BY <1>1, <2>3, <3>1, <3>2
    <3>3. CASE g # 21 /\ g = 17
      BY <1>1, <2>3, <3>1, <3>3
    <3>4. CASE g # 21 /\ g # 17 /\ g = Cadence
      BY <1>1, <2>3, <3>1, <3>4
    <3>5. CASE g # 21 /\ g # 17 /\ g # Cadence
      BY <1>1, <2>3, <3>1, <3>5
    <3> QED BY <3>2, <3>3, <3>4, <3>5
  <2>6. u = [g \in LiveFields |-> u[g]]
    BY <2>4
  <2> QED BY <2>5, <2>6 DEF LiveUpdate
<1> QED BY <1>2, <1>3 DEF Updates

(* A field that is set, as its tag and a number.                           *)
LEMMA LiveNumberYields ==
    ASSUME NEW p \in Seq(Byte), NEW f \in LiveTold, NEW v, Tellable(f, v)
    PROVE  /\ LiveNumber(f, v) \in Seq(Byte)
           /\ Yields(LiveIn(p), p, LiveNumber(f, v), <<LiveFound(f, 0, LowWord(v))>>)
           /\ LowWord(v) \in Nat
<1>1. 8 * f \in Nat
  BY TagsFit
<1>2. Varint(8 * f) \in Seq(Byte)
  BY <1>1, VarintType
<1>3. PICK W \in Nat : W = 2^Word /\ W >= 65536
  BY WordHolds
<1>4. CASE v \in Nat /\ v < 2^Word
  <2>1. v >= 0
    BY <1>4
  <2>2. LiveNumber(f, v) = Varint(8 * f) \o Varint(v) /\ LowWord(v) = v
    BY <2>1 DEF LiveNumber, LowWord
  <2>3. Varint(v) \in Seq(Byte)
    BY <1>4, VarintType
  <2>4. Varint(8 * f) \o Varint(v) \in Seq(Byte)
    BY <1>2, <2>3, ConcatProperties
  <2>5. Yields(LiveIn(p), p, Varint(8 * f) \o Varint(v), <<LiveFound(f, 0, v)>>)
    BY <1>4, LiveVarintYields
  <2> QED BY <1>4, <2>2, <2>4, <2>5
<1>5. CASE v \in Int /\ v + 2 = 0
  <2>1. ~(v >= 0)
    BY <1>5
  <2>2. LiveNumber(f, v) = Varint(8 * f) \o Negative(v)
    BY <2>1, Zenon DEF LiveNumber, Negative, Ends
  <2>3. Negative(v) \in Seq(Byte)
    BY <1>5, NegativeType
  <2>4. Varint(8 * f) \o Negative(v) \in Seq(Byte)
    BY <1>2, <2>3, ConcatProperties
  <2>5. Yields(LiveIn(p), p, Varint(8 * f) \o Negative(v), <<LiveFound(f, 0, 2^Word - 2)>>)
    BY <1>5, LiveNegativeYields
  <2>6. LowWord(v) = 2^Word - 2 /\ 2^Word - 2 \in Nat
    BY <1>3, <2>1 DEF LowWord
  <2> QED BY <2>2, <2>4, <2>5, <2>6
<1> QED BY <1>4, <1>5 DEF Tellable

\* The parts of a message, and what they yield.
LiveParts(u) ==
    [k \in 1..4 |-> IF u[LiveOrder[k]] = None THEN <<>> ELSE LiveNumber(LiveOrder[k], u[LiveOrder[k]])]

LiveFinds(u) ==
    [k \in 1..4 |-> IF u[LiveOrder[k]] = None THEN <<>> ELSE <<LiveFound(LiveOrder[k], 0, LowWord(u[LiveOrder[k]]))>>]

(* The order of a message names every field that is told.                  *)
LEMMA LiveOrderIs ==
    /\ DOMAIN LiveOrder = 1..4
    /\ \A k \in 1..4 : LiveOrder[k] \in LiveTold /\ LiveOrder[k] \in LiveFields /\ LiveOrder[k] \in Nat
    /\ LiveOrder[1] = 1 /\ LiveOrder[2] = Cadence /\ LiveOrder[3] = 17 /\ LiveOrder[4] = 21
    /\ \A j \in 1..4, k \in 1..4 : LiveOrder[j] = LiveOrder[k] => j = k
<1>1. DOMAIN LiveOrder = 1..4 /\ LiveOrder[1] = 1 /\ LiveOrder[2] = 2 /\ LiveOrder[3] = 17 /\ LiveOrder[4] = 21
  BY DEF LiveOrder, Cadence
<1>2. 1 \in LiveTold /\ 2 \in LiveTold /\ 17 \in LiveTold /\ 21 \in LiveTold
  BY DEF LiveTold, Cadence
<1>3. 1 \in LiveFields /\ 2 \in LiveFields /\ 17 \in LiveFields /\ 21 \in LiveFields
  BY DEF LiveFields, LiveNumbers, LiveFlags, Cadence
<1>4. \A k \in 1..4 : k = 1 \/ k = 2 \/ k = 3 \/ k = 4
  OBVIOUS
<1>5. Cadence = 2
  BY DEF Cadence
<1> HIDE DEF LiveOrder
<1>6. \A k \in 1..4 : LiveOrder[k] \in LiveTold /\ LiveOrder[k] \in LiveFields /\ LiveOrder[k] \in Nat
  BY <1>1, <1>2, <1>3, <1>4
<1>7. \A j \in 1..4, k \in 1..4 : LiveOrder[j] = LiveOrder[k] => j = k
  BY <1>1, <1>4
<1> QED BY <1>1, <1>5, <1>6, <1>7

(* A message is its parts.                                                 *)
LEMMA LiveMessageYields ==
    ASSUME NEW p \in Seq(Byte), NEW u, LiveUpdate(u)
    PROVE  /\ LiveMessage(u) \in Seq(Byte)
           /\ LiveFinds(u) \in Seq(Seq(Wired)) /\ Len(LiveFinds(u)) = 4
           /\ Yields(LiveIn(p), p, LiveMessage(u), Flatten(LiveFinds(u)))
<1> DEFINE parts == LiveParts(u)
           xs == LiveFinds(u)
<1>1. DOMAIN LiveOrder = 1..4 /\ \A k \in 1..4 : LiveOrder[k] \in LiveTold /\ LiveOrder[k] \in LiveFields
  BY LiveOrderIs
<1>2. LiveMessage(u) = Flatten(parts)
  BY <1>1, Zenon DEF LiveMessage, LiveParts
<1>3. Wired \subseteq LiveSet
  BY DEF Wired
<1>4. LoopOver(LiveIn(p), p, LiveSet)
  BY FieldLoops
<1>5. <<>> \in Seq(Byte) /\ <<>> \in Seq(Wired)
  BY EmptySeq
<1>6. ASSUME NEW k \in 1..4
      PROVE  parts[k] \in Seq(Byte) /\ xs[k] \in Seq(Wired) /\ Yields(LiveIn(p), p, parts[k], xs[k])
  <2> DEFINE f == LiveOrder[k]
  <2>1. f \in LiveTold /\ f \in LiveFields /\ f \in Nat
    BY LiveOrderIs
  <2>2. parts[k] = IF u[f] = None THEN <<>> ELSE LiveNumber(f, u[f])
    BY DEF LiveParts
  <2>3. xs[k] = IF u[f] = None THEN <<>> ELSE <<LiveFound(f, 0, LowWord(u[f]))>>
    BY DEF LiveFinds
  <2> HIDE DEF parts, xs, f
  <2>4. CASE u[f] = None
    BY <1>4, <1>5, <2>2, <2>3, <2>4, YieldsNothing
  <2>5. CASE u[f] # None
    <3>1. Tellable(f, u[f])
      BY <2>1, <2>5 DEF LiveUpdate
    <3>2. /\ LiveNumber(f, u[f]) \in Seq(Byte)
          /\ Yields(LiveIn(p), p, LiveNumber(f, u[f]), <<LiveFound(f, 0, LowWord(u[f]))>>)
          /\ LowWord(u[f]) \in Nat
      BY <2>1, <3>1, LiveNumberYields
    <3>3. LiveFound(f, 0, LowWord(u[f])) \in Wired
      BY <2>1, <3>2, LiveFoundType
    <3> DEFINE x == LiveFound(f, 0, LowWord(u[f]))
    <3>4. <<x>> \in Seq(Wired)
      <4> HIDE DEF x
      <4>1. x \in Wired
        BY <3>3 DEF x
      <4> QED BY <4>1
    <3> QED BY <2>2, <2>3, <2>5, <3>2, <3>4
  <2> QED BY <2>4, <2>5
<1>7. parts = [k \in 1..4 |-> parts[k]] /\ xs = [k \in 1..4 |-> xs[k]]
  BY DEF LiveParts, LiveFinds
<1> HIDE DEF parts, xs
<1>8. parts \in Seq(Seq(Byte)) /\ Len(parts) = 4
  BY <1>6, <1>7
<1>9. xs \in Seq(Seq(Wired)) /\ Len(xs) = 4
  BY <1>6, <1>7
<1>10. xs \in Seq(Seq(LiveSet))
  <2>1. ASSUME NEW k \in 1..4 PROVE xs[k] \in Seq(LiveSet)
    BY <1>3, <1>6
  <2> QED BY <1>7, <2>1
<1>11. Flatten(parts) \in Seq(Byte)
  BY <1>8, FlattenOfSeq
<1>12. Yields(LiveIn(p), p, Flatten(parts), Flatten(xs))
  <2>1. \A k \in 1..Len(parts) : Yields(LiveIn(p), p, parts[k], xs[k])
    BY <1>6, <1>8
  <2>2. Len(xs) = Len(parts)
    BY <1>8, <1>9
  <2> QED BY <1>4, <1>8, <1>10, <2>1, <2>2, YieldsParts
<1> QED BY <1>2, <1>9, <1>11, <1>12 DEF xs

(* What the fields of an update say of a field.                            *)
LEMMA LiveFindsTell ==
    ASSUME NEW u, LiveUpdate(u), NEW f \in LiveFields
    PROVE  \A d : Value(Flatten(LiveFinds(u)), f, d) = IF u[f] = None THEN d ELSE LowWord(u[f])
<1> DEFINE xs == LiveFinds(u)
<1>1. xs \in Seq(Seq(Wired)) /\ Len(xs) = 4
  <2>1. <<>> \in Seq(Byte)
    BY EmptySeq
  <2> QED BY <2>1, LiveMessageYields
<1>2. ASSUME NEW k \in 1..4, NEW d
      PROVE  Value(xs[k], f, d) = IF u[LiveOrder[k]] # None /\ LiveOrder[k] = f THEN LowWord(u[f]) ELSE d
  <2> DEFINE g == LiveOrder[k]
             x == LiveFound(g, 0, LowWord(u[g]))
  <2>1. xs[k] = IF u[g] = None THEN <<>> ELSE <<x>>
    BY DEF LiveFinds
  <2>2. x.num = g /\ x.value = LowWord(u[g])
    BY DEF LiveFound
  <2> HIDE DEF g, x, xs
  <2>3. CASE u[g] = None
    BY <2>1, <2>3, ValueOfNone DEF g
  <2>4. CASE u[g] # None
    <3>1. Value(<<x>>, f, d) = IF x.num = f THEN x.value ELSE d
      BY ValueOfOne
    <3> QED BY <2>1, <2>2, <2>4, <3>1, Zenon DEF g
  <2> QED BY <2>3, <2>4
<1> HIDE DEF xs
<1>3. CASE \E k \in 1..4 : LiveOrder[k] = f
  <2>1. PICK k \in 1..4 : LiveOrder[k] = f
    BY <1>3
  <2>2. ASSUME NEW j \in 1..4, j # k PROVE Silent(xs[j], f)
    <3>1. LiveOrder[j] # f
      BY <2>1, <2>2, LiveOrderIs
    <3> QED BY <1>2, <3>1 DEF Silent
  <2>3. \A d : Value(Flatten(xs), f, d) = Value(xs[k], f, d)
    BY <1>1, <2>2, ValueOfParts
  <2> QED BY <1>2, <2>1, <2>3 DEF xs
<1>4. CASE \A k \in 1..4 : LiveOrder[k] # f
  <2>1. f \notin LiveTold
    <3>1. f # 1 /\ f # Cadence /\ f # 17 /\ f # 21
      BY <1>4, LiveOrderIs
    <3> QED BY <3>1 DEF LiveTold
  <2>2. u[f] = None
    BY <2>1 DEF LiveUpdate
  <2>3. ASSUME NEW k \in 1..Len(xs) PROVE Silent(xs[k], f)
    BY <1>1, <1>2, <1>4 DEF Silent
  <2>4. Silent(Flatten(xs), f)
    BY <1>1, <2>3, ValueOfSilentParts
  <2> QED BY <2>2, <2>4 DEF Silent, xs
<1> QED BY <1>3, <1>4

(* A message as the tool takes it apart: what the bike told of each field. *)
LEMMA LiveOccurrencesTell ==
    ASSUME NEW u, LiveUpdate(u), NEW s \in Strangers, NEW f \in LiveFields
    PROVE  /\ s \o LiveMessage(u) \in Seq(Byte)
           /\ Value(LiveOccurrences(s \o LiveMessage(u)), f, None)
                 = IF u[f] = None THEN None ELSE LowWord(u[f])
<1> DEFINE m == LiveMessage(u)
           p == s \o m
           read == LiveIn(p)
           ys == Flatten(LiveFinds(u))
<1>1. s \in Seq(Byte) /\ m \in Seq(Byte)
  <2>1. <<>> \in Seq(Byte)
    BY EmptySeq
  <2> QED BY <2>1, StrangersAreUnheard, LiveMessageYields
<1>2. p \in Seq(Byte)
  <2> HIDE DEF m
  <2> QED BY <1>1, ConcatProperties
<1> HIDE DEF p, m
<1>3. PICK xs \in Seq(LiveSet) : Yields(read, p, s, xs) /\ \A g \in LiveFields : Silent(Kept(xs, Wired), g)
  BY <1>2, StrangersAreUnheard DEF Unheard
<1>4. LiveFinds(u) \in Seq(Seq(Wired)) /\ Yields(read, p, m, ys)
  BY <1>2, LiveMessageYields DEF m
<1>5. ys \in Seq(Wired)
  BY <1>4, FlattenOfSeq
<1>6. ys \in Seq(LiveSet)
  BY <1>5 DEF Wired
<1>7. LoopOver(read, p, LiveSet)
  BY <1>2, FieldLoops
<1> HIDE DEF read, ys
<1>8. xs \o ys \in Seq(LiveSet)
  BY <1>3, <1>6, ConcatProperties
<1>9. Walk(read, 1) = xs \o ys
  <2>1. Yields(read, p, s \o m, xs \o ys)
    BY <1>1, <1>2, <1>3, <1>4, <1>6, <1>7, YieldsBoth
  <2>2. s \o m = p
    BY DEF p
  <2> QED BY <1>2, <1>7, <1>8, <2>1, <2>2, YieldsAll
<1>10. LiveOccurrences(p) = Kept(xs \o ys, Wired)
  <2> DEFINE fields == Walk(read, 1)
             ks == {k \in DOMAIN fields : fields[k].wireType # 2}
  <2>1. LiveOccurrences(p) = Chosen(fields, ks)
    BY DEF LiveOccurrences, read, LiveIn
  <2>2. fields \in Seq(LiveSet)
    BY <1>8, <1>9
  <2>3. \A k \in DOMAIN fields : fields[k] \in LiveSet
    <3> HIDE DEF fields
    <3> QED BY <2>2, LenProperties, ElementOfSeq
  <2>4. \A k \in DOMAIN fields : k \in ks <=> fields[k] \in Wired
    BY <2>3 DEF Wired
  <2> HIDE DEF fields, ks
  <2>5. Chosen(fields, ks) = Kept(fields, Wired)
    BY <2>2, <2>4, ChosenIsKept
  <2> QED BY <1>9, <2>1, <2>5 DEF fields
<1>11. Kept(xs \o ys, Wired) = Kept(xs, Wired) \o Kept(ys, Wired)
  BY <1>3, <1>6, KeptConcat
<1>12. Kept(ys, Wired) = ys
  BY <1>5, KeptAll
<1>13. Kept(xs, Wired) \in Seq(LiveSet)
  <2>1. Kept(xs, Wired) \in Seq(LiveSet \cap Wired)
    BY <1>3, KeptType
  <2> QED BY <2>1
<1>14. Value(Kept(xs, Wired) \o ys, f, None) = Value(ys, f, Value(Kept(xs, Wired), f, None))
  BY <1>6, <1>13, ValueConcat
<1>15. Value(Kept(xs, Wired), f, None) = None
  BY <1>3 DEF Silent
<1>16. Value(ys, f, None) = IF u[f] = None THEN None ELSE LowWord(u[f])
  BY LiveFindsTell DEF ys
<1>17. Value(LiveOccurrences(p), f, None) = IF u[f] = None THEN None ELSE LowWord(u[f])
  BY <1>10, <1>11, <1>12, <1>14, <1>15, <1>16
<1> QED BY <1>2, <1>17 DEF p, m

(* DecodeLiveData reads every update of the bike as it was told: each field*)
(* that is in it with its value, 0 and negative ones included, every other *)
(* one as unset, whichever field of a later version comes before it.       *)
THEOREM LiveDataComesThrough ==
    ASSUME NEW u \in Updates, NEW s \in Strangers
    PROVE  DecodeLiveData(s \o LiveMessage(u)) = u
<1>1. LiveUpdate(u)
  BY UpdatesAreLive
<1> DEFINE p == s \o LiveMessage(u)
           fields == LiveOccurrences(p)
           Read(f, v) == IF v = None THEN None
                         ELSE IF f = Cadence THEN AsSigned(v)
                         ELSE IF f \in LiveFlags /\ v # 0 THEN 1
                         ELSE v
<1>2. DecodeLiveData(p) = [f \in LiveFields |-> Read(f, Value(fields, f, None))]
  BY DEF DecodeLiveData
<1>3. ASSUME NEW f \in LiveFields PROVE Read(f, Value(fields, f, None)) = u[f]
  <2>1. Value(fields, f, None) = IF u[f] = None THEN None ELSE LowWord(u[f])
    BY <1>1, LiveOccurrencesTell
  <2> HIDE DEF fields
  <2>2. CASE u[f] = None
    BY <2>1, <2>2
  <2>3. CASE u[f] # None
    <3>1. Tellable(f, u[f])
      BY <1>1, <2>3 DEF LiveUpdate
    <3>2. PICK W \in Nat : W = 2^Word /\ W >= 65536
      BY WordHolds
    <3>3. None \notin Int
      BY NoneAssumption
    <3>4. PICK v : v = u[f]
      OBVIOUS
    <3>5. Value(fields, f, None) = LowWord(v)
      BY <2>1, <2>3, <3>4
    <3>6. CASE v \in Nat /\ v < W /\ (f = Cadence => 2 * v < W) /\ (f \in LiveFlags => v \in {0, 1})
      <4>1. LowWord(v) = v /\ v # None
        BY <3>3, <3>6 DEF LowWord
      <4>2. f = Cadence => AsSigned(v) = v
        BY <3>2, <3>6 DEF AsSigned
      <4>3. f \in LiveFlags => v = 0 \/ v = 1
        BY <3>6
      <4>4. Read(f, v) = v
        BY <4>1, <4>2, <4>3
      <4> HIDE DEF Read
      <4> QED BY <3>4, <3>5, <4>1, <4>4
    <3>7. CASE v \in Int /\ v + 2 = 0 /\ f = Cadence
      <4>1. LowWord(v) = W - 2
        BY <3>2, <3>7 DEF LowWord
      <4>2. PICK x \in Nat : x = W - 2
        BY <3>2
      <4>3. x # None /\ AsSigned(x) = v
        BY <3>2, <3>3, <3>7, <4>2 DEF AsSigned
      <4>4. Read(f, x) = v
        BY <3>7, <4>3
      <4> HIDE DEF Read
      <4> QED BY <3>4, <3>5, <4>1, <4>2, <4>4
    <3> QED BY <3>1, <3>2, <3>4, <3>6, <3>7 DEF Tellable
  <2> QED BY <2>2, <2>3
<1>4. u = [f \in LiveFields |-> u[f]]
  BY <1>1 DEF LiveUpdate
<1> HIDE DEF p, fields, Read
<1>5. DecodeLiveData(p) = u
  BY <1>2, <1>3, <1>4, Zenon
<1> QED BY <1>5 DEF p

(***************************************************************************)
(* The live page.  On the live interface there are no requests; what is on *)
(* its way, once it is assigned, makes the page show what was told.        *)
(***************************************************************************)
LiveInv ==
    /\ transport = "live" => toBike = <<>> /\ readQueue = <<>> /\ udam = None
    /\ IF transport = "live" /\ fromBike # <<>>
       THEN Assign(bleLiveState, DecodeLiveData(fromBike[1])) = told
       ELSE bleLiveState = told

(* The page starts with nothing told and nothing shown.                    *)
LEMMA LiveInit == Init => LiveInv
BY DEF Init, LiveInv

(* What a step of the other transports leaves alone.                       *)
LEMMA OthersKeepLive ==
    ASSUME LiveInv, transport # "live", transport' = transport, UNCHANGED live
    PROVE  LiveInv'
BY DEF LiveInv, live

(* No step makes the page forget what the bike told, or show what it did   *)
(* not tell.                                                               *)
LEMMA LiveNext == LiveInv /\ [Next]_vars => LiveInv'
<1> SUFFICES ASSUME LiveInv, [Next]_vars PROVE LiveInv'
  OBVIOUS
<1>1. ASSUME NEW point \in Points, Asks(point) PROVE LiveInv'
  BY <1>1, OthersKeepLive DEF Asks
<1>2. ASSUME NEW f \in EditableFields, NEW n \in Numbers, Sets(f, n) PROVE LiveInv'
  BY <1>2, OthersKeepLive DEF Sets, LiveInv
<1>3. ASSUME NEW status \in Statuses, Serves(status) PROVE LiveInv'
  BY <1>3, OthersKeepLive DEF Serves, LiveInv
<1>4. ASSUME NEW n \in Numbers, Pushes(n) PROVE LiveInv'
  BY <1>4, OthersKeepLive DEF Pushes
<1>5. ASSUME NEW own \in Own, BikeAsks(own) PROVE LiveInv'
  BY <1>5, OthersKeepLive DEF BikeAsks
<1>6. ASSUME NEW v, LabWrites(v) PROVE LiveInv'
  BY <1>6, OthersKeepLive DEF LabWrites
<1>7. CASE NotificationArrives
  BY <1>7, OthersKeepLive DEF NotificationArrives
<1>8. CASE FrameArrives
  BY <1>8, OthersKeepLive DEF FrameArrives
<1>9. CASE Reads
  BY <1>9, OthersKeepLive DEF Reads, LiveInv
<1>10. CASE Reopens
  BY <1>10 DEF Reopens, LiveInv, live
<1>11. CASE Tells
  <2>1. PICK u \in Updates, s \in Strangers :
            fromBike' = <<s \o LiveMessage(u)>> /\ told' = Assign(told, u)
    BY <1>11 DEF Tells
  <2>2. DecodeLiveData(fromBike'[1]) = u /\ fromBike' # <<>>
    BY <2>1, LiveDataComesThrough
  <2>3. bleLiveState' = told /\ transport' = "live"
    BY <1>11 DEF Tells, LiveInv
  <2>4. toBike' = <<>> /\ readQueue' = <<>> /\ udam' = None
    BY <1>11 DEF Tells, LiveInv
  <2> QED BY <2>1, <2>2, <2>3, <2>4 DEF LiveInv
<1>12. CASE LiveDataArrives
  BY <1>12 DEF LiveDataArrives, LiveInv
<1>13. CASE UNCHANGED vars
  BY <1>13 DEF vars, LiveInv, live
<1> QED BY <1>1, <1>2, <1>3, <1>4, <1>5, <1>6, <1>7, <1>8, <1>9, <1>10, <1>11, <1>12, <1>13 DEF Next

(* The live page shows of every field the last value the bike told, in     *)
(* whatever order full messages, single fields and fields of a later       *)
(* version come (decodeLiveData, Object.assign of bleLiveState).           *)
THEOREM LivePageShowsLastTold == Spec => []LiveIsLastTold
<1>1. LiveInv => LiveIsLastTold
  BY DEF LiveInv, LiveIsLastTold
<1>2. Spec => []LiveInv
  BY LiveInit, LiveNext, PTL DEF Spec
<1> QED BY <1>1, <1>2, PTL

-----------------------------------------------------------------------------
(***************************************************************************)
(* What is in the notifications on their way.                              *)
(***************************************************************************)
(***************************************************************************)
(* The bodies in the notifications of the message bus, as                  *)
(* _handleNotification takes them out.                                     *)
(***************************************************************************)
BodiesIn(n) == LET busy == Busy(DecodeSegments(n)) IN [k \in DOMAIN busy |-> busy[k].payload]

\* The bodies put in it are the bodies taken out.
Notifications == {n \in Seq(Byte) : BodiesIn(n) \in Seq(Bodies) /\ n = Join(BodiesIn(n))}

Hearing == [n \in Notifications |-> BodiesIn(n)]

Notified(ns) == Flatten(Each(Hearing, ns))

(* What is read in a notification is what was put in it.                   *)
LEMMA BodiesComeBack ==
    ASSUME NEW bs \in Seq(Bodies)
    PROVE  BodiesIn(Join(bs)) = bs /\ Join(bs) \in Notifications /\ Join(bs) \in Seq(Byte)
<1> DEFINE heard == Told(bs)
           S == {Segment(MessageBus, b) : b \in Payloads}
<1>1. bs \in Seq(Payloads)
  BY BodiesFit
<1>2. DecodeSegments(Join(bs)) = heard
  BY <1>1, SegmentsComeBack
<1>3. heard \in Seq(S) /\ Len(heard) = Len(bs) /\ \A k \in 1..Len(bs) : heard[k] = Segment(MessageBus, bs[k])
  BY <1>1, ToldType
<1>4. DOMAIN heard = 1..Len(bs) /\ DOMAIN bs = 1..Len(bs)
  <2> HIDE DEF heard
  <2>1. DOMAIN heard = 1..Len(heard)
    BY <1>3, LenProperties
  <2>2. DOMAIN bs = 1..Len(bs)
    BY LenProperties
  <2> QED BY <1>3, <2>1, <2>2
<1> HIDE DEF heard
<1>5. Busy(heard) = heard
  <2> DEFINE ks == {k \in DOMAIN heard : heard[k].channel = MessageBus /\ heard[k].end}
  <2>1. \A k \in DOMAIN heard : k \in ks
    BY <1>3, <1>4 DEF Segment
  <2>2. \A k \in DOMAIN heard : heard[k] \in S
    BY <1>3, LenProperties, ElementOfSeq
  <2> HIDE DEF ks
  <2>3. \A k \in DOMAIN heard : k \in ks <=> heard[k] \in S
    BY <2>1, <2>2
  <2>4. Chosen(heard, ks) = Kept(heard, S)
    BY <1>3, <2>3, ChosenIsKept
  <2>5. Kept(heard, S) = heard
    BY <1>3, KeptAll
  <2> QED BY <2>4, <2>5 DEF Busy, ks
<1>6. BodiesIn(Join(bs)) = [k \in DOMAIN heard |-> heard[k].payload]
  BY <1>2, <1>5 DEF BodiesIn
<1>7. \A k \in DOMAIN heard : heard[k].payload = bs[k]
  BY <1>3, <1>4 DEF Segment
<1>8. [k \in DOMAIN heard |-> heard[k].payload] = [k \in 1..Len(bs) |-> bs[k]]
  BY <1>4, <1>7
<1>9. bs = [k \in 1..Len(bs) |-> bs[k]]
  BY LenProperties
<1>10. Join(bs) \in Seq(Byte)
  <2>1. SegmentsOf(bs) \in Seq(Seq(Byte))
    BY <1>1, SegmentsOfType
  <2> QED BY <2>1, FlattenOfSeq DEF Join
<1>11. BodiesIn(Join(bs)) = bs
  BY <1>6, <1>8, <1>9
<1> QED BY <1>10, <1>11 DEF Notifications

(* Listening to one notification gives bodies.                             *)
LEMMA HearingMaps ==
    /\ Maps(Hearing, Notifications, Seq(Bodies))
    /\ \A n \in Notifications : Hearing[n] = BodiesIn(n) /\ BodiesIn(n) \in Seq(Bodies)
    /\ Notifications \subseteq Seq(Byte)
BY DEF Hearing, Maps, Notifications

(* The bodies of one notification, and of one behind the others.           *)
LEMMA NotifiedConcat ==
    ASSUME NEW ms \in Seq(Notifications), NEW n \in Notifications
    PROVE  /\ Notified(ms \o <<n>>) = Notified(ms) \o BodiesIn(n)
           /\ Notified(<<n>> \o ms) = BodiesIn(n) \o Notified(ms)
           /\ Notified(ms) \in Seq(Bodies)
<1>1. <<n>> \in Seq(Notifications)
  OBVIOUS
<1>2. Maps(Hearing, Notifications, Seq(Bodies)) /\ Hearing[n] = BodiesIn(n) /\ BodiesIn(n) \in Seq(Bodies)
  BY HearingMaps
<1>3. Each(Hearing, <<n>>) = <<BodiesIn(n)>>
  BY <1>2, EachOfOne
<1>4. Each(Hearing, ms) \in Seq(Seq(Bodies))
  BY <1>2, EachType
<1>5. <<BodiesIn(n)>> \in Seq(Seq(Bodies))
  BY <1>2
<1>6. Flatten(<<BodiesIn(n)>>) = BodiesIn(n)
  BY <1>2, FlattenOfOne
<1>12. PICK u \in Seq(Notifications) : u = <<n>>
  BY <1>1, Zenon
<1>7. Each(Hearing, ms \o <<n>>) = Each(Hearing, ms) \o <<BodiesIn(n)>>
  <2>1. Each(Hearing, ms \o u) = Each(Hearing, ms) \o Each(Hearing, u)
    BY <1>2, EachConcat
  <2> QED BY <1>3, <1>12, <2>1, Zenon
<1>8. Each(Hearing, <<n>> \o ms) = <<BodiesIn(n)>> \o Each(Hearing, ms)
  <2>1. Each(Hearing, u \o ms) = Each(Hearing, u) \o Each(Hearing, ms)
    BY <1>2, EachConcat
  <2> QED BY <1>3, <1>12, <2>1, Zenon
<1>9. Flatten(Each(Hearing, ms) \o <<BodiesIn(n)>>) = Flatten(Each(Hearing, ms)) \o Flatten(<<BodiesIn(n)>>)
  BY <1>4, <1>5, FlattenConcat
<1>10. Flatten(<<BodiesIn(n)>> \o Each(Hearing, ms)) = Flatten(<<BodiesIn(n)>>) \o Flatten(Each(Hearing, ms))
  BY <1>4, <1>5, FlattenConcat
<1>11. Flatten(Each(Hearing, ms)) \in Seq(Bodies)
  BY <1>4, FlattenOfSeq
<1> QED BY <1>6, <1>7, <1>8, <1>9, <1>10, <1>11 DEF Notified

(* Nothing is heard where nothing comes.                                   *)
LEMMA NotifiedOfNone == Notified(<<>>) = <<>>
<1>1. Each(Hearing, <<>>) = <<>>
  BY HearingMaps, EachOfNone
<1>2. PICK ps \in Seq(Seq({})) : ps = <<>> /\ Len(ps) = 0
  BY EmptySeq
<1>3. Flatten(ps) = Rest(ps, 1) /\ Rest(ps, Len(ps) + 1) = <<>>
  BY FlattenOfSeq
<1>4. Flatten(<<>>) = <<>>
  BY <1>2, <1>3
<1> QED BY <1>1, <1>4 DEF Notified

\* The frames the tool is to have of the notifications on their way.
Tidings(ns) == Each(Rebuilding, Kept(Notified(ns), Others))

-----------------------------------------------------------------------------
(***************************************************************************)
(* What is on its way, and what the tool will read in it.                  *)
(***************************************************************************)
\* What a point may be, when the behaviour is about the row r.
PointsOf(r) == IF r = None THEN Points \ {"row", "write"} ELSE {"row", "write"}

\* Settings as the tool decodes them: field 8 is a flag, any may be missing.
Settings == {g \in [1..8 -> 0..(2^Word - 1) \cup {None}] : g[8] \in {0, 1, None}}

\* The lists the bike has of its modes.
ShownIds == {IdList(m).shows : m \in Modes}

ShownNames == {NameList(m).shows : m \in Modes}

ShownShades == {ShadeList(m).shows : m \in Modes}

\* The value of an answer p to a request for the point is the one to show, h
\* being what the point of the row r holds.
SaysSo(point, shows, h, p, r) ==
    /\ point = "params" => DecodeUdamParams(p) = shows /\ shows \in Settings
    /\ point = "set" => DecodeBool(p) = shows
    /\ point = "time" => DecodeClock(p) = shows
    /\ point = "limits" => DecodeUdamLimits(p) = shows
    /\ point = "statistics" => DecodeStatistics(p) = shows
    /\ point = "issue" => DecodeIssue(p) = shows
    /\ point = "modes" => DecodeConfigIdList(p) = shows /\ shows \in ShownIds
    /\ point = "names" => DecodeStringList(p) = shows /\ shows \in ShownNames
    /\ point = "colors" => DecodeTyped(AssistModeColors, p) = shows /\ shows \in ShownShades
    /\ point = "row" => RowSays(shows, h, p, r)
    /\ point = "write" => p = shows

\* What the bike meant by m is what p says.
Says(m, p, r) == SaysSo(m.point, m.shows, m.held, p, r)

\* The frame is an answer, and the one meant.
FitsAnswer(f, m, r) ==
    /\ ParseNotify(f) = NotAFrame /\ ParseResponse(f) # NotAFrame
    /\ ParseResponse(f).addr = m.addr /\ ParseResponse(f).seq = m.seq
    /\ ParseResponse(f).type = TypeOf(m.point) + 1 /\ ParseResponse(f).status = m.status
    /\ m.status = 0 => Says(m, ParseResponse(f).payload, r)
    /\ m.status # 0 => m.shows = <<>>

\* The tool is to read in the frame f what the bike meant by m.
Fits(f, m, r) ==
    /\ m.point \in PointsOf(r)
    /\ m.push => FitsPush(f, m)
    /\ ~m.push => FitsAnswer(f, m, r)

\* Frame by frame.
Meet(fs, ms, r) ==
    /\ fs \in Seq(Seq(Byte)) /\ IsSeq(ms) /\ Len(fs) = Len(ms)
    /\ \A k \in 1..Len(ms) : Fits(fs[k], ms[k], r)

(* Nothing is on its way at first.                                         *)
LEMMA MeetNone == \A r : Meet(<<>>, <<>>, r)
<1>1. <<>> \in Seq(Seq(Byte)) /\ Len(<<>>) = 0
  BY EmptySeq
<1> QED BY <1>1 DEF Meet, IsSeq

(* What is carried, with what it means.                                    *)
LEMMA MeetMore ==
    ASSUME NEW fs, NEW ms, NEW r, Meet(fs, ms, r), NEW f \in Seq(Byte), NEW m, Fits(f, m, r)
    PROVE  Meet(Append(fs, f), Append(ms, m), r)
<1>1. fs \in Seq(Seq(Byte)) /\ IsSeq(ms) /\ Len(fs) = Len(ms) /\ \A k \in 1..Len(ms) : Fits(fs[k], ms[k], r)
  BY DEF Meet
<1>2. PICK n \in Nat : n = Len(ms)
  BY <1>1, LenProperties
<1>3. /\ Append(fs, f) \in Seq(Seq(Byte)) /\ Len(Append(fs, f)) = n + 1
      /\ Append(fs, f)[n + 1] = f /\ \A k \in 1..n : Append(fs, f)[k] = fs[k]
  BY <1>1, <1>2, AppendProperties
<1>4. /\ IsSeq(Append(ms, m)) /\ Len(Append(ms, m)) = n + 1
      /\ Append(ms, m)[n + 1] = m /\ \A k \in 1..n : Append(ms, m)[k] = ms[k]
  BY <1>1, <1>2, Appends
<1>5. ASSUME NEW k \in 1..(n + 1) PROVE Fits(Append(fs, f)[k], Append(ms, m)[k], r)
  <2>1. CASE k = n + 1
    BY <1>3, <1>4, <2>1
  <2>2. CASE k \in 1..n
    BY <1>1, <1>2, <1>3, <1>4, <2>2
  <2>3. k = n + 1 \/ k \in 1..n
    OBVIOUS
  <2> QED BY <2>1, <2>2, <2>3, Zenon
<1>6. Len(Append(fs, f)) = Len(Append(ms, m)) /\ \A k \in 1..Len(Append(ms, m)) : Fits(Append(fs, f)[k], Append(ms, m)[k], r)
  BY <1>3, <1>4, <1>5
<1> QED BY <1>3, <1>4, <1>6 DEF Meet

(* The first one is taken, with what it means.                             *)
LEMMA MeetLess ==
    ASSUME NEW fs, NEW ms, NEW r, Meet(fs, ms, r), fs # <<>>
    PROVE  Meet(Tail(fs), Tail(ms), r) /\ Fits(fs[1], ms[1], r) /\ fs[1] \in Seq(Byte)
<1>1. fs \in Seq(Seq(Byte)) /\ IsSeq(ms) /\ Len(fs) = Len(ms) /\ \A k \in 1..Len(ms) : Fits(fs[k], ms[k], r)
  BY DEF Meet
<1>2. PICK n \in Nat : n = Len(ms) /\ n # 0
  BY <1>1, LenProperties, EmptySeq
<1>3. /\ Tail(fs) \in Seq(Seq(Byte)) /\ Len(Tail(fs)) = n - 1
      /\ \A k \in 1..(n - 1) : Tail(fs)[k] = fs[k + 1]
  <2>1. /\ Tail(fs) \in Seq(Seq(Byte)) /\ Len(Tail(fs)) = Len(fs) - 1
        /\ \A k \in 1..Len(Tail(fs)) : Tail(fs)[k] = fs[k + 1]
    BY <1>1, HeadTailProperties
  <2> QED BY <1>1, <1>2, <2>1
<1>4. IsSeq(Tail(ms)) /\ Len(Tail(ms)) = n - 1 /\ \A k \in 1..(n - 1) : Tail(ms)[k] = ms[k + 1]
  <2>1. Len(ms) # 0
    BY <1>2
  <2>2. /\ IsSeq(Tail(ms)) /\ Len(Tail(ms)) = Len(ms) - 1
        /\ \A k \in 1..(Len(ms) - 1) : Tail(ms)[k] = ms[k + 1]
    BY <1>1, <2>1, TakesFirst
  <2> QED BY <1>2, <2>2
<1>5. ASSUME NEW k \in 1..(n - 1) PROVE Fits(Tail(fs)[k], Tail(ms)[k], r)
  <2>1. PICK i \in Nat : i = k + 1
    OBVIOUS
  <2>2. i \in 1..n
    BY <1>2, <2>1
  <2>3. Fits(fs[i], ms[i], r)
    BY <1>1, <1>2, <2>2
  <2> QED BY <1>3, <1>4, <2>1, <2>3
<1>6. 1 \in 1..Len(ms) /\ 1 \in 1..Len(fs)
  BY <1>1, <1>2
<1>7. fs[1] \in Seq(Byte)
  BY <1>1, <1>6, ElementOfSeq
<1>8. Len(Tail(fs)) = Len(Tail(ms)) /\ \A k \in 1..Len(Tail(ms)) : Fits(Tail(fs)[k], Tail(ms)[k], r)
  BY <1>3, <1>4, <1>5
<1> QED BY <1>1, <1>3, <1>4, <1>6, <1>7, <1>8 DEF Meet

Carried(ns, b, ms) ==
    \/ ms = Append(ns, EncodeSegment(MessageBus, b))
    \/ ns # <<>> /\ ms = WithLast(ns, ns[Len(ns)] \o EncodeSegment(MessageBus, b))

(* A body on its way over Bluetooth, in a notification of its own or       *)
(* behind others in the last one.                                          *)
LEMMA CarryAdds ==
    ASSUME NEW ns \in Seq(Notifications), NEW b \in Bodies, NEW ms, Carried(ns, b, ms)
    PROVE  /\ ms \in Seq(Notifications) /\ Notified(ms) = Notified(ns) \o <<b>>
           /\ Notified(ns) \in Seq(Bodies) /\ <<b>> \in Seq(Bodies)
<1> DEFINE g == EncodeSegment(MessageBus, b)
<1>0. <<b>> \in Seq(Bodies) /\ Join(<<b>>) = g
  <2>1. PICK e \in Seq(Bodies) : e = <<>>
    BY EmptySeq
  <2> QED BY <2>1, JoinMore, Zenon
<1>1. g \in Notifications /\ BodiesIn(g) = <<b>>
  <2>1. PICK u \in Seq(Bodies) : u = <<b>>
    BY <1>0, Zenon
  <2>2. BodiesIn(Join(u)) = u /\ Join(u) \in Notifications
    BY BodiesComeBack
  <2> QED BY <1>0, <2>1, <2>2, Zenon
<1> HIDE DEF g
<1>2. CASE ms = Append(ns, g)
  <2>1. ms = ns \o <<g>>
    BY <1>1, <1>2, AppendIsConcat
  <2>2. Notified(ns \o <<g>>) = Notified(ns) \o BodiesIn(g) /\ Notified(ns) \in Seq(Bodies)
    BY <1>1, NotifiedConcat
  <2>3. ms \in Seq(Notifications)
    BY <1>1, <1>2, AppendProperties
  <2> QED BY <1>0, <1>1, <2>1, <2>2, <2>3, Zenon
<1>3. CASE ns # <<>> /\ ms = WithLast(ns, ns[Len(ns)] \o g)
  <2>0. PICK r \in Seq(Notifications) : Before(r, ns, Notifications)
    <3>1. ns # <<>>
      BY <1>3, Zenon
    <3> QED BY <3>1, LastAndRest
  <2>1. /\ ns = r \o <<ns[Len(ns)]>> /\ ns[Len(ns)] \in Notifications
        /\ \A y \in Notifications : WithLast(ns, y) = r \o <<y>>
    BY <2>0, Zenon DEF Before
  <2>2. PICK l \in Notifications : l = ns[Len(ns)]
    BY <2>1
  <2>3. BodiesIn(l) \in Seq(Bodies) /\ l = Join(BodiesIn(l))
    BY DEF Notifications
  <2>4. PICK bs \in Seq(Bodies) : bs = BodiesIn(l)
    BY <2>3
  <2>5. Join(bs \o <<b>>) = Join(bs) \o g /\ bs \o <<b>> \in Seq(Bodies)
    BY JoinMore DEF g
  <2>6. PICK cs \in Seq(Bodies) : cs = bs \o <<b>>
    BY <2>5
  <2>7. BodiesIn(Join(cs)) = cs /\ Join(cs) \in Notifications
    BY BodiesComeBack
  <2>8. PICK y \in Notifications : y = l \o g /\ BodiesIn(y) = bs \o <<b>>
    BY <2>3, <2>4, <2>5, <2>6, <2>7, Zenon
  <2>9. ms = r \o <<y>>
    BY <1>3, <2>1, <2>2, <2>8
  <2>10. Notified(r \o <<y>>) = Notified(r) \o BodiesIn(y) /\ Notified(r) \in Seq(Bodies)
    BY NotifiedConcat
  <2>11. Notified(r \o <<l>>) = Notified(r) \o BodiesIn(l)
    BY NotifiedConcat
  <2>12. (Notified(r) \o bs) \o <<b>> = Notified(r) \o (bs \o <<b>>)
    BY <1>0, <2>10, ConcatAssociative, SMTT(30)
  <2>13. Notified(ms) = Notified(ns) \o <<b>>
    <3>1. Notified(ms) = Notified(r) \o (bs \o <<b>>)
      BY <2>8, <2>9, <2>10, Zenon
    <3>2. ns = r \o <<l>>
      BY <2>1, <2>2, Zenon
    <3>3. Notified(ns) = Notified(r) \o bs
      BY <2>4, <2>11, <3>2, Zenon
    <3> QED BY <2>12, <3>1, <3>3, Zenon
  <2>14. ms \in Seq(Notifications)
    <3>1. <<y>> \in Seq(Notifications)
      OBVIOUS
    <3> QED BY <2>9, <3>1, ConcatProperties
  <2>15. Notified(ns) \in Seq(Bodies)
    <3>1. ns = r \o <<l>>
      BY <2>1, <2>2, Zenon
    <3>2. Notified(r) \o bs \in Seq(Bodies)
      BY <2>10, ConcatProperties
    <3> QED BY <2>4, <2>11, <3>1, <3>2, Zenon
  <2> QED BY <1>0, <2>13, <2>14, <2>15
<1> QED BY <1>2, <1>3, Zenon DEF g, Carried

\* The frames the tool is still to have.
Coming(t, ns) == IF t = "ble" THEN Tidings(ns) ELSE IF t = "usb" THEN ns ELSE <<>>

(***************************************************************************)
(* On the transport t the notifications or frames ns are on their way, the *)
(* frames q wait for readNextFrame, the bike meant ms by all of them, and  *)
(* its own requests among them are as.                                     *)
(***************************************************************************)
Flight(t, ns, q, ms, as, r) ==
    /\ as \in Seq(OwnRequests) /\ q \in Seq(Seq(Byte))
    /\ t = "ble" => ns \in Seq(Notifications) /\ Kept(Notified(ns), Requests) = Each(Asking, as)
    /\ t # "ble" => as = <<>>
    /\ t = "usb" => ns \in Seq(Seq(Byte))
    /\ Meet(q \o Coming(t, ns), ms, r)

(* What is coming is a sequence of frames.                                 *)
LEMMA TidingsType ==
    ASSUME NEW ns \in Seq(Notifications)
    PROVE  /\ Notified(ns) \in Seq(Bodies) /\ Kept(Notified(ns), Others) \in Seq(Bodies)
           /\ Kept(Notified(ns), Requests) \in Seq(Bodies) /\ Tidings(ns) \in Seq(Seq(Byte))
<1>1. Notified(ns) \in Seq(Bodies)
  <2>1. Maps(Hearing, Notifications, Seq(Bodies))
    BY HearingMaps
  <2>2. Each(Hearing, ns) \in Seq(Seq(Bodies))
    BY <2>1, EachType
  <2> QED BY <2>2, FlattenOfSeq DEF Notified
<1>2. \A V : V \subseteq Bodies => Kept(Notified(ns), V) \in Seq(Bodies)
  <2> SUFFICES ASSUME NEW V, V \subseteq Bodies PROVE Kept(Notified(ns), V) \in Seq(Bodies)
    OBVIOUS
  <2>1. Kept(Notified(ns), V) \in Seq(Bodies \cap V)
    BY <1>1, KeptType
  <2>2. Bodies \cap V \subseteq Bodies
    OBVIOUS
  <2> QED BY <2>1, <2>2, SeqMonotonic
<1>3. Others \subseteq Bodies /\ Requests \subseteq Bodies
  BY DEF Others, Requests
<1>4. Kept(Notified(ns), Others) \in Seq(Bodies)
  BY <1>2, <1>3
<1>5. Tidings(ns) \in Seq(Seq(Byte))
  <2>1. Maps(Rebuilding, Bodies, Seq(Byte))
    BY RebuildingMaps
  <2> QED BY <1>4, <2>1, EachType DEF Tidings
<1> QED BY <1>1, <1>2, <1>3, <1>4, <1>5

(* The frames at hand, and those that are coming.                          *)
LEMMA FlightFrames ==
    ASSUME NEW t, NEW ns, NEW q, NEW ms, NEW as, NEW r, Flight(t, ns, q, ms, as, r)
    PROVE  /\ q \in Seq(Seq(Byte)) /\ as \in Seq(OwnRequests) /\ Meet(q \o Coming(t, ns), ms, r)
           /\ Coming(t, ns) \in Seq(Seq(Byte))
<1>1. CASE t = "ble"
  BY <1>1, TidingsType DEF Flight, Coming
<1>2. CASE t # "ble" /\ t # "usb"
  <2>1. <<>> \in Seq(Seq(Byte))
    BY EmptySeq
  <2> QED BY <1>2, <2>1 DEF Flight, Coming
<1>3. CASE t = "usb"
  BY <1>3 DEF Flight, Coming
<1> QED BY <1>1, <1>2, <1>3

(* A frame more is coming, with its meaning.                               *)
LEMMA FlightMore ==
    ASSUME NEW q \in Seq(Seq(Byte)), NEW c \in Seq(Seq(Byte)), NEW ms, NEW r, Meet(q \o c, ms, r),
           NEW f \in Seq(Byte), NEW m, Fits(f, m, r)
    PROVE  Meet(q \o Append(c, f), Append(ms, m), r)
<1>1. q \o Append(c, f) = Append(q \o c, f)
  <2>1. <<f>> \in Seq(Seq(Byte))
    OBVIOUS
  <2>2. Append(c, f) = c \o <<f>>
    BY AppendIsConcat
  <2>3. (q \o c) \o <<f>> = q \o (c \o <<f>>)
    BY <2>1, ConcatAssociative
  <2>4. q \o c \in Seq(Seq(Byte))
    BY ConcatProperties
  <2>5. Append(q \o c, f) = (q \o c) \o <<f>>
    BY <2>4, AppendIsConcat
  <2> QED BY <2>2, <2>3, <2>5, Zenon
<1>2. Meet(Append(q \o c, f), Append(ms, m), r)
  BY MeetMore
<1> QED BY <1>1, <1>2, Zenon

(* An answer or a push over USB.                                           *)
LEMMA UsbCarries ==
    ASSUME NEW ns, NEW q, NEW ms, NEW as, NEW r, Flight("usb", ns, q, ms, as, r),
           NEW b \in Bodies, NEW m, Fits(Wrap(b), m, r)
    PROVE  Flight("usb", Append(ns, Wrap(b)), q, Append(ms, m), as, r)
<1>1. Wrap(b) \in Seq(Byte)
  BY WrapType
<1>2. ns \in Seq(Seq(Byte)) /\ as \in Seq(OwnRequests) /\ q \in Seq(Seq(Byte)) /\ as = <<>>
  BY DEF Flight
<1>3. Meet(q \o ns, ms, r)
  BY Zenon DEF Flight, Coming
<1>4. Meet(q \o Append(ns, Wrap(b)), Append(ms, m), r)
  BY <1>1, <1>2, <1>3, FlightMore
<1>5. Append(ns, Wrap(b)) \in Seq(Seq(Byte))
  BY <1>1, <1>2, AppendProperties
<1> QED BY <1>2, <1>4, <1>5, Zenon DEF Flight, Coming

(* An answer or a push over Bluetooth.                                     *)
LEMMA BleCarries ==
    ASSUME NEW ns, NEW q, NEW ms, NEW as, NEW r, Flight("ble", ns, q, ms, as, r),
           NEW b \in Others, NEW m, Fits(Rebuild(b), m, r), NEW ns2, Carried(ns, b, ns2)
    PROVE  Flight("ble", ns2, q, Append(ms, m), as, r)
<1>1. /\ ns \in Seq(Notifications) /\ as \in Seq(OwnRequests) /\ q \in Seq(Seq(Byte))
      /\ Kept(Notified(ns), Requests) = Each(Asking, as)
  BY DEF Flight
<1>2. Meet(q \o Tidings(ns), ms, r)
  BY Zenon DEF Flight, Coming
<1>3. b \in Bodies /\ b \notin Requests
  BY DEF Others, Requests
<1>4. /\ ns2 \in Seq(Notifications) /\ Notified(ns2) = Notified(ns) \o <<b>>
      /\ Notified(ns) \in Seq(Bodies)
  BY <1>1, <1>3, CarryAdds
<1>5. Kept(Notified(ns2), Requests) = Kept(Notified(ns), Requests)
  BY <1>3, <1>4, KeptMore
<1>6. Kept(Notified(ns2), Others) = Append(Kept(Notified(ns), Others), b)
  BY <1>3, <1>4, KeptMore
<1>7. Kept(Notified(ns), Others) \in Seq(Bodies) /\ Tidings(ns) \in Seq(Seq(Byte))
  BY <1>1, TidingsType
<1>8. Maps(Rebuilding, Bodies, Seq(Byte)) /\ Rebuilding[b] = Rebuild(b)
  BY <1>3, RebuildingMaps
<1>9. Tidings(ns2) = Append(Tidings(ns), Rebuild(b))
  <2>1. PICK k \in Seq(Bodies) : k = Kept(Notified(ns), Others)
    BY <1>7
  <2>2. Each(Rebuilding, Append(k, b)) = Append(Each(Rebuilding, k), Rebuilding[b])
    BY <1>3, <1>8, EachMore
  <2> QED BY <1>6, <1>8, <2>1, <2>2, Zenon DEF Tidings
<1>10. Rebuild(b) \in Seq(Byte)
  BY <1>3, <1>8 DEF Maps
<1>11. Meet(q \o Append(Tidings(ns), Rebuild(b)), Append(ms, m), r)
  BY <1>1, <1>2, <1>7, <1>10, FlightMore
<1> QED BY <1>1, <1>4, <1>5, <1>9, <1>11, Zenon DEF Flight, Coming

(* A request of the bike's own.                                            *)
LEMMA BleAsks ==
    ASSUME NEW ns, NEW q, NEW ms, NEW as, NEW r, Flight("ble", ns, q, ms, as, r),
           NEW a \in OwnRequests, NEW ns2, Carried(ns, OwnBody(a), ns2)
    PROVE  Flight("ble", ns2, q, ms, Append(as, a), r)
<1>1. /\ ns \in Seq(Notifications) /\ as \in Seq(OwnRequests) /\ q \in Seq(Seq(Byte))
      /\ Kept(Notified(ns), Requests) = Each(Asking, as)
  BY DEF Flight
<1>2. Meet(q \o Tidings(ns), ms, r)
  BY Zenon DEF Flight, Coming
<1>3. PICK b \in Bodies : b = OwnBody(a) /\ b \in Requests /\ b \notin Others
  BY OwnBodyIs DEF Others, Requests
<1>4. /\ ns2 \in Seq(Notifications) /\ Notified(ns2) = Notified(ns) \o <<b>>
      /\ Notified(ns) \in Seq(Bodies)
  BY <1>1, <1>3, CarryAdds
<1>5. Kept(Notified(ns2), Others) = Kept(Notified(ns), Others)
  BY <1>3, <1>4, KeptMore
<1>6. Kept(Notified(ns2), Requests) = Append(Kept(Notified(ns), Requests), b)
  BY <1>3, <1>4, KeptMore
<1>7. Maps(Asking, OwnRequests, Bodies) /\ Asking[a] = b
  BY <1>3, AskingMaps
<1>8. Each(Asking, Append(as, a)) = Append(Each(Asking, as), b) /\ Append(as, a) \in Seq(OwnRequests)
  <2>1. Each(Asking, Append(as, a)) = Append(Each(Asking, as), Asking[a]) /\ Append(as, a) \in Seq(OwnRequests)
    BY <1>1, <1>7, EachMore
  <2> QED BY <1>7, <2>1, Zenon
<1>9. Tidings(ns2) = Tidings(ns)
  BY <1>5, Zenon DEF Tidings
<1> QED BY <1>1, <1>2, <1>4, <1>6, <1>8, <1>9, Zenon DEF Flight, Coming

(* A frame over USB is put in the queue.                                   *)
LEMMA UsbArrives ==
    ASSUME NEW ns, NEW q, NEW ms, NEW as, NEW r, Flight("usb", ns, q, ms, as, r), ns # <<>>
    PROVE  Flight("usb", Tail(ns), Append(q, ns[1]), ms, as, r)
<1>1. ns \in Seq(Seq(Byte)) /\ as \in Seq(OwnRequests) /\ q \in Seq(Seq(Byte)) /\ as = <<>>
  BY DEF Flight
<1>2. Meet(q \o ns, ms, r)
  BY Zenon DEF Flight, Coming
<1>3. ns = <<ns[1]>> \o Tail(ns) /\ Tail(ns) \in Seq(Seq(Byte)) /\ ns[1] \in Seq(Byte)
  BY <1>1, FirstAndRest
<1>4. PICK f \in Seq(Byte) : f = ns[1]
  BY <1>3
<1>5. <<f>> \in Seq(Seq(Byte))
  OBVIOUS
<1>6. (q \o <<f>>) \o Tail(ns) = q \o (<<f>> \o Tail(ns))
  BY <1>1, <1>3, <1>5, ConcatAssociative
<1>7. Append(q, f) = q \o <<f>> /\ Append(q, f) \in Seq(Seq(Byte))
  BY <1>1, AppendIsConcat, AppendProperties
<1>8. Append(q, ns[1]) \o Tail(ns) = q \o ns
  BY <1>3, <1>4, <1>6, <1>7, Zenon
<1> QED BY <1>1, <1>2, <1>3, <1>4, <1>7, <1>8, Zenon DEF Flight, Coming

(* A frame is read from the queue.                                         *)
LEMMA QueueIsRead ==
    ASSUME NEW t, NEW ns, NEW q, NEW ms, NEW as, NEW r, Flight(t, ns, q, ms, as, r), q # <<>>
    PROVE  /\ Flight(t, ns, Tail(q), Tail(ms), as, r)
           /\ Fits(q[1], ms[1], r) /\ q[1] \in Seq(Byte)
<1>1. /\ q \in Seq(Seq(Byte)) /\ as \in Seq(OwnRequests) /\ Meet(q \o Coming(t, ns), ms, r)
      /\ Coming(t, ns) \in Seq(Seq(Byte))
  BY FlightFrames
<1>2. PICK c \in Seq(Seq(Byte)) : c = Coming(t, ns)
  BY <1>1
<1>3. q = <<q[1]>> \o Tail(q) /\ Tail(q) \in Seq(Seq(Byte)) /\ q[1] \in Seq(Byte)
  BY <1>1, FirstAndRest
<1>4. PICK f \in Seq(Byte) : f = q[1]
  BY <1>3
<1>5. <<f>> \in Seq(Seq(Byte))
  OBVIOUS
<1>6. q \o c = <<f>> \o (Tail(q) \o c) /\ Tail(q) \o c \in Seq(Seq(Byte))
  <2>1. (<<f>> \o Tail(q)) \o c = <<f>> \o (Tail(q) \o c)
    BY <1>3, <1>5, ConcatAssociative
  <2>2. Tail(q) \o c \in Seq(Seq(Byte))
    BY <1>3, ConcatProperties
  <2> QED BY <1>3, <1>4, <2>1, <2>2, Zenon
<1>7. PICK w \in Seq(Seq(Byte)) : w = Tail(q) \o c
  BY <1>6
<1>8. <<f>> \o w # <<>> /\ (<<f>> \o w)[1] = f /\ Tail(<<f>> \o w) = w
  BY OneBefore
<1>9. PICK v : v = <<f>> \o w /\ v # <<>> /\ v[1] = f /\ Tail(v) = w
  BY <1>8
<1>10. Meet(v, ms, r)
  BY <1>1, <1>2, <1>6, <1>7, <1>9, Zenon
<1>11. Meet(Tail(v), Tail(ms), r) /\ Fits(v[1], ms[1], r)
  BY <1>9, <1>10, MeetLess, Zenon
<1>12. Meet(Tail(q) \o Coming(t, ns), Tail(ms), r)
  BY <1>2, <1>7, <1>9, <1>11, Zenon
<1>13. Fits(q[1], ms[1], r)
  BY <1>4, <1>9, <1>11, Zenon
<1> QED BY <1>3, <1>12, <1>13, Zenon DEF Flight

RequestsIn(n) == Kept(BodiesIn(n), Requests)

OthersIn(n) == Kept(BodiesIn(n), Others)

(* The bodies of a notification, told apart.                               *)
LEMMA InType ==
    ASSUME NEW n \in Notifications
    PROVE  BodiesIn(n) \in Seq(Bodies) /\ RequestsIn(n) \in Seq(Bodies) /\ OthersIn(n) \in Seq(Bodies)
<1>1. BodiesIn(n) \in Seq(Bodies)
  BY HearingMaps
<1>2. Kept(BodiesIn(n), Requests) \in Seq(Bodies \cap Requests) /\ Kept(BodiesIn(n), Others) \in Seq(Bodies \cap Others)
  BY <1>1, KeptType
<1>3. Bodies \cap Requests \subseteq Bodies /\ Bodies \cap Others \subseteq Bodies
  OBVIOUS
<1>4. RequestsIn(n) \in Seq(Bodies)
  BY <1>2, <1>3, SeqMonotonic DEF RequestsIn
<1>5. OthersIn(n) \in Seq(Bodies)
  BY <1>2, <1>3, SeqMonotonic DEF OthersIn
<1> QED BY <1>1, <1>4, <1>5

(* The frames of one notification and those of the rest.                   *)
LEMMA TidingsOfFirst ==
    ASSUME NEW n \in Notifications, NEW ms \in Seq(Notifications)
    PROVE  /\ Tidings(<<n>> \o ms) = Each(Rebuilding, OthersIn(n)) \o Tidings(ms)
           /\ Kept(Notified(<<n>> \o ms), Requests) = RequestsIn(n) \o Kept(Notified(ms), Requests)
<1>1. Notified(<<n>> \o ms) = BodiesIn(n) \o Notified(ms) /\ Notified(ms) \in Seq(Bodies)
  BY NotifiedConcat
<1>2. BodiesIn(n) \in Seq(Bodies) /\ OthersIn(n) \in Seq(Bodies)
  BY InType
<1>3. \A V : Kept(BodiesIn(n) \o Notified(ms), V) = Kept(BodiesIn(n), V) \o Kept(Notified(ms), V)
  BY <1>1, <1>2, KeptConcat
<1>4. PICK o \in Seq(Bodies) : o = OthersIn(n)
  BY <1>2
<1>5. PICK k \in Seq(Bodies) : k = Kept(Notified(ms), Others)
  BY TidingsType
<1>6. Maps(Rebuilding, Bodies, Seq(Byte))
  BY RebuildingMaps
<1>7. Each(Rebuilding, o \o k) = Each(Rebuilding, o) \o Each(Rebuilding, k)
  BY <1>6, EachConcat
<1>8. Kept(Notified(<<n>> \o ms), Others) = o \o k
  BY <1>1, <1>3, <1>4, <1>5, Zenon DEF OthersIn
<1>9. Tidings(<<n>> \o ms) = Each(Rebuilding, OthersIn(n)) \o Tidings(ms)
  BY <1>4, <1>5, <1>7, <1>8, Zenon DEF Tidings
<1>10. Kept(Notified(<<n>> \o ms), Requests) = RequestsIn(n) \o Kept(Notified(ms), Requests)
  BY <1>1, <1>3, Zenon DEF RequestsIn
<1> QED BY <1>9, <1>10

(* A notification arrives: what it answers and pushes is put in the queue, *)
(* and its requests are the first ones the bike has asked.                 *)
LEMMA BleArrives ==
    ASSUME NEW ns, NEW q, NEW ms, NEW as, NEW r, Flight("ble", ns, q, ms, as, r), ns # <<>>
    PROVE  /\ Flight("ble", Tail(ns), q \o Each(Rebuilding, OthersIn(ns[1])), ms,
                     SubSeq(as, Len(RequestsIn(ns[1])) + 1, Len(as)), r)
           /\ FirstAsked(RequestsIn(ns[1]), as) /\ ns[1] \in Notifications
<1>1. /\ ns \in Seq(Notifications) /\ as \in Seq(OwnRequests) /\ q \in Seq(Seq(Byte))
      /\ Kept(Notified(ns), Requests) = Each(Asking, as)
  BY DEF Flight
<1>2. Meet(q \o Tidings(ns), ms, r)
  BY Zenon DEF Flight, Coming
<1>3. ns = <<ns[1]>> \o Tail(ns) /\ Tail(ns) \in Seq(Notifications) /\ ns[1] \in Notifications
  BY <1>1, FirstAndRest
<1>4. PICK n \in Notifications, t \in Seq(Notifications) : n = ns[1] /\ t = Tail(ns) /\ ns = <<n>> \o t
  BY <1>3
<1>5. /\ Tidings(<<n>> \o t) = Each(Rebuilding, OthersIn(n)) \o Tidings(t)
      /\ Kept(Notified(<<n>> \o t), Requests) = RequestsIn(n) \o Kept(Notified(t), Requests)
  BY TidingsOfFirst
<1>6. PICK x \in Seq(Bodies), y \in Seq(Bodies) :
          x = RequestsIn(n) /\ y = Kept(Notified(t), Requests) /\ Each(Asking, as) = x \o y
  <2>1. RequestsIn(n) \in Seq(Bodies)
    BY InType
  <2>2. Kept(Notified(t), Requests) \in Seq(Bodies)
    BY TidingsType
  <2> QED BY <1>1, <1>4, <1>5, <2>1, <2>2, Zenon
<1>8. /\ FirstAsked(x, as)
      /\ SubSeq(as, Len(x) + 1, Len(as)) \in Seq(OwnRequests)
      /\ y = Each(Asking, SubSeq(as, Len(x) + 1, Len(as)))
  <2>1. as \in Seq(OwnRequests) /\ SplitsInto(Asking, as, x, y)
    BY <1>1, <1>6, Zenon DEF SplitsInto
  <2> QED BY <2>1, AskedSplits
<1>10. Each(Rebuilding, OthersIn(n)) \in Seq(Seq(Byte)) /\ Tidings(t) \in Seq(Seq(Byte))
  <2>1. OthersIn(n) \in Seq(Bodies)
    BY InType
  <2>2. Maps(Rebuilding, Bodies, Seq(Byte))
    BY RebuildingMaps
  <2>3. Each(Rebuilding, OthersIn(n)) \in Seq(Seq(Byte))
    BY <2>1, <2>2, EachType
  <2> QED BY <2>3, TidingsType
<1>11. (q \o Each(Rebuilding, OthersIn(n))) \o Tidings(t) = q \o (Each(Rebuilding, OthersIn(n)) \o Tidings(t))
  <2>1. PICK f \in Seq(Seq(Byte)), g \in Seq(Seq(Byte)) : f = Each(Rebuilding, OthersIn(n)) /\ g = Tidings(t)
    BY <1>10
  <2>0. q \in Seq(Seq(Byte))
    BY <1>1
  <2>2. (q \o f) \o g = q \o (f \o g)
    BY <2>0, ConcatAssociative
  <2> QED BY <2>1, <2>2, Zenon
<1>12. Meet((q \o Each(Rebuilding, OthersIn(n))) \o Tidings(t), ms, r)
  BY <1>2, <1>4, <1>5, <1>11, Zenon
<1>13. q \o Each(Rebuilding, OthersIn(n)) \in Seq(Seq(Byte))
  BY <1>1, <1>10, ConcatProperties
<1>14. Flight("ble", t, q \o Each(Rebuilding, OthersIn(n)), ms, SubSeq(as, Len(x) + 1, Len(as)), r)
  BY <1>6, <1>8, <1>12, <1>13, Zenon DEF Flight, Coming
<1> QED BY <1>4, <1>6, <1>8, <1>14, Zenon

(* The code tells the bodies apart by the same tests.                      *)
LEMMA ToldApart ==
    ASSUME NEW n \in Notifications, NEW bodies, bodies = BodiesIn(n)
    PROVE  /\ Chosen(bodies, {k \in DOMAIN bodies : IsMobileAppRequest(bodies[k])}) = RequestsIn(n)
           /\ Chosen(bodies, {k \in DOMAIN bodies : ~IsMobileAppRequest(bodies[k]) /\ Len(bodies[k]) < 256})
                = OthersIn(n)
<1>1. bodies \in Seq(Bodies)
  BY InType
<1>2. \A k \in DOMAIN bodies : bodies[k] \in Bodies /\ Len(bodies[k]) < 256
  <2>1. DOMAIN bodies = 1..Len(bodies)
    BY <1>1, LenProperties
  <2>2. \A k \in DOMAIN bodies : bodies[k] \in Bodies
    BY <1>1, <2>1, ElementOfSeq
  <2> QED BY <2>2, Zenon DEF Bodies
<1> DEFINE ks == {k \in DOMAIN bodies : IsMobileAppRequest(bodies[k])}
           js == {k \in DOMAIN bodies : ~IsMobileAppRequest(bodies[k]) /\ Len(bodies[k]) < 256}
<1>3. \A k \in DOMAIN bodies : k \in ks <=> bodies[k] \in Requests
  BY <1>2, Zenon DEF Requests
<1>4. \A k \in DOMAIN bodies : k \in js <=> bodies[k] \in Others
  BY <1>2, Zenon DEF Others
<1> HIDE DEF ks, js
<1>5. Chosen(bodies, ks) = Kept(bodies, Requests)
  BY <1>1, <1>3, ChosenIsKept
<1>6. Chosen(bodies, js) = Kept(bodies, Others)
  BY <1>1, <1>4, ChosenIsKept
<1> QED BY <1>5, <1>6, Zenon DEF RequestsIn, OthersIn, ks, js

-----------------------------------------------------------------------------
(***************************************************************************)
(* The settings, and what a save asks for.                                 *)
(***************************************************************************)
BikeRecords == {r \in Records : \A f \in 1..5 : r[f] # None}

(* The bike leaves out what is at its default, the tool what it does not   *)
(* know; either way the record is sent field by field.                     *)
LEMMA RecordBytes ==
    /\ \A r \in BikeRecords : Proto(r) = Fieldwise(8, {}, Seen(r)) /\ Seen(r) \in Records
    /\ \A g \in Records : EncodeUdamParams(g) = Fieldwise(8, {}, g)
<1>1. ASSUME NEW r \in BikeRecords PROVE Proto(r) = Fieldwise(8, {}, Seen(r)) /\ Seen(r) \in Records
  <2>1. r \in [1..8 -> Sendable \cup {None}] /\ r[8] \in {0, 1, None} /\ \A f \in 1..5 : r[f] # None
    BY RecordIs DEF BikeRecords
  <2>2. PICK g : g = Seen(r)
    OBVIOUS
  <2>3. g \in [1..8 -> Sendable \cup {None}] /\ g[8] = r[8]
        /\ \A f \in 1..8 : g[f] = IF f \notin 6..8 /\ r[f] = 0 THEN None ELSE r[f]
    BY <2>1, <2>2 DEF Seen, UdamFields, OptionalFields
  <2>4. g \in Records
    BY <2>1, <2>3, RecordIs
  <2>5. ASSUME NEW f \in 1..8
        PROVE  (IF f \notin 6..8 THEN Implicit(f, r[f]) ELSE IF r[f] = None THEN <<>> ELSE Number(f, r[f]))
                 = IF g[f] = None THEN <<>> ELSE Number(f, g[f])
    <3>1. CASE f \in 6..8
      BY <2>3, <3>1, Zenon
    <3>2. CASE f \notin 6..8 /\ r[f] = 0
      BY <2>3, <3>2, Zenon DEF Implicit
    <3>3. CASE f \notin 6..8 /\ r[f] # 0
      <4>1. f \in 1..5
        BY <3>3
      <4>2. g[f] = r[f] /\ g[f] # None
        BY <2>1, <2>3, <3>3, <4>1
      <4> QED BY <3>3, <4>2, Zenon DEF Implicit
    <3> QED BY <3>1, <3>2, <3>3
  <2>6. Proto(r) = Flatten([f \in 1..8 |->
            IF f \notin 6..8 THEN Implicit(f, r[f]) ELSE IF r[f] = None THEN <<>> ELSE Number(f, r[f])])
    BY Zenon DEF Proto, UdamFields, OptionalFields
  <2>7. [f \in 1..8 |-> IF f \notin 6..8 THEN Implicit(f, r[f]) ELSE IF r[f] = None THEN <<>> ELSE Number(f, r[f])]
          = FieldBytes(8, {}, g)
    BY <2>5 DEF FieldBytes
  <2> QED BY <2>2, <2>4, <2>6, <2>7, Zenon DEF Fieldwise
<1>2. ASSUME NEW g \in Records PROVE EncodeUdamParams(g) = Fieldwise(8, {}, g)
  <2>1. g \in [1..8 -> Sendable \cup {None}]
    BY RecordIs
  <2>2. ASSUME NEW f \in 1..8
        PROVE  (IF g[f] = None THEN <<>> ELSE <<8 * f>> \o EncodeVarint(g[f]))
                 = IF g[f] = None THEN <<>> ELSE Number(f, g[f])
    <3>1. CASE g[f] = None
      BY <3>1, Zenon
    <3>2. CASE g[f] # None
      <4>1. g[f] \in Nat /\ g[f] < 2^Word
        BY <2>1, <3>2, WordHolds DEF Sendable
      <4>2. EncodeVarint(g[f]) = Varint(g[f])
        BY <4>1, EncodesVarint
      <4> QED BY <3>2, <4>2, Zenon DEF Number
    <3> QED BY <3>1, <3>2
  <2>3. [f \in 1..8 |-> IF g[f] = None THEN <<>> ELSE <<8 * f>> \o EncodeVarint(g[f])] = FieldBytes(8, {}, g)
    BY <2>2 DEF FieldBytes
  <2> QED BY <2>3, Zenon DEF EncodeUdamParams, Fieldwise, UdamFields
<1> QED BY <1>1, <1>2

(* The identifier of the mode, in the message that names it.               *)
LEMMA ModeIsNamed ==
    /\ ConfigId \in Small(16) /\ Bytes(1, ConfigId) \in Small(18) /\ Bytes(1, Bytes(1, ConfigId)) \in Small(20)
    /\ EncodeConfigIdArg(ConfigId) = Bytes(1, ConfigId)
    /\ LenDelimited(1, EncodeConfigIdArg(ConfigId)) = Bytes(1, Bytes(1, ConfigId))
<1>1. ConfigId \in Small(16)
  <2>1. ConfigId \in Seq(Byte)
    BY ConfigIdAssumption DEF Byte
  <2>2. PICK n \in 1..16 : n = Len(ConfigId)
    BY ConfigIdAssumption
  <2>3. Len(ConfigId) <= 16
    BY <2>2
  <2> QED BY <2>1, <2>3 DEF Small
<1>2. PICK n \in 1..15, m \in Nat, l \in Nat : n = 1 /\ m = 16 /\ l = 18
  OBVIOUS
<1>3. Bytes(n, ConfigId) \in Small(m + 2)
  <2>1. m < 256 /\ ConfigId \in Small(m)
    BY <1>1, <1>2
  <2> QED BY <2>1, SmallBytesOf
<1>4. m + 2 = l /\ l + 2 = 20
  BY <1>2
<1>5. PICK b \in Small(l) : b = Bytes(n, ConfigId)
  BY <1>3, <1>4, Zenon
<1>6. Bytes(n, b) \in Small(l + 2)
  <2>1. l < 256
    BY <1>2
  <2> QED BY <2>1, SmallBytesOf
<1>7. ConfigId \in Short /\ ConfigId \in Texts
  <2>1. m < 128 /\ ConfigId \in Small(m)
    BY <1>1, <1>2
  <2> QED BY <2>1, SmallIsShort
<1>8. b \in Short /\ b \in Texts
  <2>1. l < 128
    BY <1>2
  <2> QED BY <2>1, SmallIsShort
<1>9. LenDelimited(n, ConfigId) = Bytes(n, ConfigId)
  BY <1>7, LenDelimitedIs, BytesAreDelimited
<1>10. LenDelimited(n, b) = Bytes(n, b)
  BY <1>8, LenDelimitedIs, BytesAreDelimited
<1> QED BY <1>1, <1>2, <1>3, <1>4, <1>5, <1>6, <1>9, <1>10, Zenon DEF EncodeConfigIdArg

(* The argument of a save, as the tool builds it and as the bike knows it. *)
LEMMA SaveArgument ==
    ASSUME NEW g \in Records
    PROVE  /\ EncodeSetUdamArg(ConfigId, g) = ArgumentOf(g)
           /\ ArgumentOf(g) = Bytes(1, Bytes(1, ConfigId)) \o Bytes(2, Fieldwise(8, {}, g))
           /\ ArgumentOf(g) \in Small(70) /\ Fieldwise(8, {}, g) \in Small(48)
<1>0. 8 \in 0..15 /\ g \in Fillings(8, {})
  BY RecordIs
<1>1. Fieldwise(8, {}, g) \in Small(8 * 6)
  BY <1>0, NumbersAreSmall
<1>2. PICK n \in 1..15, m \in Nat, l \in Nat : n = 2 /\ m = 48 /\ l = 50 /\ 8 * 6 = m /\ m + 2 = l /\ 20 + l = 70
  OBVIOUS
<1>3. PICK b \in Small(m) : b = Fieldwise(8, {}, g)
  BY <1>1, <1>2, Zenon
<1>4. Bytes(n, b) \in Small(m + 2)
  <2>1. m < 256
    BY <1>2
  <2> QED BY <2>1, SmallBytesOf
<1>5. LenDelimited(n, b) = Bytes(n, b)
  <2>1. m < 128
    BY <1>2
  <2>2. b \in Short /\ b \in Texts
    BY <2>1, SmallIsShort
  <2> QED BY <2>2, LenDelimitedIs, BytesAreDelimited
<1>6. EncodeUdamParams(g) = b
  BY <1>3, RecordBytes
<1>7. EncodeSetUdamArg(ConfigId, g) = Bytes(1, Bytes(1, ConfigId)) \o Bytes(n, b)
  BY <1>2, <1>5, <1>6, ModeIsNamed, Zenon DEF EncodeSetUdamArg
<1>8. ArgumentOf(g) = Bytes(1, Bytes(1, ConfigId)) \o Bytes(n, b)
  <2>1. [f \in 1..8 |-> IF g[f] = None THEN <<>> ELSE Number(f, g[f])] = FieldBytes(8, {}, g)
    BY DEF FieldBytes
  <2> QED BY <1>2, <1>3, <2>1, Zenon DEF ArgumentOf, Fieldwise, UdamFields
<1>9. Bytes(1, Bytes(1, ConfigId)) \o Bytes(n, b) \in Small(20 + l)
  <2>1. PICK x \in Small(20) : x = Bytes(1, Bytes(1, ConfigId))
    BY ModeIsNamed
  <2>2. PICK y \in Small(l) : y = Bytes(n, b)
    BY <1>2, <1>4, Zenon
  <2>3. 20 \in Nat
    OBVIOUS
  <2>4. x \o y \in Small(20 + l)
    BY <2>3, SmallConcat
  <2> QED BY <2>1, <2>2, <2>4, Zenon
<1> QED BY <1>2, <1>3, <1>7, <1>8, <1>9, Zenon

(* Two records with the same argument are the same.                        *)
LEMMA ArgumentTells ==
    ASSUME NEW g \in Records, NEW h \in Records, ArgumentOf(g) = ArgumentOf(h)
    PROVE  g = h
<1>1. PICK x \in Seq(Byte) : x = Bytes(1, Bytes(1, ConfigId))
  BY ModeIsNamed DEF Small
<1>2. PICK s \in Seq(Byte) : s = Fieldwise(8, {}, g) /\ Len(s) \in 0..48 /\ ArgumentOf(g) = x \o Bytes(2, s)
  <2>1. Fieldwise(8, {}, g) \in Small(48) /\ 48 \in Nat
    BY SaveArgument
  <2>2. PICK b \in Small(48) : b = Fieldwise(8, {}, g)
    BY <2>1
  <2>3. b \in Seq(Byte) /\ Len(b) \in Nat /\ Len(b) <= 48
    BY <2>1, SmallIs
  <2>4. Len(b) \in 0..48
    <3>1. PICK n \in Nat : n = Len(b) /\ n <= 48
      BY <2>3, Zenon
    <3>3. n <= 48
      BY <3>1, Zenon
    <3>2. n \in 0..48
      BY <3>3
    <3> QED BY <3>1, <3>2, Zenon
  <2> QED BY <1>1, <2>2, <2>3, <2>4, SaveArgument, Zenon
<1>3. PICK t \in Seq(Byte) : t = Fieldwise(8, {}, h) /\ Len(t) \in 0..48 /\ ArgumentOf(h) = x \o Bytes(2, t)
  <2>1. Fieldwise(8, {}, h) \in Small(48) /\ 48 \in Nat
    BY SaveArgument
  <2>2. PICK b \in Small(48) : b = Fieldwise(8, {}, h)
    BY <2>1
  <2>3. b \in Seq(Byte) /\ Len(b) \in Nat /\ Len(b) <= 48
    BY <2>1, SmallIs
  <2>4. Len(b) \in 0..48
    <3>1. PICK n \in Nat : n = Len(b) /\ n <= 48
      BY <2>3, Zenon
    <3>3. n <= 48
      BY <3>1, Zenon
    <3>2. n \in 0..48
      BY <3>3
    <3> QED BY <3>1, <3>2, Zenon
  <2> QED BY <1>1, <2>2, <2>3, <2>4, SaveArgument, Zenon
<1>4. \A b \in Seq(Byte) : Len(b) \in 0..48 => <<18, Len(b)>> \in Seq(Byte) /\ Len(<<18, Len(b)>>) = 2
  BY DEF Byte
<1>5. PICK c \in Seq(Byte) : c = <<18, Len(s)>> /\ Len(c) = 2
  BY <1>2, <1>4, Zenon
<1>6. PICK d \in Seq(Byte) : d = <<18, Len(t)>> /\ Len(d) = 2
  BY <1>3, <1>4, Zenon
<1>7. Bytes(2, s) = c \o s /\ Bytes(2, t) = d \o t
  <2>1. 8 * 2 + 2 = 18
    OBVIOUS
  <2> QED BY <1>5, <1>6, <2>1, Zenon DEF Bytes
<1>8. c \o s = d \o t
  <2>1. PICK y \in Seq(Byte), z \in Seq(Byte) : y = c \o s /\ z = d \o t
    BY ConcatProperties
  <2>2. x \o y = x \o z
    BY <1>2, <1>3, <1>7, <2>1, Zenon
  <2>3. y = z
    BY <2>2, SameBehind
  <2> QED BY <2>1, <2>3
<1>9. c = d
  <2>1. (c \o s)[1] = c[1] /\ (c \o s)[2] = c[2] /\ (d \o t)[1] = d[1] /\ (d \o t)[2] = d[2]
    BY <1>5, <1>6, Prefixed
  <2>2. c[1] = d[1] /\ c[2] = d[2]
    BY <1>8, <2>1, Zenon
  <2> QED BY <1>5, <1>6, <2>2
<1>10. c \o s = c \o t
  BY <1>8, <1>9, Zenon
<1>11. s = t
  BY <1>10, SameBehind
<1> QED BY <1>2, <1>3, <1>11, RecordComesBack, Zenon

(* What it is.                                                             *)
LEMMA EditedIs ==
    ASSUME NEW g \in Records, NEW f \in EditableFields, NEW n \in Numbers
    PROVE  /\ Edited(g, f, n) \in Records
           /\ Edited(g, f, n)[f] = n /\ \A h \in 1..8 : h # f => Edited(g, f, n)[h] = g[h]
<1>1. g \in [1..8 -> Sendable \cup {None}] /\ g[8] \in {0, 1, None}
  BY RecordIs
<1>2. f \in {1, 3, 4} /\ n \in Sendable
  BY NumbersAssumption DEF EditableFields, Sendable
<1>3. PICK e : e = Edited(g, f, n)
  OBVIOUS
<1>4. e \in [1..8 -> Sendable \cup {None}] /\ e[f] = n /\ \A h \in 1..8 : h # f => e[h] = g[h]
  BY <1>1, <1>2, <1>3 DEF Edited
<1>5. e[8] = g[8]
  BY <1>2, <1>4
<1>6. e \in Records
  BY <1>1, <1>4, <1>5, RecordIs
<1> QED BY <1>3, <1>4, <1>6

(* The record the bike makes of an argument: none of its fields 1 to 5 is  *)
(* unset.                                                                  *)
LEMMA HoldsType ==
    ASSUME NEW g \in Records
    PROVE  Holds(g) \in BikeRecords /\ \A f \in 1..8 : Holds(g)[f] = IF f \notin 6..8 /\ g[f] = None THEN 0 ELSE g[f]
<1>1. g \in [1..8 -> Sendable \cup {None}] /\ g[8] \in {0, 1, None}
  BY RecordIs
<1>2. PICK r : r = Holds(g)
  OBVIOUS
<1>3. r = [f \in 1..8 |-> IF f \notin 6..8 /\ g[f] = None THEN 0 ELSE g[f]]
  BY <1>2 DEF Holds, UdamFields, OptionalFields
<1>4. 0 \in Sendable /\ 0 # None
  BY WordHolds, NoneAssumption DEF Sendable
<1>5. r \in [1..8 -> Sendable \cup {None}] /\ r[8] \in {0, 1, None}
  BY <1>1, <1>3, <1>4
<1>6. r \in Records
  BY <1>5, RecordIs
<1>7. \A f \in 1..5 : r[f] # None
  BY <1>3, <1>4
<1> QED BY <1>2, <1>3, <1>6, <1>7 DEF BikeRecords

(* What the bike may be asked to hold.                                     *)
LEMMA SavableAre ==
    ASSUME bike \in BikeRecords
    PROVE  /\ Seen(bike) \in Records
           /\ \A p \in Savable : p \in Records
           /\ \A f \in EditableFields, n \in Numbers : Edited(Seen(bike), f, n) \in Savable
<1>1. bike \in Records /\ Seen(bike) \in Records
  BY RecordBytes DEF BikeRecords
<1>2. Savable = {Edited(r, f, n) : r \in {bike, Seen(bike)}, f \in EditableFields, n \in Numbers}
  BY DEF Savable, Edited
<1>3. ASSUME NEW p \in Savable PROVE p \in Records
  <2>1. PICK r \in {bike, Seen(bike)}, f \in EditableFields, n \in Numbers : p = Edited(r, f, n)
    BY <1>2
  <2>2. r \in Records
    BY <1>1
  <2> QED BY <2>1, <2>2, EditedIs
<1> QED BY <1>1, <1>2, <1>3

(* Whatever the argument, the bike has a record afterwards.                *)
LEMMA SetToType ==
    ASSUME bike \in BikeRecords, NEW payload
    PROVE  SetTo(payload) \in BikeRecords
<1> DEFINE matches == {p \in Savable : ArgumentOf(p) = payload}
<1>1. CASE matches = {}
  BY <1>1, Zenon DEF SetTo
<1>2. CASE matches # {}
  <2>1. PICK c : c = CHOOSE p \in matches : TRUE
    OBVIOUS
  <2>2. c \in matches
    BY <1>2, <2>1
  <2>3. c \in Records
    BY <2>2, SavableAre
  <2>4. SetTo(payload) = Holds(c)
    BY <1>2, <2>1, Zenon DEF SetTo
  <2> QED BY <2>3, <2>4, HoldsType
<1> QED BY <1>1, <1>2

(* A save of one field, of the record as the tool last saw it.             *)
LEMMA SaveIsTaken ==
    ASSUME bike \in BikeRecords, NEW f \in EditableFields, NEW n \in Numbers
    PROVE  SetTo(EncodeSetUdamArg(ConfigId, Edited(Seen(bike), f, n))) = Edited(bike, f, n)
<1>1. bike \in Records /\ Seen(bike) \in Records /\ f \in {1, 3, 4}
  BY RecordBytes DEF BikeRecords, EditableFields
<1>2. PICK e \in Records : e = Edited(Seen(bike), f, n) /\ e[f] = n /\ \A h \in 1..8 : h # f => e[h] = Seen(bike)[h]
  BY <1>1, EditedIs
<1>3. PICK payload : payload = EncodeSetUdamArg(ConfigId, e) /\ payload = ArgumentOf(e)
  BY SaveArgument
<1> DEFINE matches == {p \in Savable : ArgumentOf(p) = payload}
<1>4. e \in matches
  BY <1>2, <1>3, SavableAre
<1>5. \A p \in matches : p = e
  <2> SUFFICES ASSUME NEW p \in Savable, ArgumentOf(p) = payload PROVE p = e
    OBVIOUS
  <2>1. p \in Records
    BY SavableAre
  <2>2. ArgumentOf(p) = ArgumentOf(e)
    BY <1>3
  <2> QED BY <2>1, <2>2, ArgumentTells
<1>6. (CHOOSE p \in matches : TRUE) = e
  BY <1>4, <1>5
<1>7. SetTo(payload) = Holds(e)
  BY <1>4, <1>6, Zenon DEF SetTo
<1>8. PICK r \in Records : r = Edited(bike, f, n) /\ r[f] = n /\ \A h \in 1..8 : h # f => r[h] = bike[h]
  BY <1>1, EditedIs
<1>9. PICK k : k = Holds(e)
  OBVIOUS
<1>10. k \in BikeRecords /\ \A h \in 1..8 : k[h] = IF h \notin 6..8 /\ e[h] = None THEN 0 ELSE e[h]
  BY <1>9, HoldsType
<1>11. \A h \in 1..8 : Seen(bike)[h] = IF h \notin 6..8 /\ bike[h] = 0 THEN None ELSE bike[h]
  BY DEF Seen, UdamFields, OptionalFields
<1>12. n # None /\ \A h \in 1..5 : bike[h] # None
  BY NumbersAssumption, NoneAssumption DEF BikeRecords
<1>13. ASSUME NEW h \in 1..8 PROVE k[h] = r[h]
  <2>1. CASE h = f
    BY <1>2, <1>8, <1>10, <1>12, <2>1
  <2>2. CASE h # f /\ h \in 6..8
    BY <1>2, <1>8, <1>10, <1>11, <2>2
  <2>3. CASE h # f /\ h \notin 6..8
    <3>1. h \in 1..5
      BY <2>3
    <3>2. bike[h] # None /\ r[h] = bike[h] /\ e[h] = (IF bike[h] = 0 THEN None ELSE bike[h])
      BY <1>2, <1>8, <1>11, <1>12, <2>3, <3>1
    <3>3. k[h] = IF e[h] = None THEN 0 ELSE e[h]
      BY <1>10, <2>3
    <3> QED BY <3>2, <3>3
  <2> QED BY <2>1, <2>2, <2>3
<1>14. k = r
  <2>1. k \in Records /\ r \in Records
    BY <1>10 DEF BikeRecords
  <2>2. k \in [1..8 -> Sendable \cup {None}] /\ r \in [1..8 -> Sendable \cup {None}]
    BY <2>1, RecordIs
  <2> QED BY <1>13, <2>2
<1> QED BY <1>2, <1>3, <1>7, <1>8, <1>9, <1>14, Zenon

-----------------------------------------------------------------------------
(***************************************************************************)
(* Requests.                                                               *)
(***************************************************************************)
Outgoing(t, addr, type, n, p) ==
    IF t = "ble" THEN BleRequest(BuildFrame(addr, type, n, p)) ELSE BuildFrame(addr, type, n, p)

AddressOf(r, point) ==
    IF point \in {"row", "write"} THEN <<r.address \div 256, r.address % 256>> ELSE Where(point)

(* Where a point is, and how it is asked for.                              *)
LEMMA PointIs ==
    ASSUME NEW r, r # None => r \in ReadRows, NEW point \in PointsOf(r)
    PROVE  /\ AddressOf(r, point) \in (0..127) \X Byte
           /\ TypeOf(point) \in {0, 2, 4, 6} /\ point \in Points
           /\ r = row => Addr(point) = AddressOf(r, point)
<1>1. CASE r = None
  <2>1. point \in Points \ {"row", "write"}
    BY <1>1 DEF PointsOf
  <2>2. point \in {"params", "limits", "statistics", "modes", "names", "range", "time", "issue", "set", "colors"}
    BY <2>1 DEF Points
  <2>3. Where(point) \in (0..127) \X Byte /\ Addr(point) = Where(point)
    BY <2>2 DEF Where, Addr, Byte
  <2>4. TypeOf(point) \in {0, 2, 4, 6}
    BY <2>2 DEF TypeOf, READ, RPC, WRITE, SUBSCRIBE
  <2> QED BY <2>1, <2>3, <2>4 DEF AddressOf
<1>2. CASE r # None
  <2>1. point \in {"row", "write"}
    BY <1>2 DEF PointsOf
  <2>2. r.address \in 1..(2^15 - 1)
    BY <1>2, RowsAssumption, TopBitIsFree
  <2>3. 2^15 = 32768
    OBVIOUS
  <2>4. PICK n \in Nat : n = r.address /\ n < 32768
    BY <2>2, <2>3
  <2>5. n \div 256 \in 0..127 /\ n % 256 \in 0..255
    BY <2>4
  <2>6. AddressOf(r, point) \in (0..127) \X Byte
    BY <2>1, <2>4, <2>5 DEF AddressOf, Byte
  <2>7. TypeOf(point) \in {0, 2, 4, 6}
    BY <2>1 DEF TypeOf, READ, RPC, WRITE, SUBSCRIBE
  <2>8. r = row => Addr(point) = AddressOf(r, point)
    BY <2>1 DEF AddressOf, Addr
  <2> QED BY <2>1, <2>6, <2>7, <2>8 DEF Points
<1> QED BY <1>1, <1>2

IsCarried(t, addr, type, n, p) ==
    /\ Outgoing(t, addr, type, n, p) \in Seq(Byte)
    /\ BodyIn(t, Outgoing(t, addr, type, n, p)) = Head5(Host(t), <<128 + addr[1], addr[2]>>, 16 * type + n) \o p

(* The bike has the request as it was built, from the host of the          *)
(* transport in use.                                                       *)
THEOREM RequestIsCarried ==
    ASSUME NEW t \in {"usb", "ble"}, NEW addr \in (0..127) \X Byte, NEW type \in {0, 2, 4, 6}, NEW n \in 0..15,
           NEW p \in Small(250)
    PROVE  IsCarried(t, addr, type, n, p)
<1> DEFINE frame == BuildFrame(addr, type, n, p)
           head == <<128 + Low7(addr[1]), addr[2], 16 * (type % 16) + (n % 16)>>
           request == head \o p
<1>0. p \in Seq(Byte) /\ Len(p) <= 250 /\ addr \in Byte \X Byte /\ type \in 0..15
  <2>1. 250 \in Nat
    OBVIOUS
  <2>2. p \in Seq(Byte) /\ Len(p) <= 250
    BY <2>1, SmallIs
  <2> QED BY <2>2 DEF Byte
<1>1. BodyOf(frame) = HostUsb \o request /\ BleRequest(frame) = EncodeSegment(MessageBus, HostBle \o request)
  <2>1. AsBuilt(addr, type, n, p)
    BY GoesOutAsBuilt
  <2> QED BY <2>1 DEF AsBuilt
<1>2. PICK x \in 128..255, y \in Byte, c \in Byte : head = <<x, y, c>> /\ x = 128 + addr[1] /\ y = addr[2] /\ c = 16 * type + n
  <2>1. PICK a \in 0..127 : a = addr[1]
    OBVIOUS
  <2>2. Low7(a) = a
    BY DEF Low7
  <2>3. type % 16 = type /\ n % 16 = n
    OBVIOUS
  <2>4. PICK x \in 128..255 : x = 128 + a
    OBVIOUS
  <2>5. PICK y \in Byte : y = addr[2]
    OBVIOUS
  <2>6. PICK c \in Byte : c = 16 * type + n
    BY DEF Byte
  <2> QED BY <2>1, <2>2, <2>3, <2>4, <2>5, <2>6, Zenon
<1>3. ASSUME NEW u \in Byte, NEW v \in Byte
      PROVE  /\ <<u, v>> \o request = <<u, v, x, y, c>> \o p /\ <<u, v>> \o request \in Bodies
             /\ (<<u, v>> \o head) \o p = <<u, v>> \o request
  <2>1. PICK g \in Seq(Byte) : g = <<u, v>> /\ Len(g) = 2
    <3>1. <<u, v>> \in Seq(Byte) /\ Len(<<u, v>>) = 2
      OBVIOUS
    <3> QED BY <3>1, Zenon
  <2>2. PICK h \in Seq(Byte) : h = <<x, y, c>>
    <3>1. <<x, y, c>> \in Seq(Byte)
      BY DEF Byte
    <3> QED BY <3>1, Zenon
  <2>3. PICK k \in Seq(Byte) : k = <<u, v, x, y, c>> /\ Len(k) = 5
    <3>1. <<u, v, x, y, c>> \in Seq(Byte) /\ Len(<<u, v, x, y, c>>) = 5
      BY DEF Byte
    <3> QED BY <3>1, Zenon
  <2>4. <<u, v, x, y, c>> = <<u, v>> \o <<x, y, c>>
    OBVIOUS
  <2>5. (g \o h) \o p = g \o (h \o p)
    BY <1>0, ConcatAssociative, SMTT(30)
  <2>6. <<u, v>> \o request = k \o p /\ (<<u, v>> \o head) \o p = <<u, v>> \o request
    BY <1>2, <2>1, <2>2, <2>3, <2>4, <2>5, Zenon
  <2>7. k \o p \in Seq(Byte) /\ Len(k \o p) = Len(p) + 5 /\ Len(p) \in Nat
    BY <1>0, <2>3, Headed
  <2>8. Len(k \o p) < 256
    BY <1>0, <2>7
  <2> QED BY <2>3, <2>6, <2>7, <2>8, Zenon DEF Bodies
<1> HIDE DEF request, head
<1>4. HostUsb = <<14, 16>> /\ HostBle = <<65, 128>> /\ 14 \in Byte /\ 16 \in Byte /\ 65 \in Byte /\ 128 \in Byte
  BY DEF HostUsb, HostBle, Byte
<1>5. CASE t = "usb"
  <2>1. PICK b \in Bodies : b = HostUsb \o request /\ b = <<14, 16, x, y, c>> \o p
    BY <1>3, <1>4, Zenon
  <2>2. frame = Wrap(b)
    BY <1>3, <1>4, <2>1, Zenon DEF BuildFrame, head
  <2>3. Slice(Wrap(b), 3, Len(Wrap(b))) = b /\ Wrap(b) \in Seq(Byte)
    BY WrapKeepsBody, WrapType
  <2>4. PICK f \in Seq(Byte) : f = Wrap(b) /\ f = frame
    BY <2>2, <2>3
  <2>5. Slice(f, 3, Len(f)) = SubSeq(f, 3, Len(f))
    <3>1. PICK l \in Nat : l = Len(f)
      BY LenProperties
    <3>2. 3 + l > l
      OBVIOUS
    <3> QED BY <3>1, <3>2, Zenon DEF Slice
  <2>6. Outgoing(t, addr, type, n, p) = f
    <3>1. t # "ble"
      BY <1>5
    <3> QED BY <2>4, <3>1, Zenon DEF Outgoing
  <2>7. BodyIn(t, f) = b
    BY <1>5, <2>3, <2>4, <2>5, Zenon DEF BodyIn
  <2>8. Head5(Host(t), <<128 + addr[1], addr[2]>>, 16 * type + n) = <<14, 16, x, y, c>>
    <3>1. Host(t) = <<14, 16>>
      BY <1>4, <1>5 DEF Host
    <3> QED BY <1>2, <3>1 DEF Head5
  <2> QED BY <2>1, <2>6, <2>7, <2>8, Zenon DEF IsCarried
<1>6. CASE t = "ble"
  <2>1. PICK b \in Bodies : b = HostBle \o request /\ b = <<65, 128, x, y, c>> \o p
    BY <1>3, <1>4, Zenon
  <2>2. <<b>> \in Seq(Bodies) /\ Len(<<b>>) = 1
    OBVIOUS
  <2>3. PICK bs \in Seq(Bodies) : bs = <<b>> /\ Len(bs) = 1 /\ bs[1] = b
    BY <2>2
  <2>4. Join(<<b>>) = EncodeSegment(MessageBus, b)
    <3>1. PICK e \in Seq(Bodies) : e = <<>>
      BY EmptySeq
    <3> QED BY <3>1, JoinMore, Zenon
  <2>5. bs \in Seq(Payloads)
    BY BodiesFit
  <2>6. DecodeSegments(Join(bs)) = Told(bs) /\ Told(bs)[1] = Segment(MessageBus, bs[1])
    <3>1. 1 \in 1..Len(bs)
      BY <2>3
    <3> QED BY <2>5, <3>1, SegmentsComeBack, ToldType
  <2>7. Segment(MessageBus, b).payload = b
    BY DEF Segment
  <2>8. Join(bs) \in Seq(Byte)
    BY BodiesComeBack
  <2>9. Outgoing(t, addr, type, n, p) = Join(bs)
    BY <1>1, <1>6, <2>1, <2>3, <2>4, Zenon DEF Outgoing
  <2>10. t # "usb"
    BY <1>6
  <2>11. BodyIn(t, Join(bs)) = b
    BY <2>3, <2>6, <2>7, <2>10, Zenon DEF BodyIn
  <2>12. Head5(Host(t), <<128 + addr[1], addr[2]>>, 16 * type + n) = <<65, 128, x, y, c>>
    <3>1. Host(t) = <<65, 128>>
      BY <1>4, <1>6 DEF Host
    <3> QED BY <1>2, <3>1 DEF Head5
  <2> QED BY <2>1, <2>8, <2>9, <2>11, <2>12, Zenon DEF IsCarried
<1> QED BY <1>5, <1>6

TakesApart(body, h, a, type, n, p) ==
    /\ Low7(body[3]) = a[1] /\ body[4] = a[2] /\ body[5] = 16 * type + n
    /\ body[5] \div 16 = type /\ body[5] % 16 = n
    /\ SubSeq(body, 1, 2) = h /\ SubSeq(body, 6, Len(body)) = p

(* The bike finds in a request what was put in it.                         *)
LEMMA RequestIsTakenApart ==
    ASSUME NEW h \in {HostUsb, HostBle}, NEW a \in (0..127) \X Byte, NEW type \in {0, 2, 4, 6}, NEW n \in 0..15,
           NEW p \in Seq(Byte)
    PROVE  TakesApart(RequestHead(h, a, type, n) \o p, h, a, type, n, p)
<1>1. PICK k \in Seq(Byte) : HeadGives(k, h, a, type, n)
  BY HeadIs
<1>0. k = RequestHead(h, a, type, n) /\ Len(k) = 5
  BY <1>1, Zenon DEF HeadGives
<1>2. /\ k \o p \in Seq(Byte) /\ Len(p) \in Nat /\ Len(k \o p) = Len(p) + 5
      /\ \A j \in 1..5 : (k \o p)[j] = k[j]
      /\ \A m \in Nat : m >= Len(p) => Slice(k \o p, 6, m) = p
  BY <1>0, Headed
<1>3. PICK b \in Seq(Byte) : b = k \o p /\ b = RequestHead(h, a, type, n) \o p
  BY <1>0, <1>2, Zenon
<1>4. b[1] = h[1] /\ b[2] = h[2] /\ b[3] = 128 + a[1] /\ b[4] = a[2] /\ b[5] = 16 * type + n
  <2>1. b[1] = k[1] /\ b[2] = k[2] /\ b[3] = k[3] /\ b[4] = k[4] /\ b[5] = k[5]
    BY <1>2, <1>3
  <2> QED BY <1>1, <2>1, Zenon DEF HeadGives
<1>5. Low7(128 + a[1]) = a[1]
  <2>1. PICK x \in 0..127 : x = a[1]
    OBVIOUS
  <2>2. PICK y \in 128..255 : y = 128 + x
    OBVIOUS
  <2>3. y % 128 = x
    BY <2>2
  <2>4. Low7(128 + x) = x
    BY <2>2, <2>3 DEF Low7
  <2> QED BY <2>1, <2>4
<1>6. (16 * type + n) \div 16 = type /\ (16 * type + n) % 16 = n
  OBVIOUS
<1>7. PICK l \in Nat : l = Len(b) /\ l >= 5 /\ l = Len(p) + 5
  BY <1>2, <1>3
<1>8. SubSeq(b, 1, 2) = <<b[1], b[2]>>
  <2>1. Len(b) >= 2
    BY <1>7
  <2> QED BY <2>1, FirstTwo
<1>9. SubSeq(b, 6, Len(b)) = p
  <2>1. l >= Len(p)
    BY <1>2, <1>7
  <2>2. Slice(k \o p, 6, l) = p
    BY <1>2, <2>1, Zenon
  <2>3. Slice(b, 6, Len(b)) = p
    BY <1>3, <1>7, <2>2, Zenon
  <2>4. CASE l >= 6
    <3>1. ~(6 > l) /\ l <= l
      BY <2>4
    <3>2. Slice(b, 6, l) = SubSeq(b, 6, l)
      BY <1>7, <2>4 DEF Slice
    <3> QED BY <1>7, <2>3, <3>2, Zenon
  <2>5. CASE ~(l >= 6)
    <3>1. l = 5 /\ Len(p) = 0
      BY <1>2, <1>7, <2>5
    <3>2. p = <<>>
      BY <3>1
    <3>3. SubSeq(b, 6, 5) = <<>>
      BY SubSeqEmpty
    <3> QED BY <1>7, <3>1, <3>2, <3>3, Zenon
  <2> QED BY <2>4, <2>5
<1>10. h = <<b[1], b[2]>>
  BY <1>1, <1>4, Zenon DEF HeadGives
<1> QED BY <1>3, <1>4, <1>5, <1>6, <1>8, <1>9, <1>10, Zenon DEF TakesApart

(* The head of an answer, from that of the request.                        *)
LEMMA AnswerHeadIs ==
    ASSUME NEW body, NEW h, NEW a \in (0..127) \X Byte, NEW type \in {0, 2, 4, 6}, NEW n \in 0..15,
           NEW p, TakesApart(body, h, a, type, n, p), NEW to \in Byte \X Byte
    PROVE  \E c \in Byte : HeadsAnswer(body, to, a, type, n, c)
<1>1. PICK x \in 0..127, y \in Byte : x = a[1] /\ y = a[2]
  <2>1. a[1] \in 0..127 /\ a[2] \in Byte
    OBVIOUS
  <2> QED BY <2>1, Zenon
<1>2. PICK u \in Byte, v \in Byte : to = <<u, v>>
  OBVIOUS
<1>3. PICK c \in Byte : c = 16 * (type + 1) + n /\ c = (16 * type + n) + 16
  BY DEF Byte
<1>4. body[5] + 16 = c /\ Low7(body[3]) = x /\ body[4] = y
  BY <1>1, <1>3, Zenon DEF TakesApart
<1>5. <<x, y, u, v, c>> = (<<x, y>> \o <<u, v>>) \o <<c>>
  OBVIOUS
<1>6. AnswerHead(body, to) = <<x, y, u, v, c>>
  BY <1>2, <1>4, <1>5, Zenon DEF AnswerHead
<1>7. Head5(a, to, c) = <<x, y, u, v, c>>
  BY <1>1, <1>2 DEF Head5
<1>8. c \div 16 = type + 1 /\ c % 16 = n
  BY <1>3
<1> QED BY <1>3, <1>6, <1>7, <1>8, Zenon DEF HeadsAnswer

(* The rows that are read have shapes.                                     *)
LEMMA RowHasShape == \A r \in ReadRows : r.shape \in Shapes /\ r \in Registry
BY RowsAssumption DEF Shapes

(* The argument of a request that only asks.                               *)
LEMMA ArgumentIsSmall ==
    ASSUME NEW point \in Points \ {"set", "write"}
    PROVE  Argument(point) \in Small(250)
<1>0. <<>> \in Small(250)
  BY DEF Small
<1>1. CASE point \in {"params", "limits", "statistics"}
  <2>1. Argument(point) = EncodeConfigIdArg(ConfigId)
    BY <1>1 DEF Argument
  <2>2. EncodeConfigIdArg(ConfigId) \in Small(18)
    BY ModeIsNamed, Zenon
  <2>3. 18 \in 0..250
    OBVIOUS
  <2> QED BY <2>1, <2>2, <2>3, SmallEnough
<1>2. CASE point = "issue"
  <2>1. PICK n \in 0..255 : n = 1
    OBVIOUS
  <2>2. n \in Nat /\ n < 2^Word /\ n < 128
    BY <2>1, WordHolds
  <2>3. EncodeVarint(n) = Varint(n) /\ Varint(n) = <<n>>
    BY <2>2, EncodesVarint, VarintHead
  <2>4. <<8, 5, 24, 1>> = (<<8, 5>> \o <<24>>) \o <<1>>
    OBVIOUS
  <2>5. Argument(point) = (<<8, 5>> \o <<24>>) \o EncodeVarint(1)
    BY <1>2 DEF Argument
  <2>6. Argument(point) = <<8, 5, 24, 1>>
    BY <2>1, <2>3, <2>4, <2>5, Zenon
  <2>7. <<8, 5, 24, 1>> \in Small(250)
    BY DEF Small, Byte
  <2> QED BY <2>6, <2>7
<1>3. CASE point \notin {"params", "limits", "statistics", "issue"}
  <2>1. Argument(point) = <<>>
    BY <1>3 DEF Argument
  <2> QED BY <1>0, <2>1
<1> QED BY <1>1, <1>2, <1>3

-----------------------------------------------------------------------------
(***************************************************************************)
(* The answers of the bike, point by point.                                *)
(***************************************************************************)
\* An answer is short, and decodes to what it shows.
AnswerSays(point, a, h, r) == a.bytes \in Small(250) /\ SaysSo(point, a.shows, h, a.bytes, r)

(* A record of the settings.                                               *)
LEMMA ProtoIs ==
    ASSUME NEW g \in BikeRecords
    PROVE  Proto(g) \in Small(48) /\ DecodeUdamParams(Proto(g)) = Seen(g)
<1>1. Proto(g) = Fieldwise(8, {}, Seen(g)) /\ Seen(g) \in Records
  BY RecordBytes
<1>2. PICK k \in Records : k = Seen(g)
  BY <1>1
<1>3. DecodeUdamParams(Fieldwise(8, {}, k)) = k /\ Fieldwise(8, {}, k) \in Small(48)
  BY RecordComesBack, SaveArgument
<1> QED BY <1>1, <1>2, <1>3, Zenon

(* The settings.                                                           *)
LEMMA ParamsAnswer ==
    ASSUME bike \in BikeRecords, NEW h, NEW r
    PROVE  \A a \in Answers("params") : AnswerSays("params", a, h, r)
<1>1. PICK p \in Small(48) : p = Proto(bike) /\ DecodeUdamParams(p) = Seen(bike)
  BY ProtoIs
<1>2. Answers("params") = {[bytes |-> p, shows |-> Seen(bike)]}
  BY <1>1, Zenon DEF Answers
<1>3. 48 \in 0..250
  OBVIOUS
<1>4. p \in Small(250)
  BY <1>3, SmallEnough
<1>5. SaysSo("params", Seen(bike), h, p, r)
  <2>1. Seen(bike) \in Records
    BY RecordBytes, Zenon
  <2>2. Seen(bike) \in Settings
    BY <2>1, RecordIs DEF Settings, Sendable
  <2> QED BY <1>1, <2>2 DEF SaysSo
<1>6. ASSUME NEW a \in Answers("params")
      PROVE  AnswerSays("params", a, h, r)
  <2>1. a = [bytes |-> p, shows |-> Seen(bike)]
    BY <1>2
  <2>2. a.bytes = p /\ a.shows = Seen(bike)
    BY <2>1
  <2> QED BY <1>4, <1>5, <2>2 DEF AnswerSays
<1> QED BY <1>6

(* A record with another number in its first field.                        *)
LEMMA FirstEdited ==
    ASSUME NEW g \in BikeRecords, NEW n \in Numbers
    PROVE  [g EXCEPT ![1] = n] \in BikeRecords
<1>1. g \in Records /\ \A f \in 1..5 : g[f] # None
  BY DEF BikeRecords
<1>2. n \in Sendable /\ None \notin Sendable
  BY NumbersAreSendable, NoneIsNothing
<1>3. 1 \in EditableFields
  BY DEF EditableFields
<1>4. /\ Edited(g, 1, n) \in Records
      /\ Edited(g, 1, n)[1] = n /\ \A h \in 1..8 : h # 1 => Edited(g, 1, n)[h] = g[h]
  BY <1>1, <1>3, EditedIs
<1>5. \A f \in 1..5 : Edited(g, 1, n)[f] # None
  <2>1. ASSUME NEW f \in 1..5
        PROVE  Edited(g, 1, n)[f] # None
    <3>1. CASE f = 1
      BY <1>2, <1>4, <3>1, Zenon
    <3>2. CASE f # 1
      <4>1. f \in 1..8
        OBVIOUS
      <4> QED BY <1>1, <1>4, <3>2, <4>1, Zenon
    <3> QED BY <3>1, <3>2
  <2> QED BY <2>1
<1>6. Edited(g, 1, n) \in BikeRecords
  BY <1>4, <1>5, Zenon DEF BikeRecords
<1> QED BY <1>6, Zenon DEF Edited

(* The limits: two records of the settings, each in a field of its own.    *)
LEMMA LimitsAreRead ==
    ASSUME NEW g \in BikeRecords, NEW k \in BikeRecords
    PROVE  /\ Bytes(1, Proto(g)) \o Bytes(2, Proto(k)) \in Small(250)
           /\ DecodeUdamLimits(Bytes(1, Proto(g)) \o Bytes(2, Proto(k))) = [max |-> Seen(g), min |-> Seen(k)]
<1>1. PICK s \in Small(48) : s = Proto(g) /\ DecodeUdamParams(s) = Seen(g)
  BY ProtoIs
<1>2. PICK t \in Small(48) : t = Proto(k) /\ DecodeUdamParams(t) = Seen(k)
  BY ProtoIs
<1>3. 48 \in 0..100 /\ 48 \in Nat /\ 100 \in Nat /\ 48 <= 100 /\ 48 + 2 \in Nat /\ (48 + 2) + (48 + 2) \in 0..250
  OBVIOUS
<1>4. s \in Small(100) /\ t \in Small(100)
  BY <1>3, SmallGrows
<1>5. PICK one \in 1..15 : one = 1
  OBVIOUS
<1>6. PICK two \in 1..15 : two = 2
  OBVIOUS
<1>7. /\ PartOf(one, 1..4, s) = Bytes(one, s) /\ FieldFits(one, 1..4, s) /\ Bytes(one, s) \in Seq(Byte)
      /\ \A e : Or(s, e) = s
  <2>1. one \in 1..4
    BY <1>5
  <2> QED BY <1>4, <2>1, TextParts, Zenon
<1>8. /\ PartOf(two, 1..4, t) = Bytes(two, t) /\ FieldFits(two, 1..4, t) /\ Bytes(two, t) \in Seq(Byte)
      /\ \A e : Or(t, e) = t
  <2>1. two \in 1..4
    BY <1>6
  <2> QED BY <1>4, <2>1, TextParts, Zenon
<1>9. Parts4(1..4, s, t, None, None, Bytes(1, s), Bytes(2, t), <<>>, <<>>)
  BY <1>5, <1>6, <1>7, <1>8, NoneIsNothing, Zenon DEF Parts4
<1>10. PICK p \in Seq(Byte) : p = Bytes(1, s) \o Bytes(2, t) /\ Message4(1..4, s, t, None, None) = p
  <2>1. PICK w \in Seq(Byte) : w = Bytes(1, s)
    BY <1>5, <1>7, Zenon
  <2>2. PICK x \in Seq(Byte) : x = Bytes(2, t)
    BY <1>6, <1>8, Zenon
  <2>3. w \o x \in Seq(Byte)
    BY ConcatProperties
  <2>4. Parts4(1..4, s, t, None, None, w, x, <<>>, <<>>)
    BY <1>9, <2>1, <2>2, Zenon
  <2>5. Message4(1..4, s, t, None, None) = w \o x
    BY <2>4, MessageOfTwo
  <2> QED BY <2>1, <2>2, <2>3, <2>5, Zenon
<1>11. FieldFits(1, 1..4, s) /\ FieldFits(2, 1..4, t) /\ FieldFits(3, 1..4, None) /\ FieldFits(4, 1..4, None)
  BY <1>5, <1>6, <1>7, <1>8, NoneIsNothing, Zenon
<1>12. HasFour(Fields(p, {2}, FALSE), s, t, None, None)
  <2>1. Knows({2}, 1..4)
    BY DEF Knows
  <2>2. FALSE \in BOOLEAN
    OBVIOUS
  <2> QED BY <1>10, <1>11, <2>1, <2>2, FourAreRead, Zenon
<1>13. Value(Fields(p, {2}, FALSE), 1, None) = s /\ Value(Fields(p, {2}, FALSE), 2, None) = t
  BY <1>7, <1>8, <1>12, Zenon DEF HasFour
<1>14. s # None /\ t # None
  <2>1. 48 \in 0..250
    OBVIOUS
  <2>2. s \in Texts /\ t \in Texts
    BY <2>1, SmallEnough DEF Texts
  <2> QED BY <2>2, NoneIsNothing, Zenon
<1>15. DecodeUdamLimits(p) = [max |-> Seen(g), min |-> Seen(k)]
  BY <1>1, <1>2, <1>13, <1>14, Zenon DEF DecodeUdamLimits, UdamLimitsIn
<1>16. p \in Small(250)
  <2>1. Bytes(one, s) \in Small(48 + 2) /\ Bytes(two, t) \in Small(48 + 2)
    BY <1>3, SmallPresent
  <2>2. Bytes(one, s) \o Bytes(two, t) \in Small((48 + 2) + (48 + 2))
    BY <1>3, <2>1, SmallConcat
  <2>3. Bytes(one, s) \o Bytes(two, t) \in Small(250)
    BY <1>3, <2>2, SmallEnough
  <2> QED BY <1>5, <1>6, <1>10, <2>3, Zenon
<1> QED BY <1>1, <1>2, <1>10, <1>15, <1>16, Zenon

\* A push of the range.
Pushed(n) == <<128 + Addr("range")[1], Addr("range")[2]>> \o Bytes(1, Varint(n) \o Varint(3))

(* The tool reads a push of the range with its value, over each transport, *)
(* and takes it for no response and no request of the bike's own.          *)
LEMMA PushIsRead ==
    ASSUME NEW t \in {"usb", "ble"}, NEW n \in Sendable, NEW m,
           m.point = "range", m.addr = Addr("range"), m.shows = <<n, 3>>
    PROVE  FitsPush(FrameOf(t, Pushed(n)), m) /\ Pushed(n) \in BodiesOver(t) /\ FrameOf(t, Pushed(n)) \in Seq(Byte)
<1>1. PICK s \in Small(10) : s = Varint(n) \o Varint(3)
  BY RangeIsRead
<1>2. DecodeUint32List(Bytes(1, s)) = <<n, 3>>
  BY <1>1, RangeIsRead, Zenon
<1>3. PICK p \in Seq(Byte) : p = Bytes(1, s) /\ p[1] = 10 /\ Len(p) \in 2..12
  <2>1. PICK l \in 0..10 : s \in Seq(Byte) /\ Len(s) = l
    <3>1. 10 \in Nat
      OBVIOUS
    <3>2. s \in Seq(Byte) /\ Len(s) \in Nat /\ Len(s) <= 10
      BY <3>1, SmallIs
    <3>3. PICK l \in Nat : l = Len(s) /\ l <= 10
      BY <3>2, Zenon
    <3>4. l <= 10
      BY <3>3, Zenon
    <3>5. l \in 0..10
      BY <3>4
    <3> QED BY <3>2, <3>3, <3>5, Zenon
  <2>2. PICK h \in Seq(Byte) : h = <<10, Len(s)>> /\ Len(h) = 2 /\ h[1] = 10
    <3>1. l \in Byte /\ 10 \in Byte
      BY DEF Byte
    <3>2. <<10, l>> \in Seq(Byte) /\ Len(<<10, l>>) = 2 /\ <<10, l>>[1] = 10
      BY <3>1, PairOfBytes, Zenon
    <3> QED BY <2>1, <3>2, Zenon
  <2>3. h \o s \in Seq(Byte) /\ Len(h \o s) = Len(s) + 2 /\ (h \o s)[1] = h[1]
    BY <2>1, <2>2, Prefixed
  <2>4. Bytes(1, s) = h \o s
    <3>1. 8 * 1 + 2 = 10
      OBVIOUS
    <3> QED BY <2>2, <3>1, Zenon DEF Bytes
  <2>5. Len(h \o s) = l + 2
    BY <2>1, <2>3, Zenon
  <2>6. l + 2 \in 2..12
    OBVIOUS
  <2>7. Len(h \o s) \in 2..12
    BY <2>5, <2>6, Zenon
  <2> QED BY <2>2, <2>3, <2>4, <2>7, Zenon
<1>4. PICK h \in Seq(Byte) : h = <<152, 87>> /\ Len(h) = 2 /\ h[1] = 152 /\ h[2] = 87
  <2>1. 152 \in Byte /\ 87 \in Byte
    BY DEF Byte
  <2>2. PICK x \in Byte : x = 152
    BY <2>1
  <2>3. PICK y \in Byte : y = 87
    BY <2>1
  <2>4. PICK h \in Seq(Byte) : h = <<x, y>> /\ Len(h) = 2 /\ h[1] = x /\ h[2] = y
    <3>1. <<x, y>> \in Seq(Byte) /\ Len(<<x, y>>) = 2 /\ <<x, y>>[1] = x /\ <<x, y>>[2] = y
      BY PairOfBytes, Zenon
    <3> QED BY <3>1, Zenon
  <2>5. <<x, y>> = <<152, 87>>
    BY <2>2, <2>3
  <2>6. h = <<152, 87>> /\ h[1] = 152 /\ h[2] = 87
    BY <2>2, <2>3, <2>4, <2>5
  <2>7. Len(h) = 2
    BY <2>4, Zenon
  <2> QED BY <2>6, <2>7
<1>5. PICK b \in Seq(Byte) : /\ b = h \o p /\ Len(b) = Len(p) + 2 /\ b[1] = 152 /\ b[2] = 87
                             /\ \A j \in Nat : j >= Len(p) => Slice(b, 3, j) = p
  <2>1. /\ h \o p \in Seq(Byte) /\ Len(h \o p) = Len(p) + 2
        /\ (h \o p)[1] = h[1] /\ (h \o p)[2] = h[2]
        /\ \A j \in Nat : j >= Len(p) => Slice(h \o p, 3, j) = p
    <3>1. Len(h) = 2
      BY <1>4, Zenon
    <3> QED BY <3>1, Prefixed, Zenon
  <2> QED BY <1>4, <2>1, Zenon
<1>6. b[3] = 10
  <2>1. (h \o p)[3] = p[1]
    BY <1>3, <1>4
  <2> QED BY <1>3, <1>5, <2>1, Zenon
<1>7. Len(b) \in 4..14 /\ b \in Bodies
  <2>1. PICK k \in 2..12 : k = Len(p)
    BY <1>3, Zenon
  <2>2. k + 2 \in 4..14
    OBVIOUS
  <2>3. Len(b) = k + 2
    BY <1>5, <2>1, Zenon
  <2>4. Len(b) \in 4..14
    BY <2>2, <2>3, Zenon
  <2>5. \A j \in 4..14 : j < 256
    OBVIOUS
  <2>6. Len(b) < 256
    BY <2>4, <2>5
  <2> QED BY <2>4, <2>6, Zenon DEF Bodies
<1>8. Pushed(n) = b
  <2>1. Addr("range")[1] = 24 /\ Addr("range")[2] = 87
    BY DEF Addr
  <2>2. <<128 + Addr("range")[1], Addr("range")[2]>> = <<152, 87>>
    BY <2>1
  <2> QED BY <1>1, <1>3, <1>4, <1>5, <2>2, Zenon DEF Pushed
<1>9. Low7(b[3]) = 10 /\ HostBle[1] = 65 /\ MobileAppHigh = 64
  BY <1>6 DEF Low7, HostBle, MobileAppHigh
<1>10. Rebuild(b) = Wrap(b) /\ b \in Others
  BY <1>7, <1>9 DEF Rebuild, Others, IsMobileAppRequest
<1>11. FrameOf(t, b) = Wrap(b) /\ b \in BodiesOver(t)
  BY <1>7, <1>10, Zenon DEF FrameOf, BodiesOver
<1>12. Wrap(b) \in Seq(Byte) /\ BodyOf(Wrap(b)) = b
  BY <1>7, WrapType, WrapKeepsBody
<1>13. b # NotAFrame
  BY NotAFrameAssumption, Zenon DEF Byte
<1>14. Flagged(b[1]) /\ Low7(b[1]) = 24
  BY <1>5 DEF Flagged, Low7
<1>15. ParseResponse(Wrap(b)) = NotAFrame
  BY <1>12, <1>14, Zenon DEF ParseResponse
<1>16. ParseNotify(Wrap(b)) = [addr |-> <<24, 87>>, payload |-> p]
  <2>1. Slice(b, 3, Len(b)) = p
    <3>1. Len(b) \in Nat /\ Len(b) >= Len(p)
      BY <1>3, <1>5
    <3> QED BY <1>5, <3>1, Zenon
  <2>2. ~(Len(b) < 2)
    <3>1. \A k \in 4..14 : ~(k < 2)
      OBVIOUS
    <3> QED BY <1>7, <3>1, Zenon
  <2> QED BY <1>5, <1>12, <1>13, <1>14, <2>1, <2>2, Zenon DEF ParseNotify
<1>17. PICK note : /\ note = ParseNotify(Wrap(b)) /\ note # NotAFrame /\ note.addr = <<24, 87>> /\ note.payload = p
  <2>1. [addr |-> <<24, 87>>, payload |-> p] \in [addr : Seq(0..255), payload : Seq(0..255)]
    BY DEF Byte
  <2>2. [addr |-> <<24, 87>>, payload |-> p] # NotAFrame
    BY <2>1, NotAFrameAssumption, Zenon
  <2>3. [addr |-> <<24, 87>>, payload |-> p].addr = <<24, 87>> /\ [addr |-> <<24, 87>>, payload |-> p].payload = p
    OBVIOUS
  <2> QED BY <1>16, <2>2, <2>3, Zenon
<1>18. Addr("range") = <<24, 87>>
  BY DEF Addr
<1>19. FitsPush(Wrap(b), m)
  BY <1>2, <1>3, <1>15, <1>17, <1>18, Zenon DEF FitsPush
<1> QED BY <1>8, <1>11, <1>12, <1>19, Zenon

Named(ids) == [k \in DOMAIN ids |-> Bytes(1, ids[k])]

(* The modes, in their order.                                              *)
LEMMA IdsAreRead ==
    ASSUME NEW ids \in Seq(Small(16))
    PROVE  DecodeConfigIdList(Flatten(Entries(Named(ids)))) = ids
<1>1. Len(ids) \in Nat /\ DOMAIN ids = 1..Len(ids) /\ \A k \in 1..Len(ids) : ids[k] \in Small(16)
  BY LenProperties, ElementOfSeq
<1>2. \A s \in Small(16) : Bytes(1, s) \in Small(100) /\ Bared(Bytes(1, s)) = s
  BY BaredIs, Zenon
<1>3. PICK es \in Seq(Small(100)) : es = Named(ids) /\ Len(es) = Len(ids) /\ \A k \in 1..Len(ids) : es[k] = Bytes(1, ids[k])
  <2>1. \A k \in 1..Len(ids) : Bytes(1, ids[k]) \in Small(100)
    BY <1>1, <1>2, Zenon
  <2>2. Named(ids) \in Seq(Small(100)) /\ Len(Named(ids)) = Len(ids) /\ \A k \in 1..Len(ids) : Named(ids)[k] = Bytes(1, ids[k])
    BY <1>1, <2>1 DEF Named
  <2> QED BY <2>2, Zenon
<1>4. Values(Fields(Flatten(Entries(es)), {2}, FALSE), 1) = es
  BY EntriesAreFound, EntriesTell, Zenon
<1>5. [k \in DOMAIN es |-> Bared(es[k])] = ids
  <2>1. DOMAIN es = 1..Len(ids)
    BY <1>3, LenProperties, Zenon
  <2>2. \A k \in 1..Len(ids) : Bared(es[k]) = ids[k]
    BY <1>1, <1>2, <1>3, Zenon
  <2>3. ids = [k \in 1..Len(ids) |-> ids[k]]
    BY <1>1
  <2> QED BY <2>1, <2>2, <2>3, Zenon
<1>6. DecodeConfigIdList(Flatten(Entries(es))) = [k \in DOMAIN es |-> Bared(es[k])]
  BY <1>4, Zenon DEF DecodeConfigIdList, Bared
<1> QED BY <1>3, <1>5, <1>6, Zenon

(* The modes of the bike.                                                  *)
LEMMA ModesAre ==
    ASSUME NEW m \in Modes
    PROVE  /\ m \in Seq(0..2) /\ Len(m) \in 1..3 /\ DOMAIN m = 1..Len(m) /\ \A k \in 1..Len(m) : m[k] \in 0..2
           /\ \A k \in 0..2 : Id(k) \in Small(16) /\ Name(k) \in Small(16)
<1>1. m \in Seq(0..2) /\ Len(m) \in 1..3
  <2>1. CASE m = <<1, 2>>
    BY <2>1
  <2>2. CASE m = <<0, 1, 2>>
    BY <2>2
  <2> QED BY <2>1, <2>2 DEF Modes
<1>2. DOMAIN m = 1..Len(m) /\ \A k \in 1..Len(m) : m[k] \in 0..2
  BY <1>1, LenProperties, ElementOfSeq
<1>3. <<48>> \in Small(16) /\ <<52>> \in Small(16) /\ <<79>> \in Small(16) /\ <<69, 67>> \in Small(16) /\ <<>> \in Small(16)
  BY DEF Small, Byte
<1>4. ConfigId \in Small(16)
  BY ModeIsNamed
<1>5. \A k \in 0..2 : Id(k) \in Small(16)
  BY <1>3, <1>4 DEF Id, OffMode
<1>6. \A k \in 0..2 : Name(k) \in Small(16)
  BY <1>3 DEF Name
<1> QED BY <1>1, <1>2, <1>5, <1>6

(* The answers with the modes, and with their names.                       *)
LEMMA ModesAnswer ==
    ASSUME NEW h, NEW r
    PROVE  (\A a \in Answers("modes") : AnswerSays("modes", a, h, r)) /\ (\A a \in Answers("names") : AnswerSays("names", a, h, r))
<1>0. 16 \in Nat /\ 18 \in Nat /\ 100 \in Nat /\ 16 <= 18 /\ 16 <= 100 /\ 18 <= 100
  OBVIOUS
<1>1. ASSUME NEW m \in Modes
      PROVE  AnswerSays("modes", IdList(m), h, r)
  <2>1. /\ Len(m) \in 1..3 /\ DOMAIN m = 1..Len(m) /\ \A k \in 1..Len(m) : Id(m[k]) \in Small(16)
    BY ModesAre
  <2>2. PICK ids \in Seq(Small(16)) : ids = [k \in DOMAIN m |-> Id(m[k])] /\ Len(ids) = Len(m) /\ \A k \in 1..Len(m) : ids[k] = Id(m[k])
    <3>1. [k \in DOMAIN m |-> Id(m[k])] \in Seq(Small(16)) /\ Len([k \in DOMAIN m |-> Id(m[k])]) = Len(m)
      BY <2>1
    <3> QED BY <2>1, <3>1
  <2>3. DOMAIN ids = 1..Len(m) /\ \A k \in 1..Len(m) : ids[k] \in Small(16)
    BY <2>1, <2>2
  <2>4. PICK es \in Seq(Small(18)) : es = Named(ids) /\ Len(es) \in 1..3
    <3>1. \A s \in Small(16) : Bytes(1, s) \in Small(18)
      BY BaredIs, Zenon
    <3>2. \A k \in 1..Len(m) : Bytes(1, ids[k]) \in Small(18)
      BY <2>3, <3>1, Zenon
    <3>3. Named(ids) \in Seq(Small(18)) /\ Len(Named(ids)) = Len(m)
      BY <2>1, <2>3, <3>2 DEF Named
    <3> QED BY <2>1, <3>3, Zenon
  <2>5. Flatten(Entries(es)) \in Small(250) /\ DecodeConfigIdList(Flatten(Entries(es))) = ids
    BY <2>4, EntriesAreSmall, IdsAreRead, Zenon
  <2>6. [k \in DOMAIN m |-> Bytes(1, Bytes(1, Id(m[k])))] = Entries(es)
    <3>1. DOMAIN es = 1..Len(m) /\ \A k \in 1..Len(m) : es[k] = Bytes(1, Id(m[k]))
      BY <2>2, <2>3, <2>4 DEF Named
    <3> QED BY <2>1, <3>1, Zenon DEF Entries
  <2>7. IdList(m) = [bytes |-> Flatten(Entries(es)), shows |-> ids]
    BY <2>2, <2>6, Zenon DEF IdList
  <2>8. IdList(m).bytes = Flatten(Entries(es)) /\ IdList(m).shows = ids
    BY <2>7
  <2>10. ids \in ShownIds
    BY <2>8 DEF ShownIds
  <2>9. SaysSo("modes", ids, h, Flatten(Entries(es)), r)
    BY <2>5, <2>10 DEF SaysSo
  <2> QED BY <2>5, <2>8, <2>9, Zenon DEF AnswerSays
<1>2. ASSUME NEW m \in Modes
      PROVE  AnswerSays("names", NameList(m), h, r)
  <2>1. /\ Len(m) \in 1..3 /\ DOMAIN m = 1..Len(m) /\ \A k \in 1..Len(m) : Name(m[k]) \in Small(18) /\ Name(m[k]) \in Small(100)
    BY <1>0, ModesAre, SmallGrows
  <2>2. PICK es \in Seq(Small(18)) : es = [k \in DOMAIN m |-> Name(m[k])] /\ Len(es) \in 1..3 /\ es \in Seq(Small(100))
    <3>1. [k \in DOMAIN m |-> Name(m[k])] \in Seq(Small(18)) /\ Len([k \in DOMAIN m |-> Name(m[k])]) = Len(m)
          /\ [k \in DOMAIN m |-> Name(m[k])] \in Seq(Small(100))
      BY <2>1
    <3> QED BY <2>1, <3>1, Zenon
  <2>3. Flatten(Entries(es)) \in Small(250) /\ DecodeStringList(Flatten(Entries(es))) = es
    BY <2>2, EntriesAreSmall, NamesAreRead, Zenon
  <2>4. [k \in DOMAIN m |-> Bytes(1, Name(m[k]))] = Entries(es)
    BY <2>2 DEF Entries
  <2>5. NameList(m) = [bytes |-> Flatten(Entries(es)), shows |-> es]
    BY <2>2, <2>4, Zenon DEF NameList
  <2>6. NameList(m).bytes = Flatten(Entries(es)) /\ NameList(m).shows = es
    BY <2>5
  <2>8. es \in ShownNames
    BY <2>6 DEF ShownNames
  <2>7. SaysSo("names", es, h, Flatten(Entries(es)), r)
    BY <2>3, <2>8 DEF SaysSo
  <2> QED BY <2>3, <2>6, <2>7, Zenon DEF AnswerSays
<1>3. Answers("modes") = {IdList(m) : m \in Modes} /\ Answers("names") = {NameList(m) : m \in Modes}
  BY DEF Answers
<1> QED BY <1>1, <1>2, <1>3, Zenon

Shades == [r : 0..3, g : 0..15, b : 0..15, a : 0..15]

(* A color is a word of four quarters, and back.                           *)
LEMMA ColorComesBack ==
    ASSUME NEW q \in Shades
    PROVE  ColorWord(q) \in Sendable /\ Color(ColorWord(q)) = q
<1>1. PICK r \in 0..3, g \in 0..15, b \in 0..15, a \in 0..15 : q = [r |-> r, g |-> g, b |-> b, a |-> a]
  BY DEF Shades
<1>2. PICK n \in 4..8 : n = Word \div 4
  BY WordAssumption
<1> DEFINE Four(Q) == ((r * Q + g) * Q + b) * Q + a
<1>3. ColorWord(q) = Four(2^n)
  BY <1>1, <1>2 DEF ColorWord
<1> DEFINE Apart(Q, v) == (v \div (Q * Q * Q)) % Q = r /\ (v \div (Q * Q)) % Q = g /\ (v \div Q) % Q = b /\ v % Q = a
<1>4. Apart(2^n, Four(2^n)) /\ 2^(0 * n) = 1 /\ 2^(1 * n) = 2^n /\ 2^(2 * n) = 2^n * 2^n /\ 2^(3 * n) = 2^n * 2^n * 2^n
  <2>1. /\ 2^4 = 16 /\ 2^5 = 32 /\ 2^6 = 64 /\ 2^7 = 128 /\ 2^8 = 256 /\ 2^10 = 1024 /\ 2^12 = 4096 /\ 2^14 = 16384
        /\ 2^15 = 32768 /\ 2^16 = 65536 /\ 2^18 = 262144 /\ 2^21 = 2097152 /\ 2^24 = 16777216 /\ 2^0 = 1
    OBVIOUS
  <2>2. CASE n = 4
    <3>1. Apart(16, Four(16))
      OBVIOUS
    <3> QED BY <2>1, <2>2, <3>1
  <2>3. CASE n = 5
    <3>1. Apart(32, Four(32))
      OBVIOUS
    <3> QED BY <2>1, <2>3, <3>1
  <2>4. CASE n = 6
    <3>1. Apart(64, Four(64))
      OBVIOUS
    <3> QED BY <2>1, <2>4, <3>1
  <2>5. CASE n = 7
    <3>1. Apart(128, Four(128))
      OBVIOUS
    <3> QED BY <2>1, <2>5, <3>1
  <2>6. CASE n = 8
    <3>1. Apart(256, Four(256))
      OBVIOUS
    <3> QED BY <2>1, <2>6, <3>1
  <2>7. n = 4 \/ n = 5 \/ n = 6 \/ n = 7 \/ n = 8
    OBVIOUS
  <2> QED BY <2>2, <2>3, <2>4, <2>5, <2>6, <2>7, Zenon
<1>5. ColorWord(q) \in Sendable
  BY <1>1, ColorFits
<1>6. PICK v \in Nat : v = Four(2^n)
  BY <1>3, <1>5, NumbersAreNat, Zenon
<1>7. v \div 1 = v
  OBVIOUS
<1>8. Color(v) = [r |-> r, g |-> g, b |-> b, a |-> a]
  <2>1. (v \div 2^(0 * n)) % 2^n = a /\ (v \div 2^(1 * n)) % 2^n = b /\ (v \div 2^(2 * n)) % 2^n = g /\ (v \div 2^(3 * n)) % 2^n = r
    BY <1>4, <1>6, <1>7, Zenon
  <2> QED BY <1>2, <2>1, Zenon DEF Color
<1> QED BY <1>1, <1>3, <1>5, <1>6, <1>8, Zenon

Words(cs) == [k \in DOMAIN cs |-> ColorWord(cs[k])]

(* A run of few colors, in their order.                                    *)
LEMMA ColorsAreRead ==
    ASSUME NEW cs \in Seq(Shades), Len(cs) \in 1..3
    PROVE  /\ Bytes(1, Packed(Words(cs))) \in Small(250)
           /\ DecodeTyped(AssistModeColors, Bytes(1, Packed(Words(cs)))) = cs
<1>1. DOMAIN cs = 1..Len(cs) /\ \A k \in 1..Len(cs) : cs[k] \in Shades
  OBVIOUS
<1>2. PICK ws \in Seq(Sendable) : ws = Words(cs) /\ DOMAIN ws = 1..Len(cs) /\ \A k \in 1..Len(cs) : ws[k] = ColorWord(cs[k])
  <2>1. \A k \in 1..Len(cs) : ColorWord(cs[k]) \in Sendable
    BY <1>1, ColorComesBack, Zenon
  <2>2. Words(cs) \in Seq(Sendable) /\ DOMAIN Words(cs) = 1..Len(cs) /\ \A k \in 1..Len(cs) : Words(cs)[k] = ColorWord(cs[k])
    BY <1>1, <2>1 DEF Words
  <2> QED BY <2>2
<1>3. PICK n \in 1..3 : n = Len(cs)
  OBVIOUS
<1>4. \A k \in 1..n : ws[k] \in Sendable
  BY <1>2, <1>3
<1>5. PICK p \in Small(100) : p = Packed(ws)
  <2>1. n \in 0..8 /\ DOMAIN ws = 1..n
    BY <1>2, <1>3
  <2>2. Packed(ws) \in Small(n * 5)
    BY <1>4, <2>1, PackedIsSmall, Zenon
  <2>3. n * 5 \in Nat /\ 100 \in Nat /\ n * 5 <= 100
    OBVIOUS
  <2>4. Packed(ws) \in Small(100)
    BY <2>2, <2>3, SmallGrows, Zenon
  <2> QED BY <2>4
<1>6. VarintsIn(p) = ws
  BY <1>2, <1>5, RunIsRead, Zenon
<1>7. Bytes(1, p) \in Small(250)
  <2>1. PICK size \in 0..100 : size = 100
    OBVIOUS
  <2>2. PICK num \in 1..15 : num = 1
    OBVIOUS
  <2> QED BY <2>1, <2>2, SmallPresent, ZenonT(60)
<1>8. Bytes(1, p) # <<>> /\ Value(ParseFields(Bytes(1, p)), 1, Bytes(1, p)) = p
  BY OneTextIsRead, Zenon
<1>9. AssistModeColors.kind = "assistModeColors"
  BY DEF AssistModeColors, Plain
<1>10. DecodeTyped(AssistModeColors, Bytes(1, p)) = Colors(p)
  <2>1. DecodeTyped(AssistModeColors, Bytes(1, p)) = ValueIn(AssistModeColors, Bytes(1, p), ParseFields(Bytes(1, p)))
    BY <1>8, Zenon DEF DecodeTyped
  <2>2. \A q, fields : ValueIn(AssistModeColors, q, fields) = Colors(Value(fields, 1, q))
    BY <1>9 DEF ValueIn
  <2> QED BY <1>8, <2>1, <2>2, Zenon
<1>11. Colors(p) = cs
  <2>1. Colors(p) = [k \in DOMAIN ws |-> Color(ws[k])]
    BY <1>6, Zenon DEF Colors
  <2>2. \A k \in 1..Len(cs) : Color(ws[k]) = cs[k]
    BY <1>1, <1>2, ColorComesBack, Zenon
  <2>3. [k \in DOMAIN ws |-> Color(ws[k])] = [k \in 1..Len(cs) |-> cs[k]]
    BY <1>2, <2>2, Zenon
  <2>4. [k \in 1..Len(cs) |-> cs[k]] = cs
    OBVIOUS
  <2> QED BY <2>1, <2>3, <2>4, Zenon
<1> QED BY <1>2, <1>5, <1>7, <1>10, <1>11, Zenon

(* The answer with the colors of the modes.                                *)
LEMMA ColorsAnswer ==
    ASSUME NEW h, NEW r
    PROVE  \A a \in Answers("colors") : AnswerSays("colors", a, h, r)
<1>1. ASSUME NEW m \in Modes
      PROVE  AnswerSays("colors", ShadeList(m), h, r)
  <2>1. Len(m) \in 1..3 /\ DOMAIN m = 1..Len(m) /\ \A k \in 1..Len(m) : m[k] \in 0..2
    BY ModesAre
  <2>2. \A k \in 0..2 : Shade(k) \in Shades
    BY DEF Shade, Shades, Bit
  <2>3. PICK cs \in Seq(Shades) : cs = [k \in DOMAIN m |-> Shade(m[k])] /\ Len(cs) = Len(m) /\ DOMAIN cs = DOMAIN m
                                  /\ \A k \in DOMAIN m : cs[k] = Shade(m[k])
    <3>1. [k \in DOMAIN m |-> Shade(m[k])] \in Seq(Shades) /\ Len([k \in DOMAIN m |-> Shade(m[k])]) = Len(m)
      BY <2>1, <2>2
    <3> QED BY <3>1, Zenon
  <2>4. [k \in DOMAIN m |-> ColorWord(Shade(m[k]))] = Words(cs)
    BY <2>3, Zenon DEF Words
  <2>5. Bytes(1, Packed(Words(cs))) \in Small(250) /\ DecodeTyped(AssistModeColors, Bytes(1, Packed(Words(cs)))) = cs
    BY <2>1, <2>3, ColorsAreRead, Zenon
  <2>6. ShadeList(m) = [bytes |-> Bytes(1, Packed(Words(cs))), shows |-> cs]
    BY <2>3, <2>4, Zenon DEF ShadeList
  <2>7. ShadeList(m).bytes = Bytes(1, Packed(Words(cs))) /\ ShadeList(m).shows = cs
    BY <2>6
  <2>9. cs \in ShownShades
    BY <2>7 DEF ShownShades
  <2>8. SaysSo("colors", cs, h, Bytes(1, Packed(Words(cs))), r)
    BY <2>5, <2>9 DEF SaysSo
  <2> QED BY <2>5, <2>7, <2>8, Zenon DEF AnswerSays
<1>2. Answers("colors") = {ShadeList(m) : m \in Modes}
  BY DEF Answers
<1> QED BY <1>1, <1>2, Zenon

IssueFrame(t) == Bytes(2, Number(1, 2 * t)) \o Number(3, 2)

IssueBytes(t) == Concat3(Bytes(1, IssueFrame(t)), Bytes(2, IssueEcho(t)), Number(4, 1))

(* How long the parts are.                                                 *)
LEMMA IssueIsSmall ==
    ASSUME NEW t \in Numbers
    PROVE  /\ IssueFrame(t) \in Small(15) /\ IssueEcho(t) \in Small(21) /\ IssueBytes(t) \in Small(250)
           /\ IssueFrame(t) \in Small(100) /\ IssueEcho(t) \in Small(100)
           /\ Number(1, t) \in Small(100) /\ Number(1, 2 * t) \in Small(100)
<1>1. Number(1, t) \in Small(7) /\ Number(1, 2 * t) \in Small(7)
  BY IssueNumbers, Zenon DEF HoldsNumber
<1>2. PICK x \in Small(7) : x = Number(1, t)
  BY <1>1
<1>3. PICK y \in Small(7) : y = Number(1, 2 * t)
  BY <1>1
<1>4. Number(3, 2) \in Small(6) /\ Number(3, 1) \in Small(6) /\ Number(4, 1) \in Small(6) /\ Number(1, 5) \in Small(6)
  <2>1. PICK one \in 1..15 : one = 1
    OBVIOUS
  <2>2. PICK three \in 1..15 : three = 3
    OBVIOUS
  <2>3. PICK four \in 1..15 : four = 4
    OBVIOUS
  <2>4. 1 \in Sendable /\ 2 \in Sendable /\ 5 \in Sendable
    BY FewAreSendable
  <2> QED BY <2>1, <2>2, <2>3, <2>4, SmallFields, Zenon
<1>5. PICK p32 \in Small(6) : p32 = Number(3, 2)
  BY <1>4
<1>6. PICK p31 \in Small(6) : p31 = Number(3, 1)
  BY <1>4
<1>7. PICK p41 \in Small(6) : p41 = Number(4, 1)
  BY <1>4
<1>8. PICK p15 \in Small(6) : p15 = Number(1, 5)
  BY <1>4
<1>9. PICK one \in 1..15 : one = 1
  OBVIOUS
<1>10. PICK two \in 1..15 : two = 2
  OBVIOUS
<1>11. 7 \in Nat /\ 7 < 256 /\ 9 \in Nat /\ 6 \in Nat /\ 15 \in Nat /\ 21 \in Nat /\ 15 < 256 /\ 21 < 256 /\ 17 \in Nat
       /\ 23 \in Nat /\ 40 \in Nat /\ 46 \in 0..250 /\ 7 + 2 = 9 /\ 9 + 6 = 15 /\ 6 + 9 = 15 /\ 15 + 6 = 21
       /\ 15 + 2 = 17 /\ 21 + 2 = 23 /\ 17 + 23 = 40 /\ 40 + 6 = 46
  OBVIOUS
<1>12. PICK f2 \in Small(9) : f2 = Bytes(two, y)
  BY <1>11, SmallBytesOf, Zenon
<1>13. PICK e2 \in Small(9) : e2 = Bytes(two, x)
  BY <1>11, SmallBytesOf, Zenon
<1>14. PICK f \in Small(15) : f = f2 \o p32
  <2>1. f2 \o p32 \in Small(9 + 6)
    BY <1>11, SmallConcat
  <2> QED BY <1>11, <2>1
<1>15. PICK e \in Small(21) : e = p15 \o e2 \o p31
  <2>1. p15 \o e2 \in Small(6 + 9)
    BY <1>11, SmallConcat
  <2>2. PICK v \in Small(15) : v = p15 \o e2
    BY <1>11, <2>1
  <2>3. v \o p31 \in Small(15 + 6)
    BY <1>11, SmallConcat
  <2> QED BY <1>11, <2>2, <2>3
<1>16. PICK g1 \in Small(17) : g1 = Bytes(one, f)
  BY <1>11, SmallBytesOf, Zenon
<1>17. PICK g2 \in Small(23) : g2 = Bytes(two, e)
  BY <1>11, SmallBytesOf, Zenon
<1>18. g1 \o g2 \o p41 \in Small(46)
  <2>1. g1 \o g2 \in Small(17 + 23)
    BY <1>11, SmallConcat
  <2>2. PICK v \in Small(40) : v = g1 \o g2
    BY <1>11, <2>1
  <2>3. v \o p41 \in Small(40 + 6)
    BY <1>11, SmallConcat
  <2> QED BY <1>11, <2>2, <2>3
<1>19. f = IssueFrame(t) /\ e = IssueEcho(t)
  BY <1>2, <1>3, <1>5, <1>6, <1>8, <1>10, <1>12, <1>13, <1>14, <1>15, Zenon DEF IssueFrame, IssueEcho, Concat3
<1>20. g1 \o g2 \o p41 = IssueBytes(t)
  BY <1>7, <1>9, <1>10, <1>16, <1>17, <1>19, Zenon DEF IssueBytes, Concat3
<1>21. IssueBytes(t) \in Small(250)
  <2>1. 46 \in 0..250
    OBVIOUS
  <2> QED BY <2>1, <1>18, <1>20, SmallEnough, ZenonT(60)
<1>22. f \in Small(100) /\ e \in Small(100) /\ x \in Small(100) /\ y \in Small(100)
  <2>1. 7 \in Nat /\ 15 \in Nat /\ 21 \in Nat /\ 100 \in Nat /\ 7 <= 100 /\ 15 <= 100 /\ 21 <= 100
    OBVIOUS
  <2> QED BY <2>1, SmallGrows
<1> QED BY <1>2, <1>3, <1>19, <1>21, <1>22, Zenon

(* The issue, its echo and its numbers are read as they were meant.        *)
LEMMA IssueIsRead ==
    ASSUME NEW t \in Numbers
    PROVE  DecodeIssue(IssueBytes(t))
             = [returnValue |-> 0, entryCount |-> 1, issueId |-> t, timestamp |-> t, activationCount |-> 2]
<1>1. 1 \in Sendable /\ 2 \in Sendable /\ 5 \in Sendable
  BY FewAreSendable
<1>2. IsRead({1, 2}, IssueBytes(t), IssueFrame(t), IssueEcho(t), None, 1)
  <2>1. Slot(1, {1, 2}, IssueFrame(t), Bytes(1, IssueFrame(t))) /\ Slot(2, {1, 2}, IssueEcho(t), Bytes(2, IssueEcho(t)))
    <3>1. 1 \in {1, 2} /\ 2 \in {1, 2}
      OBVIOUS
    <3> QED BY <3>1, IssueIsSmall, FirstSlots, Zenon DEF TextSlots
  <2>2. Slot(4, {1, 2}, 1, Number(4, 1))
    <3>1. 4 \notin {1, 2}
      OBVIOUS
    <3> QED BY <1>1, <3>1, FirstSlots, Zenon DEF NumberSlots
  <2> QED BY <2>1, <2>2, AllButThird, Zenon DEF IssueBytes
<1>3. IsRead({2}, IssueFrame(t), None, Number(1, 2 * t), 2, None)
  <2>1. Slot(2, {2}, Number(1, 2 * t), Bytes(2, Number(1, 2 * t))) /\ Slot(3, {2}, 2, Number(3, 2))
    <3>1. 2 \in {2} /\ 3 \notin {2}
      OBVIOUS
    <3> QED BY <1>1, <3>1, IssueIsSmall, FirstSlots, Zenon DEF TextSlots, NumberSlots
  <2> QED BY <2>1, SecondAndThird, Zenon DEF IssueFrame
<1>4. IsRead({2}, IssueEcho(t), 5, Number(1, t), 1, None)
  <2>1. Slot(1, {2}, 5, Number(1, 5)) /\ Slot(2, {2}, Number(1, t), Bytes(2, Number(1, t))) /\ Slot(3, {2}, 1, Number(3, 1))
    <3>1. 2 \in {2} /\ 3 \notin {2} /\ 1 \notin {2}
      OBVIOUS
    <3> QED BY <1>1, <3>1, IssueIsSmall, FirstSlots, Zenon DEF TextSlots, NumberSlots
  <2> QED BY <2>1, FirstThree, Zenon DEF IssueEcho
<1>5. Knows({0, 2}, {1, 2}) /\ Knows({0, 2}, {2}) /\ TRUE \in BOOLEAN
  BY DEF Knows
<1>6. PICK xs : xs = Fields(IssueBytes(t), {0, 2}, TRUE) /\ HasFour(xs, IssueFrame(t), IssueEcho(t), None, 1)
  BY <1>2, <1>5, Zenon DEF IsRead
<1>7. /\ Value(xs, 1, <<>>) = IssueFrame(t) /\ Value(xs, 2, <<>>) = IssueEcho(t)
      /\ Value(xs, 3, 0) = 0 /\ Value(xs, 4, 0) = 1
  <2>1. /\ Value(xs, 1, <<>>) = Or(IssueFrame(t), <<>>) /\ Value(xs, 2, <<>>) = Or(IssueEcho(t), <<>>)
        /\ Value(xs, 3, 0) = Or(None, 0) /\ Value(xs, 4, 0) = Or(1, 0)
    BY <1>6, Zenon DEF HasFour
  <2>2. Or(IssueFrame(t), <<>>) = IssueFrame(t) /\ Or(IssueEcho(t), <<>>) = IssueEcho(t)
    BY IssueIsSmall, Given, ZenonT(60)
  <2>3. Or(None, 0) = 0 /\ Or(1, 0) = 1
    BY <1>1, Given, Zenon
  <2> QED BY <2>1, <2>2, <2>3, Zenon
<1>8. PICK frame : frame = Fields(IssueFrame(t), {0, 2}, TRUE) /\ HasFour(frame, None, Number(1, 2 * t), 2, None)
  BY <1>3, <1>5, Zenon DEF IsRead
<1>9. Value(frame, 2, <<>>) = Number(1, 2 * t) /\ Value(frame, 3, None) = 2
  <2>1. Value(frame, 2, <<>>) = Or(Number(1, 2 * t), <<>>) /\ Value(frame, 3, None) = Or(2, None)
    BY <1>8, Zenon DEF HasFour
  <2>2. Or(Number(1, 2 * t), <<>>) = Number(1, 2 * t)
    BY IssueIsSmall, Given, ZenonT(60)
  <2>3. Or(2, None) = 2
    BY <1>1, Given, Zenon
  <2> QED BY <2>1, <2>2, <2>3, Zenon
<1>10. PICK echo : echo = Fields(IssueEcho(t), {0, 2}, TRUE) /\ HasFour(echo, 5, Number(1, t), 1, None)
  BY <1>4, <1>5, Zenon DEF IsRead
<1>11. Value(echo, 2, <<>>) = Number(1, t)
  BY <1>10, IssueIsSmall, Given, ZenonT(60) DEF HasFour
<1>12. DecodeIssue(IssueBytes(t)) = IssueIn(xs, frame, echo)
  BY <1>6, <1>7, <1>8, <1>10, Zenon DEF DecodeIssue
<1>13. 2 * t # None
  <2>1. t \in Nat
    BY IssueNumbers, Zenon
  <2> QED BY <2>1, NoneAssumption
<1>14. IssueIn(xs, frame, echo)
         = [returnValue |-> 0, entryCount |-> 1, issueId |-> t, timestamp |-> t, activationCount |-> 2]
  BY <1>7, <1>9, <1>11, <1>13, IssueNumbers, Zenon DEF IssueIn, HoldsNumber
<1> QED BY <1>12, <1>14, Zenon

-----------------------------------------------------------------------------
(***************************************************************************)
(* The values of the rows, kind by kind.                                   *)
(***************************************************************************)
(***************************************************************************)
(* The values of the rows: what decodeTyped makes of what the bike sends.  *)
(***************************************************************************)
ComesBack(shape, v) == DecodeTyped(shape, Encoded(shape, v)) = Meant(shape, v)

\* A number in field 1, which is left out at 0.
OneNumber(shape, n, value) ==
    /\ n = 0 => DefaultOf(shape) = value
    /\ n # 0 => \A p, xs : (\A d : Value(xs, 1, d) = n) => ValueIn(shape, p, xs) = value

(* A flag is 1, or left out.                                               *)
LEMMA BitTells == \A flag \in BOOLEAN : Bit(flag) \in {0, 1} /\ (Bit(flag) # 0) = flag
<1>1. Bit(TRUE) = 1 /\ Bit(FALSE) = 0
  BY DEF Bit
<1>2. (1 # 0) = TRUE /\ (0 # 0) = FALSE
  OBVIOUS
<1> QED BY <1>1, <1>2

(* What is made of one number.                                             *)
LEMMA NumberIsDecoded ==
    ASSUME NEW shape, NEW n \in Sendable, NEW value, OneNumber(shape, n, value)
    PROVE  DecodeTyped(shape, Implicit(1, n)) = value
<1>1. PICK p : p = Implicit(1, n)
  OBVIOUS
<1>2. (\A d : Value(ParseFields(p), 1, d) = IF n = 0 THEN d ELSE n) /\ (p = <<>> <=> n = 0)
  BY <1>1, OneNumberIsRead, Zenon
<1>3. CASE n = 0
  BY <1>1, <1>2, <1>3, Zenon DEF DecodeTyped, OneNumber
<1>4. CASE n # 0
  <2>1. \A d : Value(ParseFields(p), 1, d) = n
    BY <1>2, <1>4, Zenon
  <2>2. ValueIn(shape, p, ParseFields(p)) = value
    BY <1>4, <2>1, Zenon DEF OneNumber
  <2> QED BY <1>1, <1>2, <1>4, <2>2, Zenon DEF DecodeTyped
<1> QED BY <1>3, <1>4

(* Plain numbers.                                                          *)
LEMMA PlainComesBack ==
    ASSUME NEW shape, shape.kind \in {"uint", "enum"}, NEW v \in Meanings(shape)
    PROVE  ComesBack(shape, v)
<1>1. v \in Sendable
  BY NumbersAreSendable DEF Meanings
<1>2. Encoded(shape, v) = Implicit(1, v) /\ Meant(shape, v) = v
  BY DEF Encoded, Meant
<1>3. DefaultOf(shape) = 0
  BY DEF DefaultOf
<1>4. \A p, xs : ValueIn(shape, p, xs) = Value(xs, 1, None)
  BY DEF ValueIn
<1>5. OneNumber(shape, v, v)
  BY <1>3, <1>4, Zenon DEF OneNumber
<1> QED BY <1>1, <1>2, <1>5, NumberIsDecoded, Zenon DEF ComesBack

(* Flags.                                                                  *)
LEMMA BoolComesBack ==
    ASSUME NEW shape, shape.kind = "bool", NEW v \in Meanings(shape)
    PROVE  ComesBack(shape, v)
<1>1. v \in BOOLEAN
  BY DEF Meanings
<1>2. Encoded(shape, v) = Implicit(1, Bit(v)) /\ Meant(shape, v) = v
  BY DEF Encoded, Meant
<1>3. DefaultOf(shape) = FALSE
  BY DEF DefaultOf
<1>4. \A p, xs : ValueIn(shape, p, xs) = (Value(xs, 1, 0) # 0)
  BY DEF ValueIn
<1>5. Bit(v) \in {0, 1} /\ (Bit(v) # 0) = v /\ Bit(v) \in Sendable
  BY <1>1, BitTells, BitIs
<1>6. OneNumber(shape, Bit(v), v)
  <2>1. CASE v = TRUE
    <3>1. Bit(v) # 0
      BY <1>5, <2>1
    <3>2. \A p, xs : (\A d : Value(xs, 1, d) = Bit(v)) => ValueIn(shape, p, xs) = TRUE
      BY <1>4, <3>1, Zenon
    <3> QED BY <2>1, <3>1, <3>2, Zenon DEF OneNumber
  <2>2. CASE v = FALSE
    <3>1. Bit(v) = 0
      BY <1>5, <2>2
    <3> QED BY <1>3, <2>2, <3>1, Zenon DEF OneNumber
  <2> QED BY <1>1, <2>1, <2>2
<1> QED BY <1>2, <1>5, <1>6, NumberIsDecoded, Zenon DEF ComesBack

(* Numbers that are divided by a factor.                                   *)
LEMMA NormComesBack ==
    ASSUME NEW shape, shape.kind = "normFactor", NEW v \in Meanings(shape)
    PROVE  ComesBack(shape, v)
<1>1. v \in Sendable
  BY NumbersAreSendable DEF Meanings
<1>2. Encoded(shape, v) = Implicit(1, v) /\ Meant(shape, v) = IF v = 0 THEN None ELSE <<v, shape.factor>>
  BY DEF Encoded, Meant, OrEmpty
<1>3. DefaultOf(shape) = None
  BY DEF DefaultOf
<1>4. \A p, xs : ValueIn(shape, p, xs) = <<Value(xs, 1, 0), shape.factor>>
  BY DEF ValueIn
<1>5. OneNumber(shape, v, Meant(shape, v))
  BY <1>2, <1>3, <1>4, Zenon DEF OneNumber
<1> QED BY <1>1, <1>2, <1>5, NumberIsDecoded, Zenon DEF ComesBack

(* Numbers with a sign, as they are written and read.                      *)
LEMMA SignedIsRead ==
    /\ \A v \in {-2, 0, 90} : Zigzag(v) \in Sendable /\ ZigzagSigned(Zigzag(v)) = v /\ (Zigzag(v) = 0 <=> v = 0)
    /\ \A v \in Instants : Zigzag(v) \in Sendable /\ ZigzagSigned(Zigzag(v)) = v /\ (Zigzag(v) = 0 <=> v = 0)
<1>1. ASSUME NEW v \in Int
      PROVE  ZigzagSigned(Zigzag(v)) = v /\ (Zigzag(v) = 0 <=> v = 0)
  <2>1. CASE v >= 0
    <3>1. PICK n \in Nat : n = 2 * v
      BY <2>1
    <3>2. n % 2 = 0 /\ n \div 2 = v
      BY <2>1, <3>1
    <3>3. Zigzag(v) = n
      BY <2>1, <3>1 DEF Zigzag
    <3>4. ZigzagSigned(n) = v
      BY <3>2 DEF ZigzagSigned
    <3> QED BY <3>1, <3>3, <3>4
  <2>2. CASE ~(v >= 0)
    <3>1. PICK n \in Nat : n = -2 * v - 1
      BY <2>2
    <3>2. n % 2 = 1 /\ n \div 2 = -v - 1
      BY <2>2, <3>1
    <3>3. Zigzag(v) = n
      BY <2>2, <3>1 DEF Zigzag
    <3>4. ZigzagSigned(n) = -(-v - 1) - 1
      BY <3>2 DEF ZigzagSigned
    <3>5. -(-v - 1) - 1 = v /\ n # 0 /\ v # 0
      BY <2>2, <3>1
    <3> QED BY <3>3, <3>4, <3>5
  <2> QED BY <2>1, <2>2
<1>2. \A v \in {-2, 0, 90} : v \in Int
  OBVIOUS
<1>3. \A v \in Instants : v \in Int
  BY NumbersAreSendable
<1> QED BY <1>1, <1>2, <1>3, NumbersAreSendable

(* Numbers with a sign.                                                    *)
LEMMA SignedComesBack ==
    ASSUME NEW shape, shape.kind = "signedFactor", NEW v \in Meanings(shape)
    PROVE  ComesBack(shape, v)
<1>1. v \in {-2, 0, 90}
  BY DEF Meanings
<1>2. Encoded(shape, v) = Implicit(1, Zigzag(v)) /\ Meant(shape, v) = IF v = 0 THEN None ELSE <<v, shape.factor>>
  BY DEF Encoded, Meant, OrEmpty
<1>3. DefaultOf(shape) = None
  BY DEF DefaultOf
<1>4. \A p, xs : ValueIn(shape, p, xs) = <<ZigzagSigned(Value(xs, 1, 0)), shape.factor>>
  BY DEF ValueIn
<1>5. Zigzag(v) \in Sendable /\ ZigzagSigned(Zigzag(v)) = v /\ (Zigzag(v) = 0 <=> v = 0)
  BY <1>1, SignedIsRead, Zenon
<1>6. OneNumber(shape, Zigzag(v), Meant(shape, v))
  BY <1>2, <1>3, <1>4, <1>5, Zenon DEF OneNumber
<1> QED BY <1>2, <1>5, <1>6, NumberIsDecoded, Zenon DEF ComesBack

(* Instants.                                                               *)
LEMMA InstantComesBack ==
    ASSUME NEW shape, shape.kind = "unixTimestamp", NEW v \in Meanings(shape)
    PROVE  ComesBack(shape, v)
<1>1. v \in Instants
  BY DEF Meanings
<1>2. Encoded(shape, v) = Implicit(1, Zigzag(v)) /\ Meant(shape, v) = v
  BY DEF Encoded, Meant
<1>3. DefaultOf(shape) = 0
  BY DEF DefaultOf
<1>4. \A p, xs : ValueIn(shape, p, xs) = ZigzagSigned(Value(xs, 1, 0))
  BY DEF ValueIn
<1>5. Zigzag(v) \in Sendable /\ ZigzagSigned(Zigzag(v)) = v /\ (Zigzag(v) = 0 <=> v = 0)
  BY <1>1, SignedIsRead, Zenon
<1>6. OneNumber(shape, Zigzag(v), v)
  BY <1>3, <1>4, <1>5, Zenon DEF OneNumber
<1> QED BY <1>2, <1>5, <1>6, NumberIsDecoded, Zenon DEF ComesBack

\* A text in field 1, which is left out where it is empty.
OneText(shape, s, value) ==
    /\ s = <<>> => DefaultOf(shape) = value
    /\ s # <<>> => \A p, xs : (\A d : Value(xs, 1, d) = s) => ValueIn(shape, p, xs) = value

(* What is made of one text.                                               *)
LEMMA TextIsDecoded ==
    ASSUME NEW shape, NEW s \in Small(100), NEW value, OneText(shape, s, value)
    PROVE  DecodeTyped(shape, Present(1, s)) = value
<1>1. CASE s = <<>>
  BY <1>1, Zenon DEF DecodeTyped, OneText, Present
<1>2. CASE s # <<>>
  <2>1. PICK p : p = Bytes(1, s)
    OBVIOUS
  <2>2. p # <<>> /\ \A d : Value(ParseFields(p), 1, d) = s
    BY <2>1, OneTextIsRead, Zenon
  <2>3. ValueIn(shape, p, ParseFields(p)) = value
    BY <1>2, <2>2, Zenon DEF OneText
  <2> QED BY <1>2, <2>1, <2>2, <2>3, Zenon DEF DecodeTyped, Present
<1> QED BY <1>1, <1>2

(* Texts.                                                                  *)
LEMMA StringComesBack ==
    ASSUME NEW shape, shape.kind = "string", NEW v \in Meanings(shape)
    PROVE  ComesBack(shape, v)
<1>1. v \in {<<>>, <<69, 67>>}
  BY DEF Meanings
<1>2. v \in Small(100)
  <2>1. v \in Small(2)
    BY <1>1, TextsAreSmall, Zenon
  <2>2. 2 \in Nat /\ 100 \in Nat /\ 2 <= 100
    OBVIOUS
  <2> QED BY <2>1, <2>2, SmallGrows
<1>3. Encoded(shape, v) = Present(1, v) /\ Meant(shape, v) = IF v = <<>> THEN None ELSE v
  BY DEF Encoded, Meant, OrEmpty
<1>4. DefaultOf(shape) = None
  BY DEF DefaultOf
<1>5. \A p, xs : ValueIn(shape, p, xs) = Value(xs, 1, None)
  BY DEF ValueIn
<1>6. OneText(shape, v, Meant(shape, v))
  BY <1>3, <1>4, <1>5, Zenon DEF OneText
<1> QED BY <1>2, <1>3, <1>6, TextIsDecoded, Zenon DEF ComesBack

(* What is not known is taken for a text, or as it is.                     *)
LEMMA UnknownComesBack ==
    ASSUME NEW shape, shape.kind = "unknown", NEW v \in Meanings(shape)
    PROVE  DecodeValue(Encoded(shape, v)) = Meant(shape, v)
<1>1. v \in {<<>>, <<69, 67>>}
  BY DEF Meanings
<1>2. Encoded(shape, v) = Present(1, v) /\ Meant(shape, v) = IF v = <<>> THEN None ELSE v
  BY DEF Encoded, Meant, OrEmpty
<1>3. CASE v = <<>>
  BY <1>2, <1>3, Zenon DEF DecodeValue, Present
<1>4. CASE v # <<>>
  <2>1. v \in Small(2) /\ Len(v) = 2
    <3>1. v \in Small(2)
      BY <1>1, TextsAreSmall, Zenon
    <3>2. v = <<69, 67>>
      BY <1>1, <1>4
    <3>3. Len(<<69, 67>>) = 2
      OBVIOUS
    <3> QED BY <3>1, <3>2, <3>3
  <2>2. v \in Small(100)
    BY <2>1, SmallGrows
  <2>3. PICK one \in 1..15 : one = 1
    OBVIOUS
  <2>4. Headers(Bytes(one, v), 8 * one + 2, v)
    BY <2>2, BytesHead
  <2>5. PICK p : p = Bytes(1, v)
    OBVIOUS
  <2>6. Headers(p, 10, v)
    BY <2>3, <2>4, <2>5
  <2>7. p # <<>> /\ p[1] = 10 /\ p[2] = Len(v) /\ Len(p) = Len(v) + 2 /\ Slice(p, 3, Len(v)) = v
    BY <2>6, Zenon DEF Headers
  <2>8. Len(p) >= 2
    BY <2>1, <2>7
  <2>9. DecodeValue(p) = v
    BY <2>7, <2>8, Zenon DEF DecodeValue
  <2> QED BY <1>2, <1>4, <2>5, <2>9, Zenon DEF Present
<1> QED BY <1>3, <1>4

(* The sixteen bytes of an identifier.                                     *)
LEMMA UuidIs ==
    \E v \in Small(16) : v = [k \in 1..16 |-> 16 * k - 1] /\ Len(v) = 16 /\ v # <<>>
<1>1. \A k \in 1..16 : 16 * k - 1 \in Byte
  BY DEF Byte
<1>2. [k \in 1..16 |-> 16 * k - 1] \in Seq(Byte) /\ Len([k \in 1..16 |-> 16 * k - 1]) = 16
  BY <1>1
<1>3. PICK v \in Seq(Byte) : v = [k \in 1..16 |-> 16 * k - 1] /\ Len(v) = 16
  BY <1>2
<1>4. v \in Small(16)
  BY <1>3 DEF Small
<1>5. v # <<>>
  <2>1. Len(<<>>) = 0
    OBVIOUS
  <2> QED BY <1>3, <2>1
<1> QED BY <1>3, <1>4, <1>5

(* Identifiers.                                                            *)
LEMMA UuidComesBack ==
    ASSUME NEW shape, shape.kind = "uuid", NEW v \in Meanings(shape)
    PROVE  ComesBack(shape, v)
<1>1. v \in {<<>>, [k \in 1..16 |-> 16 * k - 1]}
  BY DEF Meanings
<1>2. v \in Small(16) /\ (v # <<>> => Len(v) = 16)
  BY <1>1, UuidIs, TextsAreSmall, Zenon
<1>3. Encoded(shape, v) = Present(1, Present(1, v)) /\ Meant(shape, v) = IF v = <<>> THEN None ELSE v
  BY DEF Encoded, Meant, OrEmpty
<1>4. DefaultOf(shape) = None
  BY DEF DefaultOf
<1>5. \A p, xs : ValueIn(shape, p, xs) = UuidIn(Value(ParseFields(Value(xs, 1, <<>>)), 1, <<>>))
  BY DEF ValueIn
<1>6. Present(1, v) \in Small(100) /\ v \in Small(100)
  <2>1. 16 \in 0..100 /\ 1 \in 1..15 /\ 16 + 2 = 18 /\ 18 \in Nat /\ 16 \in Nat /\ 100 \in Nat /\ 18 <= 100 /\ 16 <= 100
    OBVIOUS
  <2>2. Present(1, v) \in Small(18)
    <3>1. Present(1, v) \in Small(16 + 2)
      BY <1>2, <2>1, SmallPresent, ZenonT(60)
    <3> QED BY <2>1, <3>1
  <2>3. Small(18) \subseteq Small(100) /\ Small(16) \subseteq Small(100)
    BY <2>1, SmallGrows
  <2> QED BY <1>2, <2>2, <2>3
<1>7. OneText(shape, Present(1, v), Meant(shape, v))
  <2>1. CASE v = <<>>
    <3>1. Present(1, v) = <<>>
      BY <2>1, Zenon DEF Present
    <3> QED BY <1>3, <1>4, <2>1, <3>1, Zenon DEF OneText
  <2>2. CASE v # <<>>
    <3>1. PICK s : s = Present(1, v) /\ s = Bytes(1, v)
      BY <2>2 DEF Present
    <3>2. s # <<>> /\ Value(ParseFields(s), 1, <<>>) = v
      BY <1>6, <3>1, OneTextIsRead, Zenon
    <3>3. UuidIn(v) = v
      BY <1>2, <2>2, Zenon DEF UuidIn
    <3>4. \A p, xs : (\A d : Value(xs, 1, d) = s) => ValueIn(shape, p, xs) = v
      BY <1>5, <3>2, <3>3, Zenon
    <3> QED BY <1>3, <2>2, <3>1, <3>2, <3>4, Zenon DEF OneText
  <2> QED BY <2>1, <2>2
<1> QED BY <1>3, <1>6, <1>7, TextIsDecoded, Zenon DEF ComesBack

(* Runs of numbers: no numbers, no bytes; and few numbers, few bytes.      *)
LEMMA FewPacked ==
    ASSUME NEW ns \in Seq(Sendable), Len(ns) <= 3
    PROVE  /\ Packed(ns) \in Small(100) /\ VarintsIn(Packed(ns)) = ns
           /\ Packed(ns) = <<>> <=> ns = <<>>
<1>1. PICK n \in 0..8 : n = Len(ns) /\ n <= 3
  <2>1. Len(ns) \in Nat
    BY LenProperties, Zenon
  <2>2. PICK m \in Nat : m = Len(ns)
    BY <2>1
  <2>3. m <= 3
    BY <2>2
  <2>4. m \in 0..8
    BY <2>3
  <2> QED BY <2>2, <2>3, <2>4
<1>2. DOMAIN ns = 1..n /\ \A k \in 1..n : ns[k] \in Sendable
  BY <1>1
<1>3. Packed(ns) \in Small(n * 5)
  BY <1>2, PackedIsSmall, Zenon
<1>4. PICK p : p = Packed(ns)
  OBVIOUS
<1>5. p \in Small(100)
  <2>1. n * 5 \in Nat /\ 100 \in Nat /\ n * 5 <= 100
    OBVIOUS
  <2> QED BY <1>3, <1>4, <2>1, SmallGrows, Zenon
<1>6. VarintsIn(p) = ns
  BY <1>4, RunIsRead
<1>7. ASSUME ns = <<>>
      PROVE  p = <<>>
  <2>1. n = 0 /\ n * 5 = 0
    BY <1>1, <1>7
  <2>2. p \in Seq(Byte) /\ Len(p) <= 0
    BY <1>3, <1>4, <2>1 DEF Small
  <2> QED BY <2>2
<1>8. ASSUME p = <<>>
      PROVE  ns = <<>>
  <2>1. PICK none \in Seq(Sendable) : none = <<>> /\ DOMAIN none = 1..0
    <3>1. \A S : <<>> \in Seq(S)
      OBVIOUS
    <3>2. DOMAIN <<>> = 1..0
      OBVIOUS
    <3> QED BY <3>1, <3>2, Zenon
  <2>2. Packed(none) \in Small(0)
    <3>1. 0 \in 0..8 /\ 0 * 5 = 0 /\ \A k \in 1..0 : none[k] \in Sendable
      OBVIOUS
    <3>2. Packed(none) \in Small(0 * 5)
      BY <2>1, <3>1, PackedIsSmall, Zenon
    <3> QED BY <3>1, <3>2
  <2>3. Packed(none) \in Seq(Byte) /\ Len(Packed(none)) <= 0
    BY <2>2 DEF Small
  <2>4. Packed(none) = <<>>
    BY <2>3
  <2>5. VarintsIn(Packed(none)) = none
    BY RunIsRead
  <2> QED BY <1>6, <1>8, <2>1, <2>4, <2>5
<1> QED BY <1>4, <1>5, <1>6, <1>7, <1>8

(* Lists of numbers.                                                       *)
LEMMA ListComesBack ==
    ASSUME NEW shape, shape.kind = "uint32List", NEW v \in Meanings(shape)
    PROVE  ComesBack(shape, v)
<1>1. v \in {<<>>} \cup {<<n, 0>> : n \in Numbers}
  BY DEF Meanings
<1>2. PICK ns \in Seq(Sendable) : ns = v /\ Len(ns) <= 3
  <2>1. 0 \in Sendable /\ \A n \in Numbers : n \in Sendable
    BY NumbersAreSendable, FewAreSendable
  <2>2. \A n \in Numbers : <<n, 0>> \in Seq(Sendable) /\ Len(<<n, 0>>) <= 3
    BY <2>1
  <2>3. <<>> \in Seq(Sendable) /\ Len(<<>>) <= 3
    OBVIOUS
  <2> QED BY <1>1, <2>2, <2>3
<1>3. Encoded(shape, v) = Present(1, Packed(v)) /\ Meant(shape, v) = v
  BY DEF Encoded, Meant
<1>4. DefaultOf(shape) = <<>>
  BY DEF DefaultOf
<1>5. \A p, xs : ValueIn(shape, p, xs) = VarintsIn(Value(xs, 1, <<>>))
  BY DEF ValueIn
<1>6. Packed(v) \in Small(100) /\ VarintsIn(Packed(v)) = v /\ (Packed(v) = <<>> <=> v = <<>>)
  BY <1>2, FewPacked, Zenon
<1>7. OneText(shape, Packed(v), v)
  BY <1>4, <1>5, <1>6, Zenon DEF OneText
<1> QED BY <1>3, <1>6, <1>7, TextIsDecoded, Zenon DEF ComesBack

(* Colors.                                                                 *)
LEMMA ColorListComesBack ==
    ASSUME NEW shape, shape.kind = "assistModeColors", NEW v \in Meanings(shape)
    PROVE  ComesBack(shape, v)
<1>1. v \in {<<>>, <<[r |-> 0, g |-> 0, b |-> 0, a |-> 0]>>} \cup {<<q>> : q \in Quarters}
  BY DEF Meanings
<1>2. PICK cs \in Seq(Shades) : cs = v /\ Len(cs) \in 0..1
  <2>1. [r |-> 0, g |-> 0, b |-> 0, a |-> 0] \in Shades /\ \A q \in Quarters : q \in Shades
    BY DEF Shades, Quarters
  <2>2. \A q \in Shades : <<q>> \in Seq(Shades) /\ Len(<<q>>) \in 0..1
    OBVIOUS
  <2>3. <<>> \in Seq(Shades) /\ Len(<<>>) \in 0..1
    OBVIOUS
  <2> QED BY <1>1, <2>1, <2>2, <2>3
<1>3. Encoded(shape, v) = Present(1, Packed(Words(cs))) /\ Meant(shape, v) = v
  BY <1>2 DEF Encoded, Meant, Words
<1>4. DefaultOf(shape) = <<>>
  BY DEF DefaultOf
<1>5. \A p, xs : ValueIn(shape, p, xs) = Colors(Value(xs, 1, p))
  BY DEF ValueIn
<1>6. PICK ws \in Seq(Sendable) : ws = Words(cs) /\ Len(ws) = Len(cs) /\ \A k \in 1..Len(cs) : ws[k] = ColorWord(cs[k])
  <2>1. DOMAIN cs = 1..Len(cs) /\ \A k \in 1..Len(cs) : cs[k] \in Shades
    OBVIOUS
  <2>2. \A k \in 1..Len(cs) : ColorWord(cs[k]) \in Sendable
    BY <2>1, ColorComesBack, Zenon
  <2>3. Words(cs) \in Seq(Sendable) /\ Len(Words(cs)) = Len(cs) /\ \A k \in 1..Len(cs) : Words(cs)[k] = ColorWord(cs[k])
    BY <2>1, <2>2 DEF Words
  <2> QED BY <2>3
<1>7. Packed(ws) \in Small(100) /\ VarintsIn(Packed(ws)) = ws /\ (Packed(ws) = <<>> <=> ws = <<>>)
  <2>1. Len(ws) <= 3
    BY <1>2, <1>6
  <2> QED BY <2>1, FewPacked, Zenon
<1>8. Colors(Packed(ws)) = cs
  <2>1. Colors(Packed(ws)) = [k \in DOMAIN ws |-> Color(ws[k])]
    BY <1>7, Zenon DEF Colors
  <2>2. DOMAIN cs = 1..Len(cs) /\ DOMAIN ws = 1..Len(cs) /\ \A k \in 1..Len(cs) : cs[k] \in Shades
    BY <1>6
  <2>3. \A k \in 1..Len(cs) : Color(ws[k]) = cs[k]
    BY <1>6, <2>2, ColorComesBack, Zenon
  <2>4. [k \in DOMAIN ws |-> Color(ws[k])] = [k \in 1..Len(cs) |-> cs[k]]
    BY <2>2, <2>3, Zenon
  <2>5. [k \in 1..Len(cs) |-> cs[k]] = cs
    OBVIOUS
  <2> QED BY <2>1, <2>4, <2>5, Zenon
<1>9. ws = <<>> <=> cs = <<>>
  BY <1>6
<1>10. OneText(shape, Packed(ws), cs)
  BY <1>4, <1>5, <1>7, <1>8, <1>9, Zenon DEF OneText
<1>11. DecodeTyped(shape, Present(1, Packed(ws))) = cs
  BY <1>7, <1>10, TextIsDecoded, Zenon
<1> QED BY <1>2, <1>3, <1>6, <1>11, Zenon DEF ComesBack

(* What a field that is left out at 0, or where it is empty, is read as.   *)
LEMMA DefaultsAreRead ==
    /\ \A n \in Sendable : Or(OrNone(n), 0) = n
    /\ \A s \in Small(100) : Or(SomeText(s), <<>>) = s
    /\ Or(None, 0) = 0 /\ Or(None, <<>>) = <<>>
<1>1. PICK one \in 1..15 : one \notin {}
  OBVIOUS
<1>2. \A n \in Sendable : \A e : Or(OrNone(n), e) = (IF n = 0 THEN e ELSE n)
  BY <1>1, NumberParts, Zenon
<1>3. \A n \in Sendable : Or(OrNone(n), 0) = n
  BY <1>2, Zenon
<1>4. one \in 1..15
  OBVIOUS
<1>5. \A s \in Small(100) : \A e : Or(SomeText(s), e) = (IF s = <<>> THEN e ELSE s)
  BY <1>4, TextParts, Zenon
<1>6. \A s \in Small(100) : Or(SomeText(s), <<>>) = s
  BY <1>5, Zenon
<1>7. Or(None, 0) = 0 /\ Or(None, <<>>) = <<>>
  BY DEF Or
<1> QED BY <1>3, <1>6, <1>7

(* An empty message has no fields.                                         *)
LEMMA NothingIsRead == HasFour(ParseFields(<<>>), None, None, None, None)
<1>1. Slot(1, {}, None, <<>>)
  BY FirstSlots
<1>2. IsRead({}, <<>>, None, None, None, None)
  BY <1>1, OnlyFirst, Zenon
<1> QED BY <1>2, Zenon DEF IsRead

\* Two fields of a message, of which what is left out is at its default.
HasTwo(xs, k, l, m, d, n, e) == Value(xs, k, d) = m /\ Value(xs, l, e) = n

(* Two numbers.                                                            *)
LEMMA TwoNumbersAreRead ==
    ASSUME NEW m \in Sendable, NEW n \in Sendable
    PROVE  \E p : /\ p = Implicit(1, m) \o Implicit(2, n)
                  /\ HasTwo(ParseFields(p), 1, 2, m, 0, n, 0)
                  /\ p = <<>> => m = 0 /\ n = 0
<1>1. NumberSlots(1, {}) /\ NumberSlots(2, {})
  <2>1. PICK B : B = {}
    OBVIOUS
  <2>2. 1 \notin B /\ 2 \notin B
    BY <2>1
  <2>3. NumberSlots(1, B) /\ NumberSlots(2, B)
    BY <2>2, FirstSlots, Zenon
  <2> QED BY <2>1, <2>3, Zenon
<1>2. Slot(1, {}, OrNone(m), Implicit(1, m)) /\ Slot(2, {}, OrNone(n), Implicit(2, n))
  BY <1>1, Zenon DEF NumberSlots
<1>3. PICK p : p = Implicit(1, m) \o Implicit(2, n) /\ IsRead({}, p, OrNone(m), OrNone(n), None, None)
  BY <1>2, FirstAndSecond, Zenon
<1>4. HasFour(ParseFields(p), OrNone(m), OrNone(n), None, None)
  BY <1>3, Zenon DEF IsRead
<1>5. Value(ParseFields(p), 1, 0) = Or(OrNone(m), 0) /\ Value(ParseFields(p), 2, 0) = Or(OrNone(n), 0)
  BY <1>4, Zenon DEF HasFour
<1>6. HasTwo(ParseFields(p), 1, 2, m, 0, n, 0)
  BY <1>5, DefaultsAreRead, Zenon DEF HasTwo
<1>7. ASSUME p = <<>>
      PROVE  m = 0 /\ n = 0
  <2>1. Value(ParseFields(p), 1, 0) = Or(None, 0) /\ Value(ParseFields(p), 2, 0) = Or(None, 0)
    BY <1>7, NothingIsRead, Zenon DEF HasFour
  <2> QED BY <1>6, <2>1, DefaultsAreRead, Zenon DEF HasTwo
<1> QED BY <1>3, <1>6, <1>7, Zenon

(* A text and a number.                                                    *)
LEMMA TextAndNumberAreRead ==
    ASSUME NEW s \in Small(100), NEW n \in Sendable
    PROVE  \E p : /\ p = Present(1, s) \o Implicit(2, n)
                  /\ HasTwo(ParseFields(p), 1, 2, s, <<>>, n, 0)
                  /\ p = <<>> => s = <<>> /\ n = 0
<1>1. TextSlots(1, {1}) /\ NumberSlots(2, {1})
  <2>1. 1 \in {1} /\ 2 \notin {1}
    OBVIOUS
  <2> QED BY <2>1, FirstSlots, Zenon
<1>2. Slot(1, {1}, SomeText(s), Present(1, s)) /\ Slot(2, {1}, OrNone(n), Implicit(2, n))
  BY <1>1, Zenon DEF NumberSlots, TextSlots
<1>3. PICK p : p = Present(1, s) \o Implicit(2, n) /\ IsRead({1}, p, SomeText(s), OrNone(n), None, None)
  BY <1>2, FirstAndSecond, Zenon
<1>4. HasFour(ParseFields(p), SomeText(s), OrNone(n), None, None)
  BY <1>3, Zenon DEF IsRead
<1>5. Value(ParseFields(p), 1, <<>>) = Or(SomeText(s), <<>>) /\ Value(ParseFields(p), 2, 0) = Or(OrNone(n), 0)
  BY <1>4, Zenon DEF HasFour
<1>6. HasTwo(ParseFields(p), 1, 2, s, <<>>, n, 0)
  BY <1>5, DefaultsAreRead, Zenon DEF HasTwo
<1>7. ASSUME p = <<>>
      PROVE  s = <<>> /\ n = 0
  <2>1. Value(ParseFields(p), 1, <<>>) = Or(None, <<>>) /\ Value(ParseFields(p), 2, 0) = Or(None, 0)
    BY <1>7, NothingIsRead, Zenon DEF HasFour
  <2> QED BY <1>6, <2>1, DefaultsAreRead, Zenon DEF HasTwo
<1> QED BY <1>3, <1>6, <1>7, Zenon

(* A number, and a text in the third field.                                *)
LEMMA NumberAndTextAreRead ==
    ASSUME NEW m \in Sendable, NEW s \in Small(100)
    PROVE  \E p : /\ p = Implicit(1, m) \o Present(3, s)
                  /\ HasTwo(ParseFields(p), 1, 3, m, 0, s, <<>>)
                  /\ p = <<>> => m = 0 /\ s = <<>>
<1>1. NumberSlots(1, {3}) /\ TextSlots(3, {3})
  <2>1. 1 \notin {3} /\ 3 \in {3}
    OBVIOUS
  <2> QED BY <2>1, FirstSlots, Zenon
<1>2. Slot(1, {3}, OrNone(m), Implicit(1, m)) /\ Slot(3, {3}, SomeText(s), Present(3, s))
  BY <1>1, Zenon DEF NumberSlots, TextSlots
<1>3. PICK p : p = Implicit(1, m) \o Present(3, s) /\ IsRead({3}, p, OrNone(m), None, SomeText(s), None)
  BY <1>2, FirstAndThird, Zenon
<1>4. HasFour(ParseFields(p), OrNone(m), None, SomeText(s), None)
  BY <1>3, Zenon DEF IsRead
<1>5. Value(ParseFields(p), 1, 0) = Or(OrNone(m), 0) /\ Value(ParseFields(p), 3, <<>>) = Or(SomeText(s), <<>>)
  BY <1>4, Zenon DEF HasFour
<1>6. HasTwo(ParseFields(p), 1, 3, m, 0, s, <<>>)
  BY <1>5, DefaultsAreRead, Zenon DEF HasTwo
<1>7. ASSUME p = <<>>
      PROVE  m = 0 /\ s = <<>>
  <2>1. Value(ParseFields(p), 1, 0) = Or(None, 0) /\ Value(ParseFields(p), 3, <<>>) = Or(None, <<>>)
    BY <1>7, NothingIsRead, Zenon DEF HasFour
  <2> QED BY <1>6, <2>1, DefaultsAreRead, Zenon DEF HasTwo
<1> QED BY <1>3, <1>6, <1>7, Zenon

\* What is made of two fields.
OfTwo(shape, k, l, m, d, n, e, value) ==
    /\ m = d /\ n = e => DefaultOf(shape) = value
    /\ \A p, xs : HasTwo(xs, k, l, m, d, n, e) => ValueIn(shape, p, xs) = value

(* Two fields, whether or not something is sent.                           *)
LEMMA TwoAreDecoded ==
    ASSUME NEW shape, NEW p, NEW k, NEW l, NEW m, NEW d, NEW n, NEW e, NEW value,
           HasTwo(ParseFields(p), k, l, m, d, n, e), p = <<>> => m = d /\ n = e,
           OfTwo(shape, k, l, m, d, n, e, value)
    PROVE  DecodeTyped(shape, p) = value
<1>1. CASE p = <<>>
  BY <1>1, Zenon DEF DecodeTyped, OfTwo
<1>2. CASE p # <<>>
  <2>1. ValueIn(shape, p, ParseFields(p)) = value
    BY Zenon DEF OfTwo
  <2> QED BY <1>2, <2>1, Zenon DEF DecodeTyped
<1> QED BY <1>1, <1>2

(* The tuning detection: a flag and a counter.                             *)
LEMMA TuningComesBack ==
    ASSUME NEW shape, shape.kind = "tuningDetection", NEW v \in Meanings(shape)
    PROVE  ComesBack(shape, v)
<1>1. PICK flag \in BOOLEAN, c \in Numbers : v = [flag |-> flag, counter |-> c]
  BY DEF Meanings
<1>2. v.flag = flag /\ v.counter = c
  BY <1>1
<1>3. Encoded(shape, v) = Implicit(1, Bit(flag)) \o Implicit(2, c) /\ Meant(shape, v) = v
  BY <1>2 DEF Encoded, Meant
<1>4. Bit(flag) \in Sendable /\ c \in Sendable /\ (Bit(flag) # 0) = flag /\ (Bit(flag) = 0 => flag = FALSE)
  <2>1. Bit(flag) \in Sendable /\ (Bit(flag) # 0) = flag
    BY BitTells, BitIs
  <2>2. Bit(flag) = 0 => flag = FALSE
    BY DEF Bit
  <2> QED BY <2>1, <2>2, NumbersAreSendable
<1>5. OfTwo(shape, 1, 2, Bit(flag), 0, c, 0, v)
  <2>1. DefaultOf(shape) = [flag |-> FALSE, counter |-> 0]
    BY DEF DefaultOf
  <2>2. \A p, xs : ValueIn(shape, p, xs) = [flag |-> Value(xs, 1, 0) # 0, counter |-> Value(xs, 2, 0)]
    BY DEF ValueIn
  <2>3. ASSUME NEW p, NEW xs, HasTwo(xs, 1, 2, Bit(flag), 0, c, 0)
        PROVE  ValueIn(shape, p, xs) = v
    <3>1. Value(xs, 1, 0) = Bit(flag) /\ Value(xs, 2, 0) = c
      BY <2>3, Zenon DEF HasTwo
    <3>2. (Value(xs, 1, 0) # 0) = flag
      BY <1>4, <3>1, Zenon
    <3> QED BY <1>1, <2>2, <3>1, <3>2, Zenon
  <2>4. Bit(flag) = 0 /\ c = 0 => DefaultOf(shape) = v
    BY <1>1, <1>4, <2>1, Zenon
  <2> QED BY <2>3, <2>4, Zenon DEF OfTwo
<1>6. PICK p : /\ p = Implicit(1, Bit(flag)) \o Implicit(2, c)
               /\ HasTwo(ParseFields(p), 1, 2, Bit(flag), 0, c, 0)
               /\ p = <<>> => Bit(flag) = 0 /\ c = 0
  BY <1>4, TwoNumbersAreRead, Zenon
<1>7. DecodeTyped(shape, p) = v
  BY <1>5, <1>6, TwoAreDecoded, Zenon
<1> QED BY <1>3, <1>6, <1>7, Zenon DEF ComesBack

(* The mode the bike starts in: a number and a flag.                       *)
LEMMA StartModeComesBack ==
    ASSUME NEW shape, shape.kind = "startAssistModeOem", NEW v \in Meanings(shape)
    PROVE  ComesBack(shape, v)
<1>1. PICK n \in {0, 3}, flag \in BOOLEAN : v = [position |-> n, configurable |-> flag]
  BY DEF Meanings
<1>2. v.position = n /\ v.configurable = flag
  BY <1>1
<1>3. Encoded(shape, v) = Implicit(1, n) \o Implicit(2, Bit(flag)) /\ Meant(shape, v) = v
  BY <1>2 DEF Encoded, Meant
<1>4. Bit(flag) \in Sendable /\ n \in Sendable /\ (Bit(flag) # 0) = flag /\ (Bit(flag) = 0 => flag = FALSE)
  <2>1. Bit(flag) \in Sendable /\ (Bit(flag) # 0) = flag
    BY BitTells, BitIs
  <2>2. Bit(flag) = 0 => flag = FALSE
    BY DEF Bit
  <2>3. n \in 0..255
    OBVIOUS
  <2> QED BY <2>1, <2>2, <2>3, FewAreSendable
<1>5. OfTwo(shape, 1, 2, n, 0, Bit(flag), 0, v)
  <2>1. DefaultOf(shape) = [position |-> 0, configurable |-> FALSE]
    BY DEF DefaultOf
  <2>2. \A p, xs : ValueIn(shape, p, xs) = [position |-> Value(xs, 1, 0), configurable |-> Value(xs, 2, 0) # 0]
    BY DEF ValueIn
  <2>3. ASSUME NEW p, NEW xs, HasTwo(xs, 1, 2, n, 0, Bit(flag), 0)
        PROVE  ValueIn(shape, p, xs) = v
    <3>1. Value(xs, 1, 0) = n /\ Value(xs, 2, 0) = Bit(flag)
      BY <2>3, Zenon DEF HasTwo
    <3>2. (Value(xs, 2, 0) # 0) = flag
      BY <1>4, <3>1, Zenon
    <3> QED BY <1>1, <2>2, <3>1, <3>2, Zenon
  <2>4. n = 0 /\ Bit(flag) = 0 => DefaultOf(shape) = v
    BY <1>1, <1>4, <2>1, Zenon
  <2> QED BY <2>3, <2>4, Zenon DEF OfTwo
<1>6. PICK p : /\ p = Implicit(1, n) \o Implicit(2, Bit(flag))
               /\ HasTwo(ParseFields(p), 1, 2, n, 0, Bit(flag), 0)
               /\ p = <<>> => n = 0 /\ Bit(flag) = 0
  BY <1>4, TwoNumbersAreRead, Zenon
<1>7. DecodeTyped(shape, p) = v
  BY <1>5, <1>6, TwoAreDecoded, Zenon
<1> QED BY <1>3, <1>6, <1>7, Zenon DEF ComesBack

(* The service that is due: an instant in a message of its own, and a      *)
(* number.                                                                 *)
LEMMA ServiceComesBack ==
    ASSUME NEW shape, shape.kind = "serviceDue", NEW v \in Meanings(shape)
    PROVE  ComesBack(shape, v)
<1>1. PICK t \in Instants, c \in Numbers : v = [timestamp |-> t, odometer |-> c]
  BY DEF Meanings
<1>2. v.timestamp = t /\ v.odometer = c
  BY <1>1
<1>3. PICK s : s = Implicit(1, Zigzag(t))
  OBVIOUS
<1>4. Encoded(shape, v) = Present(1, s) \o Implicit(2, c) /\ Meant(shape, v) = v
  BY <1>2, <1>3 DEF Encoded, Meant
<1>5. PICK z \in Sendable : z = Zigzag(t) /\ ZigzagSigned(z) = t /\ (z = 0 <=> t = 0)
  BY SignedIsRead
<1>6. s \in Small(100) /\ c \in Sendable
  <2>1. s \in Small(6)
    BY <1>3, <1>5, OneField
  <2>2. Small(6) \subseteq Small(100)
    <3>1. 6 \in Nat /\ 100 \in Nat /\ 6 <= 100
      OBVIOUS
    <3> QED BY <3>1, SmallGrows
  <2> QED BY <2>1, <2>2, NumbersAreSendable
<1>7. InstantIn(s) = t /\ (s = <<>> => t = 0)
  <2>1. Value(ParseFields(s), 1, 0) = z /\ (s = <<>> <=> z = 0)
    BY <1>3, <1>5, OneNumberIsRead, Zenon
  <2> QED BY <1>5, <2>1, Zenon DEF InstantIn
<1>8. OfTwo(shape, 1, 2, s, <<>>, c, 0, v)
  <2>1. DefaultOf(shape) = [timestamp |-> 0, odometer |-> 0]
    BY DEF DefaultOf
  <2>2. \A p, xs : ValueIn(shape, p, xs) = [timestamp |-> InstantIn(Value(xs, 1, <<>>)), odometer |-> Value(xs, 2, 0)]
    BY DEF ValueIn
  <2>3. ASSUME NEW p, NEW xs, HasTwo(xs, 1, 2, s, <<>>, c, 0)
        PROVE  ValueIn(shape, p, xs) = v
    <3>1. Value(xs, 1, <<>>) = s /\ Value(xs, 2, 0) = c
      BY <2>3, Zenon DEF HasTwo
    <3> QED BY <1>1, <1>7, <2>2, <3>1, Zenon
  <2>4. s = <<>> /\ c = 0 => DefaultOf(shape) = v
    BY <1>1, <1>7, <2>1, Zenon
  <2> QED BY <2>3, <2>4, Zenon DEF OfTwo
<1>9. PICK p : /\ p = Present(1, s) \o Implicit(2, c)
               /\ HasTwo(ParseFields(p), 1, 2, s, <<>>, c, 0)
               /\ p = <<>> => s = <<>> /\ c = 0
  BY <1>6, TextAndNumberAreRead, Zenon
<1>10. DecodeTyped(shape, p) = v
  BY <1>8, <1>9, TwoAreDecoded, Zenon
<1> QED BY <1>4, <1>9, <1>10, Zenon DEF ComesBack

(* The proof of a deactivation: a flag and a signature.                    *)
LEMMA ProofComesBack ==
    ASSUME NEW shape, shape.kind = "deactivationProof", NEW v \in Meanings(shape)
    PROVE  ComesBack(shape, v)
<1>1. PICK flag \in BOOLEAN, n \in {0, 64} : v = [deactivated |-> flag, signatureLength |-> n]
  BY DEF Meanings
<1>2. v.deactivated = flag /\ v.signatureLength = n
  BY <1>1
<1>3. PICK s \in Small(64) : s = [k \in 1..n |-> k]
  BY TextsAreSmall
<1>4. Encoded(shape, v) = Implicit(1, Bit(flag)) \o Present(3, s) /\ Meant(shape, v) = v
  BY <1>2, <1>3 DEF Encoded, Meant
<1>5. Bit(flag) \in Sendable /\ (Bit(flag) # 0) = flag /\ (Bit(flag) = 0 => flag = FALSE)
  <2>1. Bit(flag) \in Sendable /\ (Bit(flag) # 0) = flag
    BY BitTells, BitIs
  <2>2. Bit(flag) = 0 => flag = FALSE
    BY DEF Bit
  <2> QED BY <2>1, <2>2
<1>6. Len(s) = n /\ (s = <<>> => n = 0) /\ s \in Small(100)
  <2>1. n \in Nat
    OBVIOUS
  <2>2. Len(s) = n
    BY <1>3, <2>1
  <2>3. Len(<<>>) = 0
    OBVIOUS
  <2>4. Small(64) \subseteq Small(100)
    <3>1. 64 \in Nat /\ 100 \in Nat /\ 64 <= 100
      OBVIOUS
    <3> QED BY <3>1, SmallGrows
  <2> QED BY <2>2, <2>3, <2>4, Zenon
<1>7. OfTwo(shape, 1, 3, Bit(flag), 0, s, <<>>, v)
  <2>1. DefaultOf(shape) = [deactivated |-> FALSE, signatureLength |-> 0]
    BY DEF DefaultOf
  <2>2. \A p, xs : ValueIn(shape, p, xs) = [deactivated |-> Value(xs, 1, 0) # 0, signatureLength |-> Len(Value(xs, 3, <<>>))]
    BY DEF ValueIn
  <2>3. ASSUME NEW p, NEW xs, HasTwo(xs, 1, 3, Bit(flag), 0, s, <<>>)
        PROVE  ValueIn(shape, p, xs) = v
    <3>1. Value(xs, 1, 0) = Bit(flag) /\ Value(xs, 3, <<>>) = s
      BY <2>3, Zenon DEF HasTwo
    <3>2. (Value(xs, 1, 0) # 0) = flag
      BY <1>5, <3>1, Zenon
    <3> QED BY <1>1, <1>6, <2>2, <3>1, <3>2, Zenon
  <2>4. Bit(flag) = 0 /\ s = <<>> => DefaultOf(shape) = v
    BY <1>1, <1>5, <1>6, <2>1, Zenon
  <2> QED BY <2>3, <2>4, Zenon DEF OfTwo
<1>8. PICK p : /\ p = Implicit(1, Bit(flag)) \o Present(3, s)
               /\ HasTwo(ParseFields(p), 1, 3, Bit(flag), 0, s, <<>>)
               /\ p = <<>> => Bit(flag) = 0 /\ s = <<>>
  BY <1>5, <1>6, NumberAndTextAreRead, Zenon
<1>9. DecodeTyped(shape, p) = v
  BY <1>7, <1>8, TwoAreDecoded, ZenonT(60)
<1> QED BY <1>4, <1>8, <1>9, Zenon DEF ComesBack

(* No fields are found in no bytes.                                        *)
LEMMA NoFields == ParseFields(<<>>) = <<>>
<1>1. PICK p \in Seq(Byte) : p = <<>> /\ Len(p) = 0
  <2>1. \A S : <<>> \in Seq(S) /\ Len(<<>>) = 0
    OBVIOUS
  <2> QED BY <2>1, Zenon
<1>2. Advances(TaggedIn(p), Len(p))
  BY TaggedGoOn
<1>3. 1 \in Nat /\ 1 \notin 1..Len(p)
  BY <1>1
<1>4. Walk(TaggedIn(p), 1) = <<>>
  BY <1>2, <1>3, WalkUnfolds
<1> QED BY <1>1, <1>4, Zenon DEF ParseFields, TaggedIn

\* What is sent of the fields of a submessage.
SubSent(shape, v) ==
    [f \in 1..LastField(shape) |-> IF f \in Fieldset(shape) /\ v[f] # 0 THEN v[f] ELSE None]

(* A submessage is sent field by field.                                    *)
LEMMA SubmessageIsSent ==
    ASSUME NEW shape \in Shapes, shape.kind = "submessage", NEW v \in Meanings(shape)
    PROVE  /\ SubSent(shape, v) \in Fillings(LastField(shape), {})
           /\ Encoded(shape, v) = Fieldwise(LastField(shape), {}, SubSent(shape, v))
           /\ \A f \in Fieldset(shape) : v[f] \in {0, 1}
<1>1. LastField(shape) \in 1..15 /\ Fieldset(shape) \subseteq 1..15 /\ \A g \in Fieldset(shape) : g <= LastField(shape)
  BY LastFieldIs, ShapeIs
<1>2. PICK last \in 1..15 : last = LastField(shape)
  BY <1>1
<1>3. \A f \in Fieldset(shape) : v[f] \in {0, 1}
  <2>1. v \in {[f \in Fieldset(shape) |-> 0], [f \in Fieldset(shape) |-> 1]}
    BY DEF Meanings
  <2> QED BY <2>1
<1>4. PICK g : g = SubSent(shape, v)
  OBVIOUS
<1>5. /\ g = [f \in 1..last |-> g[f]]
      /\ \A f \in 1..last : g[f] = IF f \in Fieldset(shape) /\ v[f] # 0 THEN v[f] ELSE None
  BY <1>2, <1>4, Zenon DEF SubSent
<1>6. \A f \in 1..last : g[f] = None \/ g[f] \in Sendable
  <2>1. 1 \in Sendable
    BY FewAreSendable
  <2> QED BY <1>3, <1>5, <2>1
<1>7. g \in Fillings(last, {})
  <2>1. g \in [1..last -> Sendable \cup Texts \cup {None}]
    BY <1>5, <1>6
  <2> QED BY <1>6, <2>1 DEF Fillings
<1>8. Encoded(shape, v) = Flatten([f \in 1..last |-> IF f \in Fieldset(shape) THEN Implicit(f, v[f]) ELSE <<>>])
  BY <1>2 DEF Encoded
<1>9. \A f \in 1..last : (IF f \in Fieldset(shape) THEN Implicit(f, v[f]) ELSE <<>>)
                          = IF g[f] = None THEN <<>> ELSE IF f \in {} THEN Delimited(f, g[f]) ELSE Number(f, g[f])
  <2>1. ASSUME NEW f \in 1..last
        PROVE  (IF f \in Fieldset(shape) THEN Implicit(f, v[f]) ELSE <<>>)
                  = IF g[f] = None THEN <<>> ELSE IF f \in {} THEN Delimited(f, g[f]) ELSE Number(f, g[f])
    <3>0. f \notin {}
      OBVIOUS
    <3>1. CASE f \in Fieldset(shape) /\ v[f] # 0
      <4>1. g[f] = v[f] /\ v[f] \in {0, 1}
        BY <1>3, <1>5, <3>1, Zenon
      <4>2. g[f] # None
        BY <4>1, NoneAssumption
      <4>3. Implicit(f, v[f]) = Number(f, g[f])
        BY <3>1, <4>1, Zenon DEF Implicit
      <4> QED BY <3>0, <3>1, <4>2, <4>3, Zenon
    <3>2. CASE f \in Fieldset(shape) /\ v[f] = 0
      <4>1. g[f] = None
        BY <1>5, <3>2, Zenon
      <4>2. Implicit(f, v[f]) = <<>>
        BY <3>2, Zenon DEF Implicit
      <4> QED BY <3>2, <4>1, <4>2, Zenon
    <3>3. CASE f \notin Fieldset(shape)
      BY <1>5, <3>3, Zenon
    <3> QED BY <3>1, <3>2, <3>3, Zenon
  <2> QED BY <2>1, Zenon
<1>10. [f \in 1..last |-> IF f \in Fieldset(shape) THEN Implicit(f, v[f]) ELSE <<>>] = FieldBytes(last, {}, g)
  BY <1>9, Zenon DEF FieldBytes
<1> QED BY <1>2, <1>3, <1>4, <1>7, <1>8, <1>10, Zenon DEF Fieldwise

(* Submessages.                                                            *)
LEMMA SubmessageComesBack ==
    ASSUME NEW shape \in Shapes, shape.kind = "submessage", NEW v \in Meanings(shape)
    PROVE  ComesBack(shape, v)
<1>1. LastField(shape) \in 1..15 /\ Fieldset(shape) \subseteq 1..15 /\ \A g \in Fieldset(shape) : g <= LastField(shape)
  BY LastFieldIs, ShapeIs
<1>2. PICK last \in 0..15 : last = LastField(shape)
  BY <1>1
<1>3. PICK g \in Fillings(last, {}) : g = SubSent(shape, v)
  BY <1>2, SubmessageIsSent
<1>4. PICK p : p = Encoded(shape, v) /\ p = Fieldwise(last, {}, g)
  BY <1>2, <1>3, SubmessageIsSent
<1>5. ParseFields(p) = Found(last, g)
  BY <1>4, MessageIsRead
<1>6. PICK xs : xs = Found(last, g)
  OBVIOUS
<1>7. DecodeTyped(shape, p) = DecodeSubmessageFields(shape, xs)
  <2>1. DefaultOf(shape) = DecodeSubmessageFields(shape, <<>>)
    BY DEF DefaultOf
  <2>2. \A q, ys : ValueIn(shape, q, ys) = DecodeSubmessageFields(shape, ys)
    BY DEF ValueIn
  <2>3. CASE p = <<>>
    <3>1. xs = <<>>
      BY <1>5, <1>6, <2>3, NoFields, Zenon
    <3> QED BY <2>1, <2>3, <3>1, Zenon DEF DecodeTyped
  <2>4. CASE p # <<>>
    BY <1>5, <1>6, <2>2, <2>4, Zenon DEF DecodeTyped
  <2> QED BY <2>3, <2>4
<1>8. ASSUME NEW f \in Fieldset(shape)
      PROVE  Value(xs, f, 0) = v[f] /\ Value(xs, f, None) = IF v[f] = 0 THEN None ELSE v[f]
  <2>1. f \in 1..last
    BY <1>1, <1>2
  <2>2. \A d : Value(xs, f, d) = IF g[f] = None THEN d ELSE g[f]
    BY <1>6, <2>1, FoundTells, Zenon
  <2>3. g[f] = IF v[f] # 0 THEN v[f] ELSE None
    BY <1>2, <1>3, <2>1 DEF SubSent
  <2>4. v[f] \in {0, 1}
    BY SubmessageIsSent
  <2>5. v[f] # None
    BY <2>4, NoneAssumption
  <2>6. CASE v[f] = 0
    BY <2>2, <2>3, <2>6, Zenon
  <2>7. CASE v[f] # 0
    BY <2>2, <2>3, <2>5, <2>7, Zenon
  <2> QED BY <2>6, <2>7
<1>9. DecodeSubmessageFields(shape, xs)
        = [f \in Fieldset(shape) |-> IF f \in shape.bools THEN Value(xs, f, 0) # 0 ELSE Value(xs, f, None)]
  BY Zenon DEF DecodeSubmessageFields, Fieldset
<1>10. Meant(shape, v) = [f \in Fieldset(shape) |-> IF f \in shape.bools THEN v[f] # 0 ELSE OrEmpty(v[f], 0, v[f])]
  BY DEF Meant
<1>11. \A f \in Fieldset(shape) : (IF f \in shape.bools THEN Value(xs, f, 0) # 0 ELSE Value(xs, f, None))
                                   = IF f \in shape.bools THEN v[f] # 0 ELSE OrEmpty(v[f], 0, v[f])
  BY <1>8, Zenon DEF OrEmpty
<1>12. DecodeSubmessageFields(shape, xs) = Meant(shape, v)
  BY <1>9, <1>10, <1>11, Zenon
<1> QED BY <1>4, <1>7, <1>12, Zenon DEF ComesBack

\* The items of a certificate, and what the loop over them reads.
CvcIn(b) == [i \in 1..Len(b) |-> CvcItemAt(b, i)]

ItemSet == [tag : Nat, constructed : BOOLEAN, value : Seq(Byte)]

TagReads(n, next) == [tag |-> n, next |-> next]

LenReads(l, next) == [len |-> l, next |-> next]

ItemOf(n, flag, s) == [tag |-> n, constructed |-> flag, value |-> s]

(* A tag is behind where it starts.                                        *)
LEMMA CvcTagReads ==
    ASSUME NEW b \in Seq(Byte), NEW i \in 1..Len(b)
    PROVE  \E n \in Nat, next \in Nat : next > i /\ CvcTag(b, i) = TagReads(n, next)
<1>1. PICK x \in Nat : x = b[i]
  <2>1. b[i] \in Byte
    BY ElementOfSeq
  <2>2. \A y \in Byte : y \in Nat
    BY DEF Byte
  <2> QED BY <2>1, <2>2, Zenon
<1>2. PICK y \in Nat : y = ByteAt(b, i + 1)
  BY ByteAtType
<1>3. i \in Nat
  BY LenProperties
<1>4. CASE x % 32 = 31
  <2>1. CvcTag(b, i) = TagReads(256 * x + y, i + 2)
    BY <1>1, <1>2, <1>4 DEF CvcTag, TagReads
  <2>2. 256 * x + y \in Nat /\ i + 2 \in Nat /\ i + 2 > i
    BY <1>3
  <2> QED BY <2>1, <2>2
<1>5. CASE x % 32 # 31
  <2>1. CvcTag(b, i) = TagReads(x, i + 1)
    BY <1>1, <1>5 DEF CvcTag, TagReads
  <2>2. i + 1 \in Nat /\ i + 1 > i
    BY <1>3
  <2> QED BY <2>1, <2>2
<1> QED BY <1>4, <1>5

(* So is a length, whatever it counts to.                                  *)
LEMMA CvcLenReads ==
    ASSUME NEW b \in Seq(Byte), NEW i \in Nat
    PROVE  \E l \in Nat, next \in Nat : next > i /\ CvcLen(b, i) = LenReads(l, next)
<1>1. PICK x \in Nat : x = ByteAt(b, i)
  BY ByteAtType
<1>2. CASE x < 128
  <2>1. x - 128 < 0
    BY <1>2
  <2>2. CvcLen(b, i) = LenReads(x, i + 1)
    BY <1>1, <2>1 DEF CvcLen, LenReads
  <2>3. i + 1 \in Nat /\ i + 1 > i
    OBVIOUS
  <2> QED BY <2>2, <2>3
<1>3. CASE x >= 128
  <2>1. PICK n \in Nat : n = x - 128 /\ ~(n < 0)
    BY <1>3
  <2> DEFINE terms == [k \in 1..n |-> IF 8 * (n - k) >= Word THEN 0 ELSE ByteAt(b, i + k) * 2^(8 * (n - k))]
  <2>2. CvcLen(b, i) = LenReads(Total(terms, 1), i + n + 1)
    BY <1>1, <2>1 DEF CvcLen, LenReads
  <2>3. Total(terms, 1) \in Nat
    <3>1. DOMAIN terms = 1..n
      OBVIOUS
    <3>2. CASE n = 0
      <4> HIDE DEF terms
      <4>1. 1 \in Nat /\ 0 \in Nat /\ DOMAIN terms = 1..0
        BY <3>1, <3>2
      <4>2. Total(terms, 0 + 1) = 0
        BY <4>1, TotalUnfolds
      <4> QED BY <4>2
    <3>3. CASE n >= 1
      <4>1. ASSUME NEW k \in 1..n PROVE terms[k] \in Nat
        <5>1. PICK y \in Nat : y = ByteAt(b, i + k)
          BY ByteAtType
        <5>2. PICK m \in Nat : m = 8 * (n - k)
          OBVIOUS
        <5>3. PICK w \in Nat : w = 2^m
          BY Powers
        <5>4. y * w \in Nat
          OBVIOUS
        <5>5. terms[k] = IF m >= Word THEN 0 ELSE y * w
          BY <5>1, <5>2, <5>3
        <5> QED BY <5>4, <5>5
      <4> HIDE DEF terms
      <4>2. 1 \in Nat /\ 1 <= n
        BY <3>3
      <4> QED BY <3>1, <4>1, <4>2, TotalType
    <3> QED BY <3>2, <3>3
  <2> HIDE DEF terms
  <2>4. i + n + 1 \in Nat /\ i + n + 1 > i
    OBVIOUS
  <2> QED BY <2>2, <2>3, <2>4
<1> QED BY <1>2, <1>3

(* The loop over the items.                                                *)
LEMMA CvcGoesOn ==
    ASSUME NEW b \in Seq(Byte)
    PROVE  LoopOver(CvcIn(b), b, ItemSet)
<1>1. Len(b) \in Nat
  BY LenProperties
<1>3. ASSUME NEW i \in 1..Len(b) PROVE GoesOn(CvcItemAt(b, i), i, ItemSet)
  <2>1. i \in Nat /\ i > 0
    BY <1>1
  <2>2. PICK n \in Nat, from \in Nat : from > i /\ CvcTag(b, i) = TagReads(n, from)
    BY CvcTagReads
  <2>3. CvcTag(b, i).tag = n /\ CvcTag(b, i).next = from
    BY <2>2 DEF TagReads
  <2>4. PICK l \in Nat, next \in Nat : next > from /\ CvcLen(b, from) = LenReads(l, next)
    BY CvcLenReads
  <2>5. CvcLen(b, from).len = l /\ CvcLen(b, from).next = next
    BY <2>4 DEF LenReads
  <2>6. PICK s \in Seq(Byte) : s = Slice(b, next, l)
    <3>1. next > 0
      BY <2>1, <2>2, <2>4
    <3> QED BY <3>1, SliceType, Zenon
  <2>7. PICK flag \in BOOLEAN : flag = Constructed(b, i)
    BY Zenon DEF Constructed
  <2>8. CvcItemAt(b, i) = Finds(ItemOf(n, flag, s), next + l)
    BY <2>3, <2>5, <2>6, <2>7, Zenon DEF CvcItemAt, ItemOf
  <2>9. ItemOf(n, flag, s) \in ItemSet
    BY Zenon DEF ItemOf, ItemSet
  <2>10. next + l \in Nat /\ next + l > i
    BY <2>1, <2>2, <2>4
  <2> QED BY <2>8, <2>9, <2>10, FindGoesOn
<1>4. \A i \in 1..Len(b) : CvcIn(b)[i] = CvcItemAt(b, i)
  BY DEF CvcIn
<1>5. DOMAIN CvcIn(b) = 1..Len(b)
  BY DEF CvcIn
<1> QED BY <1>1, <1>3, <1>4, <1>5 DEF LoopOver, Advances, GoesOn

\* A tag is read where its bytes stand.
TagIs(tag, n, flag) ==
    \A b, i : b \in Seq(Byte) /\ Has(b, i, tag)
              => CvcTag(b, i) = TagReads(n, i + Len(tag)) /\ Constructed(b, i) = flag

LenBytes(l) == IF l < 128 THEN <<l>> ELSE <<129, l>>

(* A tag of one byte.                                                      *)
LEMMA ShortTagIs ==
    ASSUME NEW t \in Byte, t % 32 # 31
    PROVE  TagIs(<<t>>, t, (t \div 32) % 2 = 1)
<1> DEFINE s == <<t>>
<1>1. s \in Seq(Byte) /\ Len(s) = 1 /\ s[1] = t /\ 1 \in 1..Len(s) /\ Len(s) \in Nat
  OBVIOUS
<1> HIDE DEF s
<1>2. ASSUME NEW b, NEW i, b \in Seq(Byte), Has(b, i, s)
      PROVE  CvcTag(b, i) = TagReads(t, i + Len(s)) /\ Constructed(b, i) = ((t \div 32) % 2 = 1)
  <2>1. i + 1 - 1 \in 1..Len(b) /\ b[i + 1 - 1] = s[1]
    <3>0. Len(s) \in Nat /\ Has(b, i, s) /\ b \in Seq(Byte)
      BY <1>1, <1>2
    <3>1. \A k \in 1..Len(s) : i + k - 1 \in 1..Len(b) /\ b[i + k - 1] = s[k]
      BY <3>0, HasBytes
    <3> QED BY <1>1, <3>1
  <2>2. i \in Nat
    BY <1>2 DEF Has
  <2>3. i + 1 - 1 = i
    BY <2>2
  <2>4. b[i] = t
    BY <1>1, <2>1, <2>3, Zenon
  <2>5. CvcTag(b, i) = TagReads(t, i + 1)
    BY <2>4 DEF CvcTag, TagReads
  <2>6. Constructed(b, i) = ((t \div 32) % 2 = 1)
    BY <2>4, Zenon DEF Constructed
  <2> QED BY <1>1, <2>5, <2>6, Zenon
<1> QED BY <1>2, Zenon DEF TagIs, s

(* A tag of two bytes.                                                     *)
LEMMA LongTagIs ==
    ASSUME NEW t \in Byte, t % 32 = 31, NEW u \in Byte
    PROVE  TagIs(<<t, u>>, 256 * t + u, (t \div 32) % 2 = 1)
<1> DEFINE s == <<t, u>>
<1>1. s \in Seq(Byte) /\ Len(s) = 2 /\ s[1] = t /\ s[2] = u /\ 1 \in 1..Len(s) /\ 2 \in 1..Len(s) /\ Len(s) \in Nat
  OBVIOUS
<1> HIDE DEF s
<1>2. ASSUME NEW b, NEW i, b \in Seq(Byte), Has(b, i, s)
      PROVE  CvcTag(b, i) = TagReads(256 * t + u, i + Len(s)) /\ Constructed(b, i) = ((t \div 32) % 2 = 1)
  <2>1. i + 1 - 1 \in 1..Len(b) /\ b[i + 1 - 1] = s[1]
    <3>0. Len(s) \in Nat /\ Has(b, i, s) /\ b \in Seq(Byte)
      BY <1>1, <1>2
    <3>1. \A k \in 1..Len(s) : i + k - 1 \in 1..Len(b) /\ b[i + k - 1] = s[k]
      BY <3>0, HasBytes
    <3> QED BY <1>1, <3>1
  <2>2. i \in Nat
    BY <1>2 DEF Has
  <2>3. i + 1 - 1 = i /\ i + 2 - 1 = i + 1
    BY <2>2
  <2>4. b[i] = t
    BY <1>1, <2>1, <2>3, Zenon
  <2>5. ByteAt(b, i + 2 - 1) = s[2]
    BY <1>1, <1>2, HasByteAt, Zenon
  <2>6. ByteAt(b, i + 1) = u
    BY <1>1, <2>3, <2>5, Zenon
  <2>7. CvcTag(b, i) = TagReads(256 * t + u, i + 2)
    BY <2>4, <2>6 DEF CvcTag, TagReads
  <2>8. Constructed(b, i) = ((t \div 32) % 2 = 1)
    BY <2>4, Zenon DEF Constructed
  <2> QED BY <1>1, <2>7, <2>8, Zenon
<1> QED BY <1>2, Zenon DEF TagIs, s

(* A length is read where its bytes stand.                                 *)
LEMMA LengthIsRead ==
    ASSUME NEW l \in Byte, NEW b \in Seq(Byte), NEW i, Has(b, i, LenBytes(l))
    PROVE  CvcLen(b, i) = LenReads(l, i + Len(LenBytes(l)))
<1>1. i \in Nat
  BY DEF Has
<1>2. l \in Nat
  BY DEF Byte
<1>3. CASE l < 128
  <2> DEFINE s == <<l>>
  <2>1. s \in Seq(Byte) /\ Len(s) = 1 /\ s[1] = l /\ 1 \in 1..Len(s)
    OBVIOUS
  <2>2. LenBytes(l) = s
    BY <1>3, Zenon DEF LenBytes
  <2> HIDE DEF s
  <2>3. ByteAt(b, i + 1 - 1) = s[1]
    BY <2>1, <2>2, HasByteAt, Zenon
  <2>4. i + 1 - 1 = i
    BY <1>1
  <2>5. ByteAt(b, i) = l
    BY <2>1, <2>3, <2>4, Zenon
  <2>6. l - 128 < 0
    BY <1>2, <1>3
  <2>7. CvcLen(b, i) = LenReads(l, i + 1)
    BY <2>5, <2>6 DEF CvcLen, LenReads
  <2> QED BY <2>1, <2>2, <2>7, Zenon
<1>4. CASE ~(l < 128)
  <2> DEFINE s == <<129, l>>
  <2>1. s \in Seq(Byte) /\ Len(s) = 2 /\ s[1] = 129 /\ s[2] = l /\ 1 \in 1..Len(s) /\ 2 \in 1..Len(s)
    <3>1. 129 \in Byte
      BY DEF Byte
    <3> QED BY <3>1
  <2>2. LenBytes(l) = s
    BY <1>4, Zenon DEF LenBytes
  <2> HIDE DEF s
  <2>3. ByteAt(b, i + 1 - 1) = s[1] /\ ByteAt(b, i + 2 - 1) = s[2]
    <3>0. Has(b, i, s) /\ s \in Seq(Byte)
      BY <2>1, <2>2, Zenon
    <3>1. \A k \in 1..Len(s) : ByteAt(b, i + k - 1) = s[k]
      BY <3>0, HasByteAt
    <3> QED BY <2>1, <3>1
  <2>4. i + 1 - 1 = i /\ i + 2 - 1 = i + 1
    BY <1>1
  <2>5. ByteAt(b, i) = s[1] /\ ByteAt(b, i + 1) = l
    BY <2>1, <2>3, <2>4, Zenon
  <2>6. ByteAt(b, i) - 128 = 1
    BY <2>1, <2>5
  <2> DEFINE terms == [k \in 1..1 |-> IF 8 * (1 - k) >= Word THEN 0 ELSE ByteAt(b, i + k) * 2^(8 * (1 - k))]
  <2>7. CvcLen(b, i) = LenReads(Total(terms, 1), i + 1 + 1)
    BY <2>6 DEF CvcLen, LenReads
  <2>8. terms[1] = l
    <3>1. 1 \in 1..1 /\ 8 * (1 - 1) = 0
      OBVIOUS
    <3>2. ~(0 >= Word)
      BY WordAssumption
    <3>3. terms[1] = IF 8 * (1 - 1) >= Word THEN 0 ELSE ByteAt(b, i + 1) * 2^(8 * (1 - 1))
      BY <3>1
    <3>4. terms[1] = l * 2^0
      BY <2>5, <3>1, <3>2, <3>3, Zenon
    <3>5. l * 1 = l
      BY <1>2
    <3> QED BY <3>4, <3>5, Powers, Zenon
  <2>9. Total(terms, 1) = l
    <3>1. DOMAIN terms = 1..1 /\ 1 \in Nat /\ 1 \in 1..1
      OBVIOUS
    <3> HIDE DEF terms
    <3>2. Total(terms, 1) = terms[1] + Total(terms, 1 + 1) /\ Total(terms, 1 + 1) = 0
      BY <3>1, TotalUnfolds, Zenon
    <3> QED BY <1>2, <2>8, <3>2
  <2>10. i + 1 + 1 = i + 2
    BY <1>1
  <2> HIDE DEF terms
  <2> QED BY <2>1, <2>2, <2>7, <2>9, <2>10, Zenon
<1> QED BY <1>3, <1>4

(* A tag, a length and a value are read where they stand.                  *)
LEMMA TlvYields ==
    ASSUME NEW b \in Seq(Byte), NEW tag \in Seq(Byte), NEW n \in Nat, NEW flag \in BOOLEAN, TagIs(tag, n, flag),
           NEW s \in Seq(Byte), Len(s) < 256
    PROVE  /\ Tlv(tag, s) \in Seq(Byte) /\ ItemOf(n, flag, s) \in ItemSet
           /\ Yields(CvcIn(b), b, Tlv(tag, s), <<ItemOf(n, flag, s)>>)
<1>1. PICK l \in Byte : l = Len(s)
  <2>1. Len(s) \in Nat
    BY LenProperties
  <2>2. \A k \in Nat : k < 256 => k \in Byte
    BY DEF Byte
  <2> QED BY <2>1, <2>2, Zenon
<1>2. PICK d \in Seq(Byte) : d = LenBytes(l) /\ Len(d) \in Nat /\ Len(d) > 0
  <2>1. 129 \in Byte
    BY DEF Byte
  <2>2. <<l>> \in Seq(Byte) /\ Len(<<l>>) \in Nat /\ Len(<<l>>) > 0
    OBVIOUS
  <2>3. <<129, l>> \in Seq(Byte) /\ Len(<<129, l>>) \in Nat /\ Len(<<129, l>>) > 0
    BY <2>1
  <2>4. \E d \in Seq(Byte) : d = <<l>> /\ Len(d) \in Nat /\ Len(d) > 0
    BY <2>2, Zenon
  <2>5. \E d \in Seq(Byte) : d = <<129, l>> /\ Len(d) \in Nat /\ Len(d) > 0
    BY <2>3, Zenon
  <2> QED BY <2>4, <2>5, Zenon DEF LenBytes
<1>3. Tlv(tag, s) = (tag \o d) \o s
  <2>1. Tlv(tag, s) = (tag \o (IF Len(s) < 128 THEN <<Len(s)>> ELSE <<129, Len(s)>>)) \o s
    BY DEF Tlv
  <2> QED BY <1>1, <1>2, <2>1, Zenon DEF LenBytes
<1>4. tag \o d \in Seq(Byte) /\ Len(tag \o d) = Len(tag) + Len(d) /\ Len(tag) \in Nat /\ Len(s) \in Nat
  BY <1>2, LenProperties
<1>5. PICK t \in Seq(Byte) : t = Tlv(tag, s) /\ Len(t) = Len(tag) + Len(d) + Len(s) /\ Len(t) > 0
  <2>1. (tag \o d) \o s \in Seq(Byte) /\ Len((tag \o d) \o s) = Len(tag \o d) + Len(s)
    BY <1>4
  <2>2. Len(tag) + Len(d) + Len(s) > 0
    BY <1>2, <1>4
  <2> QED BY <1>3, <1>4, <2>1, <2>2, Zenon
<1>6. ItemOf(n, flag, s) \in ItemSet
  BY Zenon DEF ItemOf, ItemSet
<1>7. ASSUME NEW i, Has(b, i, t) PROVE CvcIn(b)[i] = Finds(ItemOf(n, flag, s), i + Len(t))
  <2>1. Has(b, i, tag \o d) /\ Has(b, i + Len(tag \o d), s)
    <3>1. Has(b, i, (tag \o d) \o s)
      BY <1>3, <1>5, <1>7, Zenon
    <3>2. \A u, v \in Seq(Byte) : Has(b, i, u \o v) => Has(b, i, u) /\ Has(b, i + Len(u), v)
      BY HasParts, Zenon
    <3>3. tag \o d \in Seq(Byte)
      BY <1>4
    <3> QED BY <3>1, <3>2, <3>3, Zenon
  <2>2. Has(b, i, tag) /\ Has(b, i + Len(tag), d)
    BY <1>2, <2>1, HasParts, Zenon
  <2>3. CvcTag(b, i) = TagReads(n, i + Len(tag)) /\ Constructed(b, i) = flag
    BY <2>2, Zenon DEF TagIs
  <2>4. CvcLen(b, i + Len(tag)) = LenReads(l, i + Len(tag) + Len(d))
    BY <1>2, <2>2, LengthIsRead, Zenon
  <2>5. Slice(b, i + Len(tag \o d), Len(s)) = s
    BY <2>1, HasSub, Zenon
  <2>6. i \in Nat /\ i > 0 /\ i + Len(t) <= Len(b) + 1
    BY <1>7 DEF Has
  <2>7. i + Len(tag \o d) = i + Len(tag) + Len(d) /\ i + Len(tag) + Len(d) + Len(s) = i + Len(t)
    BY <1>2, <1>4, <1>5, <2>6
  <2>8. Slice(b, i + Len(tag) + Len(d), l) = s
    BY <1>1, <2>5, <2>7, Zenon
  <2>9. CvcTag(b, i).tag = n /\ CvcTag(b, i).next = i + Len(tag)
    BY <2>3 DEF TagReads
  <2>10. CvcLen(b, i + Len(tag)).len = l /\ CvcLen(b, i + Len(tag)).next = i + Len(tag) + Len(d)
    BY <2>4 DEF LenReads
  <2>11. CvcItemAt(b, i) = Finds(ItemOf(n, flag, s), i + Len(tag) + Len(d) + l)
    BY <2>3, <2>8, <2>9, <2>10, Zenon DEF CvcItemAt, ItemOf
  <2>12. i \in 1..Len(b)
    BY <1>2, <1>4, <1>5, <2>6, LenProperties
  <2>13. CvcIn(b)[i] = CvcItemAt(b, i)
    BY <2>12 DEF CvcIn
  <2> QED BY <1>1, <2>7, <2>11, <2>13, Zenon
<1>8. LoopOver(CvcIn(b), b, ItemSet)
  BY CvcGoesOn
<1>9. Yields(CvcIn(b), b, t, <<ItemOf(n, flag, s)>>)
  BY <1>5, <1>7, <1>8, YieldsOne
<1> QED BY <1>5, <1>6, <1>9, Zenon

(* One, two and three items, and what they are.                            *)
LEMMA ItemsAre ==
    ASSUME NEW b \in Seq(Byte), NEW xs \in Seq(ItemSet), Yields(CvcIn(b), b, b, xs)
    PROVE  CvcItems(b) = xs
BY CvcGoesOn, YieldsAll, Zenon DEF CvcItems, CvcIn

(* The first item with a tag.                                              *)
LEMMA FirstIsFound ==
    ASSUME NEW xs \in Seq(ItemSet), NEW tag, NEW k \in DOMAIN xs, xs[k].tag = tag,
           \A j \in 1..(k - 1) : xs[j].tag # tag
    PROVE  CvcFind(xs, tag) = xs[k]
<1> DEFINE First(m) == xs[m].tag = tag /\ \A j \in 1..(m - 1) : xs[j].tag # tag
<1>1. \A m \in DOMAIN xs : First(m) => m = k
  <2>1. DOMAIN xs = 1..Len(xs) /\ Len(xs) \in Nat
    BY LenProperties
  <2> QED BY <2>1
<1>2. First(k)
  OBVIOUS
<1>3. CvcFind(xs, tag) = IF \E m \in DOMAIN xs : xs[m].tag = tag
                         THEN xs[CHOOSE m \in DOMAIN xs : First(m)] ELSE None
  BY Zenon DEF CvcFind
<1> HIDE DEF First
<1>4. (CHOOSE m \in DOMAIN xs : First(m)) = k
  BY <1>1, <1>2, Zenon
<1> QED BY <1>3, <1>4, Zenon

(* No item with a tag.                                                     *)
LEMMA NoneIsFound ==
    ASSUME NEW xs, NEW tag, \A k \in DOMAIN xs : xs[k].tag # tag
    PROVE  CvcFind(xs, tag) = None
BY Zenon DEF CvcFind

\* A tag, what it is read as, and whether it holds items itself.
IsTag(tag, n, flag) == tag \in Seq(Byte) /\ n \in Nat /\ flag \in BOOLEAN /\ TagIs(tag, n, flag)

(* The tag of the key.                                                     *)
LEMMA KeyTagIs == \E tag \in Seq(Byte) : tag = << 66 >> /\ Len(tag) = 1 /\ IsTag(tag, 66, FALSE)
<1>1. PICK t \in Byte : t = 66
  BY DEF Byte
<1>2. t % 32 # 31 /\ ~((t \div 32) % 2 = 1) /\ 66 \in Nat
  BY <1>1
<1>3. TagIs(<<t>>, t, (t \div 32) % 2 = 1)
  BY <1>2, ShortTagIs, Zenon
<1>4. TagIs(<<66>>, 66, FALSE)
  BY <1>1, <1>2, <1>3, Zenon
<1>5. <<t>> \in Seq(Byte) /\ Len(<<t>>) = 1
  OBVIOUS
<1>6. <<66>> \in Seq(Byte) /\ Len(<<66>>) = 1
  BY <1>1, <1>5, Zenon
<1> QED BY <1>2, <1>4, <1>6, Zenon DEF IsTag

(* The tags of two bytes: 127 begins those that hold items.                *)
LEMMA LongTagsAre ==
    ASSUME NEW t \in {95, 127}, NEW u \in Byte, NEW n \in Nat, n = 256 * t + u
    PROVE  \E tag \in Seq(Byte), flag \in BOOLEAN :
               tag = <<t, u>> /\ Len(tag) = 2 /\ (flag <=> t = 127) /\ IsTag(tag, n, flag)
<1>1. t \in Byte /\ t % 32 = 31
  BY DEF Byte
<1>2. (t \div 32) % 2 = 1 <=> t = 127
  OBVIOUS
<1>3. TagIs(<<t, u>>, 256 * t + u, (t \div 32) % 2 = 1)
  BY <1>1, LongTagIs, Zenon
<1>5. PICK flag \in BOOLEAN : flag = ((t \div 32) % 2 = 1)
  BY Zenon
<1>6. <<t, u>> \in Seq(Byte) /\ Len(<<t, u>>) = 2
  BY <1>1
<1>7. IsTag(<<t, u>>, n, flag)
  BY <1>3, <1>5, <1>6, Zenon DEF IsTag
<1>8. flag <=> t = 127
  BY <1>2, <1>5, Zenon
<1> QED BY <1>6, <1>7, <1>8, Zenon

-----------------------------------------------------------------------------
(***************************************************************************)
(* Certificates: tags and lengths, lists of items, and one in another.     *)
(***************************************************************************)
\* Bytes that are read as one item, wherever they stand.
CvcPart(p, x) == p \in Seq(Byte) /\ x \in ItemSet /\ \A b \in Seq(Byte) : Yields(CvcIn(b), b, p, <<x>>)

ShortPart(s) == s \in Seq(Byte) /\ Len(s) < 256

(* A tag, a length and a value are.                                        *)
LEMMA TlvIsPart ==
    ASSUME NEW tag, NEW n, NEW flag, IsTag(tag, n, flag), NEW s, ShortPart(s)
    PROVE  CvcPart(Tlv(tag, s), ItemOf(n, flag, s))
<1>1. ASSUME NEW b \in Seq(Byte)
      PROVE  /\ Tlv(tag, s) \in Seq(Byte) /\ ItemOf(n, flag, s) \in ItemSet
             /\ Yields(CvcIn(b), b, Tlv(tag, s), <<ItemOf(n, flag, s)>>)
  BY TlvYields, Zenon DEF IsTag, ShortPart
<1>2. <<>> \in Seq(Byte)
  OBVIOUS
<1> QED BY <1>1, <1>2, Zenon DEF CvcPart

ReadsAs(p, xs) == p \in Seq(Byte) /\ CvcItems(p) = xs

(* One part.                                                               *)
LEMMA OnePart ==
    ASSUME NEW p, NEW x, CvcPart(p, x)
    PROVE  ReadsAs(p, <<x>>)
<1>1. p \in Seq(Byte) /\ x \in ItemSet /\ Yields(CvcIn(p), p, p, <<x>>)
  BY Zenon DEF CvcPart
<1>2. \A y \in ItemSet : <<y>> \in Seq(ItemSet)
  OBVIOUS
<1> QED BY <1>1, <1>2, ItemsAre, Zenon DEF ReadsAs

(* Sequences, one by one.                                                  *)
LEMMA OnesAre ==
    ASSUME NEW S
    PROVE  /\ \A x \in S : <<x>> \in Seq(S)
           /\ \A x, y, z \in S : <<x, y, z>> \in Seq(S)
           /\ \A x, y \in S : <<x>> \o <<y>> = <<x, y>>
           /\ \A x, y, z \in S : (<<x>> \o <<y>>) \o <<z>> = <<x, y, z>>
<1>1. ASSUME NEW x \in S, NEW y \in S PROVE <<x>> \o <<y>> = <<x, y>>
  <2> DEFINE st == <<x>> \o <<y>>
             xy == <<x, y>>
  <2>1. st \in Seq(S) /\ Len(st) = 2 /\ st[1] = x /\ st[2] = y
    OBVIOUS
  <2>2. xy \in Seq(S) /\ Len(xy) = 2 /\ xy[1] = x /\ xy[2] = y
    OBVIOUS
  <2> HIDE DEF st, xy
  <2>3. \A i \in 1..Len(st) : st[i] = xy[i]
    BY <2>1, <2>2
  <2>4. st = xy
    BY <2>1, <2>2, <2>3, SeqEqual
  <2> QED BY <2>4 DEF st, xy
<1>2. ASSUME NEW x \in S, NEW y \in S, NEW z \in S PROVE <<x, y>> \o <<z>> = <<x, y, z>>
  <2> DEFINE st == <<x, y>> \o <<z>>
             xyz == <<x, y, z>>
  <2>1. st \in Seq(S) /\ Len(st) = 3 /\ st[1] = x /\ st[2] = y /\ st[3] = z
    OBVIOUS
  <2>2. xyz \in Seq(S) /\ Len(xyz) = 3 /\ xyz[1] = x /\ xyz[2] = y /\ xyz[3] = z
    OBVIOUS
  <2> HIDE DEF st, xyz
  <2>3. \A i \in 1..Len(st) : st[i] = xyz[i]
    BY <2>1, <2>2
  <2>4. st = xyz
    BY <2>1, <2>2, <2>3, SeqEqual
  <2> QED BY <2>4 DEF st, xyz
<1>3. \A x \in S : <<x>> \in Seq(S)
  OBVIOUS
<1>4. ASSUME NEW x \in S, NEW y \in S, NEW z \in S PROVE (<<x>> \o <<y>>) \o <<z>> = <<x, y, z>>
  <2>1. <<x>> \o <<y>> = <<x, y>>
    BY <1>1, Zenon
  <2>2. <<x, y>> \o <<z>> = <<x, y, z>>
    BY <1>2, Zenon
  <2> QED BY <2>1, <2>2, Zenon
<1>5. \A x, y \in S : <<x>> \o <<y>> = <<x, y>>
  BY <1>1, Zenon
<1>6. \A x, y, z \in S : (<<x>> \o <<y>>) \o <<z>> = <<x, y, z>>
  BY <1>4
<1>7. \A x, y, z \in S : <<x, y, z>> \in Seq(S)
  OBVIOUS
<1> QED BY <1>3, <1>5, <1>6, <1>7, Zenon

(* Parts, one after the other.                                             *)
LEMMA PartsYield ==
    ASSUME NEW p \in Seq(Byte), NEW xs \in Seq(ItemSet), \A b \in Seq(Byte) : Yields(CvcIn(b), b, p, xs),
           NEW q, NEW y, CvcPart(q, y)
    PROVE  /\ p \o q \in Seq(Byte) /\ xs \o <<y>> \in Seq(ItemSet)
           /\ \A b \in Seq(Byte) : Yields(CvcIn(b), b, p \o q, xs \o <<y>>)
<1>1. q \in Seq(Byte) /\ y \in ItemSet /\ \A b \in Seq(Byte) : Yields(CvcIn(b), b, q, <<y>>)
  BY Zenon DEF CvcPart
<1>2. PICK ys \in Seq(ItemSet) : ys = <<y>>
  BY <1>1, OnesAre, Zenon
<1>3. ASSUME NEW b \in Seq(Byte) PROVE Yields(CvcIn(b), b, p \o q, xs \o ys)
  <2>1. LoopOver(CvcIn(b), b, ItemSet)
    BY CvcGoesOn
  <2>2. Yields(CvcIn(b), b, p, xs) /\ Yields(CvcIn(b), b, q, ys)
    BY <1>1, <1>2, Zenon
  <2> QED BY <1>1, <2>1, <2>2, YieldsBoth, Zenon
<1>4. p \o q \in Seq(Byte) /\ xs \o ys \in Seq(ItemSet)
  BY <1>1
<1> QED BY <1>2, <1>3, <1>4, Zenon

(* Two parts.                                                              *)
LEMMA TwoParts ==
    ASSUME NEW p, NEW x, CvcPart(p, x), NEW q, NEW y, CvcPart(q, y)
    PROVE  ReadsAs(p \o q, <<x, y>>)
<1>1. p \in Seq(Byte) /\ x \in ItemSet /\ \A b \in Seq(Byte) : Yields(CvcIn(b), b, p, <<x>>)
  BY Zenon DEF CvcPart
<1>2. PICK xs \in Seq(ItemSet) : xs = <<x>>
  BY <1>1, OnesAre, Zenon
<1>3. /\ p \o q \in Seq(Byte) /\ xs \o <<y>> \in Seq(ItemSet)
      /\ \A b \in Seq(Byte) : Yields(CvcIn(b), b, p \o q, xs \o <<y>>)
  <2>1. \A b \in Seq(Byte) : Yields(CvcIn(b), b, p, xs)
    BY <1>1, <1>2, Zenon
  <2> QED BY <1>1, <2>1, PartsYield, Zenon
<1>4. y \in ItemSet
  BY Zenon DEF CvcPart
<1>5. xs \o <<y>> = <<x, y>>
  BY <1>1, <1>2, <1>4, OnesAre, Zenon
<1>6. CvcItems(p \o q) = xs \o <<y>>
  BY <1>3, ItemsAre, Zenon
<1> QED BY <1>3, <1>5, <1>6, Zenon DEF ReadsAs

(* Three parts.                                                            *)
LEMMA ThreeParts ==
    ASSUME NEW p, NEW x, CvcPart(p, x), NEW q, NEW y, CvcPart(q, y), NEW r, NEW z, CvcPart(r, z)
    PROVE  ReadsAs((p \o q) \o r, <<x, y, z>>)
<1>1. p \in Seq(Byte) /\ x \in ItemSet /\ \A b \in Seq(Byte) : Yields(CvcIn(b), b, p, <<x>>)
  BY Zenon DEF CvcPart
<1>2. PICK xs \in Seq(ItemSet) : xs = <<x>>
  BY <1>1, OnesAre, Zenon
<1>3. /\ p \o q \in Seq(Byte) /\ xs \o <<y>> \in Seq(ItemSet)
      /\ \A b \in Seq(Byte) : Yields(CvcIn(b), b, p \o q, xs \o <<y>>)
  <2>1. \A b \in Seq(Byte) : Yields(CvcIn(b), b, p, xs)
    BY <1>1, <1>2, Zenon
  <2> QED BY <1>1, <2>1, PartsYield, Zenon
<1>4. y \in ItemSet /\ z \in ItemSet
  BY Zenon DEF CvcPart
<1>5. (xs \o <<y>>) \o <<z>> = <<x, y, z>>
  BY <1>1, <1>2, <1>4, OnesAre, Zenon
<1>6. /\ (p \o q) \o r \in Seq(Byte) /\ (xs \o <<y>>) \o <<z>> \in Seq(ItemSet)
      /\ \A b \in Seq(Byte) : Yields(CvcIn(b), b, (p \o q) \o r, (xs \o <<y>>) \o <<z>>)
  BY <1>3, PartsYield, Zenon
<1>7. CvcItems((p \o q) \o r) = (xs \o <<y>>) \o <<z>>
  BY <1>6, ItemsAre, Zenon
<1> QED BY <1>5, <1>6, <1>7, Zenon DEF ReadsAs

(* What a tag and a length add to a value.                                 *)
LEMMA TlvLength ==
    ASSUME NEW tag \in Seq(Byte), Len(tag) <= 2, NEW s \in Seq(Byte), Len(s) < 256
    PROVE  Tlv(tag, s) \in Seq(Byte) /\ Len(Tlv(tag, s)) <= Len(s) + 4
<1>1. Len(s) \in Nat /\ Len(tag) \in Nat
  BY LenProperties
<1>2. PICK d \in Seq(Byte) : /\ d = (IF Len(s) < 128 THEN <<Len(s)>> ELSE <<129, Len(s)>>)
                             /\ Len(d) \in Nat /\ Len(d) <= 2
  <2>1. Len(s) \in Byte /\ 129 \in Byte
    <3>1. \A k \in Nat : k < 256 => k \in Byte
      BY DEF Byte
    <3> QED BY <1>1, <3>1
  <2>2. <<Len(s)>> \in Seq(Byte) /\ Len(<<Len(s)>>) \in Nat /\ Len(<<Len(s)>>) <= 2
    BY <2>1
  <2>3. <<129, Len(s)>> \in Seq(Byte) /\ Len(<<129, Len(s)>>) \in Nat /\ Len(<<129, Len(s)>>) <= 2
    BY <2>1
  <2> QED BY <2>2, <2>3
<1>3. Tlv(tag, s) = (tag \o d) \o s
  BY <1>2 DEF Tlv
<1>4. (tag \o d) \o s \in Seq(Byte) /\ Len((tag \o d) \o s) = Len(tag) + Len(d) + Len(s)
  BY <1>1, <1>2
<1> QED BY <1>1, <1>2, <1>3, <1>4

(* The holder is read out of the bytes around it.                          *)
LEMMA HolderIsRead ==
    \E h \in Seq(Byte) : h = (<< 1 >> \o HolderText) \o << 0 >> /\ Len(h) = 6 /\ CvcAsciiRuns(h) = {HolderText}
<1>1. PICK t \in Seq(Byte) : t = HolderText /\ Len(t) = 4 /\ t[1] = 66 /\ t[2] = 69 /\ t[3] = 83 /\ t[4] = 51
  <2>1. 66 \in Byte /\ 69 \in Byte /\ 83 \in Byte /\ 51 \in Byte
    BY DEF Byte
  <2>2. HolderText \in Seq(Byte)
    BY <2>1 DEF HolderText
  <2>3. Len(HolderText) = 4
    BY DEF HolderText
  <2>4. HolderText[1] = 66 /\ HolderText[2] = 69 /\ HolderText[3] = 83 /\ HolderText[4] = 51
    BY DEF HolderText
  <2> QED BY <2>2, <2>3, <2>4
<1>2. PICK h \in Seq(Byte) : /\ h = (<<1>> \o t) \o <<0>> /\ Len(h) = 6 /\ h[1] = 1 /\ h[6] = 0
                             /\ h[2] = t[1] /\ h[3] = t[2] /\ h[4] = t[3] /\ h[5] = t[4]
  <2>1. 0 \in Byte /\ 1 \in Byte
    BY DEF Byte
  <2>2. <<1>> \in Seq(Byte) /\ <<0>> \in Seq(Byte) /\ Len(<<1>>) = 1 /\ Len(<<0>>) = 1 /\ <<1>>[1] = 1 /\ <<0>>[1] = 0
    BY <2>1
  <2>3. PICK a \in Seq(Byte) : a = <<1>> /\ Len(a) = 1 /\ a[1] = 1
    BY <2>2
  <2>4. PICK z \in Seq(Byte) : z = <<0>> /\ Len(z) = 1 /\ z[1] = 0
    BY <2>2
  <2>8. \A u, v \in Seq(Byte) : /\ u \o v \in Seq(Byte) /\ Len(u \o v) = Len(u) + Len(v)
                                /\ \A i \in 1..Len(u) : (u \o v)[i] = u[i]
                                /\ \A i \in 1..Len(v) : (u \o v)[Len(u) + i] = v[i]
    OBVIOUS
  <2>5. PICK m \in Seq(Byte) : m = a \o t /\ Len(m) = 5 /\ m[1] = 1 /\ m[2] = t[1] /\ m[3] = t[2] /\ m[4] = t[3] /\ m[5] = t[4]
    <3>1. PICK m \in Seq(Byte) : /\ m = a \o t /\ Len(m) = Len(a) + Len(t)
                                 /\ \A i \in 1..Len(a) : m[i] = a[i]
                                 /\ \A i \in 1..Len(t) : m[Len(a) + i] = t[i]
      BY <2>8, Zenon
    <3>2. Len(m) = 5 /\ m[1] = 1
      BY <1>1, <2>3, <3>1
    <3>3. \A i \in 1..4 : m[1 + i] = t[i]
      BY <1>1, <2>3, <3>1
    <3>4. m[2] = t[1] /\ m[3] = t[2] /\ m[4] = t[3] /\ m[5] = t[4]
      BY <3>3
    <3> QED BY <3>1, <3>2, <3>4, Zenon
  <2>6. PICK h \in Seq(Byte) : /\ h = m \o z /\ Len(h) = 6 /\ h[1] = m[1] /\ h[2] = m[2] /\ h[3] = m[3]
                               /\ h[4] = m[4] /\ h[5] = m[5] /\ h[6] = 0
    <3>1. PICK h \in Seq(Byte) : /\ h = m \o z /\ Len(h) = Len(m) + Len(z)
                                 /\ \A i \in 1..Len(m) : h[i] = m[i]
                                 /\ \A i \in 1..Len(z) : h[Len(m) + i] = z[i]
      BY <2>8, Zenon
    <3>2. \A i \in 1..5 : h[i] = m[i]
      BY <2>5, <3>1
    <3>3. Len(h) = 6 /\ h[5 + 1] = z[1]
      BY <2>4, <2>5, <3>1
    <3>4. h[1] = m[1] /\ h[2] = m[2] /\ h[3] = m[3] /\ h[4] = m[4] /\ h[5] = m[5]
      BY <3>2
    <3>5. h[6] = 0
      BY <2>4, <3>3
    <3> QED BY <3>1, <3>3, <3>4, <3>5, Zenon
  <2>7. h = (<<1>> \o t) \o <<0>>
    BY <2>3, <2>4, <2>5, <2>6, Zenon
  <2> QED BY <2>5, <2>6, <2>7
<1> DEFINE printable == {i \in DOMAIN h : h[i] \in 32..126}
           Run(i, j) == /\ i..j \subseteq printable /\ i - 1 \notin printable /\ j + 1 \notin printable
                        /\ j - i >= 3
<1>3. printable = 2..5
  <2>1. DOMAIN h = 1..6
    BY <1>2, LenProperties
  <2>2. h[1] \notin 32..126 /\ h[6] \notin 32..126
    <3>1. 1 \notin 32..126 /\ 0 \notin 32..126
      OBVIOUS
    <3> QED BY <1>2, <3>1, Zenon
  <2>3. h[2] \in 32..126 /\ h[3] \in 32..126 /\ h[4] \in 32..126 /\ h[5] \in 32..126
    BY <1>1, <1>2
  <2>4. \A i \in 1..6 : i = 1 \/ i = 2 \/ i = 3 \/ i = 4 \/ i = 5 \/ i = 6
    OBVIOUS
  <2>7. 1 \notin 2..5 /\ 6 \notin 2..5 /\ 2 \in 2..5 /\ 3 \in 2..5 /\ 4 \in 2..5 /\ 5 \in 2..5
    OBVIOUS
  <2>5. \A i \in 1..6 : h[i] \in 32..126 <=> i \in 2..5
    BY <2>2, <2>3, <2>4, <2>7, Zenon
  <2>6. printable = {i \in 1..6 : i \in 2..5}
    BY <2>1, <2>5
  <2> HIDE DEF printable
  <2> QED BY <2>6
<1>4. CvcAsciiRuns(h) = {SubSeq(h, run[1], run[2]) :
                           run \in {q \in printable \X printable : q[1] <= q[2] /\ Run(q[1], q[2])}}
  BY Zenon DEF CvcAsciiRuns
<1>5. {q \in printable \X printable : q[1] <= q[2] /\ Run(q[1], q[2])} = {<<2, 5>>}
  <2>1. ASSUME NEW q \in printable \X printable, q[1] <= q[2] /\ Run(q[1], q[2]) PROVE q = <<2, 5>>
    <3>1. PICK i \in 2..5, j \in 2..5 : q = <<i, j>>
      BY <1>3
    <3>2. j - i >= 3
      BY <2>1, <3>1
    <3> QED BY <3>1, <3>2
  <2>2. <<2, 5>> \in printable \X printable
    BY <1>3
  <2>3. 2 <= 5 /\ Run(2, 5)
    <3>1. 2..5 \subseteq printable /\ 2 - 1 \notin printable /\ 5 + 1 \notin printable
      <4> HIDE DEF printable
      <4> QED BY <1>3
    <3> HIDE DEF printable
    <3>2. 2 <= 5 /\ 5 - 2 >= 3
      OBVIOUS
    <3> QED BY <3>1, <3>2, Zenon
  <2>4. \A q : q = <<2, 5>> => q[1] = 2 /\ q[2] = 5
    OBVIOUS
  <2> HIDE DEF Run, printable
  <2> QED BY <2>1, <2>2, <2>3, <2>4, Zenon
<1>6. CvcAsciiRuns(h) = {SubSeq(h, 2, 5)}
  <2>1. \A q : q = <<2, 5>> => q[1] = 2 /\ q[2] = 5
    OBVIOUS
  <2> HIDE DEF Run, printable
  <2> QED BY <1>4, <1>5, <2>1, Zenon
<1>7. SubSeq(h, 2, 5) = t
  <2>1. Has(h, 2, t)
    BY <1>1, <1>2 DEF Has
  <2>2. 2 + Len(t) - 1 = 5
    BY <1>1
  <2>3. SubSeq(h, 2, 2 + Len(t) - 1) = t
    BY <2>1, HasSub, Zenon
  <2> QED BY <2>2, <2>3, Zenon
<1>8. h = (<<1>> \o HolderText) \o <<0>> /\ CvcAsciiRuns(h) = {HolderText}
  BY <1>1, <1>2, <1>6, <1>7, Zenon
<1> QED BY <1>2, <1>8, Zenon

Contents(xs) ==
    /\ CvcHolder(xs) = {HolderText} /\ CvcDate(CvcFind(xs, 24357)) = ValidFrom
    /\ CvcDate(CvcFind(xs, 24356)) = None

BodyBytes == (Tlv(<<66>>, <<1, 2>>) \o Tlv(<<95, 32>>, (<<1>> \o HolderText) \o <<0>>)) \o Tlv(<<95, 37>>, ValidFrom)

(* An item is not null.                                                    *)
LEMMA ItemIsSomething ==
    ASSUME NEW x \in ItemSet
    PROVE  x # None
<1>1. None \notin ItemSet
  BY CvcAssumption DEF ItemSet, Byte
<1> QED BY <1>1

FindsThree(xs, x, y, z) ==
    /\ \A n : (x.tag # n /\ y.tag = n => CvcFind(xs, n) = y)
    /\ \A n : (x.tag # n /\ y.tag # n /\ z.tag = n => CvcFind(xs, n) = z)
    /\ \A n : (x.tag # n /\ y.tag # n /\ z.tag # n => CvcFind(xs, n) = None)

(* What is found in three items.                                           *)
LEMMA ThirdIsFound ==
    ASSUME NEW x \in ItemSet, NEW y \in ItemSet, NEW z \in ItemSet
    PROVE  \E xs \in Seq(ItemSet) : xs = <<x, y, z>> /\ FindsThree(xs, x, y, z)
<1>1. PICK xs \in Seq(ItemSet) : xs = <<x, y, z>>
  BY OnesAre, Zenon
<1>2. DOMAIN xs = 1..3 /\ xs[1] = x /\ xs[2] = y /\ xs[3] = z
  BY <1>1
<1>3. \A k \in 1..3 : k = 1 \/ k = 2 \/ k = 3
  OBVIOUS
<1>4. 2 \in 1..3 /\ 3 \in 1..3
  OBVIOUS
<1>5. ASSUME NEW n, x.tag # n, y.tag = n PROVE CvcFind(xs, n) = y
  <2>1. \A j \in 1..(2 - 1) : xs[j].tag # n
    <3>1. \A j \in 1..(2 - 1) : j = 1
      OBVIOUS
    <3> QED BY <1>2, <1>5, <3>1, Zenon
  <2>2. 2 \in DOMAIN xs /\ xs[2].tag = n
    BY <1>2, <1>4, <1>5, Zenon
  <2> QED BY <1>2, <2>1, <2>2, FirstIsFound, Zenon
<1>6. ASSUME NEW n, x.tag # n, y.tag # n, z.tag = n PROVE CvcFind(xs, n) = z
  <2>1. \A j \in 1..(3 - 1) : xs[j].tag # n
    <3>1. \A j \in 1..(3 - 1) : j = 1 \/ j = 2
      OBVIOUS
    <3> QED BY <1>2, <1>6, <3>1, Zenon
  <2>2. 3 \in DOMAIN xs /\ xs[3].tag = n
    BY <1>2, <1>4, <1>6, Zenon
  <2> QED BY <1>2, <2>1, <2>2, FirstIsFound, Zenon
<1>7. ASSUME NEW n, x.tag # n, y.tag # n, z.tag # n PROVE CvcFind(xs, n) = None
  <2>1. \A k \in DOMAIN xs : xs[k].tag # n
    BY <1>2, <1>3, <1>7, Zenon
  <2> QED BY <2>1, NoneIsFound, Zenon
<1> QED BY <1>1, <1>5, <1>6, <1>7, Zenon DEF FindsThree

(* What is read of the body.                                               *)
LEMMA BodyIsRead ==
    \E body \in Seq(Byte) : body = BodyBytes /\ Len(body) <= 30 /\ Contents(CvcItems(body))
<1>1. PICK t1 \in Seq(Byte) : t1 = <<66>> /\ Len(t1) = 1 /\ IsTag(t1, 66, FALSE)
  BY KeyTagIs, Zenon
<1>32. PICK n2 \in Nat : n2 = 24352
  OBVIOUS
<1>2. PICK t2 \in Seq(Byte), f2 \in BOOLEAN : t2 = <<95, 32>> /\ Len(t2) = 2 /\ IsTag(t2, n2, f2)
  <2>1. 95 \in {95, 127} /\ 32 \in Byte /\ n2 = 256 * 95 + 32
    BY <1>32 DEF Byte
  <2>2. \E tag \in Seq(Byte), flag \in BOOLEAN :
           tag = <<95, 32>> /\ Len(tag) = 2 /\ (flag <=> 95 = 127) /\ IsTag(tag, n2, flag)
    BY <2>1, LongTagsAre
  <2> QED BY <2>2, Zenon
<1>33. PICK n3 \in Nat : n3 = 24357
  OBVIOUS
<1>3. PICK t3 \in Seq(Byte), f3 \in BOOLEAN : t3 = <<95, 37>> /\ Len(t3) = 2 /\ IsTag(t3, n3, f3)
  <2>1. 95 \in {95, 127} /\ 37 \in Byte /\ n3 = 256 * 95 + 37
    BY <1>33 DEF Byte
  <2>2. \E tag \in Seq(Byte), flag \in BOOLEAN :
           tag = <<95, 37>> /\ Len(tag) = 2 /\ (flag <=> 95 = 127) /\ IsTag(tag, n3, flag)
    BY <2>1, LongTagsAre
  <2> QED BY <2>2, Zenon
<1>4. PICK s1 \in Seq(Byte) : s1 = <<1, 2>> /\ Len(s1) = 2
  <2>1. 1 \in Byte /\ 2 \in Byte
    BY DEF Byte
  <2>2. <<1, 2>> \in Seq(Byte) /\ Len(<<1, 2>>) = 2
    BY <2>1
  <2> QED BY <2>2, Zenon
<1>5. PICK s2 \in Seq(Byte) : s2 = (<<1>> \o HolderText) \o <<0>> /\ Len(s2) = 6 /\ CvcAsciiRuns(s2) = {HolderText}
  BY HolderIsRead
<1>6. PICK s3 \in Seq(Byte) : s3 = ValidFrom /\ Len(s3) = 6
  <2>1. 0 \in Byte /\ 1 \in Byte /\ 2 \in Byte /\ 3 \in Byte
    BY DEF Byte
  <2>2. ValidFrom \in Seq(Byte)
    BY <2>1 DEF ValidFrom
  <2>3. Len(ValidFrom) = 6
    BY DEF ValidFrom
  <2> QED BY <2>2, <2>3
<1>7. Len(s1) < 256 /\ Len(s2) < 256 /\ Len(s3) < 256 /\ Len(t1) <= 2 /\ Len(t2) <= 2 /\ Len(t3) <= 2
  BY <1>1, <1>2, <1>3, <1>4, <1>5, <1>6
<1>8. PICK p1 \in Seq(Byte) : p1 = Tlv(t1, s1) /\ Len(p1) \in Nat /\ Len(p1) <= 6
  <2>1. Tlv(t1, s1) \in Seq(Byte) /\ Len(Tlv(t1, s1)) <= Len(s1) + 4
    BY <1>7, TlvLength
  <2> QED BY <1>4, <2>1, LenProperties
<1>9. PICK p2 \in Seq(Byte) : p2 = Tlv(t2, s2) /\ Len(p2) \in Nat /\ Len(p2) <= 10
  <2>1. Tlv(t2, s2) \in Seq(Byte) /\ Len(Tlv(t2, s2)) <= Len(s2) + 4
    BY <1>7, TlvLength
  <2> QED BY <1>5, <2>1, LenProperties
<1>10. PICK p3 \in Seq(Byte) : p3 = Tlv(t3, s3) /\ Len(p3) \in Nat /\ Len(p3) <= 10
  <2>1. Tlv(t3, s3) \in Seq(Byte) /\ Len(Tlv(t3, s3)) <= Len(s3) + 4
    BY <1>7, TlvLength
  <2> QED BY <1>6, <2>1, LenProperties
<1>27. IsTag(t2, n2, f2) /\ IsTag(t3, n3, f3)
  BY <1>2, <1>3
<1>28. ShortPart(s1) /\ ShortPart(s2) /\ ShortPart(s3)
  BY <1>7 DEF ShortPart
<1>29. p1 = Tlv(t1, s1) /\ p2 = Tlv(t2, s2) /\ p3 = Tlv(t3, s3)
  BY <1>8, <1>9, <1>10
<1>11. PICK x : x = ItemOf(66, FALSE, s1) /\ CvcPart(p1, x)
  <2>1. IsTag(t1, 66, FALSE)
    BY <1>1, Zenon
  <2>2. CvcPart(Tlv(t1, s1), ItemOf(66, FALSE, s1))
    BY <1>28, <2>1, TlvIsPart, Zenon
  <2> QED BY <1>29, <2>2, Zenon
<1>12. PICK y : y = ItemOf(n2, f2, s2) /\ CvcPart(p2, y)
  <2>2. CvcPart(Tlv(t2, s2), ItemOf(n2, f2, s2))
    BY <1>27, <1>28, TlvIsPart, Zenon
  <2> QED BY <1>29, <2>2, Zenon
<1>13. PICK z : z = ItemOf(n3, f3, s3) /\ CvcPart(p3, z)
  <2>2. CvcPart(Tlv(t3, s3), ItemOf(n3, f3, s3))
    BY <1>27, <1>28, TlvIsPart, Zenon
  <2> QED BY <1>29, <2>2, Zenon
<1>14. CvcItems((p1 \o p2) \o p3) = <<x, y, z>>
  <2>1. CvcPart(p1, x) /\ CvcPart(p2, y) /\ CvcPart(p3, z)
    BY <1>11, <1>12, <1>13
  <2>2. ReadsAs((p1 \o p2) \o p3, <<x, y, z>>)
    BY <2>1, ThreeParts, Zenon
  <2> QED BY <2>2, Zenon DEF ReadsAs
<1>15. PICK body \in Seq(Byte) : body = (p1 \o p2) \o p3 /\ Len(body) <= 30
  <2>1. (p1 \o p2) \o p3 \in Seq(Byte) /\ Len((p1 \o p2) \o p3) = Len(p1) + Len(p2) + Len(p3)
    OBVIOUS
  <2>2. Len(p1) + Len(p2) + Len(p3) <= 30
    BY <1>8, <1>9, <1>10
  <2> QED BY <2>1, <2>2
<1>16. body = BodyBytes
  <2>1. p1 = Tlv(<<66>>, <<1, 2>>)
    BY <1>1, <1>4, <1>8, Zenon
  <2>2. p2 = Tlv(<<95, 32>>, (<<1>> \o HolderText) \o <<0>>)
    BY <1>2, <1>5, <1>9
  <2>3. p3 = Tlv(<<95, 37>>, ValidFrom)
    BY <1>3, <1>6, <1>10
  <2> QED BY <1>15, <2>1, <2>2, <2>3, Zenon DEF BodyBytes
<1>17. x \in ItemSet /\ y \in ItemSet /\ z \in ItemSet
  BY <1>11, <1>12, <1>13, Zenon DEF CvcPart
<1>18. x.tag = 66 /\ y.tag = n2 /\ y.value = s2 /\ z.tag = n3 /\ z.value = s3
  BY <1>11, <1>12, <1>13 DEF ItemOf
<1>19. PICK xs \in Seq(ItemSet) : xs = <<x, y, z>> /\ FindsThree(xs, x, y, z)
  BY <1>17, ThirdIsFound, Zenon
<1>20. CvcFind(xs, 24352) = y
  <2>1. x.tag # n2 /\ y.tag = n2
    BY <1>32, <1>18
  <2>2. CvcFind(xs, n2) = y
    BY <1>19, <2>1, Zenon DEF FindsThree
  <2> QED BY <1>32, <2>2
<1>21. CvcFind(xs, 24357) = z
  <2>1. x.tag # n3 /\ y.tag # n3 /\ z.tag = n3
    BY <1>32, <1>33, <1>18
  <2>2. CvcFind(xs, n3) = z
    BY <1>19, <2>1, Zenon DEF FindsThree
  <2> QED BY <1>33, <2>2
<1>22. CvcFind(xs, 24356) = None
  <2>1. PICK m : m = 24356
    OBVIOUS
  <2>2. x.tag # m /\ y.tag # m /\ z.tag # m
    BY <1>32, <1>33, <1>18, <2>1
  <2>3. CvcFind(xs, m) = None
    BY <1>19, <2>2, Zenon DEF FindsThree
  <2> QED BY <2>1, <2>3
<1>23. y # None /\ z # None
  BY <1>17, ItemIsSomething
<1>24. CvcHolder(xs) = {HolderText}
  <2>1. CvcHolder(xs) = CvcAsciiRuns(ValueOf(y))
    BY <1>20 DEF CvcHolder
  <2>2. ValueOf(y) = s2
    BY <1>18, <1>23, Zenon DEF ValueOf
  <2> QED BY <1>5, <2>1, <2>2, Zenon
<1>25. CvcDate(z) = ValidFrom /\ CvcDate(None) = None
  <2>1. ValueOf(z) = s3
    BY <1>18, <1>23, Zenon DEF ValueOf
  <2>2. Len(ValueOf(z)) = 6
    BY <1>6, <2>1, Zenon
  <2> QED BY <1>6, <1>18, <1>23, <2>2, Zenon DEF CvcDate
<1>26. Contents(xs)
  BY <1>21, <1>22, <1>24, <1>25 DEF Contents
<1> QED BY <1>14, <1>15, <1>16, <1>19, <1>26, Zenon

FindsTwo(xs, x, y) ==
    /\ \A n : (x.tag = n => CvcFind(xs, n) = x)
    /\ \A n : (x.tag # n /\ y.tag = n => CvcFind(xs, n) = y)

(* What is found in two items, and in one.                                 *)
LEMMA SecondIsFound ==
    ASSUME NEW x \in ItemSet, NEW y \in ItemSet
    PROVE  \E xs \in Seq(ItemSet) : xs = <<x, y>> /\ FindsTwo(xs, x, y)
<1>1. PICK xs \in Seq(ItemSet) : xs = <<x, y>>
  <2>1. <<x, y>> \in Seq(ItemSet)
    OBVIOUS
  <2> QED BY <2>1, Zenon
<1>2. DOMAIN xs = 1..2 /\ xs[1] = x /\ xs[2] = y
  BY <1>1
<1>3. 1 \in 1..2 /\ 2 \in 1..2
  OBVIOUS
<1>4. ASSUME NEW n, x.tag = n PROVE CvcFind(xs, n) = x
  <2>1. \A j \in 1..(1 - 1) : xs[j].tag # n
    OBVIOUS
  <2>2. 1 \in DOMAIN xs /\ xs[1].tag = n
    BY <1>2, <1>3, <1>4, Zenon
  <2> QED BY <1>2, <2>1, <2>2, FirstIsFound, Zenon
<1>5. ASSUME NEW n, x.tag # n, y.tag = n PROVE CvcFind(xs, n) = y
  <2>1. \A j \in 1..(2 - 1) : xs[j].tag # n
    <3>1. \A j \in 1..(2 - 1) : j = 1
      OBVIOUS
    <3> QED BY <1>2, <1>5, <3>1, Zenon
  <2>2. 2 \in DOMAIN xs /\ xs[2].tag = n
    BY <1>2, <1>3, <1>5, Zenon
  <2> QED BY <1>2, <2>1, <2>2, FirstIsFound, Zenon
<1> QED BY <1>1, <1>4, <1>5, Zenon DEF FindsTwo

(* The only item is found by its tag.                                      *)
LEMMA OnlyIsFound ==
    ASSUME NEW x \in ItemSet
    PROVE  CvcFind(<<x>>, x.tag) = x
<1>1. PICK xs \in Seq(ItemSet) : xs = <<x>>
  BY OnesAre, Zenon
<1>2. DOMAIN xs = 1..1 /\ xs[1] = x /\ 1 \in 1..1
  BY <1>1
<1>3. \A j \in 1..(1 - 1) : xs[j].tag # x.tag
  OBVIOUS
<1>4. CvcFind(xs, x.tag) = xs[1]
  BY <1>2, <1>3, FirstIsFound, Zenon
<1> QED BY <1>1, <1>2, <1>4, Zenon

Signature == [k \in 1..200 |-> k]

InnerBytes == Tlv(<<127, 78>>, BodyBytes) \o Tlv(<<95, 55>>, Signature)

Inside(parts) ==
    /\ CvcFind(parts, 32590) # None /\ Contents(CvcItems(ValueOf(CvcFind(parts, 32590))))
    /\ Len(ValueOf(CvcFind(parts, 24375))) = 200

(* What is read of the body and the signature.                             *)
LEMMA InnerIsRead ==
    \E inner \in Seq(Byte) : inner = InnerBytes /\ ShortPart(inner) /\ Len(inner) <= 240 /\ Inside(CvcItems(inner))
<1>1. PICK body \in Seq(Byte) : body = BodyBytes /\ Len(body) <= 30 /\ Contents(CvcItems(body))
  BY BodyIsRead
<1>2. PICK n1 \in Nat : n1 = 32590
  OBVIOUS
<1>3. PICK t1 \in Seq(Byte), f1 \in BOOLEAN : t1 = <<127, 78>> /\ Len(t1) = 2 /\ IsTag(t1, n1, f1)
  <2>1. 127 \in {95, 127} /\ 78 \in Byte /\ n1 = 256 * 127 + 78
    BY <1>2 DEF Byte
  <2>2. \E tag \in Seq(Byte), flag \in BOOLEAN :
           tag = <<127, 78>> /\ Len(tag) = 2 /\ (flag <=> 127 = 127) /\ IsTag(tag, n1, flag)
    BY <2>1, LongTagsAre
  <2> QED BY <2>2, Zenon
<1>4. PICK n2 \in Nat : n2 = 24375
  OBVIOUS
<1>5. PICK t2 \in Seq(Byte), f2 \in BOOLEAN : t2 = <<95, 55>> /\ Len(t2) = 2 /\ IsTag(t2, n2, f2)
  <2>1. 95 \in {95, 127} /\ 55 \in Byte /\ n2 = 256 * 95 + 55
    BY <1>4 DEF Byte
  <2>2. \E tag \in Seq(Byte), flag \in BOOLEAN :
           tag = <<95, 55>> /\ Len(tag) = 2 /\ (flag <=> 95 = 127) /\ IsTag(tag, n2, flag)
    BY <2>1, LongTagsAre
  <2> QED BY <2>2, Zenon
<1>6. PICK s \in Seq(Byte) : s = Signature /\ Len(s) = 200
  <2>1. Signature \in [1..200 -> Byte]
    <3>1. \A k \in 1..200 : k \in Byte
      BY DEF Byte
    <3> QED BY <3>1 DEF Signature
  <2>2. 200 \in Nat
    OBVIOUS
  <2>3. \A n \in Nat : \A f \in [1..n -> Byte] : f \in Seq(Byte) /\ Len(f) = n
    BY DEF Byte
  <2>4. Signature \in Seq(Byte) /\ Len(Signature) = 200
    BY <2>1, <2>2, <2>3
  <2> QED BY <2>4
<1>7. Len(body) < 256 /\ Len(s) < 256 /\ Len(t1) <= 2 /\ Len(t2) <= 2 /\ Len(body) \in Nat /\ Len(s) \in Nat
  BY <1>1, <1>3, <1>5, <1>6, LenProperties
<1>8. ShortPart(body) /\ ShortPart(s)
  BY <1>7 DEF ShortPart
<1>9. PICK p1 \in Seq(Byte) : p1 = Tlv(t1, body) /\ Len(p1) \in Nat /\ Len(p1) <= 34
  <2>1. Tlv(t1, body) \in Seq(Byte) /\ Len(Tlv(t1, body)) <= Len(body) + 4
    BY <1>7, TlvLength
  <2> QED BY <1>1, <1>7, <2>1, LenProperties
<1>10. PICK p2 \in Seq(Byte) : p2 = Tlv(t2, s) /\ Len(p2) \in Nat /\ Len(p2) <= 204
  <2>1. Tlv(t2, s) \in Seq(Byte) /\ Len(Tlv(t2, s)) <= Len(s) + 4
    BY <1>7, TlvLength
  <2> QED BY <1>6, <1>7, <2>1, LenProperties
<1>11. p1 = Tlv(t1, body) /\ p2 = Tlv(t2, s) /\ IsTag(t1, n1, f1) /\ IsTag(t2, n2, f2)
  BY <1>3, <1>5, <1>9, <1>10
<1>12. PICK x : x = ItemOf(n1, f1, body) /\ CvcPart(p1, x)
  <2>1. CvcPart(Tlv(t1, body), ItemOf(n1, f1, body))
    BY <1>8, <1>11, TlvIsPart, Zenon
  <2> QED BY <1>11, <2>1, Zenon
<1>13. PICK y : y = ItemOf(n2, f2, s) /\ CvcPart(p2, y)
  <2>1. CvcPart(Tlv(t2, s), ItemOf(n2, f2, s))
    BY <1>8, <1>11, TlvIsPart, Zenon
  <2> QED BY <1>11, <2>1, Zenon
<1>14. CvcItems(p1 \o p2) = <<x, y>>
  <2>1. ReadsAs(p1 \o p2, <<x, y>>)
    BY <1>12, <1>13, TwoParts, Zenon
  <2> QED BY <2>1, Zenon DEF ReadsAs
<1>15. PICK inner \in Seq(Byte) : inner = p1 \o p2 /\ Len(inner) <= 240
  <2>1. p1 \o p2 \in Seq(Byte) /\ Len(p1 \o p2) = Len(p1) + Len(p2)
    OBVIOUS
  <2>2. Len(p1) + Len(p2) <= 240
    BY <1>9, <1>10
  <2> QED BY <2>1, <2>2
<1>16. inner = InnerBytes
  <2>1. p1 = Tlv(<<127, 78>>, BodyBytes)
    BY <1>1, <1>3, <1>9
  <2>2. p2 = Tlv(<<95, 55>>, Signature)
    BY <1>5, <1>6, <1>10
  <2> QED BY <1>15, <2>1, <2>2, Zenon DEF InnerBytes
<1>17. x \in ItemSet /\ y \in ItemSet
  BY <1>12, <1>13, Zenon DEF CvcPart
<1>18. x.tag = n1 /\ x.value = body /\ y.tag = n2 /\ y.value = s
  BY <1>12, <1>13 DEF ItemOf
<1>19. PICK xs \in Seq(ItemSet) : xs = <<x, y>> /\ FindsTwo(xs, x, y)
  BY <1>17, SecondIsFound, Zenon
<1>20. CvcFind(xs, 32590) = x
  <2>1. CvcFind(xs, n1) = x
    BY <1>18, <1>19, Zenon DEF FindsTwo
  <2> QED BY <1>2, <2>1
<1>21. CvcFind(xs, 24375) = y
  <2>1. x.tag # n2 /\ y.tag = n2
    BY <1>2, <1>4, <1>18
  <2>2. CvcFind(xs, n2) = y
    BY <1>19, <2>1, Zenon DEF FindsTwo
  <2> QED BY <1>4, <2>2
<1>22. x # None /\ y # None
  BY <1>17, ItemIsSomething
<1>23. ValueOf(x) = body /\ ValueOf(y) = s
  BY <1>18, <1>22, Zenon DEF ValueOf
<1>24. Inside(xs)
  BY <1>1, <1>6, <1>20, <1>21, <1>22, <1>23 DEF Inside
<1>25. ShortPart(inner)
  <2>1. Len(inner) < 256
    BY <1>15, LenProperties
  <2> QED BY <2>1 DEF ShortPart
<1>26. Inside(CvcItems(inner))
  BY <1>14, <1>15, <1>19, <1>24, Zenon
<1> QED BY <1>15, <1>16, <1>25, <1>26

\* An item that holds what a certificate consists of.
Opens(x) == x # None /\ x.constructed /\ Inside(CvcItems(x.value))

\* What is read of a certificate: the one item it consists of.
Whole(outer) ==
    /\ outer \in Seq(Byte) /\ Len(outer) <= 244 /\ Len(outer) >= 2
    /\ ByteAt(outer, 1) = 127 /\ ByteAt(outer, 2) = 33
    /\ Opens(CvcFind(CvcItems(outer), 32545))

(* The item around it.                                                     *)
LEMMA OuterIsRead ==
    \E outer : outer = Tlv(<<127, 33>>, InnerBytes) /\ Whole(outer)
<1>1. PICK inner \in Seq(Byte) : inner = InnerBytes /\ ShortPart(inner) /\ Len(inner) <= 240 /\ Inside(CvcItems(inner))
  BY InnerIsRead
<1>2. PICK n \in Nat : n = 32545
  OBVIOUS
<1>3. PICK t \in Seq(Byte), f \in BOOLEAN : t = <<127, 33>> /\ Len(t) = 2 /\ f /\ IsTag(t, n, f)
  <2>1. 127 \in {95, 127} /\ 33 \in Byte /\ n = 256 * 127 + 33
    BY <1>2 DEF Byte
  <2>2. \E tag \in Seq(Byte), flag \in BOOLEAN :
           tag = <<127, 33>> /\ Len(tag) = 2 /\ (flag <=> 127 = 127) /\ IsTag(tag, n, flag)
    BY <2>1, LongTagsAre
  <2> QED BY <2>2, Zenon
<1>4. t[1] = 127 /\ t[2] = 33
  BY <1>3
<1>5. IsTag(t, n, f)
  BY <1>3
<1>6. PICK x : x = ItemOf(n, f, inner) /\ CvcPart(Tlv(t, inner), x)
  BY <1>1, <1>5, TlvIsPart
<1>7. PICK outer \in Seq(Byte) : outer = Tlv(t, inner) /\ Len(outer) <= 244
  <2>1. Len(inner) < 256 /\ Len(t) <= 2 /\ Len(inner) \in Nat
    BY <1>1, <1>3, LenProperties
  <2>2. Tlv(t, inner) \in Seq(Byte) /\ Len(Tlv(t, inner)) <= Len(inner) + 4
    BY <2>1, TlvLength
  <2>3. Len(Tlv(t, inner)) \in Nat
    BY <2>2, LenProperties
  <2> QED BY <1>1, <2>1, <2>2, <2>3
<1>8. Len(outer) >= 2 /\ outer[1] = t[1] /\ outer[2] = t[2]
  <2>1. PICK l : l = IF Len(inner) < 128 THEN <<Len(inner)>> ELSE <<129, Len(inner)>>
    OBVIOUS
  <2>2. l \in Seq(Byte)
    <3>1. Len(inner) \in Nat /\ Len(inner) < 256
      BY <1>1, LenProperties
    <3>2. \A k \in Nat : k < 256 => k \in Byte
      BY DEF Byte
    <3>3. Len(inner) \in Byte /\ 129 \in Byte
      BY <3>1, <3>2
    <3>4. <<Len(inner)>> \in Seq(Byte) /\ <<129, Len(inner)>> \in Seq(Byte)
      BY <3>3
    <3> QED BY <2>1, <3>4
  <2>3. Len(inner) < 256
    BY <1>1, LenProperties
  <2>4. Tlv(t, inner) = (t \o l) \o inner
    BY <2>1, <2>3 DEF Tlv
  <2>5. Has(outer, 1, outer)
    BY HasItself
  <2>6. Has(outer, 1, (t \o l) \o inner)
    BY <1>7, <2>4, <2>5, Zenon
  <2>7. \A u, v \in Seq(Byte) : Has(outer, 1, u \o v) => Has(outer, 1, u)
    BY HasParts, Zenon
  <2>8. t \o l \in Seq(Byte)
    BY <2>2
  <2>9. Has(outer, 1, t)
    BY <2>2, <2>6, <2>7, <2>8, Zenon
  <2>10. \A k \in 1..Len(t) : outer[1 + k - 1] = t[k]
    BY <2>9, Zenon DEF Has
  <2>11. 1 + Len(t) <= Len(outer) + 1
    BY <2>9, Zenon DEF Has
  <2> QED BY <1>3, <2>10, <2>11, LenProperties
<1>9. ByteAt(outer, 1) = 127 /\ ByteAt(outer, 2) = 33
  BY <1>4, <1>8, LenProperties DEF ByteAt
<1>10. x \in ItemSet
  BY <1>6, Zenon DEF CvcPart
<1>11. CvcItems(outer) = <<x>>
  <2>1. ReadsAs(Tlv(t, inner), <<x>>)
    BY <1>6, OnePart, Zenon
  <2> QED BY <1>7, <2>1, Zenon DEF ReadsAs
<1>12. x.tag = n /\ x.constructed = f /\ x.value = inner
  BY <1>6 DEF ItemOf
<1>13. CvcFind(CvcItems(outer), n) = x
  BY <1>10, <1>11, <1>12, OnlyIsFound, Zenon
<1>14. CvcFind(CvcItems(outer), 32545) = x
  BY <1>2, <1>13
<1>15. x # None
  BY <1>10, ItemIsSomething
<1>16. Whole(outer)
  <2>1. f
    BY <1>3
  <2>2. Inside(CvcItems(inner))
    BY <1>1
  <2>3. Opens(x)
    BY <1>12, <1>15, <2>1, <2>2, Zenon DEF Opens
  <2>4. Opens(CvcFind(CvcItems(outer), 32545))
    BY <1>14, <2>3
  <2> QED BY <1>7, <1>8, <1>9, <2>4 DEF Whole
<1>17. outer = Tlv(<<127, 33>>, InnerBytes)
  BY <1>1, <1>3, <1>7
<1> QED BY <1>16, <1>17, Zenon

CvcReading(holder, from, to, length) ==
    [holder |-> holder, validFrom |-> from, validUntil |-> to, signatureLength |-> length]

AsRead == CvcReading({HolderText}, ValidFrom, None, 200)

(* A certificate is read, with or without a byte before it.                *)
LEMMA CertificateIsRead ==
    ASSUME NEW b \in Seq(Byte), NEW outer, Whole(outer),
           \/ b = outer
           \/ SubSeq(b, 2, Len(b)) = outer /\ ByteAt(b, 1) = 1 /\ ByteAt(b, 2) = 127 /\ ByteAt(b, 3) = 33
    PROVE  ParseCvcCertificate(b) = AsRead
<1> DEFINE start == IF ByteAt(b, 1) # 127 /\ ByteAt(b, 2) = 127 /\ ByteAt(b, 3) = 33 THEN 2 ELSE 1
           cert == CvcFind(CvcItems(SubSeq(b, start, Len(b))), 32545)
           parts == IF cert = None \/ ~cert.constructed THEN <<>> ELSE CvcItems(cert.value)
           body == CvcFind(parts, 32590)
           items == CvcItems(ValueOf(body))
           read == CvcReading(CvcHolder(items), CvcDate(CvcFind(items, 24357)), CvcDate(CvcFind(items, 24356)),
                           Len(ValueOf(CvcFind(parts, 24375))))
<1>1. ParseCvcCertificate(b) = IF body = None THEN None ELSE read
  BY DEF ParseCvcCertificate, CvcReading
<1>2. SubSeq(b, start, Len(b)) = outer
  <2>1. CASE b = outer
    <3>1. start = 1
      BY <2>1 DEF Whole
    <3>2. SubSeq(b, 1, Len(b)) = b
      BY SubSeqFull
    <3> QED BY <2>1, <3>1, <3>2, Zenon
  <2>2. CASE SubSeq(b, 2, Len(b)) = outer /\ ByteAt(b, 1) = 1 /\ ByteAt(b, 2) = 127 /\ ByteAt(b, 3) = 33
    <3>1. start = 2
      BY <2>2
    <3> QED BY <2>2, <3>1, Zenon
  <2> QED BY <2>1, <2>2
<1>3. Opens(cert)
  <2>1. Opens(CvcFind(CvcItems(outer), 32545))
    BY DEF Whole
  <2> HIDE DEF start
  <2> QED BY <1>2, <2>1
<1> HIDE DEF cert, start
<1>4. Inside(parts)
  BY <1>3, Zenon DEF Opens
<1> HIDE DEF parts
<1>5. body # None /\ Contents(items) /\ Len(ValueOf(CvcFind(parts, 24375))) = 200
  BY <1>4 DEF Inside
<1> HIDE DEF body, items
<1>6. /\ CvcHolder(items) = {HolderText} /\ CvcDate(CvcFind(items, 24357)) = ValidFrom
      /\ CvcDate(CvcFind(items, 24356)) = None
  BY <1>5 DEF Contents
<1>7. read = AsRead
  <2>1. PICK two : two = 200
    OBVIOUS
  <2>2. Len(ValueOf(CvcFind(parts, 24375))) = two
    BY <1>5, <2>1
  <2>7. PICK a : a = CvcHolder(items)
    OBVIOUS
  <2>8. PICK f : f = CvcDate(CvcFind(items, 24357))
    OBVIOUS
  <2>9. PICK u : u = CvcDate(CvcFind(items, 24356))
    OBVIOUS
  <2>4. read = CvcReading(a, f, u, two)
    BY <2>2, <2>7, <2>8, <2>9
  <2>5. a = {HolderText} /\ f = ValidFrom /\ u = None
    BY <1>6, <2>7, <2>8, <2>9
  <2>6. read = CvcReading({HolderText}, ValidFrom, None, two)
    BY <2>4, <2>5
  <2> HIDE DEF read
  <2> QED BY <2>1, <2>6 DEF AsRead
<1>8. body # None
  BY <1>5
<1> HIDE DEF read
<1> QED BY <1>1, <1>7, <1>8

(* What is read is not null.                                               *)
LEMMA ReadingIsSomething ==
    AsRead # None
<1>1. HolderText \in Seq(Byte)
  <2>1. 66 \in Byte /\ 69 \in Byte /\ 83 \in Byte /\ 51 \in Byte
    BY DEF Byte
  <2> QED BY <2>1 DEF HolderText
<1>2. ValidFrom \in Seq(Byte)
  <2>1. 0 \in Byte /\ 1 \in Byte /\ 2 \in Byte /\ 3 \in Byte
    BY DEF Byte
  <2> QED BY <2>1 DEF ValidFrom
<1>3. None \notin [holder : SUBSET Seq(Byte), validFrom : Seq(Byte), validUntil : Seq(Byte) \cup {None},
                   signatureLength : Nat]
  BY CvcAssumption, Zenon DEF Byte
<1>4. AsRead
      \in [holder : SUBSET Seq(Byte), validFrom : Seq(Byte), validUntil : Seq(Byte) \cup {None}, signatureLength : Nat]
  BY <1>1, <1>2 DEF AsRead, CvcReading
<1> QED BY <1>3, <1>4, Zenon

(* The bytes of a certificate.                                             *)
LEMMA CertificateBytesAre ==
    ASSUME NEW v \in {<<>>, << 1 >>}
    PROVE  \E b \in Seq(Byte) :
               /\ b = CertificateBytesOf(v) /\ Len(b) <= 250 /\ Len(b) \in Nat
               /\ CertificateIn(b) = AsRead
<1>1. PICK outer : outer = Tlv(<<127, 33>>, InnerBytes) /\ Whole(outer)
  BY OuterIsRead
<1>2. CertificateBytesOf(v) = v \o outer
  BY <1>1 DEF CertificateBytesOf, InnerBytes, BodyBytes, Signature
<1>3. outer \in Seq(Byte) /\ Len(outer) <= 244 /\ Len(outer) >= 2 /\ ByteAt(outer, 1) = 127 /\ ByteAt(outer, 2) = 33
  BY <1>1 DEF Whole
<1>7. outer \in Seq(Byte)
  BY <1>3
<1>4. PICK b \in Seq(Byte) :
         /\ b = v \o outer /\ Len(b) <= 250 /\ Len(b) \in Nat
         /\ \/ b = outer
            \/ SubSeq(b, 2, Len(b)) = outer /\ ByteAt(b, 1) = 1 /\ ByteAt(b, 2) = 127 /\ ByteAt(b, 3) = 33
  <2>0. Len(outer) \in Nat
    BY <1>3, LenProperties
  <2>1. CASE v = <<>>
    <3>1. v \o outer = outer
      BY <1>3, <2>1
    <3>2. Len(outer) <= 250
      BY <1>3, <2>0
    <3> QED BY <1>3, <2>0, <3>1, <3>2, Zenon
  <2>2. CASE v = <<1>>
    <3>1. PICK a \in Seq(Byte) : a = <<1>> /\ Len(a) = 1 /\ a[1] = 1
      <4>1. 1 \in Byte
        BY DEF Byte
      <4>2. <<1>> \in Seq(Byte) /\ Len(<<1>>) = 1 /\ <<1>>[1] = 1
        BY <4>1
      <4> QED BY <4>2, Zenon
    <3>2. PICK b \in Seq(Byte) : b = a \o outer /\ Len(b) = Len(outer) + 1 /\ b[1] = 1
                                 /\ \A k \in 1..Len(outer) : b[1 + k] = outer[k]
      <4>1. \A u, w \in Seq(Byte) : /\ u \o w \in Seq(Byte) /\ Len(u \o w) = Len(u) + Len(w)
                                    /\ \A i \in 1..Len(u) : (u \o w)[i] = u[i]
                                    /\ \A i \in 1..Len(w) : (u \o w)[Len(u) + i] = w[i]
        OBVIOUS
      <4>2. PICK b \in Seq(Byte) : /\ b = a \o outer /\ Len(b) = Len(a) + Len(outer)
                                   /\ \A i \in 1..Len(a) : b[i] = a[i]
                                   /\ \A i \in 1..Len(outer) : b[Len(a) + i] = outer[i]
        BY <1>7, <4>1, Zenon
      <4>3. Len(b) = Len(outer) + 1 /\ b[1] = 1
        BY <2>0, <3>1, <4>2
      <4>4. \A k \in 1..Len(outer) : b[1 + k] = outer[k]
        BY <3>1, <4>2
      <4> QED BY <4>2, <4>3, <4>4, Zenon
    <3>3. Has(b, 2, outer)
      <4>1. \A k \in 1..Len(outer) : 2 + k - 1 = 1 + k
        BY <2>0
      <4> QED BY <2>0, <3>2, <4>1 DEF Has
    <3>4. SubSeq(b, 2, Len(b)) = outer
      <4>1. 2 + Len(outer) - 1 = Len(b)
        BY <2>0, <3>2
      <4>2. SubSeq(b, 2, 2 + Len(outer) - 1) = outer
        BY <1>7, <3>3, HasSub, Zenon
      <4> QED BY <4>1, <4>2, Zenon
    <3>5. ByteAt(b, 1) = 1
      BY <2>0, <3>2 DEF ByteAt
    <3>6. outer[1] = 127 /\ outer[2] = 33
      BY <1>3, <2>0 DEF ByteAt
    <3>7. b[2] = outer[1] /\ b[3] = outer[2]
      BY <1>3, <2>0, <3>2
    <3>8. ByteAt(b, 2) = 127 /\ ByteAt(b, 3) = 33
      <4>1. 2 \in 1..Len(b) /\ 3 \in 1..Len(b)
        BY <1>3, <2>0, <3>2
      <4> QED BY <3>6, <3>7, <4>1 DEF ByteAt
    <3>9. Len(b) <= 250 /\ Len(b) \in Nat
      BY <1>3, <2>0, <3>2
    <3>10. b = v \o outer
      BY <2>2, <3>1, <3>2, Zenon
    <3> QED BY <3>4, <3>5, <3>8, <3>9, <3>10
  <2> QED BY <2>1, <2>2
<1>5. ParseCvcCertificate(b) = AsRead
  BY <1>1, <1>4, CertificateIsRead
<1>6. CertificateIn(b) = AsRead
  BY <1>5, ReadingIsSomething DEF CertificateIn
<1> QED BY <1>2, <1>4, <1>6

(* One field, read.                                                        *)
LEMMA OneFieldIsRead ==
    ASSUME NEW s \in Seq(Byte), Len(s) < 2^Word
    PROVE  \E p \in Seq(Byte) :
               p = Delimited(1, s) /\ p # <<>> /\ \A d : Value(ParseFields(p), 1, d) = s
<1>1. PICK one \in 1..15 : one = 1
  OBVIOUS
<1>2. PICK p \in Seq(Byte) : p = Delimited(one, s)
  BY DelimitedType
<1>3. p # <<>>
  <2>1. Len(p) = Len(s) + Long(Len(s)) + 1 /\ Len(s) \in Nat /\ Long(Len(s)) \in Nat
    BY <1>2, DelimitedType
  <2>2. Len(p) > 0
    BY <2>1
  <2> QED BY <2>2
<1>4. Yields(TaggedIn(p), p, p, <<FieldOf(one, s)>>)
  BY <1>2, DelimitedYieldsTagged
<1>5. PICK x \in FieldSet : x = FieldOf(one, s) /\ x.num = one /\ x.value = s
  <2>1. s \in Nat \cup Seq(Byte) /\ one \in Nat
    OBVIOUS
  <2> QED BY <2>1, FieldOfType, Zenon
<1>6. PICK xs \in Seq(FieldSet) : xs = <<x>>
  BY OnesAre, Zenon
<1>7. LoopOver(TaggedIn(p), p, FieldSet)
  BY FieldLoops, Zenon
<1>8. Walk(TaggedIn(p), 1) = xs
  <2>1. Yields(TaggedIn(p), p, p, xs)
    BY <1>4, <1>5, <1>6, Zenon
  <2> QED BY <1>7, <2>1, YieldsAll, Zenon
<1>9. ParseFields(p) = xs
  BY <1>8, Zenon DEF ParseFields, TaggedIn
<1>10. \A d : Value(xs, 1, d) = s
  <2>1. \A d : Value(<<x>>, one, d) = IF x.num = one THEN x.value ELSE d
    BY ValueOfOne, Zenon
  <2>2. \A d : Value(xs, one, d) = s
    BY <1>5, <1>6, <2>1, Zenon
  <2> QED BY <1>1, <2>2, Zenon
<1> QED BY <1>1, <1>2, <1>3, <1>9, <1>10, Zenon

(* Certificates.                                                           *)
LEMMA CertificateComesBack ==
    ASSUME NEW shape, shape.kind = "certificateBytes", NEW v \in Meanings(shape)
    PROVE  ComesBack(shape, v)
<1>1. v \in {None, <<>>, <<1>>}
  BY DEF Meanings
<1>2. CASE v = None
  <2>1. Encoded(shape, v) = <<>>
    BY <1>2 DEF Encoded
  <2>2. DefaultOf(shape) = None
    BY DEF DefaultOf
  <2>3. Meant(shape, v) = None
    BY <1>2 DEF Meant, OrEmpty
  <2> QED BY <2>1, <2>2, <2>3, Zenon DEF ComesBack, DecodeTyped
<1>3. CASE v # None
  <2>1. v \in {<<>>, <<1>>}
    BY <1>1, <1>3
  <2>2. PICK b \in Seq(Byte) : b = CertificateBytesOf(v) /\ Len(b) <= 250 /\ Len(b) \in Nat /\ CertificateIn(b) = AsRead
    BY <2>1, CertificateBytesAre
  <2>3. Len(b) < 2^Word
    BY <2>2, WordHolds
  <2>4. PICK p \in Seq(Byte) : p = Delimited(1, b) /\ p # <<>> /\ \A d : Value(ParseFields(p), 1, d) = b
    BY <2>3, OneFieldIsRead
  <2>5. Encoded(shape, v) = p
    <3>1. Encoded(shape, v) = <<10>> \o Varint(Len(CertificateBytesOf(v))) \o CertificateBytesOf(v)
      BY <1>3 DEF Encoded
    <3>2. Varint(Len(b)) \in Seq(Byte)
      BY <2>2, VarintType
    <3>3. 8 * 1 + 2 = 10 /\ <<10>> \in Seq(Byte)
      BY DEF Byte
    <3>4. (<<10>> \o Varint(Len(b))) \o b = <<10>> \o (Varint(Len(b)) \o b)
      BY <3>2, <3>3, ConcatAssociative
    <3>5. Delimited(1, b) = <<10>> \o (Varint(Len(b)) \o b)
      BY <3>3 DEF Delimited
    <3> QED BY <2>2, <2>4, <3>1, <3>4, <3>5
  <2>6. \A q, xs : ValueIn(shape, q, xs) = CertificateIn(Value(xs, 1, <<>>))
    BY DEF ValueIn
  <2>7. Meant(shape, v) = AsRead
    BY <1>3 DEF Meant, OrEmpty, AsRead, CvcReading
  <2>8. ValueIn(shape, p, ParseFields(p)) = AsRead
    <3>1. CertificateIn(b) = AsRead
      BY <2>2
    <3> QED BY <2>4, <2>6, <3>1, Zenon
  <2> QED BY <2>4, <2>5, <2>7, <2>8, Zenon DEF ComesBack, DecodeTyped
<1> QED BY <1>2, <1>3

(* What is sent of a point of the registry is read as it is meant, by what *)
(* the registry says of the point.                                         *)
THEOREM ValueComesBack ==
    ASSUME NEW shape \in Shapes, NEW v \in Meanings(shape)
    PROVE  IF shape.kind = "unknown" THEN DecodeValue(Encoded(shape, v)) = Meant(shape, v)
           ELSE DecodeTyped(shape, Encoded(shape, v)) = Meant(shape, v)
<1>1. shape.kind \in Kinds \ {"hidden"}
  BY ShapeIs
<1>2. CASE shape.kind = "unknown"
  BY <1>2, UnknownComesBack
<1>3. CASE shape.kind # "unknown"
  <2>1. \/ shape.kind = "bool"
        \/ shape.kind \in {"uint", "enum"}
        \/ shape.kind = "string"
        \/ shape.kind = "uint32List"
        \/ shape.kind = "uuid"
        \/ shape.kind = "tuningDetection"
        \/ shape.kind = "startAssistModeOem"
        \/ shape.kind = "unixTimestamp"
        \/ shape.kind = "serviceDue"
        \/ shape.kind = "deactivationProof"
        \/ shape.kind = "certificateBytes"
        \/ shape.kind = "assistModeColors"
        \/ shape.kind = "submessage"
        \/ shape.kind = "normFactor"
        \/ shape.kind = "signedFactor"
    BY <1>1, <1>3 DEF Kinds
  <2>2. ComesBack(shape, v)
    <3>1. CASE shape.kind = "bool"
      BY <3>1, BoolComesBack, Zenon
    <3>2. CASE shape.kind \in {"uint", "enum"}
      BY <3>2, PlainComesBack, SMT
    <3>3. CASE shape.kind = "string"
      BY <3>3, StringComesBack, Zenon
    <3>4. CASE shape.kind = "uint32List"
      BY <3>4, ListComesBack, Zenon
    <3>5. CASE shape.kind = "uuid"
      BY <3>5, UuidComesBack, Zenon
    <3>6. CASE shape.kind = "tuningDetection"
      BY <3>6, TuningComesBack, Zenon
    <3>7. CASE shape.kind = "startAssistModeOem"
      BY <3>7, StartModeComesBack, Zenon
    <3>8. CASE shape.kind = "unixTimestamp"
      BY <3>8, InstantComesBack, Zenon
    <3>9. CASE shape.kind = "serviceDue"
      BY <3>9, ServiceComesBack, Zenon
    <3>10. CASE shape.kind = "deactivationProof"
      BY <3>10, ProofComesBack, Zenon
    <3>11. CASE shape.kind = "certificateBytes"
      BY <3>11, CertificateComesBack, Zenon
    <3>12. CASE shape.kind = "assistModeColors"
      BY <3>12, ColorListComesBack, Zenon
    <3>13. CASE shape.kind = "submessage"
      BY <3>13, SubmessageComesBack, Zenon
    <3>14. CASE shape.kind = "normFactor"
      BY <3>14, NormComesBack, Zenon
    <3>15. CASE shape.kind = "signedFactor"
      BY <3>15, SignedComesBack, Zenon
    <3> QED BY <2>1, <3>1, <3>2, <3>3, <3>4, <3>5, <3>6, <3>7, <3>8, <3>9, <3>10, <3>11, <3>12, <3>13, <3>14, <3>15, Zenon
  <2> QED BY <1>3, <2>2, Zenon DEF ComesBack
<1> QED BY <1>2, <1>3

(* No two rows have an address in common.                                  *)
LEMMA RowIsAlone ==
    ASSUME NEW one \in Registry, NEW two \in Registry, one.address = two.address
    PROVE  one = two
<1> DEFINE addresses == {r.address : r \in Registry}
           f == [r \in Registry |-> r.address]
<1>1. f \in Surjection(Registry, addresses)
  BY DEF Surjection
<1>2. f \in Injection(Registry, addresses)
  <2>1. IsFiniteSet(Registry) /\ Cardinality(addresses) = Cardinality(Registry)
    BY OneRowPerAddress
  <2> HIDE DEF f, addresses
  <2> QED BY <1>1, <2>1, FS_Surjection
<1>3. f[one] = f[two] => one = two
  <2> HIDE DEF f
  <2> QED BY <1>2 DEF Injection, IsInjective
<1> QED BY <1>3

(* The address tells the kind.                                             *)
LEMMA AddressTells ==
    ASSUME NEW r \in Registry, r.shape.kind # "hidden"
    PROVE  /\ IsTyped(r.address) <=> r.shape.kind # "unknown"
           /\ r.shape.kind # "unknown" => FieldType(r.address) = r.shape
           /\ KindAt(r.address) = r.shape.kind
<1>1. HasKind(r) <=> r.shape.kind # "unknown"
  BY DEF HasKind
<1>2. \A s \in Registry : s.address = r.address => s = r
  BY RowIsAlone
<1>3. IsTyped(r.address) <=> HasKind(r)
  BY <1>2 DEF IsTyped
<1>4. ASSUME HasKind(r) PROVE FieldType(r.address) = r.shape
  <2>1. \E s \in Registry : s.address = r.address /\ HasKind(s)
    BY <1>4
  <2>2. (CHOOSE s \in Registry : s.address = r.address /\ HasKind(s)) = r
    BY <1>2, <2>1
  <2> QED BY <2>2 DEF FieldType
<1>5. KindAt(r.address) = r.shape.kind
  BY <1>1, <1>3, <1>4 DEF KindAt
<1> QED BY <1>1, <1>3, <1>4, <1>5

(* What is sent of an instant is nothing for the first one only.           *)
LEMMA InstantIsSent ==
    ASSUME NEW t \in Instants
    PROVE  Implicit(1, Zigzag(t)) = <<>> <=> t = 0
<1>1. PICK z \in Sendable : z = Zigzag(t) /\ ZigzagSigned(z) = t /\ (z = 0 <=> t = 0)
  BY SignedIsRead
<1>2. Implicit(1, z) = <<>> <=> z = 0
  BY OneNumberIsRead, Zenon
<1> QED BY <1>1, <1>2

(* And of a service that is due, when neither date nor distance is set.    *)
LEMMA ServiceIsSent ==
    ASSUME NEW shape, shape.kind = "serviceDue", NEW t \in Instants, NEW c \in Numbers, NEW v, v.timestamp = t, v.odometer = c
    PROVE  Encoded(shape, v) = <<>> <=> t = 0 /\ c = 0
<1>1. PICK s : s = Implicit(1, Zigzag(t))
  OBVIOUS
<1>2. PICK z \in Sendable : z = Zigzag(t) /\ ZigzagSigned(z) = t /\ (z = 0 <=> t = 0)
  BY SignedIsRead
<1>3. s \in Small(100) /\ c \in Sendable
  <2>1. s \in Small(6)
    BY <1>1, <1>2, OneField
  <2>2. Small(6) \subseteq Small(100)
    <3>1. 6 \in Nat /\ 100 \in Nat /\ 6 <= 100
      OBVIOUS
    <3> QED BY <3>1, SmallGrows
  <2> QED BY <2>1, <2>2, NumbersAreSendable
<1>4. Encoded(shape, v) = Present(1, s) \o Implicit(2, c)
  BY <1>1 DEF Encoded
<1>5. PICK p : /\ p = Present(1, s) \o Implicit(2, c)
               /\ HasTwo(ParseFields(p), 1, 2, s, <<>>, c, 0)
               /\ p = <<>> => s = <<>> /\ c = 0
  BY <1>3, TextAndNumberAreRead, Zenon
<1>6. s = <<>> <=> t = 0
  BY <1>1, InstantIsSent
<1>7. s = <<>> /\ c = 0 => p = <<>>
  <2>1. <<>> \o <<>> = <<>>
    OBVIOUS
  <2> QED BY <1>5, <2>1, Zenon DEF Present, Implicit
<1> QED BY <1>4, <1>5, <1>6, <1>7, Zenon

\* What is shown of a value of the kind that was read in p.
ShownAs(kind, value, p) ==
    IF kind \notin {"unixTimestamp", "serviceDue"} THEN value
    ELSE IF p = <<>> THEN NotSet
    ELSE IF kind = "unixTimestamp" THEN Dated(value, None)
    ELSE Dated(IF value.timestamp # 0 THEN value.timestamp ELSE None, value.odometer)

(* A value is shown as it is meant to be.                                  *)
LEMMA MeantIsShown ==
    ASSUME NEW shape \in Shapes, NEW v \in Meanings(shape)
    PROVE  ShownAs(shape.kind, Meant(shape, v), Encoded(shape, v)) = MeantDisplay(shape, v)
<1>1. CASE shape.kind = "unixTimestamp"
  <2>1. v \in Instants /\ Encoded(shape, v) = Implicit(1, Zigzag(v)) /\ Meant(shape, v) = v
    BY <1>1 DEF Meanings, Encoded, Meant
  <2>2. MeantDisplay(shape, v) = Dated(OrEmpty(v, 0, v), None)
    BY <1>1 DEF MeantDisplay
  <2>3. ShownAs(shape.kind, v, Encoded(shape, v)) = IF v = 0 THEN NotSet ELSE Dated(v, None)
    BY <1>1, <2>1, InstantIsSent DEF ShownAs
  <2> QED BY <2>1, <2>2, <2>3 DEF OrEmpty, NotSet
<1>2. CASE shape.kind = "serviceDue"
  <2>1. PICK t \in Instants, c \in Numbers : v = [timestamp |-> t, odometer |-> c]
    BY <1>2 DEF Meanings
  <2>2. v.timestamp = t /\ v.odometer = c
    BY <2>1
  <2>3. Meant(shape, v) = v
    BY <1>2 DEF Meant
  <2>4. Encoded(shape, v) = <<>> <=> t = 0 /\ c = 0
    BY <1>2, <2>2, ServiceIsSent
  <2>5. MeantDisplay(shape, v) = IF t = 0 /\ c = 0 THEN NotSet ELSE Dated(OrEmpty(t, 0, t), c)
    BY <1>2, <2>2 DEF MeantDisplay
  <2>6. ShownAs(shape.kind, v, Encoded(shape, v)) =
            IF t = 0 /\ c = 0 THEN NotSet ELSE Dated(IF t # 0 THEN t ELSE None, c)
    BY <1>2, <2>2, <2>4 DEF ShownAs
  <2> QED BY <2>3, <2>5, <2>6 DEF OrEmpty
<1>3. CASE shape.kind \notin {"unixTimestamp", "serviceDue"}
  <2>1. MeantDisplay(shape, v) = Meant(shape, v)
    BY <1>3 DEF MeantDisplay
  <2> QED BY <1>3, <2>1 DEF ShownAs
<1> QED BY <1>1, <1>2, <1>3

(* What is sent of a row is read as it is meant, and shown so.             *)
LEMMA RowIsRead ==
    ASSUME NEW r \in ReadRows, NEW v \in Meanings(r.shape)
    PROVE  RowSays(Meant(r.shape, v), v, Encoded(r.shape, v), r)
<1>1. r.shape \in Shapes /\ r \in Registry
  BY RowHasShape
<1>2. r.shape.kind \in Kinds \ {"hidden"}
  BY <1>1, ShapeIs
<1>3. /\ IsTyped(r.address) <=> r.shape.kind # "unknown"
      /\ r.shape.kind # "unknown" => FieldType(r.address) = r.shape
      /\ KindAt(r.address) = r.shape.kind
  BY <1>1, <1>2, AddressTells
<1>4. ValueAt(r.address, Encoded(r.shape, v)) = Meant(r.shape, v)
  <2>1. IF r.shape.kind = "unknown" THEN DecodeValue(Encoded(r.shape, v)) = Meant(r.shape, v)
        ELSE DecodeTyped(r.shape, Encoded(r.shape, v)) = Meant(r.shape, v)
    BY <1>1, ValueComesBack
  <2> QED BY <1>3, <2>1 DEF ValueAt
<1>5. DisplayAt(r.address, Encoded(r.shape, v)) = ShownAs(r.shape.kind, Meant(r.shape, v), Encoded(r.shape, v))
  BY <1>3, <1>4 DEF DisplayAt, ShownAs
<1>6. DisplayAt(r.address, Encoded(r.shape, v)) = MeantDisplay(r.shape, v)
  BY <1>1, <1>5, MeantIsShown
<1> QED BY <1>4, <1>6 DEF RowSays

IssueShows(t) == [returnValue |-> 0, entryCount |-> 1, issueId |-> t, timestamp |-> t, activationCount |-> 2]

Answer(p, v) == [bytes |-> p, shows |-> v]

LimitsFor(g, k) == Answer(Bytes(1, Proto(g)) \o Bytes(2, Proto(k)), [max |-> Seen(g), min |-> Seen(k)])

(* An answer has bytes, and what the tool is to read in them.              *)
LEMMA AnswerIs == \A p, v : Answer(p, v).bytes = p /\ Answer(p, v).shows = v
BY DEF Answer

(* The answer about an issue.                                              *)
LEMMA IssueAnswer ==
    ASSUME NEW h, NEW r
    PROVE  \A a \in Answers("issue") : AnswerSays("issue", a, h, r)
<1>1. ASSUME NEW a \in Answers("issue")
      PROVE  AnswerSays("issue", a, h, r)
  <2>1. PICK t \in Numbers : a.bytes = IssueBytes(t) /\ a.shows = IssueShows(t)
    <3>1. Answers("issue") = {Answer(IssueBytes(t), IssueShows(t)) : t \in Numbers}
      BY DEF Answers, Answer, IssueBytes, IssueFrame, IssueEcho, IssueShows, Concat3
    <3>2. PICK t \in Numbers : a = Answer(IssueBytes(t), IssueShows(t))
      BY <1>1, <3>1
    <3> QED BY <3>2, AnswerIs, Zenon
  <2>2. a.bytes \in Small(250) /\ DecodeIssue(a.bytes) = a.shows
    <3>1. IssueBytes(t) \in Small(250)
      BY IssueIsSmall, Zenon
    <3>2. DecodeIssue(IssueBytes(t)) = IssueShows(t)
      BY IssueIsRead, Zenon DEF IssueShows
    <3> QED BY <2>1, <3>1, <3>2, Zenon
  <2>3. SaysSo("issue", a.shows, h, a.bytes, r)
    BY <2>2 DEF SaysSo
  <2> QED BY <2>2, <2>3, Zenon DEF AnswerSays
<1> QED BY <1>1

(* The limits of the settings.                                             *)
LEMMA LimitsAnswer ==
    ASSUME bike \in BikeRecords, NEW h, NEW r
    PROVE  \A a \in Answers("limits") : AnswerSays("limits", a, h, r)
<1>1. ASSUME NEW a \in Answers("limits")
      PROVE  AnswerSays("limits", a, h, r)
  <2>1. PICK n \in Numbers : a = LimitsFor(bike, [bike EXCEPT ![1] = n])
    <3>1. Answers("limits") = {LimitsFor(bike, [bike EXCEPT ![1] = n]) : n \in Numbers}
      BY DEF Answers, Answer, LimitsFor
    <3> QED BY <1>1, <3>1
  <2>2. PICK g \in BikeRecords : g = [bike EXCEPT ![1] = n]
    BY FirstEdited
  <2>3. a.bytes \in Small(250) /\ DecodeUdamLimits(a.bytes) = a.shows
    <3>1. a.bytes = Bytes(1, Proto(bike)) \o Bytes(2, Proto(g)) /\ a.shows = [max |-> Seen(bike), min |-> Seen(g)]
      BY <2>1, <2>2, AnswerIs, Zenon DEF LimitsFor
    <3> QED BY <3>1, LimitsAreRead, Zenon
  <2>4. SaysSo("limits", a.shows, h, a.bytes, r)
    BY <2>3 DEF SaysSo
  <2> QED BY <2>3, <2>4, Zenon DEF AnswerSays
<1> QED BY <1>1

(* The statistics.                                                         *)
LEMMA StatisticsAnswer ==
    ASSUME NEW h, NEW r
    PROVE  \A a \in Answers("statistics") : AnswerSays("statistics", a, h, r)
<1>1. ASSUME NEW a \in Answers("statistics")
      PROVE  AnswerSays("statistics", a, h, r)
  <2>1. PICK d \in Numbers : /\ a.bytes = Bytes(1, Implicit(1, d) \o Number(2, 7))
                             /\ a.shows = [distance |-> IF d = 0 THEN None ELSE d, consumedEnergy |-> 7]
    BY <1>1 DEF Answers
  <2>2. a.bytes \in Small(250) /\ DecodeStatistics(a.bytes) = a.shows
    BY <2>1, StatisticsAreRead, Zenon
  <2>3. SaysSo("statistics", a.shows, h, a.bytes, r)
    BY <2>2 DEF SaysSo
  <2> QED BY <2>2, <2>3, Zenon DEF AnswerSays
<1> QED BY <1>1

(* The time of the bike.                                                   *)
LEMMA TimeAnswer ==
    ASSUME NEW h, NEW r
    PROVE  \A a \in Answers("time") : AnswerSays("time", a, h, r)
<1>1. ASSUME NEW a \in Answers("time")
      PROVE  AnswerSays("time", a, h, r)
  <2>1. PICK t \in Instants : a.bytes = Implicit(1, 2 * t) /\ a.shows = t
    BY <1>1 DEF Answers, Instants
  <2>2. PICK n \in Sendable : n = 2 * t /\ t \in Nat
    BY NumbersAreSendable
  <2>3. a.bytes \in Small(250) /\ Value(ParseFields(a.bytes), 1, 0) = n /\ (a.bytes = <<>> <=> n = 0)
    BY <2>1, <2>2, OneField, OneNumberIsRead, Zenon
  <2>4. n = 0 <=> t = 0
    BY <2>2
  <2>5. ZigzagDecode(n) = t
    BY <2>2 DEF ZigzagDecode
  <2>6. DecodeClock(a.bytes) = t
    BY <2>3, <2>4, <2>5, Zenon DEF DecodeClock
  <2>7. SaysSo("time", a.shows, h, a.bytes, r)
    BY <2>1, <2>6 DEF SaysSo
  <2> QED BY <2>3, <2>7, Zenon DEF AnswerSays
<1> QED BY <1>1

(* A save, and what has no value of its own.                               *)
LEMMA OtherAnswers ==
    ASSUME NEW h, NEW r
    PROVE  /\ AnswerSays("set", [bytes |-> <<8, 1>>, shows |-> TRUE], h, r)
           /\ \A point \in {"range", "write"} : \A a \in Answers(point) : AnswerSays(point, a, h, r)
<1>1. <<>> \in Small(250) /\ <<8, 1>> \in Small(250)
  <2>1. <<8, 1>> \in Seq(Byte) /\ <<>> \in Seq(Byte) /\ Len(<<8, 1>>) = 2 /\ Len(<<>>) = 0
    BY DEF Byte
  <2> QED BY <2>1 DEF Small
<1>2. DecodeBool(<<8, 1>>) = TRUE
  BY DEF DecodeBool
<1>3. SaysSo("set", TRUE, h, <<8, 1>>, r)
  BY <1>2 DEF SaysSo
<1>4. AnswerSays("set", [bytes |-> <<8, 1>>, shows |-> TRUE], h, r)
  BY <1>1, <1>3 DEF AnswerSays
<1>5. ASSUME NEW point \in {"range", "write"}, NEW a \in Answers(point)
      PROVE  AnswerSays(point, a, h, r)
  <2>1. a.bytes = <<>> /\ a.shows = <<>>
    BY <1>5 DEF Answers
  <2>2. SaysSo(point, <<>>, h, <<>>, r)
    BY <1>5 DEF SaysSo
  <2> QED BY <1>1, <2>1, <2>2, Zenon DEF AnswerSays
<1> QED BY <1>4, <1>5

(* The value of a row.                                                     *)
LEMMA RowAnswer ==
    ASSUME row # None, row \in ReadRows, held \in Meanings(row.shape)
    PROVE  \A a \in Answers("row") : AnswerSays("row", a, held, row)
<1>1. ASSUME NEW a \in Answers("row")
      PROVE  AnswerSays("row", a, held, row)
  <2>1. a.bytes = Encoded(row.shape, held) /\ a.shows = Meant(row.shape, held)
    BY <1>1 DEF Answers
  <2>2. row.shape \in Shapes
    BY RowHasShape
  <2>3. a.bytes \in Small(250)
    BY <2>1, <2>2, EncodedIsSmall, Zenon
  <2>4. SaysSo("row", a.shows, held, a.bytes, row)
    <3>1. RowSays(Meant(row.shape, held), held, Encoded(row.shape, held), row)
      BY RowIsRead
    <3>2. RowSays(a.shows, held, a.bytes, row)
      BY <2>1, <3>1, Zenon
    <3> QED BY <3>2 DEF SaysSo
  <2> QED BY <2>3, <2>4, Zenon DEF AnswerSays
<1> QED BY <1>1

(* Whatever the tool asks for, the value that is answered is read as it    *)
(* was meant.                                                              *)
LEMMA AnswersSay ==
    ASSUME bike \in BikeRecords, row # None => row \in ReadRows /\ held \in Meanings(row.shape),
           NEW point \in PointsOf(row), point # "set"
    PROVE  \A a \in Answers(point) : AnswerSays(point, a, held, row)
<1>1. point \in Points
  BY DEF PointsOf, Points
<1>2. point = "row" => row # None
  BY DEF PointsOf
<1>3. CASE point = "row"
  BY <1>2, <1>3, RowAnswer
<1>4. CASE point # "row"
  <2>1. point \in {"params", "limits", "statistics", "modes", "names", "range", "time", "issue", "colors", "write"}
    BY <1>1, <1>4 DEF Points
  <2> QED BY <2>1, ParamsAnswer, LimitsAnswer, StatisticsAnswer, ModesAnswer, OtherAnswers, TimeAnswer, IssueAnswer,
             ColorsAnswer, Zenon
<1> QED BY <1>3, <1>4

(***************************************************************************)
(* The invariant: what is on its way, in both directions, is what each     *)
(* side meant.                                                             *)
(***************************************************************************)
RowInv ==
    /\ transport \in {"usb", "ble", "live", "file"}
    /\ row # None => /\ row \in ReadRows /\ held \in Meanings(row.shape)
                     /\ transport # "live" /\ udam = None /\ asked = <<>>
    /\ entry # None \/ transport = "file" => row # None
    /\ transport \notin {"usb", "ble"} =>
           /\ toBike = <<>> /\ readQueue = <<>> /\ meant = <<>> /\ asked = <<>> /\ udam = None
           /\ fromBike \in Seq(Seq(Byte))

\* The settings are a record, here and there.
BikeInv == bike \in BikeRecords /\ (udam = None \/ udam \in Records) /\ seq \in 0..15 /\ unasked \in Nat

\* A save of the record as last read, with one field changed.
SaveOf(change, p) ==
    /\ change.from \in Records /\ change.field \in EditableFields /\ change.value \in Numbers
    /\ p = EncodeSetUdamArg(ConfigId, Edited(change.from, change.field, change.value))

\* What the argument p of the request x is for.
Purpose(r, x, p) ==
    /\ x.point = "set" => SaveOf(x.change, p)
    /\ x.point = "write" => x.change \in Meanings(r.shape) /\ p = LabTyped(r.shape, x.change)
    /\ x.point \notin {"set", "write"} => p = Argument(x.point)

\* The request x as the bike will take it, with the argument p.
Carries(t, r, x, p) ==
    /\ BodyIn(t, x.bytes) = RequestHead(Host(t), AddressOf(r, x.point), TypeOf(x.point), x.seq) \o p
    /\ Purpose(r, x, p)

IsRequest(t, r, x) ==
    /\ x.point \in PointsOf(r) /\ x.seq \in 0..15 /\ x.bytes \in Seq(Byte)
    /\ \E p \in Small(250) : Carries(t, r, x, p)

RequestInv == toBike = <<>> \/ (toBike = <<toBike[1]>> /\ IsRequest(transport, row, toBike[1]))

\* What is on its way is what was meant, in order.
FlightInv == Flight(transport, fromBike, readQueue, meant, asked, row)

\* The last stage told is the last one said.
SaidInv == startupStage = 9 <=> stageSaid = 9

WireInv == RowInv /\ BikeInv /\ RequestInv /\ FlightInv /\ SaidInv

Sent(bytes, point, n, change) == [bytes |-> bytes, point |-> point, seq |-> n, change |-> change]

(* The parts of a request.                                                 *)
LEMMA SentIs ==
    \A bytes, point, n, change :
        /\ Sent(bytes, point, n, change).bytes = bytes /\ Sent(bytes, point, n, change).point = point
        /\ Sent(bytes, point, n, change).seq = n /\ Sent(bytes, point, n, change).change = change
BY DEF Sent

(* A request that is sent is one the bike will take as it is meant.        *)
LEMMA RequestIsSent ==
    ASSUME NEW point \in PointsOf(row), row # None => row \in ReadRows, transport \in {"usb", "ble"}, seq \in 0..15,
           NEW p \in Small(250), NEW change, Send(point, p, change),
           \A x : x.point = point /\ x.change = change => Purpose(row, x, p)
    PROVE  toBike' = <<toBike'[1]>> /\ IsRequest(transport, row, toBike'[1]) /\ seq' \in 0..15
<1>1. PICK addr \in (0..127) \X Byte : addr = Addr(point) /\ addr = AddressOf(row, point)
  BY PointIs
<1>2. PICK type \in {0, 2, 4, 6} : type = TypeOf(point)
  BY PointIs
<1>3. PICK bytes \in Seq(Byte) :
          /\ bytes = Outgoing(transport, addr, type, seq, p)
          /\ BodyIn(transport, bytes) = Head5(Host(transport), <<128 + addr[1], addr[2]>>, 16 * type + seq) \o p
  <2>1. PICK t \in {"usb", "ble"} : t = transport
    OBVIOUS
  <2>2. PICK n \in 0..15 : n = seq
    OBVIOUS
  <2>3. IsCarried(t, addr, type, n, p)
    BY RequestIsCarried
  <2> QED BY <2>1, <2>2, <2>3, Zenon DEF IsCarried
<1>4. toBike' = <<Sent(bytes, point, seq, change)>> /\ seq' = (seq + 1) % 16
  BY <1>1, <1>2, <1>3, Zenon DEF Send, Outgoing, Sent
<1>5. PICK x : x = Sent(bytes, point, seq, change)
  OBVIOUS
<1>6. x.bytes = bytes /\ x.point = point /\ x.seq = seq /\ x.change = change
  BY <1>5, SentIs
<1>7. Carries(transport, row, x, p)
  <2>1. Purpose(row, x, p)
    BY <1>6
  <2> QED BY <1>1, <1>2, <1>3, <1>6, <2>1, Zenon DEF Carries, RequestHead
<1>8. IsRequest(transport, row, x)
  BY <1>6, <1>7, Zenon DEF IsRequest
<1>9. toBike' = <<toBike'[1]>> /\ toBike'[1] = x
  BY <1>4, <1>5
<1>10. seq' \in 0..15
  BY <1>4
<1> QED BY <1>8, <1>9, <1>10, Zenon

(* What a request of the tool leaves alone, it leaves as it is to be.      *)
LEMMA Sending ==
    ASSUME WireInv, NEW point \in PointsOf(row), transport \in {"usb", "ble"}, NEW p \in Small(250), NEW change,
           Send(point, p, change), \A x : x.point = point /\ x.change = change => Purpose(row, x, p),
           UNCHANGED <<transport, bike, fromBike, readQueue, udam, startupStage, stageSaid, meant, asked, unasked,
                       live, points>>
    PROVE  WireInv'
<1>1. row # None => row \in ReadRows
  BY DEF WireInv, RowInv
<1>2. seq \in 0..15
  BY DEF WireInv, BikeInv
<1>3. toBike' = <<toBike'[1]>> /\ IsRequest(transport, row, toBike'[1]) /\ seq' \in 0..15
  BY <1>1, <1>2, RequestIsSent
<1>4. RequestInv'
  BY <1>3 DEF RequestInv, points
<1>5. RowInv'
  BY DEF WireInv, RowInv, points
<1>6. BikeInv'
  BY <1>3 DEF WireInv, BikeInv
<1>7. FlightInv'
  BY DEF WireInv, FlightInv, points
<1>8. SaidInv'
  BY DEF WireInv, SaidInv
<1> QED BY <1>4, <1>5, <1>6, <1>7, <1>8 DEF WireInv

(* A point is asked for.                                                   *)
LEMMA AsksKeeps ==
    ASSUME WireInv, NEW point \in Points, Asks(point)
    PROVE  WireInv'
<1>1. transport \in {"usb", "ble"} /\ Send(point, Argument(point), None)
  BY DEF Asks
<1>2. point \in PointsOf(row) /\ point \in Points \ {"set", "write"}
  BY DEF Asks, PointsOf
<1>3. Argument(point) \in Small(250)
  BY <1>2, ArgumentIsSmall
<1>4. \A x : x.point = point /\ x.change = None => Purpose(row, x, Argument(point))
  <2>1. point # "set" /\ point # "write"
    BY <1>2
  <2> QED BY <2>1, Zenon DEF Purpose
<1>5. UNCHANGED <<transport, bike, fromBike, readQueue, udam, startupStage, stageSaid, meant, asked, unasked,
                  live, points>>
  BY DEF Asks
<1> QED BY <1>1, <1>2, <1>3, <1>4, <1>5, Sending

(* A setting is saved.                                                     *)
LEMMA SetsKeeps ==
    ASSUME WireInv, NEW f \in EditableFields, NEW n \in Numbers, Sets(f, n)
    PROVE  WireInv'
<1>1. udam \in Records /\ row = None /\ transport \in {"usb", "ble"}
  BY DEF Sets, WireInv, RowInv, BikeInv
<1>2. PICK c : c = [field |-> f, value |-> n, from |-> udam]
  OBVIOUS
<1>3. c.field = f /\ c.value = n /\ c.from = udam
  BY <1>2
<1>4. PICK p : p = EncodeSetUdamArg(ConfigId, Edited(udam, f, n))
  OBVIOUS
<1>5. Send("set", p, c)
  BY <1>2, <1>4 DEF Sets, Edited
<1>6. p \in Small(250)
  <2>1. Edited(udam, f, n) \in Records
    BY <1>1, EditedIs, Zenon
  <2>2. p \in Small(70)
    BY <1>4, <2>1, SaveArgument, Zenon
  <2>3. 70 \in 0..250
    OBVIOUS
  <2> QED BY <2>2, <2>3, SmallEnough
<1>7. SaveOf(c, p)
  BY <1>1, <1>3, <1>4, Zenon DEF SaveOf
<1>8. \A x : x.point = "set" /\ x.change = c => Purpose(row, x, p)
  <2>1. "set" # "write" /\ "set" \in {"set", "write"}
    OBVIOUS
  <2> QED BY <1>7, <2>1, Zenon DEF Purpose
<1>9. "set" \in PointsOf(row)
  BY <1>1 DEF PointsOf, Points
<1>10. UNCHANGED <<transport, bike, fromBike, readQueue, udam, startupStage, stageSaid, meant, asked, unasked,
                  live, points>>
  BY DEF Sets
<1> QED BY <1>1, <1>5, <1>6, <1>8, <1>9, <1>10, Sending

(* A value is written in the Write Lab.                                    *)
LEMMA LabWritesKeeps ==
    ASSUME WireInv, row # None, NEW v \in Meanings(row.shape), LabWrites(v)
    PROVE  WireInv'
<1>1. transport \in {"usb", "ble"} /\ Send("write", LabTyped(row.shape, v), v)
  BY DEF LabWrites, LabTyped
<1>2. row.shape \in Shapes
  BY RowHasShape DEF WireInv, RowInv
<1>3. LabTyped(row.shape, v) \in Small(250)
  BY <1>2, LabTypedIsSmall
<1>4. \A x : x.point = "write" /\ x.change = v => Purpose(row, x, LabTyped(row.shape, v))
  <2>1. "set" # "write" /\ "write" \in {"set", "write"}
    OBVIOUS
  <2> QED BY <2>1, Zenon DEF Purpose
<1>5. "write" \in PointsOf(row)
  BY DEF PointsOf
<1>6. UNCHANGED <<transport, bike, fromBike, readQueue, udam, startupStage, stageSaid, meant, asked, unasked,
                  live, points>>
  BY DEF LabWrites
<1> QED BY <1>1, <1>3, <1>4, <1>5, <1>6, Sending

(***************************************************************************)
(* The invariant holds at first, and every step keeps it.                  *)
(***************************************************************************)
(* The settings of the bike are a record without gaps.                     *)
LEMMA SettingsAreRecords == UdamRecords \subseteq BikeRecords
<1> SUFFICES ASSUME NEW r \in UdamRecords PROVE r \in BikeRecords
  OBVIOUS
<1>1. r \in [1..8 -> Sendable \cup {None}] /\ r[8] \in {0, 1, None} /\ \A f \in 1..5 : r[f] # None
  BY UdamRecordsAssumption DEF UdamFields, UdamFlag, Sendable
<1>2. r \in Records
  BY <1>1, RecordIs
<1> QED BY <1>1, <1>2 DEF BikeRecords

(* Nothing is kept of nothing.                                             *)
LEMMA EmptyIsKept == \A V : Kept(<<>>, V) = <<>>
<1> TAKE V
<1>0. \A S : <<>> \in Seq(S)
  OBVIOUS
<1>1. PICK s \in Seq(Nat) : s = <<>>
  BY <1>0, Zenon
<1>2. \A k \in 1..Len(s) : s[k] \notin V
  BY <1>1
<1>3. Kept(s, V) = <<>>
  BY <1>2, KeptNone
<1> QED BY <1>1, <1>3

(* Nothing is on its way at first.                                         *)
LEMMA WireInit == Init => WireInv
<1> SUFFICES ASSUME Init PROVE WireInv
  OBVIOUS
<1>1. RowInv
  BY TransportsAssumption DEF Init, RowInv
<1>2. BikeInv
  BY SettingsAreRecords DEF Init, BikeInv
<1>3. RequestInv
  BY DEF Init, RequestInv
<1>4. FlightInv
  <2>1. fromBike = <<>> /\ readQueue = <<>> /\ meant = <<>> /\ asked = <<>>
    BY DEF Init
  <2>2. Flight(transport, <<>>, <<>>, <<>>, <<>>, row)
    <3>1. Coming(transport, <<>>) = <<>>
      <4>1. Tidings(<<>>) = <<>>
        <5>1. Kept(<<>>, Others) = <<>>
          BY EmptyIsKept
        <5>2. Each(Rebuilding, <<>>) = <<>>
          BY EachOfNone, RebuildingMaps
        <5> QED BY <5>1, <5>2, NotifiedOfNone DEF Tidings
      <4> QED BY <4>1 DEF Coming
    <3>2. Kept(Notified(<<>>), Requests) = Each(Asking, <<>>)
      <4>1. Kept(<<>>, Requests) = <<>>
        BY EmptyIsKept
      <4>2. Each(Asking, <<>>) = <<>>
        BY EachOfNone, AskingMaps
      <4> QED BY <4>1, <4>2, NotifiedOfNone
    <3>3. Meet(<<>> \o Coming(transport, <<>>), <<>>, row)
      <4>1. <<>> \o <<>> = <<>>
        OBVIOUS
      <4> QED BY <3>1, <4>1, MeetNone
    <3>4. \A S : <<>> \in Seq(S)
      OBVIOUS
    <3> QED BY <3>2, <3>3, <3>4, Zenon DEF Flight
  <2> QED BY <2>1, <2>2, Zenon DEF FlightInv
<1>5. SaidInv
  BY DEF Init, SaidInv
<1> QED BY <1>1, <1>2, <1>3, <1>4, <1>5 DEF WireInv

(* What comes over the live interface is no frame of the message bus.      *)
LEMMA LiveIsApart ==
    ASSUME NEW t, t \notin {"usb", "ble"}, NEW ns, NEW ms, NEW q, NEW vs, NEW as, NEW r, Flight(t, ns, q, vs, as, r)
    PROVE  Flight(t, ms, q, vs, as, r)
<1>1. Coming(t, ns) = <<>> /\ Coming(t, ms) = <<>>
  BY DEF Coming
<1>2. t # "usb" /\ t # "ble"
  OBVIOUS
<1> QED BY <1>1, <1>2, Zenon DEF Flight

(* The bike tells something on the live interface.                         *)
LEMMA TellsKeeps ==
    ASSUME WireInv, Tells
    PROVE  WireInv'
<1>1. PICK u \in Updates, s \in Strangers : fromBike' = <<s \o LiveMessage(u)>>
  BY DEF Tells
<1>2. fromBike' \in Seq(Seq(Byte))
  <2>1. LiveUpdate(u)
    BY UpdatesAreLive
  <2>2. PICK f \in LiveFields : f = Cadence
    BY DEF LiveFields, LiveNumbers, LiveFlags, Cadence
  <2>3. s \o LiveMessage(u) \in Seq(Byte)
    BY <2>1, LiveOccurrencesTell
  <2> QED BY <1>1, <2>3
<1>3. transport = "live" /\ UNCHANGED <<transport, bike, toBike, readQueue, udam, startupStage, seq, stageSaid, meant,
                  asked, row, held, entry>>
  BY DEF Tells, points
<1>4. RowInv'
  BY <1>2, <1>3 DEF WireInv, RowInv
<1>5. BikeInv'
  BY <1>3 DEF WireInv, BikeInv, Tells
<1>6. RequestInv'
  BY <1>3 DEF WireInv, RowInv, RequestInv
<1>7. FlightInv'
  <2>1. "live" \notin {"usb", "ble"}
    OBVIOUS
  <2>2. Flight("live", fromBike', readQueue, meant, asked, row)
    BY <1>3, <2>1, LiveIsApart DEF WireInv, FlightInv
  <2> QED BY <1>3, <2>2, Zenon DEF FlightInv
<1>8. SaidInv'
  BY <1>3 DEF WireInv, SaidInv
<1> QED BY <1>4, <1>5, <1>6, <1>7, <1>8 DEF WireInv

(* What it told is shown.                                                  *)
LEMMA LiveDataArrivesKeeps ==
    ASSUME WireInv, LiveDataArrives
    PROVE  WireInv'
<1>2. fromBike' \in Seq(Seq(Byte))
  BY DEF LiveDataArrives
<1>3. transport = "live" /\ UNCHANGED <<transport, bike, toBike, readQueue, udam, startupStage, seq, stageSaid, meant,
                  asked, row, held, entry>>
  BY DEF LiveDataArrives, points
<1>4. RowInv'
  BY <1>2, <1>3 DEF WireInv, RowInv
<1>5. BikeInv'
  BY <1>3 DEF WireInv, BikeInv, LiveDataArrives
<1>6. RequestInv'
  BY <1>3 DEF WireInv, RowInv, RequestInv
<1>7. FlightInv'
  <2>1. "live" \notin {"usb", "ble"}
    OBVIOUS
  <2>2. Flight("live", fromBike', readQueue, meant, asked, row)
    BY <1>3, <2>1, LiveIsApart DEF WireInv, FlightInv
  <2> QED BY <1>3, <2>2, Zenon DEF FlightInv
<1>8. SaidInv'
  BY <1>3 DEF WireInv, SaidInv
<1> QED BY <1>4, <1>5, <1>6, <1>7, <1>8 DEF WireInv

(* A frame arrives over USB.                                               *)
LEMMA FrameArrivesKeeps ==
    ASSUME WireInv, FrameArrives
    PROVE  WireInv'
<1>1. transport = "usb" /\ fromBike # <<>> /\ readQueue' = Append(readQueue, fromBike[1]) /\ fromBike' = Tail(fromBike)
  BY DEF FrameArrives
<1>3. UNCHANGED <<transport, bike, toBike, udam, startupStage, seq, stageSaid, meant, asked, row, held, entry>>
  BY DEF FrameArrives, points
<1>4. RowInv'
  BY <1>1, <1>3 DEF WireInv, RowInv
<1>5. BikeInv'
  BY <1>3 DEF WireInv, BikeInv, FrameArrives
<1>6. RequestInv'
  BY <1>3 DEF WireInv, RequestInv
<1>7. FlightInv'
  <2>1. Flight("usb", Tail(fromBike), Append(readQueue, fromBike[1]), meant, asked, row)
    BY <1>1, UsbArrives DEF WireInv, FlightInv
  <2> QED BY <1>1, <1>3, <2>1, Zenon DEF FlightInv
<1>8. SaidInv'
  BY <1>3 DEF WireInv, SaidInv
<1> QED BY <1>4, <1>5, <1>6, <1>7, <1>8 DEF WireInv

(* Nothing happens.                                                        *)
LEMMA NothingKeeps == WireInv /\ UNCHANGED vars => WireInv'
BY DEF WireInv, RowInv, BikeInv, RequestInv, FlightInv, SaidInv, vars, points, live

(* What is carried, over each transport.                                   *)
LEMMA CarryIs ==
    ASSUME NEW b, Carry(b)
    PROVE  /\ transport = "usb" => fromBike' = Append(fromBike, Wrap(b))
           /\ transport = "ble" => Carried(fromBike, b, fromBike')
BY DEF Carry, Carried, WithLast

(* A body with what it means, put on its way.                              *)
LEMMA BodyIsCarried ==
    ASSUME FlightInv, transport \in {"usb", "ble"}, NEW b \in BodiesOver(transport), Carry(b),
           NEW m, Fits(FrameOf(transport, b), m, row)
    PROVE  Flight(transport, fromBike', readQueue, Append(meant, m), asked, row)
<1>1. CASE transport = "usb"
  <2>1. b \in Bodies /\ Fits(Wrap(b), m, row) /\ Flight("usb", fromBike, readQueue, meant, asked, row)
    BY <1>1 DEF BodiesOver, FrameOf, FlightInv
  <2>2. Flight("usb", Append(fromBike, Wrap(b)), readQueue, Append(meant, m), asked, row)
    BY <2>1, UsbCarries
  <2> QED BY <1>1, <2>2, CarryIs
<1>2. CASE transport = "ble"
  <2>1. b \in Others /\ Fits(Rebuild(b), m, row) /\ Flight("ble", fromBike, readQueue, meant, asked, row)
    BY <1>2 DEF BodiesOver, FrameOf, FlightInv
  <2>2. Carried(fromBike, b, fromBike')
    BY <1>2, CarryIs
  <2>3. Flight("ble", fromBike', readQueue, Append(meant, m), asked, row)
    BY <2>1, <2>2, BleCarries
  <2> QED BY <1>2, <2>3
<1>3. transport = "usb" \/ transport = "ble"
  OBVIOUS
<1> QED BY <1>1, <1>2, <1>3, Zenon

PushOf(n, h) == [addr |-> Addr("range"), point |-> "range", push |-> TRUE, seq |-> 0,
                 status |-> 0, shows |-> <<n, 3>>, held |-> h]

(* A push of the range.                                                    *)
LEMMA PushesKeeps ==
    ASSUME WireInv, NEW n \in Numbers, Pushes(n)
    PROVE  WireInv'
<1>1. /\ row = None /\ transport # "live" /\ Carry(Pushed(n)) /\ meant' = Append(meant, PushOf(n, held))
      /\ UNCHANGED <<transport, bike, toBike, readQueue, udam, startupStage, seq, stageSaid, asked, row, held, entry>>
  BY DEF Pushes, Pushed, PushOf, points
<1>2. transport \in {"usb", "ble"}
  BY <1>1 DEF WireInv, RowInv
<1>3. n \in Sendable
  BY NumbersAreSendable
<1>4. PICK m : m = PushOf(n, held)
  OBVIOUS
<1>5. m.point = "range" /\ m.addr = Addr("range") /\ m.shows = <<n, 3>> /\ m.push = TRUE
  BY <1>4 DEF PushOf
<1>6. PICK t \in {"usb", "ble"} : t = transport
  BY <1>2
<1>7. FitsPush(FrameOf(t, Pushed(n)), m) /\ Pushed(n) \in BodiesOver(t)
  BY <1>3, <1>5, PushIsRead
<1>8. Fits(FrameOf(t, Pushed(n)), m, row)
  <2>1. "range" \in PointsOf(row)
    BY <1>1 DEF PointsOf, Points
  <2> QED BY <1>5, <1>7, <2>1 DEF Fits
<1>9. Flight(transport, fromBike', readQueue, Append(meant, m), asked, row)
  BY <1>1, <1>2, <1>6, <1>7, <1>8, BodyIsCarried DEF WireInv
<1>11. RowInv'
  BY <1>1, <1>2 DEF WireInv, RowInv
<1>12. BikeInv'
  BY <1>1 DEF WireInv, BikeInv, Pushes
<1>13. RequestInv'
  BY <1>1 DEF WireInv, RequestInv
<1>14. FlightInv'
  BY <1>1, <1>4, <1>9, Zenon DEF FlightInv
<1>15. SaidInv'
  BY <1>1 DEF WireInv, SaidInv
<1> QED BY <1>11, <1>12, <1>13, <1>14, <1>15 DEF WireInv

AskedAs(own, n) == [type |-> own.type, low |-> own.low, stage |-> own.stage, number |-> n]

(* A request of the bike's own is one of those it has.                     *)
LEMMA OwnIsAsked ==
    ASSUME NEW own \in Own, NEW n \in 0..15
    PROVE  /\ AskedAs(own, n) \in OwnRequests
           /\ OwnBody(AskedAs(own, n)) = <<32, 40, 128 + MobileAppHigh, own.low, 16 * own.type + n>>
                                         \o (IF own.type = WRITE THEN Implicit(1, own.stage) ELSE <<>>)
<1>1. own.type \in {READ, WRITE} /\ own.low \in {StageLow, FeaturesLow} /\ own.stage \in {0, 9}
  BY DEF Own
<1>2. AskedAs(own, n) \in OwnRequests
  BY <1>1 DEF AskedAs, OwnRequests
<1>3. /\ AskedAs(own, n).type = own.type /\ AskedAs(own, n).low = own.low
      /\ AskedAs(own, n).stage = own.stage /\ AskedAs(own, n).number = n
  BY DEF AskedAs
<1> QED BY <1>2, <1>3 DEF OwnBody

(* The bike asks something itself.                                         *)
LEMMA BikeAsksKeeps ==
    ASSUME WireInv, NEW own \in Own, BikeAsks(own)
    PROVE  WireInv'
<1>1. PICK n \in 0..15 : n = unasked % 16
  BY DEF WireInv, BikeInv
<1>2. /\ row = None /\ transport = "ble" /\ Carry(OwnBody(AskedAs(own, n)))
      /\ asked' = Append(asked, AskedAs(own, n))
      /\ UNCHANGED <<transport, bike, toBike, readQueue, udam, startupStage, seq, stageSaid, meant, row, held, entry>>
  <2>1. PICK body : /\ body = <<32, 40, 128 + MobileAppHigh, own.low, 16 * own.type + n>>
                                         \o (IF own.type = WRITE THEN Implicit(1, own.stage) ELSE <<>>)
                    /\ Carry(body)
    BY <1>1 DEF BikeAsks
  <2>2. body = OwnBody(AskedAs(own, n))
    BY <2>1, OwnIsAsked
  <2>3. asked' = Append(asked, AskedAs(own, n))
    BY <1>1 DEF BikeAsks, AskedAs
  <2> QED BY <2>1, <2>2, <2>3 DEF BikeAsks, points
<1>3. Flight("ble", fromBike', readQueue, meant, Append(asked, AskedAs(own, n)), row)
  <2>1. PICK a \in OwnRequests : a = AskedAs(own, n)
    BY OwnIsAsked
  <2>2. Carried(fromBike, OwnBody(a), fromBike')
    BY <1>2, <2>1, CarryIs
  <2>3. Flight("ble", fromBike, readQueue, meant, asked, row)
    BY <1>2 DEF WireInv, FlightInv
  <2>4. Flight("ble", fromBike', readQueue, meant, Append(asked, a), row)
    BY <2>2, <2>3, BleAsks
  <2> QED BY <2>1, <2>4
<1>11. RowInv'
  BY <1>2 DEF WireInv, RowInv
<1>12. BikeInv'
  BY <1>1, <1>2 DEF WireInv, BikeInv, BikeAsks
<1>13. RequestInv'
  BY <1>2 DEF WireInv, RequestInv
<1>14. FlightInv'
  BY <1>2, <1>3, Zenon DEF FlightInv
<1>15. SaidInv'
  BY <1>2 DEF WireInv, SaidInv
<1> QED BY <1>11, <1>12, <1>13, <1>14, <1>15 DEF WireInv

(* What the tool makes of a frame with the settings.                       *)
LEMMA SettingsAreRead ==
    ASSUME NEW f, NEW m, NEW r, Fits(f, m, r), m.point = "params", ParseResponse(f) # NotAFrame,
           ParseResponse(f).status = 0
    PROVE  Decode("params", ParseResponse(f).payload) \in Records /\ r = None
<1>1. ~m.push
  <2>1. "params" # "range"
    OBVIOUS
  <2> QED BY <2>1, Zenon DEF Fits, FitsPush
<1>2. m.status = 0 /\ Says(m, ParseResponse(f).payload, r)
  BY <1>1, Zenon DEF Fits, FitsAnswer
<1>3. DecodeUdamParams(ParseResponse(f).payload) \in Settings
  <2>1. SaysSo("params", m.shows, m.held, ParseResponse(f).payload, r)
    BY <1>2, Zenon DEF Says
  <2> QED BY <2>1, Zenon DEF SaysSo
<1>4. Settings \subseteq Records
  BY RecordIs DEF Settings, Sendable
<1>5. Decode("params", ParseResponse(f).payload) = DecodeUdamParams(ParseResponse(f).payload)
  BY DEF Decode
<1>6. r = None
  <2>1. "params" \notin {"row", "write"}
    OBVIOUS
  <2> QED BY <2>1 DEF Fits, PointsOf
<1> QED BY <1>3, <1>4, <1>5, <1>6

(* A frame is read from the queue.                                         *)
LEMMA ReadsKeeps ==
    ASSUME WireInv, Reads
    PROVE  WireInv'
<1>1. readQueue # <<>> /\ readQueue' = Tail(readQueue) /\ meant' = Tail(meant)
  BY DEF Reads
<1>2. UNCHANGED <<transport, bike, toBike, fromBike, startupStage, seq, stageSaid, asked, unasked, row, held>>
  BY DEF Reads
<1>3. transport \in {"usb", "ble"}
  BY <1>1 DEF WireInv, RowInv
<1>4. Flight(transport, fromBike, readQueue, meant, asked, row)
  BY DEF WireInv, FlightInv
<1>5. Flight(transport, fromBike, Tail(readQueue), Tail(meant), asked, row) /\ Fits(readQueue[1], meant[1], row)
  BY <1>1, <1>4, QueueIsRead
<1>6. PICK f, m : f = readQueue[1] /\ m = meant[1]
  OBVIOUS
<1>7. Fits(f, m, row)
  BY <1>5, <1>6
<1>8. udam' = udam \/ (udam' \in Records /\ row = None)
  <2>1. CASE m.point = "params" /\ ParseResponse(f) # NotAFrame /\ ParseResponse(f).status = 0
    <3>1. udam' = Decode("params", ParseResponse(f).payload)
      BY <1>6, <2>1 DEF Reads
    <3> QED BY <1>7, <2>1, <3>1, SettingsAreRead
  <2>2. CASE ~(m.point = "params" /\ ParseResponse(f) # NotAFrame /\ ParseResponse(f).status = 0)
    BY <1>6, <2>2 DEF Reads
  <2> QED BY <2>1, <2>2
<1>9. entry' = entry \/ row # None
  <2>1. CASE m.point = "row"
    <3>1. "row" \notin Points \ {"row", "write"}
      OBVIOUS
    <3> QED BY <1>7, <2>1, <3>1, Zenon DEF Fits, PointsOf
  <2>2. CASE m.point # "row"
    BY <1>6, <2>2 DEF Reads
  <2> QED BY <2>1, <2>2
<1>11. RowInv'
  BY <1>2, <1>3, <1>8, <1>9 DEF WireInv, RowInv
<1>12. BikeInv'
  BY <1>2, <1>8 DEF WireInv, BikeInv
<1>13. RequestInv'
  BY <1>2 DEF WireInv, RequestInv
<1>14. FlightInv'
  BY <1>1, <1>2, <1>5, Zenon DEF FlightInv
<1>15. SaidInv'
  BY <1>2 DEF WireInv, SaidInv
<1> QED BY <1>11, <1>12, <1>13, <1>14, <1>15 DEF WireInv

(* The report is loaded: nothing was on its way.                           *)
LEMMA ReopensKeeps ==
    ASSUME WireInv, Reopens
    PROVE  WireInv'
<1>1. /\ transport \in {"usb", "ble"} /\ toBike = <<>> /\ meant = <<>> /\ entry # None /\ transport' = "file"
      /\ UNCHANGED <<bike, toBike, fromBike, readQueue, udam, startupStage, seq, stageSaid, meant, asked, unasked, row, held>>
  BY DEF Reopens, Idle
<1>2. Flight(transport, fromBike, readQueue, meant, asked, row)
  BY DEF WireInv, FlightInv
<1>3. row # None /\ asked = <<>> /\ udam = None /\ row \in ReadRows
  BY <1>1 DEF WireInv, RowInv
<1>4. fromBike \in Seq(Seq(Byte))
  <2>1. CASE transport = "usb"
    BY <1>2, <2>1 DEF Flight
  <2>2. CASE transport = "ble"
    <3>1. fromBike \in Seq(Notifications) /\ Notifications \subseteq Seq(Byte)
      BY <1>2, <2>2, HearingMaps DEF Flight
    <3>2. \A S, T : S \subseteq T => Seq(S) \subseteq Seq(T)
      OBVIOUS
    <3> QED BY <3>1, <3>2
  <2> QED BY <1>1, <2>1, <2>2
<1>5. readQueue = <<>>
  <2>1. PICK q \in Seq(Seq(Byte)), c \in Seq(Seq(Byte)) : q = readQueue /\ Meet(q \o c, <<>>, row)
    BY <1>1, <1>2, FlightFrames
  <2>2. Len(q \o c) = 0
    BY <2>1 DEF Meet
  <2>3. Len(q) = 0
    BY <2>2
  <2> QED BY <2>1, <2>3
<1>6. Flight("file", fromBike', readQueue, meant, asked, row)
  <2>1. Coming("file", fromBike') = <<>>
    BY DEF Coming
  <2>2. <<>> \o <<>> = <<>>
    OBVIOUS
  <2>3. Meet(readQueue \o Coming("file", fromBike'), meant, row)
    BY <1>1, <1>5, <2>1, <2>2, MeetNone
  <2>4. asked \in Seq(OwnRequests) /\ readQueue \in Seq(Seq(Byte))
    BY <1>2 DEF Flight
  <2>5. "file" # "ble" /\ "file" # "usb"
    OBVIOUS
  <2> QED BY <1>3, <2>3, <2>4, <2>5, Zenon DEF Flight
<1>11. RowInv'
  BY <1>1, <1>3, <1>4, <1>5 DEF WireInv, RowInv
<1>12. BikeInv'
  BY <1>1 DEF WireInv, BikeInv
<1>13. RequestInv'
  BY <1>1 DEF WireInv, RequestInv
<1>14. FlightInv'
  BY <1>1, <1>6, Zenon DEF FlightInv
<1>15. SaidInv'
  BY <1>1 DEF WireInv, SaidInv
<1> QED BY <1>11, <1>12, <1>13, <1>14, <1>15 DEF WireInv

Replies(reqs) == [k \in DOMAIN reqs |-> MobileAppReply(reqs[k])]

\* The stage that the k-th of the requests asked tells.
Said(as, k) == as[k].type = WRITE /\ as[k].low = StageLow

LastSaid(as, n, old) ==
    IF \E k \in 1..n : Said(as, k)
    THEN as[CHOOSE k \in 1..n : Said(as, k) /\ \A j \in (k + 1)..n : ~Said(as, j)].stage
    ELSE old

LastTold(stages, old) == IF stages = <<>> THEN old ELSE StageIn(stages[Len(stages)])

(* What the tool does with a notification.                                 *)
LEMMA NotificationIsTaken ==
    ASSUME NotificationArrives, NEW n \in Notifications, n = fromBike[1]
    PROVE  /\ readQueue' = readQueue \o Each(Rebuilding, OthersIn(n))
           /\ replied' = [asks |-> SubSeq(asked, 1, Len(RequestsIn(n))), replies |-> Replies(RequestsIn(n))]
           /\ asked' = SubSeq(asked, Len(RequestsIn(n)) + 1, Len(asked))
           /\ startupStage' = LastTold(Kept(RequestsIn(n), StageWrites), startupStage)
           /\ stageSaid' = LastSaid(asked, Len(RequestsIn(n)), stageSaid)
<1> DEFINE bodies == BodiesIn(fromBike[1])
           requests == Chosen(bodies, {k \in DOMAIN bodies : IsMobileAppRequest(bodies[k])})
           others == Chosen(bodies, {k \in DOMAIN bodies : ~IsMobileAppRequest(bodies[k]) /\ Len(bodies[k]) < 256})
           stages == Chosen(requests, {k \in DOMAIN requests : WritesStage(requests[k])})
<1>1. requests = RequestsIn(n) /\ others = OthersIn(n)
  BY ToldApart
<1>2. RequestsIn(n) \in Seq(Bodies) /\ OthersIn(n) \in Seq(Bodies)
  BY InType
<1>3. stages = Kept(RequestsIn(n), StageWrites)
  <2> HIDE DEF requests
  <2>1. requests \in Seq(Bodies)
    BY <1>1, <1>2
  <2>2. stages = Kept(requests, StageWrites)
    BY <2>1, StagesToldApart
  <2> QED BY <2>2, <1>1
<1>4. [k \in DOMAIN others |-> Rebuild(others[k])] = Each(Rebuilding, OthersIn(n))
  <2> HIDE DEF others
  <2>1. \A k \in DOMAIN others : others[k] \in Bodies
    BY <1>1, <1>2
  <2>2. \A k \in DOMAIN others : Rebuild(others[k]) = Rebuilding[others[k]]
    BY <2>1, RebuildingMaps
  <2> QED BY <1>1, <2>2 DEF Each
<1>5. /\ readQueue' = readQueue \o [k \in DOMAIN others |-> Rebuild(others[k])]
      /\ replied' = [asks |-> SubSeq(asked, 1, Len(requests)), replies |-> Replies(requests)]
      /\ asked' = SubSeq(asked, Len(requests) + 1, Len(asked))
      /\ startupStage' = LastTold(stages, startupStage)
      /\ stageSaid' = LastSaid(asked, Len(requests), stageSaid)
  <2>1. readQueue' = readQueue \o [k \in DOMAIN others |-> Rebuild(others[k])]
    BY DEF NotificationArrives, BodiesIn
  <2>2. replied' = [asks |-> SubSeq(asked, 1, Len(requests)), replies |-> Replies(requests)]
    BY DEF NotificationArrives, BodiesIn, Replies
  <2>3. asked' = SubSeq(asked, Len(requests) + 1, Len(asked))
    BY DEF NotificationArrives, BodiesIn
  <2>4. startupStage' = LastTold(stages, startupStage)
    BY DEF NotificationArrives, BodiesIn, LastTold
  <2>5. stageSaid' = LastSaid(asked, Len(requests), stageSaid)
    BY DEF NotificationArrives, BodiesIn, LastSaid, Said
  <2> QED BY <2>1, <2>2, <2>3, <2>4, <2>5
<1> HIDE DEF others, requests, stages, bodies
<1> QED BY <1>1, <1>3, <1>4, <1>5

(* What waitForBikeReady waits for is told by the last request that tells  *)
(* a stage, as the bike asked it.                                          *)
LEMMA StageIsLastTold ==
    ASSUME NEW reqs \in Seq(Bodies), NEW as, FirstAsked(reqs, as), NEW old, NEW said, old = 9 <=> said = 9
    PROVE  LastTold(Kept(reqs, StageWrites), old) = 9 <=> LastSaid(as, Len(reqs), said) = 9
<1>1. ASSUME NEW k \in 1..Len(reqs)
      PROVE  /\ reqs[k] \in StageWrites <=> Said(as, k)
             /\ Said(as, k) => (StageIn(reqs[k]) = 9 <=> as[k].stage = 9)
  <2>1. as[k] \in OwnRequests /\ reqs[k] = OwnBody(as[k])
    BY DEF FirstAsked
  <2> QED BY <2>1, OwnBodyIs DEF TellsStage, Said
<1>2. Len(reqs) \in Nat
  BY DEF FirstAsked
<1>3. CASE \E k \in 1..Len(reqs) : Said(as, k)
  <2> DEFINE Last(k) == Said(as, k) /\ \A j \in (k + 1)..Len(reqs) : ~Said(as, j)
             V == {k \in 1..Len(reqs) : Said(as, k)}
  <2>1. \E k \in 1..Len(reqs) : Last(k)
    <3>1. V \in SUBSET (1..Len(reqs)) /\ V # {}
      BY <1>3
    <3>2. PICK k \in V : \A j \in V : j <= k
      <4> HIDE DEF V
      <4> QED BY <1>2, <3>1, LastOne
    <3>3. ASSUME NEW j \in (k + 1)..Len(reqs) PROVE ~Said(as, j)
      <4>1. j \in 1..Len(reqs) /\ ~(j <= k)
        BY <1>2
      <4> QED BY <3>2, <4>1, Zenon
    <3> QED BY <3>2, <3>3
  <2>2. PICK k \in 1..Len(reqs) : Last(k) /\ LastSaid(as, Len(reqs), said) = as[k].stage
    <3>1. PICK k \in 1..Len(reqs) : k = CHOOSE i \in 1..Len(reqs) : Last(i)
      BY <2>1
    <3>2. Last(k)
      BY <2>1, <3>1
    <3> QED BY <1>3, <3>1, <3>2 DEF LastSaid
  <2>3. reqs[k] \in StageWrites
    BY <1>1, <2>2
  <2>4. \A j \in 1..Len(reqs) : j > k => reqs[j] \notin StageWrites
    <3> SUFFICES ASSUME NEW j \in 1..Len(reqs), j > k PROVE reqs[j] \notin StageWrites
      OBVIOUS
    <3>1. j \in (k + 1)..Len(reqs)
      BY <1>2
    <3> QED BY <1>1, <2>2, <3>1
  <2> HIDE DEF Last, V
  <2>5. Kept(reqs, StageWrites) # <<>> /\ Kept(reqs, StageWrites)[Len(Kept(reqs, StageWrites))] = reqs[k]
    BY <2>3, <2>4, LastKept
  <2>6. LastTold(Kept(reqs, StageWrites), old) = StageIn(reqs[k])
    BY <2>5 DEF LastTold
  <2>7. StageIn(reqs[k]) = 9 <=> as[k].stage = 9
    BY <1>1, <2>3
  <2> QED BY <2>2, <2>6, <2>7, Zenon
<1>4. CASE ~\E k \in 1..Len(reqs) : Said(as, k)
  <2>1. \A k \in 1..Len(reqs) : reqs[k] \notin StageWrites
    BY <1>1, <1>4
  <2>2. Kept(reqs, StageWrites) = <<>>
    BY <2>1, KeptNone
  <2> QED BY <1>4, <2>2, Zenon DEF LastTold, LastSaid
<1> QED BY <1>3, <1>4, Zenon

AnsweredFor(reply, a) ==
    SubSeq(reply, 1, 5) = <<MobileAppHigh, a.low, 128 + 32, 40, 16 * (a.type + 1) + a.number>>

AllAnswered(r) ==
    /\ Len(r.asks) = Len(r.replies)
    /\ \A k \in DOMAIN r.asks : AnsweredFor(r.replies[k], r.asks[k])

(* Each request is replied to, with its own field, requester and number.   *)
LEMMA AllAreAnswered ==
    ASSUME NEW reqs \in Seq(Bodies), NEW as \in Seq(OwnRequests), FirstAsked(reqs, as),
           NEW r, r = [asks |-> SubSeq(as, 1, Len(reqs)), replies |-> Replies(reqs)]
    PROVE  AllAnswered(r)
<1>1. r.asks = SubSeq(as, 1, Len(reqs)) /\ r.replies = Replies(reqs)
  OBVIOUS
<1>2. Len(r.asks) = Len(reqs) /\ Len(r.replies) = Len(reqs) /\ DOMAIN r.asks = 1..Len(reqs)
  <2>1. Len(reqs) \in Nat /\ Len(SubSeq(as, 1, Len(reqs))) = Len(reqs) /\ DOMAIN reqs = 1..Len(reqs)
    BY DEF FirstAsked
  <2>2. Len(Replies(reqs)) = Len(reqs)
    BY <2>1 DEF Replies
  <2>4. DOMAIN SubSeq(as, 1, Len(reqs)) = 1..Len(reqs)
    BY <2>1
  <2> QED BY <1>1, <2>1, <2>2, <2>4
<1>3. ASSUME NEW k \in 1..Len(reqs) PROVE AnsweredFor(r.replies[k], r.asks[k])
  <2>1. as[k] \in OwnRequests /\ reqs[k] = OwnBody(as[k]) /\ r.asks[k] = as[k]
    BY <1>1 DEF FirstAsked
  <2>2. r.replies[k] = MobileAppReply(reqs[k])
    BY <1>1 DEF Replies
  <2>3. PICK a \in OwnRequests : a = as[k]
    BY <2>1
  <2>4. AnsweredFor(MobileAppReply(OwnBody(a)), a)
    BY OwnBodyIsAnswered DEF AnsweredFor
  <2> QED BY <2>1, <2>2, <2>3, <2>4
<1> QED BY <1>2, <1>3 DEF AllAnswered

(* A notification arrives.                                                 *)
LEMMA NotificationArrivesKeeps ==
    ASSUME WireInv, NotificationArrives
    PROVE  WireInv' /\ AllAnswered(replied')
<1>1. /\ transport = "ble" /\ fromBike # <<>> /\ fromBike' = Tail(fromBike)
      /\ UNCHANGED <<transport, bike, toBike, udam, seq, meant, unasked, row, held, entry>>
  BY DEF NotificationArrives, points
<1>2. Flight("ble", fromBike, readQueue, meant, asked, row)
  BY <1>1 DEF WireInv, FlightInv
<1>3. /\ Flight("ble", Tail(fromBike), readQueue \o Each(Rebuilding, OthersIn(fromBike[1])), meant,
                SubSeq(asked, Len(RequestsIn(fromBike[1])) + 1, Len(asked)), row)
      /\ FirstAsked(RequestsIn(fromBike[1]), asked) /\ fromBike[1] \in Notifications
  BY <1>1, <1>2, BleArrives
<1>4. PICK n \in Notifications : n = fromBike[1]
  BY <1>3
<1>5. /\ readQueue' = readQueue \o Each(Rebuilding, OthersIn(n))
      /\ replied' = [asks |-> SubSeq(asked, 1, Len(RequestsIn(n))), replies |-> Replies(RequestsIn(n))]
      /\ asked' = SubSeq(asked, Len(RequestsIn(n)) + 1, Len(asked))
      /\ startupStage' = LastTold(Kept(RequestsIn(n), StageWrites), startupStage)
      /\ stageSaid' = LastSaid(asked, Len(RequestsIn(n)), stageSaid)
  BY <1>4, NotificationIsTaken
<1>6. PICK reqs \in Seq(Bodies) : reqs = RequestsIn(n) /\ FirstAsked(reqs, asked)
  BY <1>3, <1>4, InType
<1>7. asked \in Seq(OwnRequests)
  BY <1>2 DEF Flight
<1>11. RowInv'
  <2>1. row # None => asked' = <<>>
    <3>1. CASE row # None
      <4>1. asked = <<>>
        BY <3>1 DEF WireInv, RowInv
      <4>2. asked' \in Seq(OwnRequests) /\ Len(reqs) \in Nat /\ Len(SubSeq(asked, 1, Len(reqs))) = Len(reqs)
        BY <1>3, <1>4, <1>5, <1>6 DEF Flight, FirstAsked
      <4>3. PICK k \in Nat : k = Len(reqs)
        BY <4>2
      <4>4. asked' = SubSeq(<<>>, k + 1, 0)
        BY <1>5, <1>6, <4>1, <4>3
      <4>5. \A j \in Nat : SubSeq(<<>>, j + 1, 0) = <<>>
        OBVIOUS
      <4> QED BY <4>4, <4>5
    <3> QED BY <3>1
  <2> QED BY <1>1, <2>1 DEF WireInv, RowInv
<1>12. BikeInv'
  BY <1>1 DEF WireInv, BikeInv
<1>13. RequestInv'
  BY <1>1 DEF WireInv, RequestInv
<1>14. FlightInv'
  BY <1>1, <1>3, <1>4, <1>5, Zenon DEF FlightInv
<1>15. SaidInv'
  BY <1>5, <1>6, StageIsLastTold DEF WireInv, SaidInv
<1>16. AllAnswered(replied')
  BY <1>5, <1>6, <1>7, AllAreAnswered
<1> QED BY <1>11, <1>12, <1>13, <1>14, <1>15, <1>16 DEF WireInv

(***************************************************************************)
(* The bike serves a request.                                              *)
(***************************************************************************)
ParsedIn(body) == [host |-> SubSeq(body, 1, 2), addr |-> <<Low7(body[3]), body[4]>>,
                   type |-> body[5] \div 16, seq |-> body[5] % 16, payload |-> SubSeq(body, 6, Len(body))]

\* What `understood` and `meant` say of a request x.
Taking(x, parsed, b, b2, h2, status) ==
    [request |-> parsed, point |-> x.point, seq |-> x.seq, before |-> b, after |-> b2, change |-> x.change,
     held |-> h2, status |-> status]

Giving(x, addr, status, shows, h) ==
    [addr |-> addr, point |-> x.point, push |-> FALSE, seq |-> x.seq, status |-> status, shows |-> shows, held |-> h]

\* The answers to a request with that status.
MayGive(point, status) ==
    IF status # 0 THEN {[bytes |-> <<status>>, shows |-> <<>>]}
    ELSE IF point = "set" THEN {[bytes |-> <<8, 1>>, shows |-> TRUE]} ELSE Answers(point)

\* The host as an answer names it: success is a flag in it.
ReplyTo(h, status) == IF status = 0 THEN <<128 + h[1], h[2]>> ELSE h

(* What serving is, part by part.                                          *)
LEMMA ServesIs ==
    ASSUME NEW status, Serves(status), NEW x, x = toBike[1], NEW body, body = BodyIn(transport, x.bytes)
    PROVE  /\ bike' = IF x.point = "set" /\ status = 0 THEN SetTo(SubSeq(body, 6, Len(body))) ELSE bike
           /\ held' = IF x.point = "write" /\ status = 0 THEN Taken(row.shape, SubSeq(body, 6, Len(body)), held) ELSE held
           /\ understood' = Taking(x, ParsedIn(body), bike, bike', held', status)
           /\ \E a \in MayGive(x.point, status) :
                 /\ Carry(AnswerHead(body, ReplyTo(Host(transport), status)) \o a.bytes)
                 /\ meant' = Append(meant, Giving(x, Addr(x.point), status, a.shows, held))
<1>1. body = RequestBody(toBike[1].bytes)
  BY DEF RequestBody, BodyIn
<1>2. HostAddress = Host(transport)
  BY DEF HostAddress, Host
<1>3. bike' = IF x.point = "set" /\ status = 0 THEN SetTo(SubSeq(body, 6, Len(body))) ELSE bike
  BY <1>1 DEF Serves
<1>4. held' = IF x.point = "write" /\ status = 0 THEN Taken(row.shape, SubSeq(body, 6, Len(body)), held) ELSE held
  BY <1>1 DEF Serves
<1>5. understood' = Taking(x, ParsedIn(body), bike, bike', held', status)
  BY <1>1 DEF Serves, Taking, ParsedIn
<1>6. PICK a \in MayGive(x.point, status) :
         /\ Carry(AnswerHead(body, ReplyTo(Host(transport), status)) \o a.bytes)
         /\ meant' = Append(meant, Giving(x, Addr(x.point), status, a.shows, held))
  BY <1>1, <1>2 DEF Serves, MayGive, AnswerHead, ReplyTo, Giving
<1> QED BY <1>3, <1>4, <1>5, <1>6

\* An answer is one for the point.
GivenFor(point, a, h, r, status) ==
    /\ status = 0 => AnswerSays(point, a, h, r)
    /\ status # 0 => a.bytes = <<status>> /\ a.shows = <<>>

\* The body b, as it arrives, is read as meant by m.
FitsGiven(t, b, m, r) == b \in BodiesOver(t) /\ Fits(FrameOf(t, b), m, r)

(* What is read of an answer fits what was given.                          *)
LEMMA ReadFits ==
    ASSUME NEW r, NEW x, x.point \in PointsOf(r), NEW a \in (0..127) \X Byte, NEW type, type = TypeOf(x.point), NEW c,
           c \div 16 = type + 1 /\ c % 16 = x.seq, NEW status, NEW shows, NEW h, NEW v, NEW f,
           ReadsResponse(f, a, c, status, v), status = 0 => SaysSo(x.point, shows, h, v, r),
           status # 0 => shows = <<>>, NEW m, m = Giving(x, a, status, shows, h)
    PROVE  Fits(f, m, r)
<1>1. /\ m.addr = a /\ m.point = x.point /\ m.push = FALSE /\ m.seq = x.seq /\ m.status = status
      /\ m.shows = shows /\ m.held = h
  BY DEF Giving
<1>2. a = <<a[1], a[2]>>
  OBVIOUS
<1>3. PICK q : q = ParseResponse(f)
  OBVIOUS
<1>4. /\ ParseNotify(f) = NotAFrame /\ q # NotAFrame /\ q.addr = a /\ q.type = type + 1 /\ q.seq = x.seq
      /\ q.status = status /\ (status = 0 => q.payload = v)
  BY <1>2, <1>3 DEF ReadsResponse
<1>5. m.status = 0 => Says(m, q.payload, r)
  <2>1. CASE status = 0
    BY <1>1, <1>4, <2>1, Zenon DEF Says
  <2>2. CASE status # 0
    BY <1>1, <2>2
  <2> QED BY <2>1, <2>2
<1>6. m.status # 0 => m.shows = <<>>
  BY <1>1
<1>7. FitsAnswer(f, m, r)
  BY <1>1, <1>3, <1>4, <1>5, <1>6, Zenon DEF FitsAnswer
<1> QED BY <1>1, <1>7 DEF Fits

(* The host addresses, with the flag of an answer and without it.          *)
LEMMA HostAreBytes ==
    ASSUME NEW t
    PROVE  /\ Host(t) \in {HostUsb, HostBle} /\ Host(t) \in Byte \X Byte
           /\ <<128 + Host(t)[1], Host(t)[2]>> \in Byte \X Byte
BY DEF Host, HostUsb, HostBle, Byte

IsFor(x, r, type, n) == x.point \in PointsOf(r) /\ x.seq = n /\ type = TypeOf(x.point)

(* An answer of the bike fits what the bike meant.                         *)
LEMMA AnswerFits ==
    ASSUME NEW r, NEW t \in {"usb", "ble"}, NEW addr \in (0..127) \X Byte, NEW type \in {0, 2, 4, 6}, NEW n \in 0..15,
           NEW body, NEW p, TakesApart(body, Host(t), addr, type, n, p), NEW status \in 0..255,
           NEW x, IsFor(x, r, type, n), NEW h, NEW a, GivenFor(x.point, a, h, r, status)
    PROVE  FitsGiven(t, AnswerHead(body, ReplyTo(Host(t), status)) \o a.bytes, Giving(x, addr, status, a.shows, h), r)
<1>1. x.point \in PointsOf(r) /\ x.seq = n /\ type = TypeOf(x.point)
  BY DEF IsFor
<1>2. PICK m : m = Giving(x, addr, status, a.shows, h)
  OBVIOUS
<1>3. CASE status = 0
  <2>1. ReplyTo(Host(t), status) = <<128 + Host(t)[1], Host(t)[2]>> /\ ReplyTo(Host(t), status) \in Byte \X Byte
    BY <1>3, HostAreBytes DEF ReplyTo
  <2>0. PICK to \in Byte \X Byte : to = <<128 + Host(t)[1], Host(t)[2]>> /\ to = ReplyTo(Host(t), status)
    BY <2>1
  <2>8. PICK c \in Byte : HeadsAnswer(body, to, addr, type, n, c)
    BY AnswerHeadIs
  <2>2. /\ AnswerHead(body, ReplyTo(Host(t), status)) = Head5(addr, <<128 + Host(t)[1], Host(t)[2]>>, c)
        /\ c \div 16 = type + 1 /\ c % 16 = n
    BY <2>0, <2>8, Zenon DEF HeadsAnswer
  <2>3. PICK v \in Small(250) : v = a.bytes /\ SaysSo(x.point, a.shows, h, v, r)
    BY <1>3 DEF GivenFor, AnswerSays
  <2>4. PICK b : b = Head5(addr, <<128 + Host(t)[1], Host(t)[2]>>, c) \o v
    OBVIOUS
  <2>5. ReadsResponse(FrameOf(t, b), addr, c, 0, v) /\ b \in BodiesOver(t)
    <3>1. AnswerReads(t, addr, c, Head5(addr, <<128 + Host(t)[1], Host(t)[2]>>, c) \o v, 0, v)
      BY AnswerIsRead
    <3> QED BY <2>4, <3>1, Zenon DEF AnswerReads
  <2>6. Fits(FrameOf(t, b), m, r)
    BY <1>1, <1>2, <1>3, <2>2, <2>3, <2>5, ReadFits
  <2> QED BY <1>2, <2>2, <2>3, <2>4, <2>5, <2>6 DEF FitsGiven
<1>4. CASE status # 0
  <2>1. ReplyTo(Host(t), status) = Host(t) /\ ReplyTo(Host(t), status) \in Byte \X Byte
    BY <1>4, HostAreBytes DEF ReplyTo
  <2>0. PICK to \in Byte \X Byte : to = Host(t) /\ to = ReplyTo(Host(t), status)
    BY <2>1
  <2>8. PICK c \in Byte : HeadsAnswer(body, to, addr, type, n, c)
    BY AnswerHeadIs
  <2>2. /\ AnswerHead(body, ReplyTo(Host(t), status)) = Head5(addr, Host(t), c)
        /\ c \div 16 = type + 1 /\ c % 16 = n
    BY <2>0, <2>8, Zenon DEF HeadsAnswer
  <2>3. a.bytes = <<status>> /\ a.shows = <<>>
    BY <1>4 DEF GivenFor
  <2>4. PICK b : b = Head5(addr, Host(t), c) \o <<status>>
    OBVIOUS
  <2>5. PICK s \in 1..255 : s = status
    BY <1>4
  <2>6. ReadsResponse(FrameOf(t, b), addr, c, s, <<>>) /\ b \in BodiesOver(t)
    <3>1. AnswerReads(t, addr, c, Head5(addr, Host(t), c) \o <<s>>, s, <<>>)
      BY AnswerIsRead
    <3> QED BY <2>4, <2>5, <3>1, Zenon DEF AnswerReads
  <2>7. Fits(FrameOf(t, b), m, r)
    BY <1>1, <1>2, <1>4, <2>2, <2>3, <2>5, <2>6, ReadFits
  <2> QED BY <1>2, <2>2, <2>3, <2>4, <2>6, <2>7 DEF FitsGiven
<1> QED BY <1>3, <1>4

AsMeant(t, r, x, p) ==
    [host |-> Host(t), addr |-> AddressOf(r, x.point), type |-> TypeOf(x.point), seq |-> x.seq, payload |-> p]

\* The bike served the request x with the argument p.
ServedAs(x, p, status) ==
    /\ transport \in {"usb", "ble"} /\ x.point \in PointsOf(row) /\ x.seq \in 0..15 /\ Purpose(row, x, p)
    /\ bike' = IF x.point = "set" /\ status = 0 THEN SetTo(p) ELSE bike
    /\ held' = IF x.point = "write" /\ status = 0 THEN Taken(row.shape, p, held) ELSE held
    /\ understood' = Taking(x, AsMeant(transport, row, x, p), bike, bike', held', status)
    /\ Flight(transport, fromBike', readQueue, meant', asked, row)

(* The parts of a request, as the bike takes them.                         *)
LEMMA PartsAreTaken ==
    ASSUME NEW body, NEW h \in Byte \X Byte, NEW a \in (0..127) \X Byte, NEW type, NEW n, NEW p,
           TakesApart(body, h, a, type, n, p)
    PROVE  /\ SubSeq(body, 6, Len(body)) = p
           /\ ParsedIn(body) = [host |-> h, addr |-> a, type |-> type, seq |-> n, payload |-> p]
<1>1. <<a[1], a[2]>> = a
  OBVIOUS
<1>2. /\ <<Low7(body[3]), body[4]>> = a /\ body[5] \div 16 = type /\ body[5] % 16 = n
      /\ SubSeq(body, 1, 2) = h /\ SubSeq(body, 6, Len(body)) = p
  BY <1>1, Zenon DEF TakesApart
<1> QED BY <1>2, Zenon DEF ParsedIn

(* What may be answered is read as it was meant.                           *)
LEMMA GivenIsRead ==
    ASSUME bike \in BikeRecords, row # None => row \in ReadRows /\ held \in Meanings(row.shape),
           NEW point \in PointsOf(row), NEW status \in 0..255, NEW a \in MayGive(point, status)
    PROVE  GivenFor(point, a, held, row, status)
<1>1. CASE status # 0
  <2>1. a = [bytes |-> <<status>>, shows |-> <<>>]
    BY <1>1 DEF MayGive
  <2> QED BY <1>1, <2>1 DEF GivenFor
<1>2. CASE status = 0 /\ point = "set"
  <2>1. a = [bytes |-> <<8, 1>>, shows |-> TRUE]
    BY <1>2 DEF MayGive
  <2>2. AnswerSays("set", [bytes |-> <<8, 1>>, shows |-> TRUE], held, row)
    BY OtherAnswers
  <2> QED BY <1>2, <2>1, <2>2 DEF GivenFor
<1>3. CASE status = 0 /\ point # "set"
  <2>1. a \in Answers(point)
    BY <1>3 DEF MayGive
  <2>2. AnswerSays(point, a, held, row)
    BY <1>3, <2>1, AnswersSay
  <2> QED BY <1>3, <2>2 DEF GivenFor
<1> QED BY <1>1, <1>2, <1>3

(* The bike takes a request as it was meant, and what it answers is on its *)
(* way with its meaning.                                                   *)
LEMMA RequestIsServed ==
    ASSUME WireInv, NEW status \in Statuses, Serves(status)
    PROVE  \E p \in Small(250) : ServedAs(toBike[1], p, status)
<1>1. toBike # <<>>
  BY DEF Serves
<1>2. PICK t \in {"usb", "ble"} : t = transport
  BY <1>1 DEF WireInv, RowInv
<1>3. IsRequest(transport, row, toBike[1])
  BY <1>1 DEF WireInv, RequestInv
<1>4. PICK x : x = toBike[1]
  OBVIOUS
<1>5. PICK p \in Small(250) : Carries(transport, row, x, p)
  BY <1>3, <1>4, Zenon DEF IsRequest
<1>6. PICK point \in PointsOf(row), n \in 0..15 : point = x.point /\ n = x.seq
  BY <1>3, <1>4, Zenon DEF IsRequest
<1>7. row # None => row \in ReadRows /\ held \in Meanings(row.shape)
  BY DEF WireInv, RowInv
<1>8. PICK addr \in (0..127) \X Byte : addr = Addr(point) /\ addr = AddressOf(row, point)
  BY <1>7, PointIs
<1>9. PICK type \in {0, 2, 4, 6} : type = TypeOf(point)
  BY <1>7, PointIs
<1>10. PICK h \in {HostUsb, HostBle} : h = Host(t) /\ h \in Byte \X Byte
  BY HostAreBytes
<1>11. PICK body : body = BodyIn(transport, x.bytes)
  OBVIOUS
<1>12. p \in Seq(Byte)
  <2>1. 250 \in Nat
    OBVIOUS
  <2> QED BY <2>1, SmallIs
<1>13. TakesApart(body, h, addr, type, n, p)
  <2>1. body = RequestHead(h, addr, type, n) \o p
    BY <1>2, <1>5, <1>6, <1>8, <1>9, <1>10, <1>11, Zenon DEF Carries
  <2> QED BY <1>12, <2>1, RequestIsTakenApart
<1>14. /\ SubSeq(body, 6, Len(body)) = p
       /\ ParsedIn(body) = [host |-> h, addr |-> addr, type |-> type, seq |-> n, payload |-> p]
  BY <1>10, <1>13, PartsAreTaken
<1>15. ParsedIn(body) = AsMeant(transport, row, x, p)
  BY <1>2, <1>6, <1>8, <1>9, <1>10, <1>14, Zenon DEF AsMeant
<1>16. /\ bike' = IF x.point = "set" /\ status = 0 THEN SetTo(p) ELSE bike
       /\ held' = IF x.point = "write" /\ status = 0 THEN Taken(row.shape, p, held) ELSE held
       /\ understood' = Taking(x, AsMeant(transport, row, x, p), bike, bike', held', status)
  <2>1. /\ bike' = IF x.point = "set" /\ status = 0 THEN SetTo(SubSeq(body, 6, Len(body))) ELSE bike
        /\ held' = IF x.point = "write" /\ status = 0 THEN Taken(row.shape, SubSeq(body, 6, Len(body)), held) ELSE held
        /\ understood' = Taking(x, ParsedIn(body), bike, bike', held', status)
    BY <1>4, <1>11, ServesIs
  <2> QED BY <1>14, <1>15, <2>1
<1>17. Flight(transport, fromBike', readQueue, meant', asked, row)
  <2>1. PICK a \in MayGive(x.point, status) :
            /\ Carry(AnswerHead(body, ReplyTo(Host(transport), status)) \o a.bytes)
            /\ meant' = Append(meant, Giving(x, Addr(x.point), status, a.shows, held))
    BY <1>4, <1>11, ServesIs
  <2>2. PICK s \in 0..255 : s = status
    BY StatusesAssumption
  <2>3. PICK b : b = AnswerHead(body, ReplyTo(Host(t), s)) \o a.bytes
    OBVIOUS
  <2>4. PICK m : m = Giving(x, addr, s, a.shows, held)
    OBVIOUS
  <2>5. GivenFor(point, a, held, row, s)
    <3>1. a \in MayGive(point, s) /\ bike \in BikeRecords
      BY <1>6, <2>2 DEF WireInv, BikeInv
    <3> QED BY <1>7, <3>1, GivenIsRead
  <2>6. FitsGiven(t, b, m, row)
    <3>1. TakesApart(body, Host(t), addr, type, n, p)
      BY <1>10, <1>13
    <3>2. GivenFor(x.point, a, held, row, s) /\ IsFor(x, row, type, n)
      BY <1>6, <1>9, <2>5 DEF IsFor
    <3>3. FitsGiven(t, AnswerHead(body, ReplyTo(Host(t), s)) \o a.bytes, Giving(x, addr, s, a.shows, held), row)
      BY <3>1, <3>2, AnswerFits, ZenonT(60)
    <3> QED BY <2>3, <2>4, <3>3, Zenon
  <2>7. b \in BodiesOver(transport) /\ Carry(b) /\ Fits(FrameOf(transport, b), m, row) /\ meant' = Append(meant, m)
    BY <1>2, <1>6, <1>8, <2>1, <2>2, <2>3, <2>4, <2>6, Zenon DEF FitsGiven
  <2>8. Flight(transport, fromBike', readQueue, Append(meant, m), asked, row)
    BY <1>2, <2>7, BodyIsCarried DEF WireInv
  <2> QED BY <2>7, <2>8, Zenon
<1>18. Purpose(row, x, p)
  BY <1>5 DEF Carries
<1>19. ServedAs(x, p, status)
  BY <1>2, <1>6, <1>16, <1>17, <1>18, Zenon DEF ServedAs
<1> QED BY <1>4, <1>19, Zenon

(* Whatever is written, the point has a value of its kind afterwards.      *)
LEMMA TakenType ==
    ASSUME NEW shape, NEW payload, NEW v \in Meanings(shape)
    PROVE  Taken(shape, payload, v) \in Meanings(shape)
<1> DEFINE matches == {w \in Meanings(shape) : payload \in {Encoded(shape, w), Explicit(shape, w)}}
<1>1. Taken(shape, payload, v) = IF matches = {} THEN v ELSE CHOOSE w \in matches : TRUE
  BY DEF Taken
<1>2. matches # {} => (CHOOSE w \in matches : TRUE) \in matches
  <2> HIDE DEF matches
  <2> QED OBVIOUS
<1>3. matches \subseteq Meanings(shape)
  OBVIOUS
<1> HIDE DEF matches
<1> QED BY <1>1, <1>2, <1>3

(* The bike serves a request.                                              *)
LEMMA ServesKeeps ==
    ASSUME WireInv, NEW status \in Statuses, Serves(status)
    PROVE  WireInv'
<1>0. PICK x : x = toBike[1]
  OBVIOUS
<1>1. PICK p \in Small(250) : ServedAs(x, p, status)
  BY <1>0, RequestIsServed
<1>2. UNCHANGED <<transport, readQueue, udam, startupStage, seq, stageSaid, asked, unasked, row, entry>> /\ toBike' = <<>>
  BY DEF Serves
<1>3. bike' \in BikeRecords
  BY <1>1, SetToType DEF ServedAs, WireInv, BikeInv
<1>4. transport \in {"usb", "ble"}
  BY <1>1 DEF ServedAs
<1>5. row # None => held' \in Meanings(row.shape)
  <2> SUFFICES ASSUME row # None PROVE held' \in Meanings(row.shape)
    OBVIOUS
  <2>1. held \in Meanings(row.shape)
    BY DEF WireInv, RowInv
  <2>2. held' = held \/ held' = Taken(row.shape, p, held)
    BY <1>1 DEF ServedAs
  <2> QED BY <2>1, <2>2, TakenType
<1>11. RowInv'
  BY <1>2, <1>4, <1>5 DEF WireInv, RowInv
<1>12. BikeInv'
  BY <1>2, <1>3 DEF WireInv, BikeInv
<1>13. RequestInv'
  BY <1>2 DEF RequestInv
<1>14. FlightInv'
  <2>1. Flight(transport, fromBike', readQueue, meant', asked, row)
    BY <1>1, Zenon DEF ServedAs
  <2> QED BY <1>2, <2>1, Zenon DEF FlightInv
<1>15. SaidInv'
  BY <1>2 DEF WireInv, SaidInv
<1> QED BY <1>11, <1>12, <1>13, <1>14, <1>15 DEF WireInv

-----------------------------------------------------------------------------
(***************************************************************************)
(* The theorems about the message bus.                                     *)
(***************************************************************************)
(* Every step keeps what is on its way as it was meant.                    *)
LEMMA WireNext == WireInv /\ [Next]_vars => WireInv'
<1> SUFFICES ASSUME WireInv, [Next]_vars PROVE WireInv'
  OBVIOUS
<1>1. ASSUME NEW point \in Points, Asks(point) PROVE WireInv'
  BY <1>1, AsksKeeps
<1>2. ASSUME NEW f \in EditableFields, NEW n \in Numbers, Sets(f, n) PROVE WireInv'
  BY <1>2, SetsKeeps
<1>3. ASSUME NEW status \in Statuses, Serves(status) PROVE WireInv'
  BY <1>3, ServesKeeps
<1>4. ASSUME NEW n \in Numbers, Pushes(n) PROVE WireInv'
  BY <1>4, PushesKeeps
<1>5. ASSUME NEW own \in Own, BikeAsks(own) PROVE WireInv'
  BY <1>5, BikeAsksKeeps
<1>6. ASSUME row # None, NEW v \in Meanings(row.shape), LabWrites(v) PROVE WireInv'
  BY <1>6, LabWritesKeeps
<1>7. CASE NotificationArrives
  BY <1>7, NotificationArrivesKeeps
<1>8. CASE FrameArrives
  BY <1>8, FrameArrivesKeeps
<1>9. CASE Reads
  BY <1>9, ReadsKeeps
<1>10. CASE Reopens
  BY <1>10, ReopensKeeps
<1>11. CASE Tells
  BY <1>11, TellsKeeps
<1>12. CASE LiveDataArrives
  BY <1>12, LiveDataArrivesKeeps
<1>13. CASE UNCHANGED vars
  BY <1>13, NothingKeeps
<1> QED BY <1>1, <1>2, <1>3, <1>4, <1>5, <1>6, <1>7, <1>8, <1>9, <1>10, <1>11, <1>12, <1>13 DEF Next

(* What is on its way, in both directions, is what each side meant.        *)
THEOREM NothingIsLostOnTheWay == Spec => []WireInv
BY WireInit, WireNext, PTL DEF Spec

(* What is on its way is bytes.                                            *)
LEMMA WireTypes == WireInv => TypeOK
<1> SUFFICES ASSUME WireInv PROVE TypeOK
  OBVIOUS
<1>1. seq \in 0..15
  BY DEF WireInv, BikeInv
<1>2. \A f \in UdamFields : bike[f] = None \/ bike[f] \in 0..(2^Word - 1)
  <2>1. bike \in [1..8 -> Sendable \cup {None}]
    BY RecordIs DEF WireInv, BikeInv, BikeRecords
  <2> QED BY <2>1 DEF UdamFields, Sendable
<1>3. \A k \in DOMAIN toBike : toBike[k].bytes \in Seq(Byte)
  <2>1. CASE toBike = <<>>
    BY <2>1
  <2>2. CASE toBike = <<toBike[1]>> /\ IsRequest(transport, row, toBike[1])
    <3>1. \A x : DOMAIN <<x>> = {1}
      OBVIOUS
    <3>2. DOMAIN toBike = {1}
      BY <2>2, <3>1, Zenon
    <3> QED BY <2>2, <3>2 DEF IsRequest
  <2> QED BY <2>1, <2>2 DEF WireInv, RequestInv
<1>4. fromBike \in Seq(Seq(Byte)) /\ readQueue \in Seq(Seq(Byte))
  <2>1. Flight(transport, fromBike, readQueue, meant, asked, row)
    BY DEF WireInv, FlightInv
  <2>2. readQueue \in Seq(Seq(Byte))
    BY <2>1 DEF Flight
  <2>3. CASE transport = "ble"
    <3>1. fromBike \in Seq(Notifications) /\ Notifications \subseteq Seq(Byte)
      BY <2>1, <2>3, HearingMaps DEF Flight
    <3>2. \A S, T : S \subseteq T => Seq(S) \subseteq Seq(T)
      OBVIOUS
    <3> QED BY <2>2, <3>1, <3>2
  <2>4. CASE transport = "usb"
    BY <2>1, <2>4 DEF Flight
  <2>5. CASE transport \notin {"usb", "ble"}
    BY <2>2, <2>5 DEF WireInv, RowInv
  <2> QED BY <2>2, <2>3, <2>4, <2>5
<1>5. ASSUME NEW s \in Seq(Byte), NEW k \in DOMAIN s PROVE s[k] \in 0..255
  <2>1. s[k] \in Byte
    OBVIOUS
  <2> QED BY <2>1 DEF Byte
<1>6. /\ \A k \in DOMAIN fromBike : fromBike[k] \in Seq(Byte)
      /\ \A k \in DOMAIN readQueue : readQueue[k] \in Seq(Byte)
  BY <1>4
<1> QED BY <1>1, <1>2, <1>3, <1>5, <1>6, ZenonT(60) DEF TypeOK

(* Nobody asks where nothing is on its way, and all that was meant is in   *)
(* the queue then.                                                         *)
LEMMA NothingIsLeft ==
    ASSUME WireInv, fromBike = <<>>
    PROVE  asked = <<>> /\ Len(readQueue) = Len(meant)
<1>1. Flight(transport, fromBike, readQueue, meant, asked, row)
  BY DEF WireInv, FlightInv
<1>2. Coming(transport, <<>>) = <<>>
  <2>1. Kept(<<>>, Others) = <<>> /\ Each(Rebuilding, <<>>) = <<>>
    BY EmptyIsKept, EachOfNone, RebuildingMaps
  <2> QED BY <2>1, NotifiedOfNone DEF Coming, Tidings
<1>3. Len(readQueue) = Len(meant)
  <2>1. PICK q \in Seq(Seq(Byte)) : q = readQueue /\ Meet(q \o <<>>, meant, row)
    BY <1>1, <1>2, FlightFrames
  <2>2. q \o <<>> = q
    OBVIOUS
  <2> QED BY <2>1, <2>2 DEF Meet
<1>4. asked = <<>>
  <2>1. CASE transport # "ble"
    BY <1>1, <2>1 DEF Flight
  <2>2. CASE transport = "ble"
    <3>1. PICK as \in Seq(OwnRequests) : as = asked
      BY <1>1 DEF Flight
    <3>2. Each(Asking, as) = <<>>
      BY <1>1, <2>2, <3>1, EmptyIsKept, NotifiedOfNone DEF Flight
    <3>3. DOMAIN Each(Asking, as) = DOMAIN as
      BY DEF Each
    <3>4. as = <<>>
      BY <3>2, <3>3
    <3> QED BY <3>1, <3>4
  <2> QED BY <2>1, <2>2
<1> QED BY <1>3, <1>4

(***************************************************************************)
(* What is said of the step just taken.                                    *)
(***************************************************************************)
\* Only the step that takes a request, a frame or a notification says
\* something of it.
SaysOfStep ==
    /\ understood' = None \/ UNCHANGED <<understood, transport, row>> \/ \E status \in Statuses : Serves(status)
    /\ replied' = None \/ UNCHANGED replied \/ NotificationArrives
    /\ seen' = None \/ UNCHANGED seen \/ Reads

(* And so each step does.                                                  *)
LEMMA StepsForget ==
    ASSUME [Next]_vars
    PROVE  SaysOfStep
<1>1. ASSUME NEW point \in Points, Asks(point) PROVE SaysOfStep
  BY <1>1 DEF Asks, Forget, SaysOfStep
<1>2. ASSUME NEW f \in EditableFields, NEW n \in Numbers, Sets(f, n) PROVE SaysOfStep
  BY <1>2 DEF Sets, Forget, SaysOfStep
<1>3. ASSUME NEW status \in Statuses, Serves(status) PROVE SaysOfStep
  <2>1. seen' = None /\ replied' = None
    BY <1>3 DEF Serves, SaysOfStep
  <2> QED BY <1>3, <2>1 DEF SaysOfStep
<1>4. ASSUME NEW n \in Numbers, Pushes(n) PROVE SaysOfStep
  BY <1>4 DEF Pushes, Forget, SaysOfStep
<1>5. ASSUME NEW own \in Own, BikeAsks(own) PROVE SaysOfStep
  BY <1>5 DEF BikeAsks, Forget, SaysOfStep
<1>6. ASSUME NEW v, LabWrites(v) PROVE SaysOfStep
  BY <1>6 DEF LabWrites, Forget, SaysOfStep
<1>7. CASE NotificationArrives
  <2>1. understood' = None /\ seen' = None
    BY <1>7 DEF NotificationArrives, SaysOfStep
  <2> QED BY <1>7, <2>1 DEF SaysOfStep
<1>8. CASE FrameArrives
  BY <1>8 DEF FrameArrives, Forget, SaysOfStep
<1>9. CASE Reads
  <2>1. understood' = None /\ replied' = None
    BY <1>9 DEF Reads, SaysOfStep
  <2> QED BY <1>9, <2>1 DEF SaysOfStep
<1>10. CASE Reopens
  BY <1>10 DEF Reopens, Forget, SaysOfStep
<1>11. CASE Tells
  BY <1>11 DEF Tells, points, SaysOfStep
<1>12. CASE LiveDataArrives
  BY <1>12 DEF LiveDataArrives, points, SaysOfStep
<1>13. CASE UNCHANGED vars
  BY <1>13 DEF vars, SaysOfStep
<1> QED BY <1>1, <1>2, <1>3, <1>4, <1>5, <1>6, <1>7, <1>8, <1>9, <1>10, <1>11, <1>12, <1>13 DEF Next

\* The last requests of the bike were all answered.
RepliedInv == replied = None \/ AllAnswered(replied)

(* Every request of the bike is replied to, step by step.                  *)
LEMMA RepliedNext == WireInv /\ RepliedInv /\ [Next]_vars => RepliedInv'
<1> SUFFICES ASSUME WireInv, RepliedInv, [Next]_vars PROVE RepliedInv'
  OBVIOUS
<1>1. replied' = None \/ UNCHANGED replied \/ NotificationArrives
  BY StepsForget DEF SaysOfStep
<1>2. CASE replied' = None
  BY <1>2 DEF RepliedInv
<1>3. CASE UNCHANGED replied
  BY <1>3 DEF RepliedInv
<1>4. CASE NotificationArrives
  <2>1. AllAnswered(replied')
    BY <1>4, NotificationArrivesKeeps
  <2> QED BY <2>1 DEF RepliedInv
<1> QED BY <1>1, <1>2, <1>3, <1>4

(* Every request of the bike to the app is answered once, in order, with   *)
(* its own field, requester and number, however the notifications are      *)
(* packed, and the stage waited for is the last one told                   *)
(* (_handleNotification, _mobileAppReply).                                 *)
THEOREM BikeRequestsAreAnswered == Spec => []BikeIsAnswered
<1>1. Init => RepliedInv
  BY DEF Init, RepliedInv
<1>2. WireInv /\ RepliedInv => BikeIsAnswered
  <2> SUFFICES ASSUME WireInv, RepliedInv PROVE BikeIsAnswered
    OBVIOUS
  <2>1. replied # None => /\ Len(replied.asks) = Len(replied.replies)
                          /\ \A k \in DOMAIN replied.asks :
                                SubSeq(replied.replies[k], 1, 5) =
                                  <<MobileAppHigh, replied.asks[k].low, 128 + 32, 40,
                                    16 * (replied.asks[k].type + 1) + replied.asks[k].number>>
    BY Zenon DEF RepliedInv, AllAnswered, AnsweredFor
  <2>2. fromBike = <<>> => asked = <<>> /\ Len(readQueue) = Len(meant)
    BY NothingIsLeft
  <2>3. startupStage = 9 <=> stageSaid = 9
    BY DEF WireInv, SaidInv
  <2> QED BY <2>1, <2>2, <2>3, Zenon DEF BikeIsAnswered
<1>3. Spec => []RepliedInv
  <2>1. Spec => []WireInv
    BY NothingIsLostOnTheWay
  <2> QED BY <1>1, <2>1, RepliedNext, PTL DEF Spec
<1> QED BY <1>2, <1>3, NothingIsLostOnTheWay, PTL

(* The settings are numbers of a word, and everything on its way in either *)
(* direction is bytes.                                                     *)
THEOREM WireTypeOK == Spec => []TypeOK
BY WireTypes, NothingIsLostOnTheWay, PTL

(* A save changes the field the user edited and no other, when the record  *)
(* was last read as it still is (setUdamValuesForMode).                    *)
THEOREM SavesChangeOneField == Spec => []SaveChangesOneField
<1>1. Init => SaveChangesOneField
  BY DEF Init, SaveChangesOneField
<1>2. WireInv /\ SaveChangesOneField /\ [Next]_vars => SaveChangesOneField'
  <2> SUFFICES ASSUME WireInv, SaveChangesOneField, [Next]_vars PROVE SaveChangesOneField'
    OBVIOUS
  <2>1. understood' = None \/ UNCHANGED understood \/ \E status \in Statuses : Serves(status)
    BY StepsForget DEF SaysOfStep
  <2>2. CASE understood' = None
    BY <2>2 DEF SaveChangesOneField
  <2>3. CASE UNCHANGED understood
    BY <2>3 DEF SaveChangesOneField
  <2>4. ASSUME NEW status \in Statuses, Serves(status) PROVE SaveChangesOneField'
    <3>0. PICK x : x = toBike[1]
      OBVIOUS
    <3>1. PICK p \in Small(250) : ServedAs(x, p, status)
      BY <2>4, <3>0, RequestIsServed
    <3>2. PICK u : u = understood' /\ u = Taking(x, AsMeant(transport, row, x, p), bike, bike', held', status)
      BY <3>1 DEF ServedAs
    <3>3. /\ u.point = x.point /\ u.status = status /\ u.before = bike /\ u.after = bike' /\ u.change = x.change
      BY <3>2 DEF Taking
    <3>4. ASSUME x.point = "set", status = 0, Seen(bike) = x.change.from
          PROVE  bike' = [bike EXCEPT ![x.change.field] = x.change.value]
      <4>1. bike' = SetTo(p)
        BY <3>1, <3>4 DEF ServedAs
      <4>2. SaveOf(x.change, p)
        BY <3>1, <3>4 DEF ServedAs, Purpose
      <4>3. PICK f \in EditableFields, n \in Numbers : f = x.change.field /\ n = x.change.value
        BY <4>2 DEF SaveOf
      <4>4. p = EncodeSetUdamArg(ConfigId, Edited(Seen(bike), f, n))
        BY <3>4, <4>2, <4>3 DEF SaveOf
      <4>5. bike \in BikeRecords
        BY DEF WireInv, BikeInv
      <4>6. SetTo(EncodeSetUdamArg(ConfigId, Edited(Seen(bike), f, n))) = Edited(bike, f, n)
        BY <4>5, SaveIsTaken
      <4> QED BY <4>1, <4>3, <4>4, <4>6 DEF Edited
    <3> QED BY <3>2, <3>3, <3>4 DEF SaveChangesOneField
  <2> QED BY <2>1, <2>2, <2>3, <2>4
<1> QED BY <1>1, <1>2, NothingIsLostOnTheWay, PTL DEF Spec

(***************************************************************************)
(* What is read of the frames that were on their way.                      *)
(***************************************************************************)
ValueRead(f, m) ==
    IF ParseResponse(f) # NotAFrame /\ ParseResponse(f).status # 0 THEN <<>>
    ELSE Decode(m.point, IF ParseResponse(f) # NotAFrame THEN ParseResponse(f).payload
                         ELSE IF ParseNotify(f) # NotAFrame THEN ParseNotify(f).payload ELSE <<>>)

SeenAs(f, m) ==
    [meant |-> m, response |-> ParseResponse(f), notify |-> ParseNotify(f), value |-> ValueRead(f, m)]

\* What the tool made of a frame is what the bike put in it.
ReadRight(s) ==
    IF s.meant.push
    THEN s.response = NotAFrame /\ s.notify.addr = s.meant.addr /\ s.value = s.meant.shows
    ELSE /\ s.notify = NotAFrame /\ s.response # NotAFrame
         /\ s.response.addr = s.meant.addr /\ s.response.seq = s.meant.seq
         /\ s.response.type = TypeOf(s.meant.point) + 1
         /\ s.response.status = s.meant.status
         /\ s.meant.point # "range" => s.value = s.meant.shows

(* What an answer says is what is decoded of it.                           *)
LEMMA SaidIsDecoded ==
    ASSUME NEW m, m.point \in PointsOf(row), m.point # "range", NEW p, Says(m, p, row)
    PROVE  Decode(m.point, p) = m.shows
<1>1. m.point \in Points
  BY DEF PointsOf, Points
<1>2. SaysSo(m.point, m.shows, m.held, p, row)
  BY DEF Says
<1>3. CASE m.point = "row"
  <2>1. ValueAt(row.address, p) = m.shows
    BY <1>2, <1>3 DEF SaysSo, RowSays
  <2> QED BY <1>3, <2>1 DEF Decode
<1>4. CASE m.point # "row"
  BY <1>1, <1>2, <1>4 DEF SaysSo, Decode, Points
<1> QED BY <1>3, <1>4

(* The frame that is read is read right.                                   *)
LEMMA FrameIsReadRight ==
    ASSUME NEW f, NEW m, Fits(f, m, row)
    PROVE  ReadRight(SeenAs(f, m))
<1>1. PICK s : s = SeenAs(f, m)
  OBVIOUS
<1>2. s.meant = m /\ s.response = ParseResponse(f) /\ s.notify = ParseNotify(f) /\ s.value = ValueRead(f, m)
  BY <1>1 DEF SeenAs
<1>3. CASE m.push
  <2>1. FitsPush(f, m)
    BY <1>3 DEF Fits
  <2>2. ValueRead(f, m) = Decode("range", ParseNotify(f).payload)
    BY <2>1 DEF FitsPush, ValueRead
  <2>3. Decode("range", ParseNotify(f).payload) = DecodeUint32List(ParseNotify(f).payload)
    BY DEF Decode
  <2> QED BY <1>1, <1>2, <1>3, <2>1, <2>2, <2>3 DEF FitsPush, ReadRight
<1>4. CASE ~m.push
  <2>1. FitsAnswer(f, m, row) /\ m.point \in PointsOf(row)
    BY <1>4 DEF Fits
  <2>2. m.point # "range" => ValueRead(f, m) = m.shows
    <3>1. CASE m.status = 0
      <4>1. ValueRead(f, m) = Decode(m.point, ParseResponse(f).payload)
        BY <2>1, <3>1 DEF FitsAnswer, ValueRead
      <4>2. Says(m, ParseResponse(f).payload, row)
        BY <2>1, <3>1 DEF FitsAnswer
      <4> QED BY <2>1, <4>1, <4>2, SaidIsDecoded
    <3>2. CASE m.status # 0
      <4>1. m.shows = <<>> /\ ParseResponse(f) # NotAFrame /\ ParseResponse(f).status # 0
        BY <2>1, <3>2 DEF FitsAnswer
      <4> QED BY <4>1 DEF ValueRead
    <3> QED BY <3>1, <3>2
  <2> QED BY <1>1, <1>2, <1>4, <2>1, <2>2 DEF FitsAnswer, ReadRight
<1> QED BY <1>3, <1>4

(* What is seen is what was read.                                          *)
LEMMA ReadsSees ==
    ASSUME WireInv, Reads
    PROVE  /\ Fits(readQueue[1], meant[1], row) /\ seen' = SeenAs(readQueue[1], meant[1])
           /\ UNCHANGED row
<1>1. readQueue # <<>>
  BY DEF Reads
<1>2. Flight(transport, fromBike, readQueue, meant, asked, row) /\ transport \in {"usb", "ble"}
  BY <1>1 DEF WireInv, FlightInv, RowInv
<1>3. Fits(readQueue[1], meant[1], row)
  BY <1>1, <1>2, QueueIsRead
<1>4. seen' = SeenAs(readQueue[1], meant[1]) /\ UNCHANGED row
  BY DEF Reads, SeenAs, ValueRead
<1> QED BY <1>3, <1>4

\* The frame that was read last was read right.
SeenInv == seen = None \/ ReadRight(seen)

(* Every frame is read right, step by step.                                *)
LEMMA SeenNext == WireInv /\ SeenInv /\ [Next]_vars => SeenInv'
<1> SUFFICES ASSUME WireInv, SeenInv, [Next]_vars PROVE SeenInv'
  OBVIOUS
<1>1. seen' = None \/ UNCHANGED seen \/ Reads
  BY StepsForget DEF SaysOfStep
<1>2. CASE seen' = None
  BY <1>2 DEF SeenInv
<1>3. CASE UNCHANGED seen
  BY <1>3 DEF SeenInv
<1>4. CASE Reads
  <2>1. Fits(readQueue[1], meant[1], row) /\ seen' = SeenAs(readQueue[1], meant[1])
    BY <1>4, ReadsSees
  <2>2. ReadRight(seen')
    BY <2>1, FrameIsReadRight
  <2> QED BY <2>2 DEF SeenInv, ReadRight
<1> QED BY <1>1, <1>2, <1>3, <1>4

(* The tool reads in every frame what the bike put in it, over either      *)
(* transport: response or push, address, sequence number, status and value *)
(* (parseResponse, parseNotify and the decoders).                          *)
THEOREM FramesAreReadAsMeant == Spec => []ReadAsMeant
<1>1. Init => SeenInv
  BY DEF Init, SeenInv
<1>2. SeenInv => ReadAsMeant
  BY DEF SeenInv, ReadRight, ReadAsMeant
<1>3. Spec => []SeenInv
  <2>1. Spec => []WireInv
    BY NothingIsLostOnTheWay
  <2> QED BY <1>1, <2>1, SeenNext, PTL DEF Spec
<1> QED BY <1>2, <1>3, PTL

-----------------------------------------------------------------------------
(***************************************************************************)
(* The entry of the table, and what it shows.                              *)
(***************************************************************************)
\* The entry e of the row r shows what its point held.
EntryRight(e, r) ==
    /\ r \in ReadRows /\ e.held \in Meanings(r.shape)
    /\ e.value = Meant(r.shape, e.held) /\ e.display = MeantDisplay(r.shape, e.held)

EntryInv == entry = None \/ EntryRight(entry, row)

(* A value is shown the same when its report is read.                      *)
LEMMA ReformatKeeps ==
    ASSUME NEW r \in ReadRows, NEW v \in Meanings(r.shape)
    PROVE  Reformat(r.address, Meant(r.shape, v), MeantDisplay(r.shape, v)) = MeantDisplay(r.shape, v)
<1>1. r.shape \in Shapes /\ r \in Registry
  BY RowHasShape
<1>2. r.shape.kind \in Kinds \ {"hidden"}
  BY <1>1, ShapeIs
<1>3. KindAt(r.address) = r.shape.kind
  BY <1>1, <1>2, AddressTells
<1>4. CASE r.shape.kind = "unixTimestamp"
  <2>1. Meant(r.shape, v) = v /\ MeantDisplay(r.shape, v) = Dated(OrEmpty(v, 0, v), None)
    BY <1>4 DEF Meant, MeantDisplay
  <2>2. Reformat(r.address, v, MeantDisplay(r.shape, v)) = IF v = 0 THEN NotSet ELSE Dated(v, None)
    BY <1>3, <1>4 DEF Reformat
  <2> QED BY <2>1, <2>2 DEF OrEmpty, NotSet
<1>5. CASE r.shape.kind = "serviceDue"
  <2>1. Meant(r.shape, v) = v
    BY <1>5 DEF Meant
  <2>2. MeantDisplay(r.shape, v) = IF v.timestamp = 0 /\ v.odometer = 0 THEN NotSet
                                   ELSE Dated(OrEmpty(v.timestamp, 0, v.timestamp), v.odometer)
    BY <1>5 DEF MeantDisplay
  <2>3. Reformat(r.address, v, MeantDisplay(r.shape, v)) =
            IF v.timestamp # 0 THEN Dated(v.timestamp, v.odometer)
            ELSE IF v.odometer # 0 THEN Dated(None, v.odometer) ELSE NotSet
    BY <1>3, <1>5 DEF Reformat
  <2> QED BY <2>1, <2>2, <2>3 DEF OrEmpty
<1>6. CASE r.shape.kind \notin {"unixTimestamp", "serviceDue"}
  BY <1>3, <1>6 DEF Reformat
<1> QED BY <1>4, <1>5, <1>6

\* The entry that is made of the frame f of the row r, meant as m.
EntryOf(f, m, r) ==
    [typed |-> IsTyped(r.address), value |-> ValueRead(f, m),
     display |-> DisplayAt(r.address, ParseResponse(f).payload), held |-> m.held]

(* The entry that is made of an answer is right.                           *)
LEMMA EntryIsRight ==
    ASSUME NEW f, NEW m, Fits(f, m, row), row \in ReadRows, m.point = "row", ParseResponse(f) # NotAFrame,
           ParseResponse(f).status = 0
    PROVE  EntryRight(EntryOf(f, m, row), row)
<1>1. ~m.push
  <2>1. "row" # "range"
    OBVIOUS
  <2> QED BY <2>1, Zenon DEF Fits, FitsPush
<1>2. m.status = 0 /\ Says(m, ParseResponse(f).payload, row)
  BY <1>1, Zenon DEF Fits, FitsAnswer
<1>3. RowSays(m.shows, m.held, ParseResponse(f).payload, row)
  BY <1>2 DEF Says, SaysSo
<1>4. ValueRead(f, m) = ValueAt(row.address, ParseResponse(f).payload)
  BY DEF ValueRead, Decode
<1>5. PICK e : e = EntryOf(f, m, row)
  OBVIOUS
<1>6. e.held = m.held /\ e.value = ValueRead(f, m) /\ e.display = DisplayAt(row.address, ParseResponse(f).payload)
  BY <1>5 DEF EntryOf
<1> QED BY <1>3, <1>4, <1>5, <1>6 DEF EntryRight, RowSays

(* Nothing but a frame and the loading of a report changes the entry.      *)
LEMMA EntryStays ==
    ASSUME [Next]_vars
    PROVE  UNCHANGED row /\ (UNCHANGED entry \/ Reads \/ Reopens)
<1>1. ASSUME NEW point \in Points, Asks(point) PROVE UNCHANGED <<row, entry>>
  BY <1>1 DEF Asks, points
<1>2. ASSUME NEW f \in EditableFields, NEW n \in Numbers, Sets(f, n) PROVE UNCHANGED <<row, entry>>
  BY <1>2 DEF Sets, points
<1>3. ASSUME NEW status \in Statuses, Serves(status) PROVE UNCHANGED <<row, entry>>
  BY <1>3 DEF Serves
<1>4. ASSUME NEW n \in Numbers, Pushes(n) PROVE UNCHANGED <<row, entry>>
  BY <1>4 DEF Pushes, points
<1>5. ASSUME NEW own \in Own, BikeAsks(own) PROVE UNCHANGED <<row, entry>>
  BY <1>5 DEF BikeAsks, points
<1>6. ASSUME NEW v, LabWrites(v) PROVE UNCHANGED <<row, entry>>
  BY <1>6 DEF LabWrites, points
<1>7. CASE NotificationArrives
  BY <1>7 DEF NotificationArrives, points
<1>8. CASE FrameArrives
  BY <1>8 DEF FrameArrives, points
<1>9. CASE Reads
  BY <1>9 DEF Reads
<1>10. CASE Reopens
  BY <1>10 DEF Reopens
<1>11. CASE Tells
  BY <1>11 DEF Tells, points
<1>12. CASE LiveDataArrives
  BY <1>12 DEF LiveDataArrives, points
<1>13. CASE UNCHANGED vars
  BY <1>13 DEF vars
<1> QED BY <1>1, <1>2, <1>3, <1>4, <1>5, <1>6, <1>7, <1>8, <1>9, <1>10, <1>11, <1>12, <1>13 DEF Next

(* The entry shows what its point held, step by step.                      *)
LEMMA EntryNext == WireInv /\ EntryInv /\ [Next]_vars => EntryInv'
<1> SUFFICES ASSUME WireInv, EntryInv, [Next]_vars PROVE EntryInv'
  OBVIOUS
<1>1. row' = row /\ (UNCHANGED entry \/ Reads \/ Reopens)
  BY EntryStays
<1>2. CASE UNCHANGED entry
  BY <1>1, <1>2 DEF EntryInv
<1>3. CASE Reads
  <2>1. PICK f, m : f = readQueue[1] /\ m = meant[1]
    OBVIOUS
  <2>2. Fits(f, m, row)
    BY <1>3, <2>1, ReadsSees
  <2>3. CASE m.point = "row" /\ ParseResponse(f) # NotAFrame /\ ParseResponse(f).status = 0
    <3>1. entry' = EntryOf(f, m, row)
      BY <1>3, <2>1, <2>3 DEF Reads, EntryOf, ValueRead
    <3>2. row \in ReadRows
      <4>1. "row" \notin Points \ {"row", "write"}
        OBVIOUS
      <4>2. row # None
        BY <2>2, <2>3, <4>1, Zenon DEF Fits, PointsOf
      <4> QED BY <4>2 DEF WireInv, RowInv
    <3>3. EntryRight(EntryOf(f, m, row), row)
      BY <2>2, <2>3, <3>2, EntryIsRight
    <3> QED BY <1>1, <3>1, <3>3, Zenon DEF EntryInv
  <2>4. CASE ~(m.point = "row" /\ ParseResponse(f) # NotAFrame /\ ParseResponse(f).status = 0)
    <3>1. entry' = entry
      BY <1>3, <2>1, <2>4 DEF Reads
    <3> QED BY <1>1, <3>1 DEF EntryInv
  <2> QED BY <2>3, <2>4
<1>4. CASE Reopens
  <2>1. entry # None
    BY <1>4 DEF Reopens
  <2>2. EntryRight(entry, row)
    BY <2>1 DEF EntryInv
  <2>3. /\ entry'.value = entry.value /\ entry'.held = entry.held
        /\ entry'.display = Reformat(row.address, entry.value, entry.display)
    BY <1>4 DEF Reopens, FromReport, Exported
  <2>4. entry'.display = MeantDisplay(row.shape, entry.held)
    BY <2>2, <2>3, ReformatKeeps, Zenon DEF EntryRight
  <2>5. EntryRight(entry', row)
    BY <2>2, <2>3, <2>4 DEF EntryRight
  <2> QED BY <1>1, <2>5, Zenon DEF EntryInv
<1> QED BY <1>1, <1>2, <1>3, <1>4

(* An entry of the page has the value its point had when it was read, and  *)
(* shows it as it is to be shown, also after the report was saved and      *)
(* loaded (decodeTyped, reformatDisplayFromRaw).                           *)
THEOREM EntriesShowTheirPoints == Spec => []EntryShowsPoint
<1>1. Init => EntryInv
  BY DEF Init, EntryInv
<1>2. EntryInv => EntryShowsPoint
  BY DEF EntryInv, EntryRight, EntryShowsPoint
<1>3. Spec => []EntryInv
  <2>1. Spec => []WireInv
    BY NothingIsLostOnTheWay
  <2> QED BY <1>1, <2>1, EntryNext, PTL DEF Spec
<1> QED BY <1>2, <1>3, PTL

(***************************************************************************)
(* What is typed in the Write Lab is the value of the point then.          *)
(***************************************************************************)
(* A number that is there is read, 0 as well.                              *)
LEMMA NumberIsThere ==
    ASSUME NEW n \in Sendable
    PROVE  Value(ParseFields(Number(1, n)), 1, 0) = n /\ Number(1, n) # <<>>
<1> DEFINE g == [f \in 1..1 |-> n]
<1>0. None \notin Sendable /\ 1 \in 0..15
  <2>1. PICK w \in Nat : w = 2^Word
    BY WordHolds
  <2>2. \A k \in 0..(w - 1) : k \in Int
    OBVIOUS
  <2> QED BY <2>1, <2>2, NoneAssumption DEF Sendable
<1>1. g \in Fillings(1, {})
  BY DEF Fillings
<1>2. g[1] = n
  OBVIOUS
<1> HIDE DEF g
<1>3. ParseFields(Fieldwise(1, {}, g)) = Found(1, g)
  BY <1>0, <1>1, MessageIsRead
<1>4. 1 \in 1..1
  OBVIOUS
<1>5. \A d : Value(Found(1, g), 1, d) = IF g[1] = None THEN d ELSE g[1]
  BY <1>0, <1>1, <1>4, FoundTells
<1>6. Fieldwise(1, {}, g) = Number(1, n)
  <2>1. 1 \in 1..4
    OBVIOUS
  <2>2. Fieldwise(1, {}, g) = PartOf(1, {}, g[1])
    BY <1>1, <2>1, FewFields
  <2>3. g[1] # None /\ 1 \notin {}
    BY <1>0, <1>2, Zenon
  <2> QED BY <1>2, <2>2, <2>3, Zenon DEF PartOf
<1>7. Value(ParseFields(Number(1, n)), 1, 0) = n
  <2>1. g[1] # None
    BY <1>0, <1>2, Zenon
  <2> QED BY <1>2, <1>3, <1>5, <1>6, <2>1, Zenon
<1>8. Number(1, n) # <<>>
  <2>1. PICK num \in 1..15 : num = 1
    OBVIOUS
  <2>2. n \in Nat
    <3>1. PICK w \in Nat : w = 2^Word
      BY WordHolds
    <3> QED BY <3>1 DEF Sendable
  <2>3. Number(num, n) \in Seq(Byte) /\ Len(Number(num, n)) = Long(n) + 1 /\ Long(n) \in Nat
    BY <2>2, NumberType, VarintType
  <2>4. Number(num, n) # <<>>
    BY <2>3
  <2> QED BY <2>1, <2>4
<1> QED BY <1>7, <1>8

(* A number is told by what is sent of it, whether 0 is left out or not.   *)
LEMMA NumberTells ==
    ASSUME NEW m \in Sendable, NEW n \in Sendable
    PROVE  /\ Implicit(1, m) = Implicit(1, n) => m = n
           /\ Number(1, m) = Number(1, n) => m = n
           /\ Number(1, m) = Implicit(1, n) => m = n
<1>1. Value(ParseFields(Implicit(1, m)), 1, 0) = m /\ Value(ParseFields(Number(1, m)), 1, 0) = m
  BY OneNumberIsRead, NumberIsThere, Zenon
<1>2. Value(ParseFields(Implicit(1, n)), 1, 0) = n /\ Value(ParseFields(Number(1, n)), 1, 0) = n
  BY OneNumberIsRead, NumberIsThere, Zenon
<1> QED BY <1>1, <1>2, Zenon

\* What is sent tells which value it is of.
EncodedTells(shape) == \A v, w \in Meanings(shape) : Encoded(shape, v) = Encoded(shape, w) => v = w

(* Numbers.                                                                *)
LEMMA NumbersTell ==
    ASSUME NEW shape, shape.kind \in {"uint", "enum", "normFactor", "signedFactor", "unixTimestamp"}
    PROVE  EncodedTells(shape)
<1>1. ASSUME NEW v \in Meanings(shape), NEW w \in Meanings(shape), Encoded(shape, v) = Encoded(shape, w)
      PROVE  v = w
  <2>1. CASE shape.kind \in {"uint", "enum", "normFactor"}
    <3>1. v \in Sendable /\ w \in Sendable
      BY <2>1, NumbersAreSendable DEF Meanings
    <3>2. Implicit(1, v) = Implicit(1, w)
      BY <1>1, <2>1 DEF Encoded
    <3> QED BY <3>1, <3>2, NumberTells
  <2>2. CASE shape.kind \in {"signedFactor", "unixTimestamp"}
    <3>1. v \in Instants \cup {-2, 0, 90} /\ w \in Instants \cup {-2, 0, 90}
      BY <2>2 DEF Meanings
    <3>2. \A x \in Instants \cup {-2, 0, 90} : Zigzag(x) \in Sendable /\ ZigzagSigned(Zigzag(x)) = x
      BY SignedIsRead
    <3>3. Implicit(1, Zigzag(v)) = Implicit(1, Zigzag(w))
      BY <1>1, <2>2 DEF Encoded
    <3>4. Zigzag(v) = Zigzag(w)
      BY <3>1, <3>2, <3>3, NumberTells
    <3>5. ZigzagSigned(Zigzag(v)) = v
      BY <3>1, <3>2
    <3>6. ZigzagSigned(Zigzag(w)) = w
      BY <3>1, <3>2
    <3> QED BY <3>4, <3>5, <3>6, Zenon
  <2> QED BY <2>1, <2>2
<1> QED BY <1>1, Zenon DEF EncodedTells

(* Certificates.                                                           *)
LEMMA CertificatesTell ==
    ASSUME NEW shape, shape.kind = "certificateBytes"
    PROVE  EncodedTells(shape)
<1>1. Meanings(shape) = {None, <<>>, <<1>>}
  BY DEF Meanings
<1>2. Encoded(shape, None) = <<>>
  BY DEF Encoded
<1>3. None # <<>> /\ None # <<1>>
  <2>1. <<>> \in Seq(0..255) /\ <<1>> \in Seq(0..255)
    OBVIOUS
  <2> QED BY <2>1, NoneAssumption
<1>4. ASSUME NEW v \in {<<>>, << 1 >>}
      PROVE  Encoded(shape, v) # <<>> /\ Value(ParseFields(Encoded(shape, v)), 1, 0) = CertificateBytesOf(v)
  <2>0. v # None
    BY <1>3, <1>4
  <2>2. PICK b \in Seq(Byte) : b = CertificateBytesOf(v) /\ Len(b) <= 250 /\ Len(b) \in Nat
    BY CertificateBytesAre
  <2>3. Len(b) < 2^Word
    BY <2>2, WordHolds
  <2>4. PICK p \in Seq(Byte) : p = Delimited(1, b) /\ p # <<>> /\ \A d : Value(ParseFields(p), 1, d) = b
    BY <2>3, OneFieldIsRead
  <2>5. Encoded(shape, v) = p
    <3>1. Encoded(shape, v) = <<10>> \o Varint(Len(CertificateBytesOf(v))) \o CertificateBytesOf(v)
      BY <2>0 DEF Encoded
    <3>2. Varint(Len(b)) \in Seq(Byte)
      BY <2>2, VarintType
    <3>3. 8 * 1 + 2 = 10 /\ <<10>> \in Seq(Byte)
      BY DEF Byte
    <3>4. (<<10>> \o Varint(Len(b))) \o b = <<10>> \o (Varint(Len(b)) \o b)
      BY <3>2, <3>3, ConcatAssociative
    <3>5. Delimited(1, b) = <<10>> \o (Varint(Len(b)) \o b)
      BY <3>3 DEF Delimited
    <3> QED BY <2>2, <2>4, <3>1, <3>4, <3>5
  <2> QED BY <2>2, <2>4, <2>5, Zenon
<1>5. CertificateBytesOf(<<>>) # CertificateBytesOf(<<1>>)
  <2>1. PICK outer : outer = Tlv(<<127, 33>>, InnerBytes) /\ Whole(outer)
    BY OuterIsRead
  <2>2. CertificateBytesOf(<<>>) = <<>> \o outer /\ CertificateBytesOf(<<1>>) = <<1>> \o outer
    BY <2>1 DEF CertificateBytesOf, InnerBytes, BodyBytes, Signature
  <2>3. outer \in Seq(Byte)
    BY <2>1 DEF Whole
  <2>4. Len(<<>> \o outer) = Len(outer) /\ Len(<<1>> \o outer) = 1 + Len(outer) /\ Len(outer) \in Nat
    BY <2>3 DEF Byte
  <2>5. Len(<<>> \o outer) # Len(<<1>> \o outer)
    BY <2>4
  <2> QED BY <2>2, <2>5
<1>6. ASSUME NEW v \in Meanings(shape), NEW w \in Meanings(shape), Encoded(shape, v) = Encoded(shape, w)
      PROVE  v = w
  <2>1. CASE v = None
    BY <1>1, <1>2, <1>4, <1>6, <2>1, Zenon
  <2>2. CASE w = None
    BY <1>1, <1>2, <1>4, <1>6, <2>2, Zenon
  <2>3. CASE v # None /\ w # None
    <3>1. v \in {<<>>, <<1>>} /\ w \in {<<>>, <<1>>}
      BY <1>1, <2>3
    <3>2. CertificateBytesOf(v) = CertificateBytesOf(w)
      BY <1>4, <1>6, <3>1, Zenon
    <3> QED BY <1>5, <3>1, <3>2
  <2> QED BY <2>1, <2>2, <2>3
<1> QED BY <1>6, Zenon DEF EncodedTells

(* The rest, by what they are read as.                                     *)
LEMMA ReadingTells ==
    ASSUME NEW shape \in Shapes,
           shape.kind \notin {"uint", "enum", "normFactor", "signedFactor", "unixTimestamp", "certificateBytes"}
    PROVE  EncodedTells(shape)
<1>1. ASSUME NEW v \in Meanings(shape), NEW w \in Meanings(shape), Encoded(shape, v) = Encoded(shape, w)
      PROVE  Meant(shape, v) = Meant(shape, w)
  <2>1. CASE shape.kind = "unknown"
    <3>1. DecodeValue(Encoded(shape, v)) = Meant(shape, v) /\ DecodeValue(Encoded(shape, w)) = Meant(shape, w)
      BY <2>1, ValueComesBack
    <3> QED BY <1>1, <3>1
  <2>2. CASE shape.kind # "unknown"
    <3>1. DecodeTyped(shape, Encoded(shape, v)) = Meant(shape, v) /\ DecodeTyped(shape, Encoded(shape, w)) = Meant(shape, w)
      BY <2>2, ValueComesBack
    <3> QED BY <1>1, <3>1
  <2> QED BY <2>1, <2>2
<1>2. ASSUME NEW v \in Meanings(shape), NEW w \in Meanings(shape), Meant(shape, v) = Meant(shape, w)
      PROVE  v = w
  <2>1. CASE shape.kind \in {"string", "unknown", "uuid"}
    <3>1. Meant(shape, v) = OrEmpty(v, <<>>, v) /\ Meant(shape, w) = OrEmpty(w, <<>>, w)
      BY <2>1 DEF Meant
    <3>2. v \in Seq(Byte) /\ w \in Seq(Byte)
      <4>1. \A x \in {<<>>, <<69, 67>>} : x \in Small(2)
        BY TextsAreSmall, Zenon
      <4>2. \A x \in {<<>>, [k \in 1..16 |-> 16 * k - 1]} : x \in Small(16)
        BY TextsAreSmall, Zenon
      <4>3. Meanings(shape) = {<<>>, <<69, 67>>} \/ Meanings(shape) = {<<>>, [k \in 1..16 |-> 16 * k - 1]}
        BY <2>1 DEF Meanings
      <4>4. \A x \in Meanings(shape) : x \in Small(2) \/ x \in Small(16)
        BY <4>1, <4>2, <4>3, Zenon
      <4> QED BY <4>4 DEF Small
    <3>3. None # v /\ None # w
      BY <3>2, NoneAssumption DEF Byte
    <3> QED BY <1>2, <3>1, <3>3 DEF OrEmpty
  <2>2. CASE shape.kind = "submessage"
    <3>1. PICK f : f \in Fieldset(shape)
      <4>1. PICK r \in Registry : r.shape = shape
        BY DEF Shapes
      <4> QED BY <2>2, <4>1, KindsAreKnown DEF Fieldset
    <3>2. Meanings(shape) = {[g \in Fieldset(shape) |-> 0], [g \in Fieldset(shape) |-> 1]}
      BY <2>2 DEF Meanings
    <3>3. \A x : Meant(shape, x) = [g \in Fieldset(shape) |-> IF g \in shape.bools THEN x[g] # 0 ELSE OrEmpty(x[g], 0, x[g])]
      BY <2>2 DEF Meant
    <3>4. None # 1
      BY NoneAssumption
    <3>5. PICK a, b : a = [g \in Fieldset(shape) |-> 0] /\ b = [g \in Fieldset(shape) |-> 1]
      OBVIOUS
    <3>6. a[f] = 0 /\ b[f] = 1
      BY <3>1, <3>5
    <3>7. Meant(shape, a)[f] # Meant(shape, b)[f]
      <4>1. CASE f \in shape.bools
        <5>1. \A x : Meant(shape, x)[f] = (x[f] # 0)
          BY <3>1, <3>3, <4>1
        <5> QED BY <3>6, <5>1
      <4>2. CASE f \notin shape.bools
        <5>1. \A x : Meant(shape, x)[f] = OrEmpty(x[f], 0, x[f])
          BY <3>1, <3>3, <4>2
        <5>2. OrEmpty(0, 0, 0) = None /\ OrEmpty(1, 0, 1) = 1
          BY DEF OrEmpty
        <5> QED BY <3>4, <3>6, <5>1, <5>2
      <4> QED BY <4>1, <4>2
    <3>8. Meant(shape, a) # Meant(shape, b)
      BY <3>7
    <3> QED BY <1>2, <3>2, <3>5, <3>8
  <2>3. CASE shape.kind \notin {"string", "unknown", "uuid", "submessage"}
    <3>1. Meant(shape, v) = v /\ Meant(shape, w) = w
      BY <2>3 DEF Meant
    <3> QED BY <1>2, <3>1
  <2> QED BY <2>1, <2>2, <2>3
<1> QED BY <1>1, <1>2, Zenon DEF EncodedTells

-----------------------------------------------------------------------------
(***************************************************************************)
(* What the bike makes of a value that is written.                         *)
(***************************************************************************)
(* What is sent of a value of any kind tells the value.                    *)
LEMMA EveryEncodedTells == \A shape \in Shapes : EncodedTells(shape)
BY NumbersTell, CertificatesTell, ReadingTells

(* A flag is sent as a 1, or left out.                                      *)
LEMMA BitIsSent == \A v \in BOOLEAN : Implicit(1, Bit(v)) = IF v THEN <<8, 1>> ELSE <<>>
<1>1. Varint(1) = <<1>>
  <2>1. 1 \in Nat /\ 1 < 128
    OBVIOUS
  <2> QED BY <2>1, VarintHead
<1>2. Number(1, 1) = <<8, 1>>
  <2>1. 8 * 1 = 8
    OBVIOUS
  <2>2. 8 \in Byte /\ 1 \in Byte
    BY DEF Byte
  <2>3. <<8>> \o <<1>> = <<8, 1>>
    BY <2>2, TwoBytes
  <2> QED BY <1>1, <2>1, <2>3 DEF Number
<1>3. Bit(TRUE) = 1 /\ Bit(FALSE) = 0
  BY DEF Bit
<1>4. Implicit(1, 1) = <<8, 1>> /\ Implicit(1, 0) = <<>>
  BY <1>2 DEF Implicit
<1> QED BY <1>3, <1>4, Zenon

(* A text typed in the Write Lab.                                          *)
LEMMA TextIsTyped ==
    ASSUME NEW shape, shape.kind = "string", NEW v \in Meanings(shape)
    PROVE  LabTyped(shape, v) = Bytes(1, v)
<1>1. v \in Small(2)
  <2>1. v \in {<<>>, <<69, 67>>}
    BY DEF Meanings
  <2> QED BY <2>1, TextsAreSmall, Zenon
<1>2. PICK n \in Nat : n = Len(v) /\ n <= 2
  <2>1. 2 \in Nat
    OBVIOUS
  <2> QED BY <1>1, <2>1, SmallIs
<1>3. n \in Nat /\ n < 2^Word /\ n < 128 /\ n \in Byte /\ 10 \in Byte
  <2>1. PICK w \in Nat : w = 2^Word /\ w >= 65536
    BY WordHolds
  <2>2. n <= 2
    BY <1>2, Zenon
  <2>3. n < w
    BY <2>1, <2>2
  <2>4. n < 128 /\ n \in Byte /\ 10 \in Byte
    BY <2>2 DEF Byte
  <2> QED BY <2>1, <2>3, <2>4
<1>4. EncodeVarint(Len(v)) = <<Len(v)>>
  BY <1>2, <1>3, EncodesVarint, VarintHead
<1>5. LabTyped(shape, v) = <<10>> \o <<Len(v)>> \o v
  BY <1>4 DEF LabTyped, LabArgument
<1>6. 8 * 1 + 2 = 10
  OBVIOUS
<1>7. <<10>> \o <<Len(v)>> = <<10, Len(v)>>
  BY <1>2, <1>3, TwoBytes
<1> QED BY <1>5, <1>6, <1>7 DEF Bytes

\* An argument that stands for one value only, in either of its forms.
StandsFor(shape, p, v) ==
    /\ p \in {Encoded(shape, v), Explicit(shape, v)}
    /\ \A w \in Meanings(shape) : p \in {Encoded(shape, w), Explicit(shape, w)} => w = v

(* The argument the Write Lab makes of a value stands for it: a number and *)
(* a text at their default are sent, and taken as sent.                    *)
LEMMA LabTypedTells ==
    ASSUME NEW shape \in Shapes, NEW v \in Meanings(shape)
    PROVE  StandsFor(shape, LabTyped(shape, v), v)
<1>1. CASE shape.kind = "bool"
  <2>1. v \in BOOLEAN
    BY <1>1 DEF Meanings
  <2>2. \A w : Explicit(shape, w) = Encoded(shape, w)
    BY <1>1 DEF Explicit
  <2>3. LabTyped(shape, v) = IF v THEN <<8, 1>> ELSE <<>>
    BY <1>1 DEF LabTyped, LabArgument
  <2>4. Encoded(shape, v) = Implicit(1, Bit(v))
    BY <1>1 DEF Encoded
  <2>5. Implicit(1, Bit(v)) = IF v THEN <<8, 1>> ELSE <<>>
    BY <2>1, BitIsSent, Zenon
  <2>6. LabTyped(shape, v) = Encoded(shape, v)
    BY <2>3, <2>4, <2>5, Zenon
  <2>7. EncodedTells(shape)
    BY EveryEncodedTells
  <2> QED BY <2>2, <2>6, <2>7, Zenon DEF StandsFor, EncodedTells
<1>2. CASE shape.kind \in {"enum", "uint"}
  <2>1. \A w \in Meanings(shape) : w \in Sendable
    BY <1>2, NumbersAreSendable DEF Meanings
  <2>2. \A w : Explicit(shape, w) = Number(1, w) /\ Encoded(shape, w) = Implicit(1, w)
    BY <1>2 DEF Explicit, Encoded
  <2>3. LabTyped(shape, v) = Number(1, v)
    <3>1. v \in Sendable
      BY <2>1
    <3>2. PICK w \in Nat : w = 2^Word
      BY WordHolds
    <3>3. v \in 0..(w - 1)
      BY <3>1, <3>2 DEF Sendable
    <3>4. v \in Nat /\ v < w
      BY <3>3
    <3>5. EncodeVarint(v) = Varint(v)
      BY <3>2, <3>4, EncodesVarint
    <3>6. LabTyped(shape, v) = <<8>> \o EncodeVarint(v)
      BY <1>2 DEF LabTyped, LabArgument
    <3>7. 8 * 1 = 8
      OBVIOUS
    <3> QED BY <3>5, <3>6, <3>7 DEF Number
  <2>4. ASSUME NEW w \in Meanings(shape), Number(1, v) \in {Implicit(1, w), Number(1, w)}
        PROVE  w = v
    BY <2>1, <2>4, NumberTells
  <2> QED BY <2>2, <2>3, <2>4, Zenon DEF StandsFor
<1>3. CASE shape.kind = "string"
  <2>1. \A w \in Meanings(shape) : w \in Small(2)
    BY <1>3, TextsAreSmall, Zenon DEF Meanings
  <2>2. \A w : Explicit(shape, w) = Bytes(1, w) /\ Encoded(shape, w) = Present(1, w)
    BY <1>3 DEF Explicit, Encoded
  <2>3. LabTyped(shape, v) = Bytes(1, v)
    BY <1>3, TextIsTyped
  <2>4. ASSUME NEW w \in Meanings(shape), Bytes(1, v) = Bytes(1, w)
        PROVE  w = v
    <3>1. v \in Small(100) /\ w \in Small(100)
      <4>1. Small(2) \subseteq Small(100)
        <5>1. 2 \in Nat /\ 100 \in Nat /\ 2 <= 100
          OBVIOUS
        <5> QED BY <5>1, SmallGrows
      <4> QED BY <2>1, <4>1
    <3>2. Value(ParseFields(Bytes(1, v)), 1, 0) = v /\ Value(ParseFields(Bytes(1, w)), 1, 0) = w
      BY <3>1, OneTextIsRead, Zenon
    <3> QED BY <2>4, <3>2, Zenon
  <2>5. \A w : Present(1, w) = <<>> \/ Present(1, w) = Bytes(1, w)
    BY Zenon DEF Present
  <2>6. Bytes(1, v) # <<>>
    BY DEF Bytes
  <2> QED BY <2>2, <2>3, <2>4, <2>5, <2>6, Zenon DEF StandsFor
<1>4. CASE shape.kind \notin {"bool", "enum", "uint", "string"}
  <2>1. LabTyped(shape, v) = Encoded(shape, v)
    BY <1>4 DEF LabTyped, LabArgument
  <2>2. \A w : Explicit(shape, w) = Encoded(shape, w)
    BY <1>4 DEF Explicit
  <2>3. EncodedTells(shape)
    BY EveryEncodedTells
  <2> QED BY <2>1, <2>2, <2>3, Zenon DEF StandsFor, EncodedTells
<1> QED BY <1>1, <1>2, <1>3, <1>4

(* So the bike takes the value that was typed.                             *)
LEMMA LabValueIsTaken ==
    ASSUME NEW shape \in Shapes, NEW v \in Meanings(shape), NEW before
    PROVE  Taken(shape, LabTyped(shape, v), before) = v
<1>1. PICK p : p = LabTyped(shape, v)
  OBVIOUS
<1>2. StandsFor(shape, p, v)
  BY <1>1, LabTypedTells, Zenon
<1>3. {w \in Meanings(shape) : p \in {Encoded(shape, w), Explicit(shape, w)}} = {v}
  BY <1>2 DEF StandsFor
<1> QED BY <1>1, <1>3 DEF Taken

-----------------------------------------------------------------------------
(***************************************************************************)
(* The bike takes from a request what the tool meant by it.                *)
(***************************************************************************)
\* What the bike last understood, where the transport is t and the row is r.
UnderstoodRight(t, r, u) ==
    /\ u.point \in PointsOf(r)
    /\ u.request.host = Host(t) /\ u.request.addr = AddressOf(r, u.point)
    /\ u.request.type = TypeOf(u.point) /\ u.request.seq = u.seq
    /\ u.point \notin {"set", "write"} => u.request.payload = Argument(u.point)
    /\ u.point = "write" /\ u.status = 0 => u.held = u.change

UnderstoodInv == understood = None \/ UnderstoodRight(transport, row, understood)

(* A request is understood as it was meant, and a value written is held.   *)
LEMMA UnderstoodAsMeant ==
    ASSUME WireInv, NEW status \in Statuses, Serves(status)
    PROVE  UnderstoodRight(transport, row, understood')
<1>0. PICK x : x = toBike[1]
  OBVIOUS
<1>1. PICK p \in Small(250) : ServedAs(x, p, status)
  BY <1>0, RequestIsServed
<1>2. PICK u : u = understood' /\ u = Taking(x, AsMeant(transport, row, x, p), bike, bike', held', status)
  BY <1>1 DEF ServedAs
<1>3. u.point = x.point /\ u.status = status /\ u.seq = x.seq /\ u.change = x.change /\ u.held = held'
      /\ u.request = AsMeant(transport, row, x, p)
  BY <1>2 DEF Taking
<1>4. PICK m : m = AsMeant(transport, row, x, p)
  OBVIOUS
<1>5. m.host = Host(transport) /\ m.addr = AddressOf(row, x.point) /\ m.type = TypeOf(x.point) /\ m.seq = x.seq
      /\ m.payload = p
  BY <1>4 DEF AsMeant
<1>6. x.point \in PointsOf(row) /\ Purpose(row, x, p)
  BY <1>1 DEF ServedAs
<1>7. x.point \notin {"set", "write"} => p = Argument(x.point)
  BY <1>6 DEF Purpose
<1>8. ASSUME x.point = "write", status = 0 PROVE held' = x.change
  <2>1. row \in ReadRows
    <3>1. row # None
      BY <1>6, <1>8 DEF PointsOf
    <3> QED BY <3>1 DEF WireInv, RowInv
  <2>2. PICK shape \in Shapes : shape = row.shape
    BY <2>1, RowHasShape
  <2>3. PICK v \in Meanings(shape) : v = x.change /\ p = LabTyped(shape, v)
    BY <1>6, <1>8, <2>2 DEF Purpose
  <2>4. held' = Taken(shape, p, held)
    BY <1>1, <1>8, <2>2 DEF ServedAs
  <2>5. Taken(shape, LabTyped(shape, v), held) = v
    BY LabValueIsTaken
  <2> QED BY <2>3, <2>4, <2>5
<1> QED BY <1>2, <1>3, <1>4, <1>5, <1>6, <1>7, <1>8 DEF UnderstoodRight

(* The bike gets what the tool asked: the address, the type, the sequence  *)
(* number and the argument, from the host of the transport in use; and a   *)
(* value typed in the Write Lab is the value the point then has            *)
(* (buildFrame, _buildBleRequestFrame, the argument encoders).             *)
THEOREM RequestsArrive == Spec => []RequestArrives
<1>1. Init => UnderstoodInv
  BY DEF Init, UnderstoodInv
<1>2. WireInv /\ UnderstoodInv /\ [Next]_vars => UnderstoodInv'
  <2> SUFFICES ASSUME WireInv, UnderstoodInv, [Next]_vars PROVE UnderstoodInv'
    OBVIOUS
  <2>1. \/ understood' = None \/ UNCHANGED <<understood, transport, row>>
        \/ \E status \in Statuses : Serves(status)
    BY StepsForget DEF SaysOfStep
  <2>2. CASE understood' = None
    BY <2>2 DEF UnderstoodInv
  <2>3. CASE UNCHANGED <<understood, transport, row>>
    BY <2>3 DEF UnderstoodInv
  <2>4. ASSUME NEW status \in Statuses, Serves(status) PROVE UnderstoodInv'
    <3>1. UnderstoodRight(transport, row, understood')
      BY <2>4, UnderstoodAsMeant
    <3>2. transport' = transport /\ row' = row
      BY <2>4 DEF Serves
    <3> QED BY <3>1, <3>2 DEF UnderstoodInv
  <2> QED BY <2>1, <2>2, <2>3, <2>4
<1>3. WireInv /\ UnderstoodInv => RequestArrives
  <2> SUFFICES ASSUME WireInv, UnderstoodInv, understood # None PROVE RequestArrives
    BY DEF RequestArrives
  <2>1. PICK u : u = understood
    OBVIOUS
  <2>2. UnderstoodRight(transport, row, u)
    BY <2>1 DEF UnderstoodInv
  <2>3. PICK r : r = row /\ (r # None => r \in ReadRows)
    BY DEF WireInv, RowInv
  <2>4. PICK point \in PointsOf(r) : point = u.point
    BY <2>2, <2>3 DEF UnderstoodRight
  <2>5. Addr(point) = AddressOf(r, point)
    BY <2>3, PointIs
  <2>6. HostAddress = Host(transport)
    BY DEF HostAddress, Host
  <2>7. /\ u.request.host = HostAddress
        /\ u.request.addr = Addr(u.point) /\ u.request.type = TypeOf(u.point)
        /\ u.request.seq = u.seq
        /\ u.point \notin {"set", "write"} => u.request.payload = Argument(u.point)
        /\ u.point = "write" /\ u.status = 0 => u.held = u.change
    BY <2>2, <2>3, <2>4, <2>5, <2>6, Zenon DEF UnderstoodRight
  <2> QED BY <2>1, <2>7, Zenon DEF RequestArrives
<1> QED BY <1>1, <1>2, <1>3, NothingIsLostOnTheWay, PTL DEF Spec

-----------------------------------------------------------------------------
(***************************************************************************)
(* The table of the modes.                                                 *)
(***************************************************************************)
LEMMA FirstIsOff == Id(0) = OffMode /\ Id(1) = ConfigId /\ Id(2) = << 52 >> /\ OffMode = << 48 >>
BY DEF Id, OffMode

(* The modes are texts, no two the same and none empty.                    *)
LEMMA IdsDiffer ==
    /\ OffMode \in Seq(Byte) /\ ConfigId \in Seq(Byte) /\ << 52 >> \in Seq(Byte)
    /\ OffMode # ConfigId /\ OffMode # << 52 >> /\ ConfigId # << 52 >>
    /\ OffMode # <<>> /\ ConfigId # <<>> /\ << 52 >> # <<>>
<1>1. OffMode = <<48>> /\ <<48>> # <<52>> /\ <<52>> # <<>> /\ <<48>> # <<>>
  BY DEF OffMode
<1>2. 48 \in Byte /\ 52 \in Byte
  BY DEF Byte
<1>3. <<48>> \in Seq(Byte) /\ <<52>> \in Seq(Byte)
  BY <1>2, TwoBytes
<1>4. ConfigId \in Seq(Byte) /\ ConfigId # <<>>
  <2>1. ConfigId \in Seq(Byte)
    BY ConfigIdAssumption DEF Byte
  <2>2. PICK n \in 1..16 : n = Len(ConfigId)
    BY ConfigIdAssumption
  <2>3. Len(<<>>) = 0 /\ n # 0
    OBVIOUS
  <2> QED BY <2>1, <2>2, <2>3, Zenon
<1> QED BY <1>1, <1>3, <1>4, ConfigIdAssumption

AllIds == <<OffMode, ConfigId, <<52>>>>

(* Tuples of up to three.                                                  *)
LEMMA TuplesAre ==
    ASSUME NEW S
    PROVE  /\ <<>> \in Seq(S)
           /\ \A x \in S : <<x>> \in Seq(S) /\ <<>> \o <<x>> = <<x>> /\ Append(<<>>, x) = <<x>>
           /\ \A x, y \in S : /\ <<x, y>> \in Seq(S) /\ <<x>> \o <<y>> = <<x, y>>
                             /\ Append(<<x>>, y) = <<x, y>>
           /\ \A x, y, z \in S : /\ <<x, y, z>> \in Seq(S) /\ <<x, y>> \o <<z>> = <<x, y, z>>
                                /\ <<x>> \o <<y, z>> = <<x, y, z>>
<1>1. ASSUME NEW x \in S, NEW y \in S, NEW z \in S
      PROVE  <<x>> \in Seq(S) /\ <<x, y>> \in Seq(S) /\ <<x, y, z>> \in Seq(S)
  OBVIOUS
<1>2. \A x, y \in S : <<x>> \o <<y>> = <<x, y>>
  BY OnesAre
<1>3. ASSUME NEW x \in S, NEW y \in S, NEW z \in S
      PROVE  <<x, y>> \o <<z>> = <<x, y, z>> /\ <<x>> \o <<y, z>> = <<x, y, z>>
  <2>0. <<x>> \in Seq(S) /\ <<y>> \in Seq(S) /\ <<z>> \in Seq(S)
    OBVIOUS
  <2>1. PICK r \in Seq(S) : r = <<x>>
    BY <2>0, Zenon
  <2>2. PICK s \in Seq(S) : s = <<y>>
    BY <2>0, Zenon
  <2>3. PICK t \in Seq(S) : t = <<z>>
    BY <2>0, Zenon
  <2>4. (r \o s) \o t = <<x, y, z>>
    BY <2>1, <2>2, <2>3, OnesAre
  <2>5. r \o s = <<x, y>> /\ s \o t = <<y, z>>
    BY <1>2, <2>1, <2>2, <2>3
  <2>6. (r \o s) \o t = r \o (s \o t)
    BY ConcatAssociative
  <2> QED BY <2>1, <2>3, <2>4, <2>5, <2>6
<1>4. \A x \in S : <<>> \o <<x>> = <<x>>
  <2>1. \A s \in Seq(S) : <<>> \o s = s
    BY ConcatEmptySeq
  <2> QED BY <1>1, <2>1, Zenon
<1>5. \A s \in Seq(S), e \in S : Append(s, e) = s \o <<e>>
  BY AppendIsConcat
<1>6. <<>> \in Seq(S)
  OBVIOUS
<1>7. \A x \in S : Append(<<>>, x) = <<x>>
  BY <1>4, <1>5, <1>6, Zenon
<1>8. \A x, y \in S : Append(<<x>>, y) = <<x, y>>
  BY <1>1, <1>2, <1>5, Zenon
<1> QED BY <1>1, <1>2, <1>3, <1>4, <1>6, <1>7, <1>8, Zenon

(* Lists of two and of three.                                              *)
LEMMA ListIs ==
    ASSUME NEW g, NEW n \in {2, 3}, g = [k \in 1..n |-> g[k]]
    PROVE  /\ n = 2 => g = <<g[1], g[2]>>
           /\ n = 3 => g = <<g[1], g[2], g[3]>>
<1>0. PICK S : S = {g[k] : k \in 1..n}
  OBVIOUS
<1>1. \A k \in 1..n : g[k] \in S
  BY <1>0
<1>2. g \in Seq(S) /\ Len(g) = n
  BY <1>1
<1>3. CASE n = 2
  <2>1. PICK t \in Seq(S) : t = <<g[1], g[2]>> /\ Len(t) = 2 /\ t[1] = g[1] /\ t[2] = g[2]
    <3>1. g[1] \in S /\ g[2] \in S
      BY <1>1, <1>3
    <3>2. <<g[1], g[2]>> \in Seq(S)
      BY <3>1, TuplesAre, Zenon
    <3>3. PICK t : t = <<g[1], g[2]>>
      OBVIOUS
    <3>4. Len(t) = 2 /\ t[1] = g[1] /\ t[2] = g[2]
      BY <3>3
    <3> QED BY <3>2, <3>3, <3>4, Zenon
  <2>2. \A i \in 1..Len(g) : g[i] = t[i]
    BY <1>2, <1>3, <2>1
  <2>3. g = t
    BY <1>2, <1>3, <2>1, <2>2, SeqEqual
  <2> QED BY <1>3, <2>1, <2>3
<1>4. CASE n = 3
  <2>1. PICK t \in Seq(S) : t = <<g[1], g[2], g[3]>> /\ Len(t) = 3 /\ t[1] = g[1] /\ t[2] = g[2] /\ t[3] = g[3]
    <3>1. g[1] \in S /\ g[2] \in S /\ g[3] \in S
      BY <1>1, <1>4
    <3>2. <<g[1], g[2], g[3]>> \in Seq(S)
      BY <3>1, TuplesAre, Zenon
    <3>3. PICK t : t = <<g[1], g[2], g[3]>>
      OBVIOUS
    <3>4. Len(t) = 3 /\ t[1] = g[1] /\ t[2] = g[2] /\ t[3] = g[3]
      BY <3>3
    <3> QED BY <3>2, <3>3, <3>4, Zenon
  <2>2. \A i \in 1..Len(g) : g[i] = t[i]
    BY <1>2, <1>4, <2>1
  <2>3. g = t
    BY <1>2, <1>4, <2>1, <2>2, SeqEqual
  <2> QED BY <1>4, <2>1, <2>3
<1> QED BY <1>3, <1>4

(* The bike lists its modes with off or without it.                        *)
LEMMA ListsAre ==
    ASSUME NEW m \in Modes
    PROVE  /\ IdList(m).shows \in {<<ConfigId, << 52 >>>>, AllIds}
           /\ NameList(m).shows \in {<<Name(1), Name(2)>>, <<Name(0), Name(1), Name(2)>>}
           /\ ShadeList(m).shows \in {<<Shade(1), Shade(2)>>, <<Shade(0), Shade(1), Shade(2)>>}
<1>1. \A ks : /\ IdList(ks).shows = [k \in DOMAIN ks |-> Id(ks[k])]
              /\ NameList(ks).shows = [k \in DOMAIN ks |-> Name(ks[k])]
              /\ ShadeList(ks).shows = [k \in DOMAIN ks |-> Shade(ks[k])]
  BY DEF IdList, NameList, ShadeList
<1>2. CASE m = <<1, 2>>
  <2>1. DOMAIN m = 1..2 /\ m[1] = 1 /\ m[2] = 2
    BY <1>2
  <2>2. IdList(m).shows = <<Id(1), Id(2)>>
    <3>1. PICK g : g = IdList(m).shows
      OBVIOUS
    <3>2. g = [k \in 1..2 |-> Id(m[k])]
      BY <1>1, <2>1, <3>1
    <3>3. g = [k \in 1..2 |-> g[k]] /\ g[1] = Id(1) /\ g[2] = Id(2)
      BY <2>1, <3>2
    <3> QED BY <3>1, <3>3, ListIs
  <2>3. NameList(m).shows = <<Name(1), Name(2)>>
    <3>1. PICK g : g = NameList(m).shows
      OBVIOUS
    <3>2. g = [k \in 1..2 |-> Name(m[k])]
      BY <1>1, <2>1, <3>1
    <3>3. g = [k \in 1..2 |-> g[k]] /\ g[1] = Name(1) /\ g[2] = Name(2)
      BY <2>1, <3>2
    <3> QED BY <3>1, <3>3, ListIs
  <2>4. ShadeList(m).shows = <<Shade(1), Shade(2)>>
    <3>1. PICK g : g = ShadeList(m).shows
      OBVIOUS
    <3>2. g = [k \in 1..2 |-> Shade(m[k])]
      BY <1>1, <2>1, <3>1
    <3>3. g = [k \in 1..2 |-> g[k]] /\ g[1] = Shade(1) /\ g[2] = Shade(2)
      BY <2>1, <3>2
    <3> QED BY <3>1, <3>3, ListIs
  <2> QED BY <2>2, <2>3, <2>4, FirstIsOff DEF AllIds
<1>3. CASE m = <<0, 1, 2>>
  <2>1. DOMAIN m = 1..3 /\ m[1] = 0 /\ m[2] = 1 /\ m[3] = 2
    BY <1>3
  <2>2. IdList(m).shows = <<Id(0), Id(1), Id(2)>>
    <3>1. PICK g : g = IdList(m).shows
      OBVIOUS
    <3>2. g = [k \in 1..3 |-> Id(m[k])]
      BY <1>1, <2>1, <3>1
    <3>3. g = [k \in 1..3 |-> g[k]] /\ g[1] = Id(0) /\ g[2] = Id(1) /\ g[3] = Id(2)
      BY <2>1, <3>2
    <3> QED BY <3>1, <3>3, ListIs
  <2>3. NameList(m).shows = <<Name(0), Name(1), Name(2)>>
    <3>1. PICK g : g = NameList(m).shows
      OBVIOUS
    <3>2. g = [k \in 1..3 |-> Name(m[k])]
      BY <1>1, <2>1, <3>1
    <3>3. g = [k \in 1..3 |-> g[k]] /\ g[1] = Name(0) /\ g[2] = Name(1) /\ g[3] = Name(2)
      BY <2>1, <3>2
    <3> QED BY <3>1, <3>3, ListIs
  <2>4. ShadeList(m).shows = <<Shade(0), Shade(1), Shade(2)>>
    <3>1. PICK g : g = ShadeList(m).shows
      OBVIOUS
    <3>2. g = [k \in 1..3 |-> Shade(m[k])]
      BY <1>1, <2>1, <3>1
    <3>3. g = [k \in 1..3 |-> g[k]] /\ g[1] = Shade(0) /\ g[2] = Shade(1) /\ g[3] = Shade(2)
      BY <2>1, <3>2
    <3> QED BY <3>1, <3>3, ListIs
  <2> QED BY <2>2, <2>3, <2>4, FirstIsOff DEF AllIds
<1> QED BY <1>2, <1>3 DEF Modes

(* The elements that are kept of up to three.                              *)
LEMMA KeptOfFew ==
    ASSUME NEW S, NEW V, NEW y \in V \cap S, NEW z \in V \cap S
    PROVE  /\ Kept(<<y, z>>, V) = <<y, z>>
           /\ \A x \in S \ V : Kept(<<x, y, z>>, V) = <<y, z>>
<1>1. <<>> \in Seq(S) /\ Kept(<<>>, V) = <<>>
  BY EmptyIsKept, TuplesAre
<1>2. \A e \in S : <<>> \o <<e>> = <<e>> /\ Append(<<>>, e) = <<e>>
  BY TuplesAre
<1>3. \A s \in Seq(S), e \in S : Kept(s \o <<e>>, V) = IF e \in V THEN Append(Kept(s, V), e) ELSE Kept(s, V)
  BY KeptMore
<1>4. Append(<<y>>, z) = <<y, z>>
  BY TuplesAre
<1>5. Kept(<<y, z>>, V) = <<y, z>>
  <2>1. PICK s \in Seq(S) : s = <<y>>
    BY TuplesAre
  <2>2. Kept(s, V) = <<y>>
    BY <1>1, <1>2, <1>3, <2>1
  <2>3. s \o <<z>> = <<y, z>>
    BY <2>1, TuplesAre
  <2> QED BY <1>3, <1>4, <2>2, <2>3
<1>6. ASSUME NEW x \in S \ V PROVE Kept(<<x, y, z>>, V) = <<y, z>>
  <2>0. <<x, y>> \o <<z>> = <<x, y, z>>
    <3>1. PICK u \in S : u = x
      OBVIOUS
    <3>2. PICK v \in S : v = y
      OBVIOUS
    <3>3. PICK w \in S : w = z
      OBVIOUS
    <3>4. (<<u>> \o <<v>>) \o <<w>> = <<u, v, w>> /\ <<u>> \o <<v>> = <<u, v>>
      BY OnesAre
    <3>5. PICK p : p = <<u>> \o <<v>>
      OBVIOUS
    <3>6. p \o <<w>> = <<u, v, w>> /\ p = <<u, v>>
      BY <3>4, <3>5
    <3> QED BY <3>1, <3>2, <3>3, <3>6
  <2>1. PICK s \in Seq(S) : s = <<x>>
    BY TuplesAre
  <2>2. Kept(s, V) = <<>>
    BY <1>1, <1>2, <1>3, <1>6, <2>1
  <2>3. PICK t \in Seq(S) : t = <<x, y>> /\ t = <<x>> \o <<y>>
    BY TuplesAre
  <2>4. Kept(t, V) = <<y>>
    BY <1>2, <1>3, <2>1, <2>2, <2>3
  <2>5. t \o <<z>> = <<x, y, z>>
    BY <2>0, <2>3
  <2> QED BY <1>3, <1>4, <2>4, <2>5
<1> QED BY <1>5, <1>6

(* The table has off first and every mode once.                            *)
LEMMA TableHasModes ==
    /\ ConfigIds(<<>>) = <<OffMode>>
    /\ \A ids \in ShownIds : ConfigIds(ids) = AllIds
<1>1. PICK V : V = {ConfigId, <<52>>}
  OBVIOUS
<1>2. OffMode \notin V /\ OffMode \in Seq(Byte) /\ ConfigId \in V \cap Seq(Byte) /\ <<52>> \in V \cap Seq(Byte)
  BY <1>1, IdsDiffer
<1>3. ASSUME NEW ids \in {<<ConfigId, << 52 >>>>, AllIds}
      PROVE  ConfigIds(ids) = AllIds
  <2>1. ids \in Seq(Seq(Byte))
    <3>1. <<ConfigId, <<52>>>> \in Seq(Seq(Byte)) /\ AllIds \in Seq(Seq(Byte))
      BY IdsDiffer, TuplesAre DEF AllIds
    <3> QED BY <1>3, <3>1
  <2>2. \A k \in DOMAIN ids : k \in {j \in DOMAIN ids : IsNewMode(ids, j)} <=> ids[k] \in V
    <3>0. PICK off, config, four, none :
              off = OffMode /\ config = ConfigId /\ four = <<52>> /\ none = <<>>
      OBVIOUS
    <3>1. /\ off # config /\ off # four /\ config # four /\ off # none /\ config # none /\ four # none
          /\ V = {config, four}
      BY <1>1, <3>0, IdsDiffer, Zenon
    <3>2. \A k : IsNewMode(ids, k) <=> ids[k] # none /\ ids[k] # off /\ \A j \in 1..(k - 1) : ids[j] # ids[k]
      BY <3>0, Zenon DEF IsNewMode
    <3>3. 1..(1 - 1) = {} /\ 1..(2 - 1) = {1} /\ 1..(3 - 1) = {1, 2}
      OBVIOUS
    <3>4. IsNewMode(ids, 1) <=> ids[1] # none /\ ids[1] # off
      BY <3>2, <3>3, Zenon
    <3>5. IsNewMode(ids, 2) <=> ids[2] # none /\ ids[2] # off /\ ids[1] # ids[2]
      BY <3>2, <3>3, Zenon
    <3>6. IsNewMode(ids, 3) <=> ids[3] # none /\ ids[3] # off /\ ids[1] # ids[3] /\ ids[2] # ids[3]
      BY <3>2, <3>3, Zenon
    <3>7. CASE ids = <<ConfigId, <<52>>>>
      <4>1. DOMAIN ids = {1, 2} /\ ids[1] = config /\ ids[2] = four
        BY <3>0, <3>7
      <4> QED BY <3>1, <3>4, <3>5, <4>1
    <3>8. CASE ids = AllIds
      <4>1. DOMAIN ids = {1, 2, 3} /\ ids[1] = off /\ ids[2] = config /\ ids[3] = four
        BY <3>0, <3>8 DEF AllIds
      <4> QED BY <3>1, <3>4, <3>5, <3>6, <4>1
    <3> QED BY <1>3, <3>7, <3>8, Zenon
  <2>3. Chosen(ids, {j \in DOMAIN ids : IsNewMode(ids, j)}) = Kept(ids, V)
    BY <2>1, <2>2, ChosenIsKept
  <2>4. Kept(ids, V) = <<ConfigId, <<52>>>>
    <3>1. PICK off \in Seq(Byte) \ V : off = OffMode
      BY <1>2
    <3>2. PICK config \in V \cap Seq(Byte) : config = ConfigId
      BY <1>2
    <3>3. PICK four \in V \cap Seq(Byte) : four = <<52>>
      BY <1>2
    <3>4. Kept(<<config, four>>, V) = <<config, four>> /\ Kept(<<off, config, four>>, V) = <<config, four>>
      BY <3>1, KeptOfFew
    <3> QED BY <1>3, <3>1, <3>2, <3>3, <3>4, Zenon DEF AllIds
  <2>5. <<OffMode>> \o <<ConfigId, <<52>>>> = AllIds
    <3>1. OffMode \in Seq(Byte) /\ ConfigId \in Seq(Byte) /\ <<52>> \in Seq(Byte)
      BY IdsDiffer
    <3>2. \A x, y, z \in Seq(Byte) : <<x>> \o <<y, z>> = <<x, y, z>>
      BY TuplesAre
    <3> QED BY <3>1, <3>2, Zenon DEF AllIds
  <2> QED BY <2>3, <2>4, <2>5 DEF ConfigIds
<1>4. \A ids \in ShownIds : ids \in {<<ConfigId, <<52>>>>, AllIds}
  BY ListsAre DEF ShownIds
<1>5. ConfigIds(<<>>) = <<OffMode>>
  <2>1. Chosen(<<>>, {j \in DOMAIN <<>> : IsNewMode(<<>>, j)}) = Kept(<<>>, V)
    <3>1. <<>> \in Seq(V) /\ \A k \in DOMAIN <<>> : k \in {j \in DOMAIN <<>> : IsNewMode(<<>>, j)} <=> <<>>[k] \in V
      OBVIOUS
    <3> QED BY <3>1, ChosenIsKept
  <2>2. Kept(<<>>, V) = <<>>
    BY EmptyIsKept
  <2>3. <<OffMode>> \o <<>> = <<OffMode>>
    OBVIOUS
  <2> QED BY <2>1, <2>2, <2>3 DEF ConfigIds
<1> QED BY <1>3, <1>4, <1>5

-----------------------------------------------------------------------------
(***************************************************************************)
(* What stands in the table of the modes.                                  *)
(***************************************************************************)
IdsOf(n) == IF n = 1 THEN <<OffMode>> ELSE AllIds

ShownName(m) == IF Name(m) = <<>> THEN None ELSE Name(m)

\* The names and the colours in a table of n modes are theirs, or missing.
NamesIn(n, l) == \A k \in 1..n : l[k] \in {None, Name(k - 1)}

ShadesIn(n, c) == \A k \in 1..n : c[k] \in {None, Shade(k - 1)}

Table(n, l, c) == [ids |-> IdsOf(n), labels |-> l, colors |-> c]

TableOf(tb, n) == \E l, c : tb = Table(n, l, c) /\ NamesIn(n, l) /\ ShadesIn(n, c)

TableRight(tb) == \E n \in {1, 3} : TableOf(tb, n)

\* The lists that were read last are in the table.
ListRead(tb, s) ==
    s # None /\ s.response # NotAFrame /\ s.response.status = 0 /\ Len(tb.ids) = 3 =>
        /\ s.meant.point = "names" => \A k \in {2, 3} : tb.labels[k] = ShownName(k - 1)
        /\ s.meant.point = "colors" => \A k \in {2, 3} : tb.colors[k] = Shade(k - 1)

\* A list of the modes without or with off, and one lined up with a table.
IsListOf(list, a, b, c) == list \in {<<b, c>>, <<a, b, c>>}

IsLinedUp(x, n, a, b, c) ==
    /\ n = 1 => x[1] = None
    /\ n = 3 => x[1] \in {None, a} /\ x[2] = b /\ x[3] = c

(* A list lines up with the modes, with or without an entry for off.       *)
LEMMA LinesUp ==
    ASSUME NEW n \in {1, 3}, NEW a, NEW b, NEW c, NEW list, IsListOf(list, a, b, c)
    PROVE  IsLinedUp(LinedUp(n, list), n, a, b, c)
<1>1. PICK l : l = list
  OBVIOUS
<1>2. CASE l = <<b, c>>
  <2>1. Len(l) = 2 /\ DOMAIN l = {1, 2} /\ l[1] = b /\ l[2] = c
    BY <1>2
  <2>2. CASE n = 1
    <3>1. LinedUp(n, l)[1] = None
      BY <2>1, <2>2 DEF LinedUp
    <3> QED BY <1>1, <2>2, <3>1 DEF IsLinedUp
  <2>3. CASE n = 3
    <3>1. \A k \in 1..3 : LinedUp(n, l)[k] = IF k - 1 \in DOMAIN l THEN l[k - 1] ELSE None
      BY <2>1, <2>3 DEF LinedUp
    <3>2. LinedUp(n, l)[1] = None /\ LinedUp(n, l)[2] = b /\ LinedUp(n, l)[3] = c
      BY <2>1, <3>1
    <3> QED BY <1>1, <2>3, <3>2 DEF IsLinedUp
  <2> QED BY <2>2, <2>3
<1>3. CASE l = <<a, b, c>>
  <2>1. Len(l) = 3 /\ DOMAIN l = {1, 2, 3} /\ l[1] = a /\ l[2] = b /\ l[3] = c
    BY <1>3
  <2>2. CASE n = 1
    <3>1. LinedUp(n, l)[1] = None
      BY <2>1, <2>2 DEF LinedUp
    <3> QED BY <1>1, <2>2, <3>1 DEF IsLinedUp
  <2>3. CASE n = 3
    <3>1. \A k \in 1..3 : LinedUp(n, l)[k] = IF k \in DOMAIN l THEN l[k] ELSE None
      BY <2>1, <2>3 DEF LinedUp
    <3>2. LinedUp(n, l)[1] = a /\ LinedUp(n, l)[2] = b /\ LinedUp(n, l)[3] = c
      BY <2>1, <3>1
    <3> QED BY <1>1, <2>3, <3>2 DEF IsLinedUp
  <2> QED BY <2>2, <2>3
<1> QED BY <1>1, <1>2, <1>3 DEF IsListOf

(* So do the names of the modes, as they are shown, and their colours.     *)
LEMMA NamesLineUp ==
    ASSUME NEW n \in {1, 3}, NEW names \in ShownNames
    PROVE  /\ NamesIn(n, Labels(n, names))
           /\ n = 3 => \A k \in {2, 3} : Labels(n, names)[k] = ShownName(k - 1)
<1>1. IsListOf(names, Name(0), Name(1), Name(2))
  BY ListsAre DEF ShownNames, IsListOf
<1>2. PICK lined : lined = LinedUp(n, names)
  OBVIOUS
<1>3. /\ n = 1 => lined[1] = None
      /\ n = 3 => lined[1] \in {None, Name(0)} /\ lined[2] = Name(1) /\ lined[3] = Name(2)
  <2>1. IsLinedUp(lined, n, Name(0), Name(1), Name(2))
    BY <1>1, <1>2, LinesUp
  <2> QED BY <2>1, Zenon DEF IsLinedUp
<1>4. \A k \in 1..n : Labels(n, names)[k] = IF lined[k] = <<>> THEN None ELSE lined[k]
  BY <1>2 DEF Labels
<1>5. CASE n = 1
  <2>1. Labels(n, names)[1] = None
    BY <1>3, <1>4, <1>5
  <2>2. 1..n = {1}
    BY <1>5
  <2> QED BY <1>5, <2>1, <2>2 DEF NamesIn
<1>6. CASE n = 3
  <2>0. 1..n = {1, 2, 3} /\ 1 - 1 = 0 /\ 2 - 1 = 1 /\ 3 - 1 = 2
    BY <1>6
  <2>1. Labels(n, names)[1] \in {None, Name(0)}
    BY <1>3, <1>4, <1>6
  <2>2. Labels(n, names)[2] = ShownName(1) /\ Labels(n, names)[3] = ShownName(2)
    BY <1>3, <1>4, <1>6 DEF ShownName
  <2>3. ShownName(1) \in {None, Name(1)} /\ ShownName(2) \in {None, Name(2)}
    BY DEF ShownName
  <2> QED BY <2>0, <2>1, <2>2, <2>3, Zenon DEF NamesIn
<1> QED BY <1>5, <1>6

\* The same for colors: with three modes in the table every mode has its own
\* color, with OFF alone the colors the bike lists stand nowhere.
LEMMA ShadesLineUp ==
    ASSUME NEW n \in {1, 3}, NEW shades \in ShownShades
    PROVE  /\ ShadesIn(n, LinedUp(n, shades))
           /\ n = 3 => \A k \in {2, 3} : LinedUp(n, shades)[k] = Shade(k - 1)
<1>1. IsListOf(shades, Shade(0), Shade(1), Shade(2))
  BY ListsAre DEF ShownShades, IsListOf
<1>2. PICK lined : lined = LinedUp(n, shades)
  OBVIOUS
<1>3. /\ n = 1 => lined[1] = None
      /\ n = 3 => lined[1] \in {None, Shade(0)} /\ lined[2] = Shade(1) /\ lined[3] = Shade(2)
  <2>1. IsLinedUp(lined, n, Shade(0), Shade(1), Shade(2))
    BY <1>1, <1>2, LinesUp
  <2> QED BY <2>1, Zenon DEF IsLinedUp
<1>4. CASE n = 1
  <2>1. 1..n = {1} /\ 1 - 1 = 0
    BY <1>4
  <2> QED BY <1>2, <1>3, <1>4, <2>1 DEF ShadesIn
<1>5. CASE n = 3
  <2>1. 1..n = {1, 2, 3} /\ 1 - 1 = 0 /\ 2 - 1 = 1 /\ 3 - 1 = 2
    BY <1>5
  <2> QED BY <1>2, <1>3, <1>5, <2>1, Zenon DEF ShadesIn
<1> QED BY <1>4, <1>5

(* A new table has no names and no colours.                                *)
LEMMA BlankIsRight ==
    ASSUME NEW n \in {1, 3}, NEW tb, tb = Table(n, [k \in 1..n |-> None], [k \in 1..n |-> None])
    PROVE  TableRight(tb)
<1>1. PICK x : x = [k \in 1..n |-> None]
  OBVIOUS
<1>2. NamesIn(n, x) /\ ShadesIn(n, x)
  BY <1>1 DEF NamesIn, ShadesIn
<1>3. TableOf(tb, n)
  BY <1>1, <1>2, Zenon DEF TableOf
<1> QED BY <1>3, Zenon DEF TableRight

\* A list of names or of colours is asked for, or its answer on its way.
ListPoints == {"names", "colors"}

ListsAsked(ts, ms) ==
    (\E k \in DOMAIN ts : ts[k].point \in ListPoints) \/ (\E k \in DOMAIN ms : ms[k].point \in ListPoints)

\* They are asked for when there is a table only, and no table goes while they are.
TableInv ==
    /\ modeTable = None \/ (TableRight(modeTable) /\ ListRead(modeTable, seen))
    /\ ListsAsked(toBike, meant) => TableRight(modeTable)

TableIs(tb, n, l, c) == tb.ids = IdsOf(n) /\ Len(tb.ids) = n /\ tb.labels = l /\ tb.colors = c

(* The ids of a table, and how many there are.                             *)
LEMMA TableHas ==
    ASSUME NEW n \in {1, 3}, NEW l, NEW c
    PROVE  TableIs(Table(n, l, c), n, l, c)
<1>1. PICK tb : tb = Table(n, l, c)
  OBVIOUS
<1>2. tb.ids = IdsOf(n) /\ tb.labels = l /\ tb.colors = c
  BY <1>1 DEF Table
<1>3. Len(IdsOf(n)) = n
  BY DEF IdsOf, AllIds
<1> QED BY <1>1, <1>2, <1>3 DEF TableIs

(* A table that is right, whatever was seen.                               *)
LEMMA TableLinesUp ==
    ASSUME NEW n \in {1, 3}, NEW l, NEW c, NEW tb, tb = Table(n, l, c), NamesIn(n, l), ShadesIn(n, c),
           NEW k \in 1..n
    PROVE  (CHOOSE m \in 0..2 : Id(m) = tb.ids[k]) = k - 1
<1>1. tb.ids = IdsOf(n)
  BY TableHas DEF TableIs
<1>2. Id(0) # Id(1) /\ Id(0) # Id(2) /\ Id(1) # Id(2)
  BY FirstIsOff, IdsDiffer
<1>3. k - 1 \in 0..2 /\ IdsOf(n)[k] = Id(k - 1)
  <2>1. AllIds[1] = Id(0) /\ AllIds[2] = Id(1) /\ AllIds[3] = Id(2)
    BY FirstIsOff DEF AllIds
  <2>2. <<OffMode>>[1] = Id(0)
    BY FirstIsOff
  <2>3. CASE n = 1
    <3>1. k = 1 /\ k - 1 = 0
      BY <2>3
    <3> QED BY <2>2, <2>3, <3>1 DEF IdsOf
  <2>4. CASE n = 3
    <3>1. IdsOf(n) = AllIds
      BY <2>4 DEF IdsOf
    <3>2. k = 1 \/ k = 2 \/ k = 3
      BY <2>4
    <3> QED BY <2>1, <3>1, <3>2
  <2> QED BY <2>3, <2>4
<1>4. \A m \in 0..2 : Id(m) = Id(k - 1) => m = k - 1
  <2>1. \A m \in 0..2 : m = 0 \/ m = 1 \/ m = 2
    OBVIOUS
  <2> QED BY <1>2, <1>3, <2>1
<1> QED BY <1>1, <1>3, <1>4

(* What is made of an answer with a list.                                  *)
LEMMA ListsKeepsTable ==
    ASSUME NEW f, NEW m, Fits(f, m, row), m.point \in ListPoints => TableRight(modeTable),
           modeTable = None \/ TableRight(modeTable), m.point \in {"modes"} \cup ListPoints
    PROVE  LET tb == Lists(m.point, ValueRead(f, m), ParseResponse(f))
           IN TableRight(tb) /\ ListRead(tb, SeenAs(f, m))
<1>0. ~m.push /\ m.point # "range"
  <2>1. "range" \notin {"modes"} \cup ListPoints
    BY DEF ListPoints
  <2> QED BY <2>1, Zenon DEF Fits, FitsPush
<1>1. FitsAnswer(f, m, row) /\ m.point \in PointsOf(row)
  BY <1>0, Zenon DEF Fits
<1>2. ParseResponse(f) # NotAFrame /\ ParseResponse(f).status = m.status
  BY <1>1, Zenon DEF FitsAnswer
<1>3. PICK s : s = SeenAs(f, m) /\ s.response = ParseResponse(f) /\ s.meant = m
  <2>1. PICK s : s = SeenAs(f, m)
    OBVIOUS
  <2>2. s.response = ParseResponse(f) /\ s.meant = m
    BY <2>1 DEF SeenAs
  <2> QED BY <2>1, <2>2
<1>4. PICK tb : tb = Lists(m.point, ValueRead(f, m), ParseResponse(f))
  OBVIOUS
<1>5. m.status = 0 => Says(m, ParseResponse(f).payload, row) /\ ValueRead(f, m) = m.shows
  <2> SUFFICES ASSUME m.status = 0
               PROVE  Says(m, ParseResponse(f).payload, row) /\ ValueRead(f, m) = m.shows
    OBVIOUS
  <2>1. Says(m, ParseResponse(f).payload, row)
    BY <1>1, Zenon DEF FitsAnswer
  <2>2. ValueRead(f, m) = Decode(m.point, ParseResponse(f).payload)
    BY <1>2 DEF ValueRead
  <2>3. Decode(m.point, ParseResponse(f).payload) = m.shows
    BY <1>0, <1>1, <2>1, SaidIsDecoded
  <2> QED BY <2>1, <2>2, <2>3
<1>6. CASE m.point = "modes"
  <2>1. PICK ids : ids = ConfigIds(IF m.status = 0 THEN m.shows ELSE <<>>)
    OBVIOUS
  <2>2. ids = <<OffMode>> \/ ids = AllIds
    <3>1. m.status = 0 => m.shows \in ShownIds
      BY <1>5, <1>6, Zenon DEF Says, SaysSo
    <3> QED BY <2>1, <3>1, TableHasModes
  <2>3. PICK n \in {1, 3} : ids = IdsOf(n) /\ DOMAIN ids = 1..n
    BY <2>2 DEF IdsOf, AllIds
  <2>4. tb = Table(n, [k \in 1..n |-> None], [k \in 1..n |-> None])
    <3>1. tb = [ids |-> ids, labels |-> [k \in DOMAIN ids |-> None], colors |-> [k \in DOMAIN ids |-> None]]
      BY <1>2, <1>4, <1>5, <1>6, <2>1 DEF Lists
    <3> QED BY <2>3, <3>1, Zenon DEF Table
  <2>5. TableRight(tb)
    BY <2>4, BlankIsRight
  <2>6. ListRead(tb, s)
    BY <1>3, <1>6, Zenon DEF ListRead
  <2> QED BY <1>3, <1>4, <2>5, <2>6
<1>7. CASE m.point \in ListPoints /\ m.status # 0
  <2>1. tb = modeTable
    <3>1. m.point # "modes" /\ m.point \in {"names", "colors"}
      BY <1>7 DEF ListPoints
    <3> QED BY <1>2, <1>4, <1>7, <3>1 DEF Lists
  <2>2. ListRead(tb, s)
    BY <1>2, <1>3, <1>7, Zenon DEF ListRead
  <2> QED BY <1>3, <1>4, <1>7, <2>1, <2>2
<1>8. CASE m.point \in ListPoints /\ m.status = 0
  <2>0. PICK n \in {1, 3} : TableOf(modeTable, n)
    BY <1>8, Zenon DEF TableRight
  <2>1. PICK l, c : modeTable = Table(n, l, c) /\ NamesIn(n, l) /\ ShadesIn(n, c)
    BY <2>0, Zenon DEF TableOf
  <2>2. Len(modeTable.ids) = n
    <3>1. TableIs(modeTable, n, l, c)
      BY <2>1, TableHas
    <3> QED BY <3>1, Zenon DEF TableIs
  <2>3. CASE m.point = "names"
    <3>1. m.shows \in ShownNames
      BY <1>5, <1>8, <2>3, Zenon DEF Says, SaysSo
    <3>2. PICK x : x = Labels(n, m.shows)
      OBVIOUS
    <3>3. NamesIn(n, x) /\ (n = 3 => \A k \in {2, 3} : x[k] = ShownName(k - 1))
      BY <3>1, <3>2, NamesLineUp
    <3>4. tb = Table(n, x, c)
      <4>1. tb = [modeTable EXCEPT !.labels = x]
        BY <1>2, <1>4, <1>5, <1>8, <2>2, <2>3, <3>2 DEF Lists
      <4> QED BY <2>1, <4>1 DEF Table
    <3>5. tb.labels = x /\ Len(tb.ids) = n
      <4>1. TableIs(tb, n, x, c)
        BY <3>4, TableHas
      <4> QED BY <4>1, Zenon DEF TableIs
    <3>6. TableRight(tb)
      BY <2>1, <3>3, <3>4, Zenon DEF TableRight, TableOf
    <3>7. ListRead(tb, s)
      BY <1>3, <2>3, <3>3, <3>5, Zenon DEF ListRead
    <3> QED BY <1>3, <1>4, <3>6, <3>7
  <2>4. CASE m.point = "colors"
    <3>1. m.shows \in ShownShades
      BY <1>5, <1>8, <2>4, Zenon DEF Says, SaysSo
    <3>2. PICK x : x = LinedUp(n, m.shows)
      OBVIOUS
    <3>3. ShadesIn(n, x) /\ (n = 3 => \A k \in {2, 3} : x[k] = Shade(k - 1))
      BY <3>1, <3>2, ShadesLineUp
    <3>4. tb = Table(n, l, x)
      <4>1. tb = [modeTable EXCEPT !.colors = x]
        BY <1>2, <1>4, <1>5, <1>8, <2>2, <2>4, <3>2 DEF Lists
      <4> QED BY <2>1, <4>1 DEF Table
    <3>5. tb.colors = x /\ Len(tb.ids) = n
      <4>1. TableIs(tb, n, l, x)
        BY <3>4, TableHas
      <4> QED BY <4>1, Zenon DEF TableIs
    <3>6. TableRight(tb)
      BY <2>1, <3>3, <3>4, Zenon DEF TableRight, TableOf
    <3>7. ListRead(tb, s)
      BY <1>3, <2>4, <3>3, <3>5, Zenon DEF ListRead
    <3> QED BY <1>3, <1>4, <3>6, <3>7
  <2> QED BY <1>8, <2>3, <2>4 DEF ListPoints
<1> QED BY <1>6, <1>7, <1>8

(* What is in a list to which something was appended, or without its first. *)
LEMMA ListsOn ==
    ASSUME NEW ms, IsSeq(ms), NEW x
    PROVE  /\ \A k \in DOMAIN Append(ms, x) : Append(ms, x)[k] = x \/ (k \in DOMAIN ms /\ Append(ms, x)[k] = ms[k])
           /\ ms # <<>> => /\ 1 \in DOMAIN ms
                           /\ \A k \in DOMAIN Tail(ms) : k + 1 \in DOMAIN ms /\ Tail(ms)[k] = ms[k + 1]
<1>1. PICK S : ms \in Seq(S)
  BY DEF IsSeq
<1>2. PICK n \in Nat : n = Len(ms)
  BY <1>1
<1>3. DOMAIN ms = 1..n
  BY <1>1, <1>2
<1>4. /\ DOMAIN Append(ms, x) = 1..(n + 1) /\ Append(ms, x)[n + 1] = x
      /\ \A k \in 1..n : Append(ms, x)[k] = ms[k]
  <2>1. PICK T : T = S \cup {x}
    OBVIOUS
  <2>2. ms \in Seq(T) /\ x \in T
    BY <1>1, <2>1
  <2>3. /\ Append(ms, x) \in Seq(T) /\ Len(Append(ms, x)) = Len(ms) + 1
        /\ \A i \in 1..Len(ms) : Append(ms, x)[i] = ms[i]
        /\ Append(ms, x)[Len(ms) + 1] = x
    BY <2>2, AppendProperties
  <2> QED BY <1>2, <2>3
<1>5. ms # <<>> => n # 0
  BY <1>1, <1>2, EmptySeq
<1>6. ASSUME ms # <<>>
      PROVE  DOMAIN Tail(ms) = 1..(n - 1) /\ \A k \in 1..(n - 1) : Tail(ms)[k] = ms[k + 1]
  <2>1. /\ Tail(ms) \in Seq(S) /\ Len(Tail(ms)) = Len(ms) - 1
        /\ \A i \in 1..Len(Tail(ms)) : Tail(ms)[i] = ms[i + 1]
    BY <1>1, <1>6, HeadTailProperties
  <2> QED BY <1>2, <1>5, <1>6, <2>1
<1>7. ASSUME ms # <<>>
      PROVE  1 \in DOMAIN ms /\ \A k \in DOMAIN Tail(ms) : k + 1 \in DOMAIN ms /\ Tail(ms)[k] = ms[k + 1]
  BY <1>3, <1>5, <1>6, <1>7
<1>8. \A k \in DOMAIN Append(ms, x) : Append(ms, x)[k] = x \/ (k \in DOMAIN ms /\ Append(ms, x)[k] = ms[k])
  BY <1>3, <1>4
<1> QED BY <1>7, <1>8, Zenon

\* A step that leaves the table and asks for no list without one.
TableLeft ==
    /\ modeTable' = modeTable /\ (seen' = None \/ seen' = seen)
    /\ ListsAsked(toBike', meant') => ListsAsked(toBike, meant) \/ modeTable # None

(* A request that is sent.                                                 *)
LEMMA SendingLeavesTable ==
    ASSUME NEW point, NEW payload, NEW change, Send(point, payload, change), UNCHANGED <<meant, modeTable>>, seen' = None,
           point \in ListPoints => modeTable # None
    PROVE  TableLeft
<1>1. PICK x : toBike' = <<x>> /\ x.point = point
  BY DEF Send
<1>2. \A k \in DOMAIN toBike' : toBike'[k].point = point
  BY <1>1
<1> QED BY <1>2 DEF TableLeft, ListsAsked

(* An answer or a push that is sent.                                       *)
LEMMA SayingLeavesTable ==
    ASSUME NEW x, meant' = Append(meant, x), IsSeq(meant), UNCHANGED modeTable, seen' = None,
           x.point \in ListPoints => ListsAsked(toBike, meant),
           \A k \in DOMAIN toBike' : toBike' = toBike
    PROVE  TableLeft
<1>1. \A k \in DOMAIN meant' : meant'[k] = x \/ (k \in DOMAIN meant /\ meant'[k] = meant[k])
  BY ListsOn
<1> QED BY <1>1 DEF TableLeft, ListsAsked

(* All steps but two leave the table.                                      *)
LEMMA TableStays ==
    ASSUME WireInv, [Next]_vars
    PROVE  TableLeft \/ Reads \/ Reopens
<1>0. IsSeq(meant) /\ (toBike # <<>> => 1 \in DOMAIN toBike)
  <2>1. Flight(transport, fromBike, readQueue, meant, asked, row)
    BY DEF WireInv, FlightInv
  <2>2. IsSeq(meant)
    BY <2>1 DEF Flight, Meet
  <2>3. toBike # <<>> => toBike = <<toBike[1]>>
    BY DEF WireInv, RequestInv
  <2> QED BY <2>2, <2>3
<1>1. ASSUME NEW point \in Points, Asks(point) PROVE TableLeft
  <2>1. Send(point, Argument(point), None) /\ UNCHANGED <<meant, modeTable>> /\ seen' = None
    BY <1>1 DEF Asks, Forget, points
  <2>2. point \in ListPoints => modeTable # None
    BY <1>1 DEF Asks, ListPoints
  <2> QED BY <2>1, <2>2, SendingLeavesTable
<1>2. ASSUME NEW f \in EditableFields, NEW n \in Numbers, Sets(f, n) PROVE TableLeft
  <2>1. PICK p, c : Send("set", p, c)
    BY <1>2 DEF Sets
  <2>2. UNCHANGED <<meant, modeTable>> /\ seen' = None /\ "set" \notin ListPoints
    BY <1>2 DEF Sets, Forget, points, ListPoints
  <2> QED BY <2>1, <2>2, SendingLeavesTable
<1>3. ASSUME NEW status \in Statuses, Serves(status) PROVE TableLeft
  <2>1. PICK x : meant' = Append(meant, x) /\ x.point = toBike[1].point
    BY <1>3 DEF Serves
  <2>2. UNCHANGED modeTable /\ seen' = None /\ toBike' = <<>> /\ toBike # <<>>
    BY <1>3 DEF Serves
  <2>3. x.point \in ListPoints => ListsAsked(toBike, meant)
    BY <1>0, <2>1, <2>2 DEF ListsAsked
  <2>4. \A k \in DOMAIN toBike' : toBike' = toBike
    BY <2>2
  <2> QED BY <1>0, <2>1, <2>2, <2>3, <2>4, SayingLeavesTable
<1>4. ASSUME NEW n \in Numbers, Pushes(n) PROVE TableLeft
  <2>1. PICK x : meant' = Append(meant, x) /\ x.point = "range"
    BY <1>4 DEF Pushes
  <2>2. UNCHANGED <<modeTable, toBike>> /\ seen' = None
    BY <1>4 DEF Pushes, Forget, points
  <2>3. x.point \notin ListPoints
    BY <2>1 DEF ListPoints
  <2> QED BY <1>0, <2>1, <2>2, <2>3, SayingLeavesTable
<1>5. ASSUME NEW own \in Own, BikeAsks(own) PROVE TableLeft
  BY <1>5 DEF BikeAsks, Forget, points, TableLeft
<1>6. ASSUME NEW v, LabWrites(v) PROVE TableLeft
  <2>1. PICK p, c : Send("write", p, c)
    BY <1>6 DEF LabWrites
  <2>2. UNCHANGED <<meant, modeTable>> /\ seen' = None /\ "write" \notin ListPoints
    BY <1>6 DEF LabWrites, Forget, points, ListPoints
  <2> QED BY <2>1, <2>2, SendingLeavesTable
<1>7. CASE NotificationArrives
  BY <1>7 DEF NotificationArrives, points, TableLeft
<1>8. CASE FrameArrives
  BY <1>8 DEF FrameArrives, Forget, points, TableLeft
<1>9. CASE Tells
  BY <1>9 DEF Tells, points, TableLeft
<1>10. CASE LiveDataArrives
  BY <1>10 DEF LiveDataArrives, points, TableLeft
<1>11. CASE UNCHANGED vars
  BY <1>11 DEF vars, TableLeft
<1> QED BY <1>1, <1>2, <1>3, <1>4, <1>5, <1>6, <1>7, <1>8, <1>9, <1>10, <1>11 DEF Next

(* What a frame was read as is kept with what was meant.                   *)
LEMMA SeenIsOf ==
    ASSUME NEW f, NEW m
    PROVE  \E s : s = SeenAs(f, m) /\ s.meant = m
<1>1. PICK s : s = SeenAs(f, m)
  OBVIOUS
<1>2. s.meant = m
  BY <1>1 DEF SeenAs
<1> QED BY <1>1, <1>2

(* The table stays right, step by step.                                    *)
LEMMA TableNext == WireInv /\ TableInv /\ [Next]_vars => TableInv'
<1> SUFFICES ASSUME WireInv, TableInv, [Next]_vars PROVE TableInv'
  OBVIOUS
<1>1. TableLeft \/ Reads \/ Reopens
  BY TableStays
<1>2. CASE TableLeft
  <2>1. modeTable' = modeTable /\ (seen' = None \/ seen' = seen)
    BY <1>2 DEF TableLeft
  <2>2. modeTable = None \/ (TableRight(modeTable) /\ ListRead(modeTable, seen'))
    <3>1. ListRead(modeTable, None)
      BY DEF ListRead
    <3> QED BY <2>1, <3>1 DEF TableInv
  <2>3. ListsAsked(toBike', meant') => TableRight(modeTable)
    BY <1>2 DEF TableLeft, TableInv
  <2> QED BY <2>1, <2>2, <2>3 DEF TableInv
<1>3. CASE Reads
  <2>1. PICK f : f = readQueue[1]
    OBVIOUS
  <2>2. PICK m : m = meant[1]
    OBVIOUS
  <2>3. Fits(f, m, row) /\ seen' = SeenAs(f, m)
    BY <1>3, <2>1, <2>2, ReadsSees
  <2>4. modeTable' = Lists(m.point, ValueRead(f, m), ParseResponse(f)) /\ meant' = Tail(meant) /\ toBike' = toBike
    BY <1>3, <2>1, <2>2 DEF Reads, ValueRead
  <2>5. IsSeq(meant) /\ meant # <<>>
    <3>1. readQueue # <<>>
      BY <1>3 DEF Reads
    <3>2. Flight(transport, fromBike, readQueue, meant, asked, row) /\ transport \in {"usb", "ble"}
      BY <3>1 DEF WireInv, FlightInv, RowInv
    <3>3. Meet(readQueue \o Coming(transport, fromBike), meant, row) /\ readQueue \in Seq(Seq(Byte))
          /\ Coming(transport, fromBike) \in Seq(Seq(Byte))
      BY <3>2, FlightFrames
    <3>4. PICK c \in Seq(Seq(Byte)) : c = Coming(transport, fromBike)
      BY <3>3
    <3>5. PICK q \in Seq(Seq(Byte)) : q = readQueue /\ q # <<>>
      BY <3>1, <3>3
    <3>6. Len(q \o c) = Len(q) + Len(c) /\ Len(q) \in Nat /\ Len(c) \in Nat /\ Len(q) # 0
      BY <3>5, EmptySeq, ConcatProperties
    <3>7. Len(meant) = Len(q \o c) /\ IsSeq(meant)
      BY <3>3, <3>4, <3>5 DEF Meet
    <3>8. Len(<<>>) = 0
      OBVIOUS
    <3>9. Len(q) + Len(c) # 0
      BY <3>6
    <3> QED BY <3>6, <3>7, <3>8, <3>9, Zenon
  <2>6. ListsAsked(toBike, Tail(meant)) => ListsAsked(toBike, meant)
    BY <2>5, ListsOn DEF ListsAsked
  <2>7. m.point \in ListPoints => ListsAsked(toBike, meant)
    BY <2>2, <2>5, ListsOn DEF ListsAsked
  <2>8. CASE m.point \in {"modes"} \cup ListPoints
    <3>1. PICK tb : tb = Lists(m.point, ValueRead(f, m), ParseResponse(f))
      OBVIOUS
    <3>2. TableRight(tb) /\ ListRead(tb, SeenAs(f, m))
      BY <2>3, <2>7, <2>8, <3>1, ListsKeepsTable DEF TableInv
    <3> QED BY <2>3, <2>4, <3>1, <3>2 DEF TableInv
  <2>9. CASE m.point \notin {"modes"} \cup ListPoints
    <3>1. modeTable' = modeTable
      BY <2>4, <2>9 DEF Lists, ListPoints
    <3>2. PICK s : s = SeenAs(f, m) /\ s.meant = m
      BY SeenIsOf
    <3>3. ListRead(modeTable, s)
      BY <2>9, <3>2 DEF ListRead, ListPoints
    <3> QED BY <2>3, <2>4, <2>6, <3>1, <3>2, <3>3 DEF TableInv
  <2> QED BY <2>8, <2>9
<1>4. CASE Reopens
  <2>1. modeTable' = None /\ toBike' = toBike /\ meant' = meant /\ toBike = <<>> /\ meant = <<>>
    BY <1>4 DEF Reopens, Idle
  <2>2. ~ListsAsked(<<>>, <<>>)
    BY DEF ListsAsked
  <2> QED BY <2>1, <2>2 DEF TableInv
<1> QED BY <1>1, <1>2, <1>3, <1>4

(* The table of modes has off first; no mode is shown with the name or the *)
(* colour of another, whether or not the lists of the bike have an entry   *)
(* for off; and a list that was read in full names and colours every       *)
(* active mode (readAllAssistModeStats).                                   *)
THEOREM ModesStandInLine == Spec => []ModesLineUp
<1>1. Init => TableInv
  BY DEF Init, TableInv, ListsAsked
<1>2. TableInv => ModesLineUp
  <2> SUFFICES ASSUME TableInv, modeTable # None PROVE ModesLineUp
    BY DEF ModesLineUp
  <2>1. PICK tb : tb = modeTable
    OBVIOUS
  <2>0. PICK n \in {1, 3} : TableOf(tb, n)
    BY <2>1, Zenon DEF TableInv, TableRight
  <2>2. PICK l, c : tb = Table(n, l, c) /\ NamesIn(n, l) /\ ShadesIn(n, c)
    BY <2>0, Zenon DEF TableOf
  <2>3. tb.ids = IdsOf(n) /\ Len(tb.ids) = n /\ tb.labels = l /\ tb.colors = c
    <3>1. TableIs(tb, n, l, c)
      BY <2>2, TableHas
    <3> QED BY <3>1, Zenon DEF TableIs
  <2>4. DOMAIN tb.ids = 1..n /\ tb.ids[1] = OffMode
    <3>1. DOMAIN AllIds = 1..3 /\ AllIds[1] = OffMode
      BY DEF AllIds
    <3>2. PICK off : off = <<OffMode>>
      OBVIOUS
    <3>3. DOMAIN off = 1..1 /\ off[1] = OffMode
      BY <3>2
    <3> QED BY <2>3, <3>1, <3>2, <3>3 DEF IdsOf
  <2>5. \A k \in 1..n : (CHOOSE m \in 0..2 : Id(m) = tb.ids[k]) = k - 1
    BY <2>2, TableLinesUp
  <2>6. \A k \in DOMAIN tb.ids :
            /\ tb.labels[k] \in {None, Name(CHOOSE m \in 0..2 : Id(m) = tb.ids[k])}
            /\ tb.colors[k] \in {None, Shade(CHOOSE m \in 0..2 : Id(m) = tb.ids[k])}
    BY <2>2, <2>3, <2>4, <2>5, Zenon DEF NamesIn, ShadesIn
  <2>7. ListRead(tb, seen)
    BY <2>1, Zenon DEF TableInv
  <2>8. ASSUME Len(tb.ids) = 3, seen # None, seen.response # NotAFrame, seen.response.status = 0
        PROVE  /\ seen.meant.point = "names" =>
                     \A k \in {2, 3} : tb.labels[k] = ShownName(CHOOSE m \in 0..2 : Id(m) = tb.ids[k])
               /\ seen.meant.point = "colors" =>
                     \A k \in {2, 3} : tb.colors[k] = Shade(CHOOSE m \in 0..2 : Id(m) = tb.ids[k])
    <3>1. \A k \in {2, 3} : k \in 1..n
      BY <2>3, <2>8
    <3>2. \A k \in {2, 3} : (CHOOSE m \in 0..2 : Id(m) = tb.ids[k]) = k - 1
      BY <2>5, <3>1, Zenon
    <3> QED BY <2>7, <2>8, <3>2, Zenon DEF ListRead
  <2> QED BY <2>1, <2>4, <2>6, <2>8, Zenon DEF ModesLineUp, ShownName
<1>3. Spec => []TableInv
  <2>1. Spec => []WireInv
    BY NothingIsLostOnTheWay
  <2> QED BY <1>1, <2>1, TableNext, PTL DEF Spec
<1> QED BY <1>2, <1>3, PTL
=============================================================================
