-------------------------------- MODULE Proto3 --------------------------------
(***************************************************************************)
(* The bike's side of the codec (external): how it encodes the value of a  *)
(* point, by the rules of proto3, in which a field at its default is left  *)
(* out, and what the tool is to make of it.  `Meanings` are the values a   *)
(* point of a kind may have; nothing here uses the decoders of the tool.   *)
(***************************************************************************)
EXTENDS Typed

CONSTANT Numbers        \* values of the number fields

ASSUME NumbersAssumption == Numbers \subseteq 0..(2^Word - 1)

Varint(n) ==
    LET Enc[k \in Nat] == IF k < 128 THEN <<k>> ELSE <<128 + (k % 128)>> \o Enc[k \div 128]
    IN Enc[n]

Number(num, n) == <<8 * num>> \o Varint(n)
Implicit(num, n) == IF n = 0 THEN <<>> ELSE Number(num, n)
Bytes(num, s) == <<8 * num + 2, Len(s)>> \o s
Present(num, s) == IF s = <<>> THEN <<>> ELSE Bytes(num, s)
Bit(flag) == IF flag THEN 1 ELSE 0
Concat3(a, b, c) == a \o b \o c
Packed(ns) == Flatten([k \in DOMAIN ns |-> Varint(ns[k])])
Zigzag(v) == IF v >= 0 THEN 2 * v ELSE -2 * v - 1

-----------------------------------------------------------------------------
(***************************************************************************)
(* A certificate: a body and a signature of 200 bytes, whose length takes  *)
(* two bytes, in one item; the one real sample has a byte before it.       *)
(***************************************************************************)
Tlv(tag, s) ==
    tag \o (IF Len(s) < 128 THEN <<Len(s)>>
            ELSE IF Len(s) < 256 THEN <<129, Len(s)>>
            ELSE <<130, Len(s) \div 256, Len(s) % 256>>) \o s

HolderText == <<66, 69, 83, 51>>
ValidFrom == <<2, 3, 0, 1, 1, 2>>

CertificateBytesOf(lead) ==
    LET body == Tlv(<<66>>, <<1, 2>>) \o Tlv(<<95, 32>>, <<1>> \o HolderText \o <<0>>)
                \o Tlv(<<95, 37>>, ValidFrom)
    IN lead \o Tlv(<<127, 33>>, Tlv(<<127, 78>>, body) \o Tlv(<<95, 55>>, [k \in 1..200 |-> k]))

-----------------------------------------------------------------------------
(***************************************************************************)
(* The values of a point, by its kind.                                     *)
(***************************************************************************)
Quarters == [r : {0, 3}, g : {2}, b : {1}, a : {15}]

Fieldset(shape) == shape.bools \cup shape.uints \cup shape.enums
LastField(shape) == CHOOSE f \in Fieldset(shape) : \A g \in Fieldset(shape) : g <= f

Instants == {n \in Numbers : 2 * n < 2^Word}

Meanings(shape) ==
    CASE shape.kind \in {"string", "unknown"} -> {<<>>, <<69, 67>>}
      [] shape.kind \in {"uint", "enum", "normFactor"} -> Numbers
      [] shape.kind = "signedFactor" -> {-2, 0, 90}
      [] shape.kind = "bool" -> BOOLEAN
      [] shape.kind = "uuid" -> {<<>>, [k \in 1..16 |-> 16 * k - 1]}
      [] shape.kind = "tuningDetection" -> [flag : BOOLEAN, counter : Numbers]
      [] shape.kind = "startAssistModeOem" -> [position : {0, 3}, configurable : BOOLEAN]
      [] shape.kind = "unixTimestamp" -> Instants
      [] shape.kind = "uint32List" -> {<<>>} \cup {<<n, 0>> : n \in Numbers}
      [] shape.kind = "serviceDue" -> [timestamp : Instants, odometer : Numbers]
      [] shape.kind = "deactivationProof" -> [deactivated : BOOLEAN, signatureLength : {0, 64}]
      [] shape.kind = "certificateBytes" -> {None, <<>>, <<1>>}
      [] shape.kind = "assistModeColors" -> {<<>>, <<[r |-> 0, g |-> 0, b |-> 0, a |-> 0]>>}
                                            \cup {<<q>> : q \in Quarters}
      [] shape.kind = "submessage" -> {[f \in Fieldset(shape) |-> 0], [f \in Fieldset(shape) |-> 1]}

ColorWord(q) ==
    LET Quarter == 2^(Word \div 4)
    IN ((q.r * Quarter + q.g) * Quarter + q.b) * Quarter + q.a

Encoded(shape, v) ==
    CASE shape.kind \in {"string", "unknown"} -> Present(1, v)
      [] shape.kind \in {"uint", "enum", "normFactor"} -> Implicit(1, v)
      [] shape.kind \in {"signedFactor", "unixTimestamp"} -> Implicit(1, Zigzag(v))
      [] shape.kind = "bool" -> Implicit(1, Bit(v))
      [] shape.kind = "uuid" -> Present(1, Present(1, v))
      [] shape.kind = "tuningDetection" -> Implicit(1, Bit(v.flag)) \o Implicit(2, v.counter)
      [] shape.kind = "startAssistModeOem" -> Implicit(1, v.position) \o Implicit(2, Bit(v.configurable))
      [] shape.kind = "uint32List" -> Present(1, Packed(v))
      [] shape.kind = "serviceDue" ->
            Present(1, Implicit(1, Zigzag(v.timestamp))) \o Implicit(2, v.odometer)
      [] shape.kind = "deactivationProof" ->
            Implicit(1, Bit(v.deactivated)) \o Present(3, [k \in 1..v.signatureLength |-> k])
      [] shape.kind = "certificateBytes" ->
            IF v = None THEN <<>>
            ELSE <<10>> \o Varint(Len(CertificateBytesOf(v))) \o CertificateBytesOf(v)
      [] shape.kind = "assistModeColors" -> Present(1, Packed([k \in DOMAIN v |-> ColorWord(v[k])]))
      [] shape.kind = "submessage" ->
            Flatten([f \in 1..LastField(shape) |-> IF f \in Fieldset(shape) THEN Implicit(f, v[f]) ELSE <<>>])

-----------------------------------------------------------------------------
(***************************************************************************)
(* What the tool is to read and show.  A number that is divided by a       *)
(* factor, a text and a number of a submessage are shown as empty when     *)
(* they are left out; the point in time 0 is shown as not set.             *)
(***************************************************************************)
OrEmpty(v, empty, shown) == IF v = empty THEN None ELSE shown

Meant(shape, v) ==
    CASE shape.kind \in {"string", "unknown", "uuid"} -> OrEmpty(v, <<>>, v)
      [] shape.kind \in {"normFactor", "signedFactor"} -> OrEmpty(v, 0, <<v, shape.factor>>)
      [] shape.kind = "certificateBytes" ->
            OrEmpty(v, None, [holder |-> {HolderText}, validFrom |-> ValidFrom, validUntil |-> None,
                              signatureLength |-> 200])
      [] shape.kind = "submessage" ->
            [f \in Fieldset(shape) |-> IF f \in shape.bools THEN v[f] # 0 ELSE OrEmpty(v[f], 0, v[f])]
      [] OTHER -> v

MeantDisplay(shape, v) ==
    LET Date(t) == OrEmpty(t, 0, t)
    IN CASE shape.kind = "unixTimestamp" -> Dated(Date(v), None)
         [] shape.kind = "serviceDue" ->
               IF v.timestamp = 0 /\ v.odometer = 0 THEN NotSet ELSE Dated(Date(v.timestamp), v.odometer)
         [] OTHER -> Meant(shape, v)

-----------------------------------------------------------------------------
(***************************************************************************)
(* A value written to a point: the bike accepts a default that is sent.    *)
(***************************************************************************)
Explicit(shape, v) ==
    CASE shape.kind \in {"uint", "enum"} -> Number(1, v)
      [] shape.kind = "string" -> Bytes(1, v)
      [] OTHER -> Encoded(shape, v)

Taken(shape, payload, before) ==
    LET matches == {v \in Meanings(shape) : payload \in {Encoded(shape, v), Explicit(shape, v)}}
    IN IF matches = {} THEN before ELSE CHOOSE v \in matches : TRUE
=============================================================================
