-------------------------------- MODULE Typed --------------------------------
(***************************************************************************)
(* From the bytes of a data point to what the page shows of it             *)
(* (messageTypes.js): decodeTyped for every kind of the registry, the      *)
(* certificate parser, the generic guess of decodeValue for the points of  *)
(* unknown encoding, and what becomes of a value in an exported report.    *)
(* Also the arguments of the Write Lab, and the table of assist modes.     *)
(***************************************************************************)
EXTENDS Codec, Registry

\* (n >>> 1) ^ -(n & 1).
ZigzagSigned(n) == IF n % 2 = 0 THEN n \div 2 ELSE -(n \div 2) - 1

-----------------------------------------------------------------------------
(***************************************************************************)
(* Card verifiable certificates: nested tags, lengths and values.  A tag   *)
(* whose low five bits are set has a second byte; a length from 128 is the *)
(* number of length bytes that follow, high byte first.                    *)
(***************************************************************************)
CvcTag(b, i) ==
    IF b[i] % 32 = 31 THEN [tag |-> 256 * b[i] + ByteAt(b, i + 1), next |-> i + 2]
    ELSE [tag |-> b[i], next |-> i + 1]

Constructed(b, i) == (b[i] \div 32) % 2 = 1

CvcLen(b, i) ==
    LET n == ByteAt(b, i) - 128
    IN IF n < 0 THEN [len |-> ByteAt(b, i), next |-> i + 1]
       ELSE [len |-> Total([k \in 1..n |-> IF 8 * (n - k) >= Word THEN 0 ELSE ByteAt(b, i + k) * 2^(8 * (n - k))], 1),
             next |-> i + n + 1]

CvcItemAt(b, i) ==
    LET Item(tag, len) ==
            Finds([tag |-> tag.tag, constructed |-> Constructed(b, i), value |-> Slice(b, len.next, len.len)],
                  len.next + len.len)
        Tagged(tag) == Item(tag, CvcLen(b, tag.next))
    IN Tagged(CvcTag(b, i))

CvcItems(b) == Walk([i \in 1..Len(b) |-> CvcItemAt(b, i)], 1)

\* The first item with the tag.
CvcFind(items, tag) ==
    LET First(k) == items[k].tag = tag /\ \A j \in 1..(k - 1) : items[j].tag # tag
    IN IF \E k \in DOMAIN items : items[k].tag = tag THEN items[CHOOSE k \in DOMAIN items : First(k)] ELSE None

ValueOf(item) == IF item = None THEN <<>> ELSE item.value

\* null is neither an item nor a parsed certificate.
ASSUME CvcAssumption ==
    /\ None \notin [tag : Nat, constructed : BOOLEAN, value : Seq(0..255)]
    /\ None \notin [holder : SUBSET Seq(0..255), validFrom : Seq(0..255),
                    validUntil : Seq(0..255) \cup {None}, signatureLength : Nat]

\* The runs of four and more printable characters.
CvcAsciiRuns(b) ==
    LET printable == {i \in DOMAIN b : b[i] \in 32..126}
        Run(i, j) == /\ i..j \subseteq printable /\ i - 1 \notin printable /\ j + 1 \notin printable
                     /\ j - i >= 3
    IN {SubSeq(b, run[1], run[2]) : run \in {q \in printable \X printable : q[1] <= q[2] /\ Run(q[1], q[2])}}

\* Six digits, a byte each.
CvcDate(item) == IF item = None \/ Len(ValueOf(item)) # 6 THEN None ELSE item.value

CvcHolder(items) == CvcAsciiRuns(ValueOf(CvcFind(items, 24352)))

\* The key algorithm, the holder's authorization and the references in hex
\* are read like the holder.
ParseCvcCertificate(b) ==
    LET start == IF ByteAt(b, 1) # 127 /\ ByteAt(b, 2) = 127 /\ ByteAt(b, 3) = 33 THEN 2 ELSE 1
        cert == CvcFind(CvcItems(SubSeq(b, start, Len(b))), 32545)
        parts == IF cert = None \/ ~cert.constructed THEN <<>> ELSE CvcItems(cert.value)
        body == CvcFind(parts, 32590)
        items == CvcItems(ValueOf(body))
    IN IF body = None THEN None
       ELSE [holder |-> CvcHolder(items),
             validFrom |-> CvcDate(CvcFind(items, 24357)), validUntil |-> CvcDate(CvcFind(items, 24356)),
             signatureLength |-> Len(ValueOf(CvcFind(parts, 24375)))]

-----------------------------------------------------------------------------
(***************************************************************************)
(* decodeTyped.                                                            *)
(***************************************************************************)
\* Red, green, blue and alpha are the four quarters of a word, alpha lowest.
Color(v) ==
    LET Quarter(k) == (v \div 2^(k * (Word \div 4))) % 2^(Word \div 4)
    IN [r |-> Quarter(3), g |-> Quarter(2), b |-> Quarter(1), a |-> Quarter(0)]

Colors(run) == LET values == VarintsIn(run) IN [k \in DOMAIN values |-> Color(values[k])]

\* A flag left out is FALSE, a number left out is not shown.
DecodeSubmessageFields(shape, fields) ==
    [num \in shape.bools \cup shape.uints \cup shape.enums |->
        IF num \in shape.bools THEN Value(fields, num, 0) # 0 ELSE Value(fields, num, None)]

\* What an empty payload stands for, proto3 leaving out what is at its default.
DefaultOf(shape) ==
    CASE shape.kind = "bool" -> FALSE
      [] shape.kind \in {"uint", "enum", "unixTimestamp"} -> 0
      [] shape.kind \in {"uint32List", "assistModeColors"} -> <<>>
      [] shape.kind = "tuningDetection" -> [flag |-> FALSE, counter |-> 0]
      [] shape.kind = "startAssistModeOem" -> [position |-> 0, configurable |-> FALSE]
      [] shape.kind = "serviceDue" -> [timestamp |-> 0, odometer |-> 0]
      [] shape.kind = "deactivationProof" -> [deactivated |-> FALSE, signatureLength |-> 0]
      [] shape.kind = "submessage" -> DecodeSubmessageFields(shape, <<>>)
      [] OTHER -> None

\* Sixteen bytes in a message of their own.
UuidIn(inner) == IF Len(inner) = 16 THEN inner ELSE None

InstantIn(stamp) == ZigzagSigned(Value(ParseFields(stamp), 1, 0))

\* Of a certificate in another format, the bytes.
CertificateIn(b) == IF ParseCvcCertificate(b) = None THEN b ELSE ParseCvcCertificate(b)

ValueIn(shape, p, fields) ==
    LET F(num, default) == Value(fields, num, default)
    IN CASE shape.kind \in {"string", "uint", "enum"} -> F(1, None)
         [] shape.kind = "bool" -> F(1, 0) # 0
         [] shape.kind = "normFactor" -> <<F(1, 0), shape.factor>>
         [] shape.kind = "signedFactor" -> <<ZigzagSigned(F(1, 0)), shape.factor>>
         [] shape.kind = "uuid" -> UuidIn(Value(ParseFields(F(1, <<>>)), 1, <<>>))
         [] shape.kind = "tuningDetection" -> [flag |-> F(1, 0) # 0, counter |-> F(2, 0)]
         [] shape.kind = "startAssistModeOem" -> [position |-> F(1, 0), configurable |-> F(2, 0) # 0]
         [] shape.kind = "unixTimestamp" -> ZigzagSigned(F(1, 0))
         [] shape.kind = "uint32List" -> VarintsIn(F(1, <<>>))
         [] shape.kind = "serviceDue" -> [timestamp |-> InstantIn(F(1, <<>>)), odometer |-> F(2, 0)]
         [] shape.kind = "deactivationProof" ->
                [deactivated |-> F(1, 0) # 0, signatureLength |-> Len(F(3, <<>>))]
         [] shape.kind = "certificateBytes" -> CertificateIn(F(1, <<>>))
         [] shape.kind = "assistModeColors" -> Colors(F(1, p))
         [] shape.kind = "submessage" -> DecodeSubmessageFields(shape, fields)

DecodeTyped(shape, p) == IF p = <<>> THEN DefaultOf(shape) ELSE ValueIn(shape, p, ParseFields(p))

\* The guess at a point of unknown encoding: a string or bytes in field 1, or
\* the payload as it is.
DecodeValue(p) ==
    IF p = <<>> THEN None
    ELSE IF p[1] = 10 /\ Len(p) >= 2 THEN Slice(p, 3, p[2])
    ELSE p

KindAt(address) == IF IsTyped(address) THEN FieldType(address).kind ELSE "unknown"

\* The value of a point, by its address.
ValueAt(address, p) ==
    IF IsTyped(address) THEN DecodeTyped(FieldType(address), p) ELSE DecodeValue(p)

-----------------------------------------------------------------------------
(***************************************************************************)
(* What the page shows: the value, or for an instant the date it makes.    *)
(***************************************************************************)
Dated(date, odometer) == [date |-> date, odometer |-> odometer]
NotSet == Dated(None, None)

DisplayAt(address, p) ==
    LET Shown(kind, value) ==
            IF kind \notin {"unixTimestamp", "serviceDue"} THEN value
            ELSE IF p = <<>> THEN NotSet
            ELSE IF kind = "unixTimestamp" THEN Dated(value, None)
            ELSE Dated(IF value.timestamp # 0 THEN value.timestamp ELSE None, value.odometer)
    IN Shown(KindAt(address), ValueAt(address, p))

\* Mutant: a service that is only due by distance is not set.
ReformatByDate(address, value, shown) ==
    CASE KindAt(address) = "unixTimestamp" -> IF value = 0 THEN NotSet ELSE Dated(value, None)
      [] KindAt(address) = "serviceDue" ->
            IF value.timestamp # 0 THEN Dated(value.timestamp, value.odometer) ELSE NotSet
      [] OTHER -> shown

\* reformatDisplayFromRaw: a date is written anew, where the report is read.
Reformat(address, value, shown) ==
    CASE KindAt(address) = "unixTimestamp" -> IF value = 0 THEN NotSet ELSE Dated(value, None)
      [] KindAt(address) = "serviceDue" ->
            IF value.timestamp # 0 THEN Dated(value.timestamp, value.odometer)
            ELSE IF value.odometer # 0 THEN Dated(None, value.odometer)
            ELSE NotSet
      [] OTHER -> shown

\* An entry of a report, and of the results it makes: JSON keeps a null.
Exported(result) == [typed |-> result.typed, value |-> result.display, rawValue |-> result.value]

FromReport(address, entry) ==
    [typed |-> TRUE, value |-> entry.rawValue, display |-> Reformat(address, entry.rawValue, entry.value)]

-----------------------------------------------------------------------------
(***************************************************************************)
(* The Write Lab encodes what the user typed by the kind of the point; the *)
(* other kinds are typed in hex.                                           *)
(***************************************************************************)
LabArgument(shape, typed) ==
    CASE shape.kind = "bool" -> IF typed THEN <<8, 1>> ELSE <<>>
      [] shape.kind \in {"enum", "uint"} -> <<8>> \o EncodeVarint(typed)
      [] shape.kind = "string" -> <<10>> \o EncodeVarint(Len(typed)) \o typed
      [] OTHER -> typed

-----------------------------------------------------------------------------
(***************************************************************************)
(* The table of assist modes (readAllAssistModeStats): off is always the   *)
(* first, the active modes follow, and lists of names and colours line up  *)
(* with them, with or without an entry for off.                            *)
(***************************************************************************)
OffMode == <<48>>

\* Named, and not in the table yet.
IsNewMode(active, k) == active[k] \notin {<<>>, OffMode} /\ \A j \in 1..(k - 1) : active[j] # active[k]

ConfigIds(active) == <<OffMode>> \o Chosen(active, {k \in DOMAIN active : IsNewMode(active, k)})

\* Mutant: a list without an entry for off is taken from the first mode on.
LinedUpFromFirst(n, list) ==
    LET EntryOf(k) == IF Len(list) \in {n, n - 1} /\ k \in DOMAIN list THEN list[k] ELSE None
    IN [k \in 1..n |-> EntryOf(k)]

\* The entry for each of n modes; None where the list says nothing of it.
LinedUp(n, list) ==
    LET EntryOf(k) == IF k \in DOMAIN list THEN list[k] ELSE None
    IN [k \in 1..n |-> CASE Len(list) = n -> EntryOf(k)
                         [] Len(list) = n - 1 -> EntryOf(k - 1)
                         [] OTHER -> None]

\* A mode without a name keeps its position for one.
Labels(n, names) == [k \in 1..n |-> IF LinedUp(n, names)[k] = <<>> THEN None ELSE LinedUp(n, names)[k]]
=============================================================================
