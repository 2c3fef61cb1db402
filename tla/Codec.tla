-------------------------------- MODULE Codec --------------------------------
(***************************************************************************)
(* The payload codecs of protocol.js and messageTypes.js: the varints, the *)
(* flat decoders that walk a message field by field, and the encoders of   *)
(* the settings.  A payload is a sequence of bytes.  JavaScript's bitwise  *)
(* operators work on words of 32 bits: Word is their width, and numbers    *)
(* are below 2^Word.                                                       *)
(***************************************************************************)
EXTENDS Loops

CONSTANTS
    Word,   \* 32 in the code
    None    \* null

ASSUME WordAssumption == Word \in 16..32
ASSUME NoneAssumption == None \notin Int /\ None \notin Seq(0..255)

\* payload[i]; undefined past the end, which every mask turns into 0.
ByteAt(p, i) == IF i \in 1..Len(p) THEN p[i] ELSE 0

-----------------------------------------------------------------------------
(***************************************************************************)
(* Varints: groups of seven bits, low group first.                         *)
(***************************************************************************)
\* Mutant: the groups are not masked.
EncodeVarintUnmasked(n) ==
    LET Groups[v \in Nat] == IF v < 128 THEN <<v>> ELSE <<128 + v>> \o Groups[v \div 128]
    IN Groups[n % 2^Word]

EncodeVarint(n) ==
    LET Groups[v \in Nat] == IF v < 128 THEN <<v>> ELSE <<128 + (v % 128)>> \o Groups[v \div 128]
    IN Groups[n % 2^Word]

\* The position of the last byte of the varint that starts at i.
LastGroup(p, i) ==
    CHOOSE j \in i..(i + Len(p)) : ByteAt(p, j) < 128 /\ \A k \in i..(j - 1) : ByteAt(p, k) >= 128

\* With `|=` and `<<`: the shift counts modulo the word, the result too.  The
\* groups do not overlap in the varints of up to Word \div 7 + 1 bytes the
\* bike sends, so the OR is a sum.
VarintInWord(p, i) ==
    [value |-> Total([k \in i..LastGroup(p, i) |->
                         ((ByteAt(p, k) % 128) * 2^((7 * (k - i)) % Word)) % 2^Word], i) % 2^Word,
     next |-> LastGroup(p, i) + 1]

\* With `+=` and Math.pow (_readVarintAt).
VarintExact(p, i) ==
    [value |-> Total([k \in i..LastGroup(p, i) |-> (ByteAt(p, k) % 128) * 2^(7 * (k - i))], i),
     next |-> LastGroup(p, i) + 1]

\* sint64, for the instants after 1970: (n >>> 1) ^ -(n & 1) and n / 2.
ZigzagDecode(n) == IF n % 2 = 0 THEN n \div 2 ELSE None

-----------------------------------------------------------------------------
(***************************************************************************)
(* The loop the decoders share: a tag byte, then a varint or a length and  *)
(* its bytes; a wire type the decoder does not know stops it.              *)
(***************************************************************************)
\* The issue decoder reads its varints exactly, the others in a word.
VarintAt(p, i, exact) == IF exact THEN VarintExact(p, i) ELSE VarintInWord(p, i)

\* The field with that tag; v is the varint behind it.
Field(p, tag, v) ==
    IF tag % 8 = 0
    THEN Finds([num |-> tag \div 8, value |-> v.value, whole |-> TRUE], v.next)
    ELSE Finds([num |-> tag \div 8, value |-> Slice(p, v.next, v.value),
                whole |-> v.next + v.value <= Len(p) + 1], v.next + v.value)

FieldAt(p, i, wireTypes, exact) ==
    IF p[i] % 8 \notin wireTypes THEN Stops ELSE Field(p, p[i], VarintAt(p, i + 1, exact))

Fields(p, wireTypes, exact) == Walk([i \in 1..Len(p) |-> FieldAt(p, i, wireTypes, exact)], 1)

\* The loop of messageTypes.js, where the tag is a varint too.
TaggedFieldAt(p, i) ==
    LET Tagged(tag) == IF tag.value % 8 \notin {0, 2} THEN Stops
                       ELSE Field(p, tag.value, VarintInWord(p, tag.next))
    IN Tagged(VarintInWord(p, i))

ParseFields(p) == Walk([i \in 1..Len(p) |-> TaggedFieldAt(p, i)], 1)

\* The decoders assign as they go: the last occurrence of a field wins.  Every
\* field comes with one wire type.
Value(fields, num, default) ==
    LET Last(k) == fields[k].num = num /\ \A j \in (k + 1)..Len(fields) : fields[j].num # num
    IN IF \E k \in DOMAIN fields : fields[k].num = num
       THEN fields[CHOOSE k \in DOMAIN fields : Last(k)].value ELSE default

\* The values of every occurrence of a field, in order.
Values(fields, num) ==
    Flatten([k \in DOMAIN fields |-> IF fields[k].num = num THEN <<fields[k].value>> ELSE <<>>])

-----------------------------------------------------------------------------
(***************************************************************************)
(* The encoders of the requests.                                           *)
(***************************************************************************)
UdamFields == 1..8

\* driveTrainTensioner; the others are numbers.
UdamFlag == 8

LenDelimited(num, bytes) == <<8 * num + 2>> \o EncodeVarint(Len(bytes)) \o bytes

\* Mutant: a field that is 0 is left out like one that is null.
EncodeUdamParamsTruthy(params) ==
    Flatten([f \in UdamFields |->
        IF params[f] = None \/ params[f] = 0 THEN <<>> ELSE <<8 * f>> \o EncodeVarint(params[f])])

EncodeUdamParams(params) ==
    Flatten([f \in UdamFields |->
        IF params[f] = None THEN <<>> ELSE <<8 * f>> \o EncodeVarint(params[f])])

EncodeConfigIdArg(id) == LenDelimited(1, id)

EncodeSetUdamArg(id, params) ==
    LenDelimited(1, EncodeConfigIdArg(id)) \o LenDelimited(2, EncodeUdamParams(params))

-----------------------------------------------------------------------------
(***************************************************************************)
(* The decoders of the answers.                                            *)
(***************************************************************************)
UdamParamsIn(fields) ==
    LET Flag(v) == IF v \in {None, 0} THEN v ELSE 1
    IN [f \in UdamFields |-> IF f = UdamFlag THEN Flag(Value(fields, f, None)) ELSE Value(fields, f, None)]

DecodeUdamParams(p) == UdamParamsIn(Fields(p, {0}, FALSE))

UdamLimitsIn(fields) ==
    LET Params(record) == IF record = None THEN None ELSE DecodeUdamParams(record)
    IN [max |-> Params(Value(fields, 1, None)), min |-> Params(Value(fields, 2, None))]

DecodeUdamLimits(p) == UdamLimitsIn(Fields(p, {2}, FALSE))

StatisticsIn(fields) ==
    [distance |-> Value(fields, 1, None), consumedEnergy |-> Value(fields, 2, None)]

\* The statistics may come in an envelope: field 1, length-delimited.
Unwrapped(p, v) == IF ByteAt(p, 1) = 10 THEN Slice(p, v.next, v.value) ELSE p

DecodeStatistics(p) == StatisticsIn(Fields(Unwrapped(p, VarintInWord(p, 2)), {0}, FALSE))

\* Each entry is a ConfigId of its own, or a bare string.
DecodeConfigIdList(p) ==
    LET Bare(e) == IF Len(e) >= 2 /\ e[1] = 10 /\ Len(Slice(e, 3, e[2])) = e[2]
                   THEN Slice(e, 3, e[2]) ELSE e
        BareAll(entries) == [k \in DOMAIN entries |-> Bare(entries[k])]
    IN BareAll(Values(Fields(p, {2}, FALSE), 1))

\* A name that is cut short is dropped.
DecodeStringList(p) ==
    LET fields == Fields(p, {2}, FALSE)
    IN Values(Chosen(fields, {k \in DOMAIN fields : fields[k].whole}), 1)

\* RESET_UDAM_VALUES and SET_UDAM_VALUES_PARAMETERS answer a bool.
DecodeBool(p) == Len(p) >= 2 /\ p[1] = 8 /\ p[2] # 0

\* decodeTyped, kind uint32List: one run of varints.
VarintsIn(run) ==
    LET And(v) == Finds(v.value, v.next)
    IN Walk([i \in 1..Len(run) |-> And(VarintInWord(run, i))], 1)

DecodeUint32List(p) == VarintsIn(Value(ParseFields(p), 1, <<>>))

\* decodeTyped, kind unixTimestamp.
DecodeClock(p) == IF p = <<>> THEN 0 ELSE ZigzagDecode(Value(ParseFields(p), 1, 0))

\* The answer to GET_ISSUE_COUNT and READ_ISSUE_BY_NUMBER: the issue frame,
\* the echo of the request, a return value and a count.
IssueIn(fields, frame, echo) ==
    LET Inner(bytes) == IF ByteAt(bytes, 1) \div 8 = 1 THEN VarintExact(bytes, 2).value ELSE None
        Instant(stamp) == IF stamp = None THEN None ELSE ZigzagDecode(stamp)
    IN [returnValue |-> Value(fields, 3, 0), entryCount |-> Value(fields, 4, 0),
        issueId |-> Inner(Value(echo, 2, <<>>)),
        timestamp |-> Instant(Inner(Value(frame, 2, <<>>))),
        activationCount |-> Value(frame, 3, None)]

DecodeIssue(p) ==
    LET Nested(fields) == IssueIn(fields, Fields(Value(fields, 1, <<>>), {0, 2}, TRUE),
                                  Fields(Value(fields, 2, <<>>), {0, 2}, TRUE))
    IN Nested(Fields(p, {0, 2}, TRUE))

-----------------------------------------------------------------------------
(***************************************************************************)
(* LiveData, the message of the official Bluetooth interface               *)
(* (transport-webble.js): every field has presence, tags are varints, and  *)
(* fields unknown to the tool are skipped by their wire type.              *)
(***************************************************************************)
Cadence == 2
LiveNumbers == {1, 5, 9, 10, 11, 12, 17}
LiveFlags == 21..25
LiveFields == LiveNumbers \cup {Cadence} \cup LiveFlags

\* A BigInt varint, of which the low word is kept: only a negative number is
\* longer.
VarintLow(p, i) ==
    [value |-> Total([k \in i..LastGroup(p, i) |->
                         IF 7 * (k - i) >= Word THEN 0
                         ELSE ((ByteAt(p, k) % 128) * 2^(7 * (k - i))) % 2^Word], i) % 2^Word,
     next |-> LastGroup(p, i) + 1]

\* BigInt.asIntN.
AsSigned(v) == IF 2 * v >= 2^Word THEN v - 2^Word ELSE v

\* A field by its tag and the varint behind it.
LiveField(tag, v) ==
    LET wireType == tag.value % 8
    IN Finds([num |-> tag.value \div 8, wireType |-> wireType,
              value |-> IF wireType = 0 THEN v.value ELSE 0],
             CASE wireType = 0 -> v.next
               [] wireType = 1 -> tag.next + 8
               [] wireType = 5 -> tag.next + 4
               [] OTHER -> v.next + v.value)

LiveFieldAt(p, i) ==
    LET Tagged(tag) == IF tag.value % 8 \notin {0, 1, 2, 5} THEN Stops
                       ELSE LiveField(tag, VarintLow(p, tag.next))
    IN Tagged(VarintLow(p, i))

LiveOccurrences(p) ==
    LET fields == Walk([i \in 1..Len(p) |-> LiveFieldAt(p, i)], 1)
    IN Chosen(fields, {k \in DOMAIN fields : fields[k].wireType # 2})

\* Mutant: the cadence is read as it stands.
DecodeLiveDataUnsigned(p) ==
    LET fields == LiveOccurrences(p)
    IN [f \in LiveFields |-> Value(fields, f, None)]

DecodeLiveData(p) ==
    LET fields == LiveOccurrences(p)
        Read(f, v) == IF v = None THEN None
                      ELSE IF f = Cadence THEN AsSigned(v)
                      ELSE IF f \in LiveFlags /\ v # 0 THEN 1
                      ELSE v
    IN [f \in LiveFields |-> Read(f, Value(fields, f, None))]
=============================================================================
