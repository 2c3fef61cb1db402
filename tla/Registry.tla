------------------------------ MODULE Registry ------------------------------
(***************************************************************************)
(* The address registry (src/address-registry.generated.js): which data    *)
(* points the components of a bike have, which of them may be read and how *)
(* the value of each is encoded.  An address is a high and a low byte; a   *)
(* table of the file is the set of its rows.  Names, labels, units, notes  *)
(* and the flags that only mark a row in a table are left out, and an enum *)
(* is the set of its numbers, each of which has one name.                  *)
(*                                                                         *)
(* The file lists the points of a component in two runs: the decompiled    *)
(* ones by address, and the earlier ones, here in a table named More.      *)
(***************************************************************************)
EXTENDS Integers, FiniteSets

-----------------------------------------------------------------------------
(***************************************************************************)
(* The kinds of decodeTyped.  A normFactor number is shown divided by its  *)
(* factor; a submessage has numbered fields that are flags, numbers or     *)
(* enums.                                                                  *)
(***************************************************************************)
Plain(kind) == [kind |-> kind, factor |-> 1, bools |-> {}, uints |-> {}, enums |-> {}]

Bool == Plain("bool")
Uint == Plain("uint")
Text == Plain("string")
Enum == Plain("enum")
List == Plain("uint32List")
Uuid == Plain("uuid")
TuningDetection == Plain("tuningDetection")
StartAssistModeOem == Plain("startAssistModeOem")
UnixTimestamp == Plain("unixTimestamp")
ServiceDue == Plain("serviceDue")
DeactivationProof == Plain("deactivationProof")
CertificateBytes == Plain("certificateBytes")
AssistModeColors == Plain("assistModeColors")
Norm(factor) == [Plain("normFactor") EXCEPT !.factor = factor]
SignedNorm(factor) == [Plain("signedFactor") EXCEPT !.factor = factor]
Message(bools, uints, enums) ==
    [Plain("submessage") EXCEPT !.bools = bools, !.uints = uints, !.enums = enums]

\* No confirmed encoding; and, of unknown encoding too, what may only be called.
Unknown == Plain("unknown")
Hidden == Plain("hidden")

Kinds == {"bool", "uint", "string", "enum", "uint32List", "uuid", "tuningDetection", "startAssistModeOem",
          "unixTimestamp", "serviceDue", "deactivationProof", "certificateBytes", "assistModeColors",
          "normFactor", "signedFactor", "submessage", "unknown", "hidden"}

Rows(high, shape, lows) == [address : {256 * high + low : low \in lows}, shape : {shape}]

-----------------------------------------------------------------------------
AntiLockBrakeSystem == UNION {
    Rows(9, Unknown, {29, 31, 32, 37, 39, 52, 54, 57}), Rows(9, Bool, {14, 25, 51}),
    Rows(9, Uint, {38, 47, 48}), Rows(9, Text, {49, 50}), Rows(9, Enum, {30, 42, 56}),
    Rows(9, Message(1..6, {}, {}), {53}), Rows(9, Message({}, {2}, {1}), {58})}

AntiLockBrakeSystemMore == UNION {
    Rows(9, Unknown, 1..13 \cup 15..24 \cup {26, 27, 28, 44, 45, 55}),
    Rows(9, Hidden, 33..36 \cup {40, 41, 43})}

Battery == UNION {
    Rows(0, Unknown, {141, 144, 168, 173, 174, 175, 204, 219, 221}),
    Rows(0, Bool, {142, 143, 182, 192, 195, 196, 201, 208, 231}),
    Rows(0, Uint, {149, 180, 183, 188, 189, 193, 197, 202, 211, 213, 217, 218, 226}),
    Rows(0, Text, {206, 227}), Rows(0, Enum, {209, 230}), Rows(0, Message(1..3, {}, {}), {194}),
    Rows(0, Message({1, 2, 4, 5, 6, 7, 8, 9, 10, 11, 12, 13, 14}, {}, {}), {205}),
    Rows(0, Message({}, {1}, {2}), {228}), Rows(0, Message({}, {1}, {}), {225}),
    Rows(0, Message({}, {2}, {1}), {229}),
    Rows(0, Norm(10), {147, 148, 167, 176, 177, 198, 199, 200, 203})}

BatteryMore == UNION {
    Rows(0, Unknown, 184..187 \cup {133, 137, 138, 151, 152, 164, 165, 166, 190, 191}),
    Rows(0, Bool, {154}), Rows(0, Uint, {136, 156, 157, 162, 163, 215, 216}),
    Rows(0, Text, 129..132 \cup {134, 135, 155}), Rows(0, CertificateBytes, {224}),
    Rows(0, DeactivationProof, {153}), Rows(0, Norm(10), {145, 146, 150, 158, 220}),
    Rows(0, Norm(1000), {140}), Rows(0, SignedNorm(10), {139, 159, 160, 161, 210}),
    Rows(0, Hidden, 169..172)}

Battery2 == UNION {
    Rows(2, Unknown, {168, 173, 174, 175, 204, 219, 221}), Rows(2, Bool, {196, 201, 208, 231}),
    Rows(2, Uint, {180, 183, 189, 193, 197, 202, 218, 226}), Rows(2, Text, {206, 227}),
    Rows(2, Enum, {230}), Rows(2, Message(1..3, {}, {}), {194}),
    Rows(2, Message({1, 2, 4, 5, 6, 7, 8, 9, 10, 11, 12, 13, 14}, {}, {}), {205}),
    Rows(2, Message({}, {1}, {}), {225}), Rows(2, Message({}, {2}, {1}), {229}),
    Rows(2, Norm(10), {176, 177, 198, 199, 200, 203})}

Battery2More == UNION {
    Rows(2, Unknown, 129..136 \cup 150..166 \cup 184..187 \cup {139, 140, 146, 190, 191, 210, 215,
         216, 220, 224}), Rows(2, Hidden, 169..172)}

BoschDiagnoseApp == UNION {
    Rows(14, Unknown, 68..73), Rows(14, List, {65, 66, 67}), Rows(14, Hidden, {17})}

ConnectModuleInfo == Rows(10, Unknown, {17, 18, 19, 24, 25})

ConnectModule == UNION {
    Rows(11, Unknown, {12, 13, 51}), Rows(11, Bool, {39, 40, 48, 56}), Rows(11, Uint, {9}),
    Rows(11, Text, {32, 43, 55}), Rows(11, Enum, {50, 54, 59}),
    Rows(11, Message(1..3, {}, {}), {53})}

ConnectModuleMore == UNION {
    Rows(10, Hidden, 20..23),
    Rows(11, Unknown, 1..8 \cup 44..47 \cup {11, 17, 19, 24, 25, 33, 34, 37, 41, 42, 49, 57, 60})}

DriveUnitInfo == UNION {
    Rows(16, Unknown, {129, 136, 137, 138, 153, 154, 165}),
    Rows(16, Bool, 33..43 \cup {152, 155, 156, 158, 164}), Rows(16, Message({1}, {}, {}), {163})}

DriveUnit == UNION {
    Rows(24, Unknown, {71, 99, 107, 110, 129}),
    Rows(24, Bool, {10, 11, 26, 75, 86, 101, 114, 115, 122, 126, 127, 131, 138, 151, 162, 167}),
    Rows(24, Uint, 90..93 \cup {16, 20, 21, 74, 133, 134, 135, 140, 141, 144, 157, 159}),
    Rows(24, Text, {100, 121}), Rows(24, Enum, {80, 142, 160, 161}), Rows(24, List, {130}),
    Rows(24, Message({1, 2}, {}, {}), {149}), Rows(24, Message({3}, {1, 2}, {}), {147}),
    Rows(24, Message({}, 1..4, {}), {139, 164}), Rows(24, Message({}, 4..9, {2}), {136}),
    Rows(24, Message({}, {1, 2}, {3}), {165}), Rows(24, Message({}, {1, 2}, {}), {103}),
    Rows(24, Message({}, {2}, {1}), {106, 111}), Rows(24, Message({}, {}, 1..3), {102}),
    Rows(24, Message({}, {}, {1, 2}), {143, 148}), Rows(24, Message({}, {}, {1}), {163}),
    Rows(24, Norm(10), {30})}

DriveUnitMore == UNION {
    Rows(16, Hidden, 130..133 \cup 139..142 \cup 144..151 \cup {157, 161, 162}),
    Rows(24, Unknown, 47..51 \cup 55..65 \cup 152..156 \cup {8, 12, 13, 15, 18, 27, 29, 31, 33,
         34, 37, 38, 45, 53, 67, 69, 77, 78, 79, 82, 83, 88, 97, 104, 105, 112, 113, 116, 118, 120,
         123, 124, 128, 137, 150}), Rows(24, Bool, {17, 28, 32, 52, 54, 68, 70, 72, 73, 84}),
    Rows(24, Uint, {9, 24, 25, 109}),
    Rows(24, Text, 1..7 \cup {39, 42, 43, 46, 76, 94, 95, 96, 98, 108, 117, 158}),
    Rows(24, Enum, {36, 85, 125}), Rows(24, List, {87}), Rows(24, AssistModeColors, {14}),
    Rows(24, Norm(10), {40, 41, 119}), Rows(24, Norm(100), {19, 22, 23, 66}),
    Rows(24, SignedNorm(10), {132}), Rows(24, StartAssistModeOem, {35}),
    Rows(24, TuningDetection, {81}), Rows(24, Uuid, {44})}

HeadUnitInfo == UNION {
    Rows(12, Unknown, {17, 18, 19, 24, 25, 27}), Rows(12, List, {26})}

HeadUnit == UNION {
    Rows(13, Unknown, 128..133 \cup {19, 30, 32, 34, 36, 37, 38, 40, 42, 43, 44, 74, 136}),
    Rows(13, Bool, {23}), Rows(13, Uint, {31, 33, 39, 41}), Rows(13, Text, {12, 13, 14}),
    Rows(13, Enum, {24, 27, 28, 137}), Rows(13, List, {35, 47})}

HeadUnitMore == UNION {
    Rows(12, Hidden, 20..23),
    Rows(13, Unknown, 1..11 \cup {16, 17, 18, 20, 21, 25, 29, 46, 64, 135, 138}),
    Rows(13, Hidden, {22, 45})}

RemoteControlDisplay == UNION {
    Rows(32, Unknown, 185..188 \cup {36, 37, 38, 51, 69, 108, 109, 164, 173, 177, 178, 181, 182,
         191, 200, 237}), Rows(32, Bool, 165..170 \cup {72, 81, 115, 148, 190, 238}),
    Rows(32, Uint, {17, 65, 161, 184, 189}), Rows(32, Text, {106, 113, 180}),
    Rows(32, Enum, {18, 71, 73, 176}), Rows(32, List, {55, 172, 183}), Rows(32, Uuid, {251})}

RemoteControlSession == UNION {
    Rows(33, Unknown, 33..36 \cup {22, 23, 81, 82, 100, 109, 110, 120, 121, 123, 160}),
    Rows(33, Bool, {13, 18, 19, 104, 108, 122, 155, 196, 200}),
    Rows(33, Uint, {14, 17, 83, 114, 116, 204}), Rows(33, Enum, {12, 15, 21, 111, 112, 113, 115}),
    Rows(33, List, {41}), Rows(33, Message({1}, 2..4, {}), {162}),
    Rows(33, Message({}, {1, 2}, {}), {203})}

RemoteControlMenu == UNION {
    Rows(34, Unknown, {7, 12, 13, 14, 39, 86, 129, 130, 131, 133, 134, 196, 197}),
    Rows(34, Bool, {1, 42, 79, 128, 139}), Rows(34, Uint, 65..70 \cup 72..78 \cup {40, 81, 84}),
    Rows(34, Text, {138}), Rows(34, Enum, {41, 80}), Rows(34, List, {38, 82, 83}),
    Rows(34, Message({}, {1, 2}, {}), {85})}

RemoteControlPhone == UNION {
    Rows(35, Unknown, {19, 34}), Rows(35, Bool, {5, 33}), Rows(35, Uint, {20, 21, 25}),
    Rows(35, List, {23, 24}), Rows(35, Message({1, 2}, {}, {}), {22})}

RemoteControlMore == UNION {
    Rows(32, Unknown, 97..100 \cup 102..105 \cup 129..138 \cup 230..236 \cup 243..250 \cup {33,
         35, 39, 68, 70, 107, 110, 111, 112, 140, 141, 142, 163, 171, 175, 195, 198, 199, 226, 228,
         239, 241}), Rows(32, Text, {101}), Rows(32, List, {162}), Rows(32, UnixTimestamp, {34}),
    Rows(32, Hidden, {52, 54, 66, 67, 193, 194, 196, 197, 225, 227, 240, 242}),
    Rows(33, Unknown, 7..11 \cup {1, 3, 4, 5, 65, 97, 98, 99, 101, 105, 106, 107, 118, 119, 124,
         125, 132, 134, 151, 152, 153, 156, 157, 167, 193, 197, 198, 201}), Rows(33, Text, {129}),
    Rows(33, Enum, {130, 131}), Rows(33, ServiceDue, {133}),
    Rows(33, Hidden, 37..40 \cup {6, 102, 158, 159, 202}),
    Rows(34, Unknown, {2, 3, 5, 6, 15, 16, 18, 21, 22, 34, 135, 136, 193}),
    Rows(34, Hidden, 8..11 \cup 23..33 \cup {4, 17, 19, 20, 35, 36, 37, 137, 194, 195}),
    Rows(35, Unknown, {49, 50}), Rows(35, Hidden, {51, 52})}

MobileApp == UNION {
    Rows(64, Unknown, {130, 131, 132, 155, 156, 159, 160, 161, 164, 168, 170}),
    Rows(64, Bool, {163, 171}), Rows(64, Uint, 133..138 \cup 151..154 \cup {129, 148, 162, 169}),
    Rows(64, Text, {139, 145, 146, 147}), Rows(64, Enum, {149, 150}), Rows(64, List, {157})}

CanTestNode == Rows(40, Bool, 17..20)

-----------------------------------------------------------------------------
Registry ==
    UNION {AntiLockBrakeSystem, AntiLockBrakeSystemMore, Battery, BatteryMore, Battery2,
           Battery2More, BoschDiagnoseApp, ConnectModuleInfo, ConnectModule, ConnectModuleMore,
           DriveUnitInfo, DriveUnit, DriveUnitMore, HeadUnitInfo, HeadUnit, HeadUnitMore,
           RemoteControlDisplay, RemoteControlSession, RemoteControlMenu, RemoteControlPhone,
           RemoteControlMore, MobileApp, CanTestNode}

HasKind(row) == row.shape.kind \notin {"unknown", "hidden"}

TypedRows == {row \in Registry : HasKind(row)}

\* FIELD_TYPES, by the address alone.
IsTyped(address) == \E row \in Registry : row.address = address /\ HasKind(row)

FieldType(address) == (CHOOSE row \in Registry : row.address = address /\ HasKind(row)).shape

\* What a sweep reads.
Readable == {row.address : row \in {r \in Registry : r.shape # Hidden}}

\* RESET_INACTIVITY_SHUTDOWN_TIMER.
KeepAliveAddress == 8454

(***************************************************************************)
(* Facts of the data that the code relies on.  Answers and types are told  *)
(* by the address alone, so no two rows may share one.  The top bit of an  *)
(* address marks a request, an answer or a push, so it must be free.  A    *)
(* sweep must not read the point the keep-alive calls, whose numbers are   *)
(* of another counter (AddrAssumption of Exchange).  The two batteries of  *)
(* a bike encode alike what is typed for both.  The decoder knows every    *)
(* kind, and the tag of a field takes one byte.                            *)
(***************************************************************************)
ASSUME KindsAreKnown ==
    \A row \in Registry :
        /\ row.shape.kind \in Kinds /\ row.shape.factor \in Nat
        /\ row.shape.bools \cup row.shape.uints \cup row.shape.enums \subseteq 1..15
        /\ row.shape.kind = "submessage" => row.shape.bools \cup row.shape.uints \cup row.shape.enums # {}
ASSUME OneRowPerAddress ==
    IsFiniteSet(Registry) /\ Cardinality({row.address : row \in Registry}) = Cardinality(Registry)
ASSUME TopBitIsFree == \A row \in Registry : row.address \in 1..(2^15 - 1)
ASSUME KeepAliveIsNotRead == KeepAliveAddress \notin Readable
ASSUME BatteriesAgree ==
    \A one \in TypedRows, two \in TypedRows :
        one.address \in 0..255 /\ two.address = 512 + one.address => one.shape = two.shape
=============================================================================
