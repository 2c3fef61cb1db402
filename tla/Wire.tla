--------------------------------- MODULE Wire ---------------------------------
(***************************************************************************)
(* The bytes between the tool and the bike, over USB or Bluetooth: a       *)
(* request is framed, carried and understood by the bike; an answer, a     *)
(* push, or a request of the bike's own comes back, is told apart, parsed  *)
(* and decoded.  The bike is external: it speaks proto3, in which a field  *)
(* at its default is left out.  Losses and timing belong to Exchange.  The *)
(* live interface has a message of its own, and no requests.               *)
(*                                                                         *)
(* A behaviour is a conversation about the settings and the modes, or it   *)
(* is about one row of the registry: its point is read, perhaps after the  *)
(* Write Lab wrote to it, and the report of it is saved and loaded.        *)
(***************************************************************************)
EXTENDS Proto3, Frames

CONSTANTS
    Transports,     \* subset of usb, ble (the message bus) and live
    UdamRecords,    \* settings the bike may start with
    ReadRows,        \* rows of the registry that are read
    LabAddresses,   \* those that are also written to, or read twice
    ConfigId,       \* the mode asked about
    Statuses,       \* how the bike may answer: 0 is success
    MaxMessages     \* bound: requests of the tool, and pushes and requests of the bike

ASSUME TransportsAssumption == Transports \subseteq {"usb", "ble", "live"}
ASSUME RowsAssumption == ReadRows \subseteq {r \in Registry : r.shape.kind # "hidden"}
ASSUME BoundsAssumption == MaxMessages \in Nat
\* Only the optional fields 6 to 8 may be unset, and field 8 is a flag.
ASSUME UdamRecordsAssumption ==
    \A r \in UdamRecords : /\ r \in [UdamFields -> 0..(2^Word - 1) \cup {None}]
                           /\ r[UdamFlag] \in {0, 1, None} /\ \A f \in 1..5 : r[f] # None
\* A short text, and none of the other modes.
ASSUME ConfigIdAssumption ==
    /\ ConfigId \in Seq(0..255) /\ Len(ConfigId) \in 1..16
    /\ ConfigId # <<48>> /\ ConfigId # <<52>>
ASSUME StatusesAssumption == Statuses \subseteq 0..255

VARIABLES
    transport,
    bike,       \* the settings the bike holds (external)
    toBike,     \* requests on their way, with what the tool meant
    fromBike,   \* notifications (Bluetooth) or frames (USB) on their way
    readQueue,  \* frames for readNextFrame
    udam,       \* entry.udam as last decoded
    startupStage,
    seq,        \* seqCounter, mod 16
    stageSaid,  \* history: the last stage the bike wrote and the tool was told
    meant,      \* history: what the bike put in fromBike and readQueue, in order
    asked,      \* history: the bike's requests on their way
    understood, \* history: the last request the bike took, as meant and as read
    seen,       \* history: the last frame the tool parsed, as meant and as read
    replied,    \* history: the last request of the bike and the reply to it
    unasked,    \* pushes and requests of the bike's own so far
    bleLiveState,
    told,       \* history: the last value the bike told of every live field
    row,        \* the row this behaviour is about, or None
    held,       \* the value of its point (external)
    entry,      \* its entry in lastResults; and, a history, what was held then
    modeTable   \* assistModeStats: ids, labels and colours

vars == <<transport, bike, toBike, fromBike, readQueue, udam, startupStage, seq, stageSaid,
          meant, asked, understood, seen, replied, unasked, bleLiveState, told, row, held,
          entry, modeTable>>

points == <<row, held, entry, modeTable>>
live == <<bleLiveState, told>>

\* Each of `understood`, `seen` and `replied` is about the step just taken.
Forget == understood' = None /\ seen' = None /\ replied' = None

-----------------------------------------------------------------------------
(***************************************************************************)
(* The record of the settings, by the rules of proto3.                     *)
(***************************************************************************)
\* Fields 6 to 8 are `optional`: they may be unset, and 0 is sent.
OptionalFields == 6..8

Proto(r) ==
    LET F(f) == IF f \notin OptionalFields THEN Implicit(f, r[f])
                ELSE IF r[f] = None THEN <<>> ELSE Number(f, r[f])
    IN Flatten([f \in UdamFields |-> F(f)])

\* assistLevel, accelerationResponse and maximumBikeSpeed have an input box.
EditableFields == {1, 3, 4}

\* What the tool is to make of a record: an omitted field is null.
Seen(r) == [f \in UdamFields |-> IF f \notin OptionalFields /\ r[f] = 0 THEN None ELSE r[f]]

-----------------------------------------------------------------------------
(***************************************************************************)
(* What the tool asks for, where, how the bike encodes an answer, how the  *)
(* tool decodes it and what it should show.                                *)
(***************************************************************************)
Points == {"params", "limits", "statistics", "modes", "names", "range", "time", "issue", "set", "colors",
           "row", "write"}

Addr(point) ==
    CASE point = "params" -> <<16, 144>> [] point = "limits" -> <<16, 146>>
      [] point = "statistics" -> <<16, 140>> [] point = "modes" -> <<24, 78>>
      [] point = "names" -> <<24, 12>> [] point = "range" -> <<24, 87>>
      [] point = "time" -> <<32, 34>> [] point = "issue" -> <<16, 133>>
      [] point = "set" -> <<16, 147>> [] point = "colors" -> <<24, 14>>
      [] point \in {"row", "write"} -> <<row.address \div 256, row.address % 256>>

TypeOf(point) ==
    CASE point \in {"modes", "names", "colors", "time", "row"} -> READ
      [] point = "write" -> WRITE
      [] point = "range" -> SUBSCRIBE
      [] OTHER -> RPC

Argument(point) ==
    CASE point \in {"params", "limits", "statistics"} -> EncodeConfigIdArg(ConfigId)
      [] point = "issue" -> <<8, 5>> \o <<24>> \o EncodeVarint(1)
      [] OTHER -> <<>>

(***************************************************************************)
(* The live interface: the bike tells all fields, or one that changed, and *)
(* before it perhaps a field of a later version of the interface.          *)
(***************************************************************************)
NothingLive == [f \in LiveFields |-> None]

LiveValues(f) == CASE f = Cadence -> {-2, 90} [] f \in LiveFlags -> {0, 1}
                    [] f = 17 -> {1, 2} [] OTHER -> Numbers

\* speed, cadence, bikeLight, systemLocked, in the order of a message.
LiveOrder == <<1, Cadence, 17, 21>>
LiveTold == {1, Cadence, 17, 21}

\* A field that is set; a negative number has the bits of twice the word.
LiveNumber(f, v) ==
    Varint(8 * f)
    \o IF v >= 0 THEN Varint(v)
       ELSE [k \in 1..((2 * Word) \div 7 + 1) |->
                IF k <= (2 * Word) \div 7 THEN 128 + ((v \div 2^(7 * (k - 1))) % 128)
                ELSE 2^((2 * Word) % 7) - 1]

LiveMessage(values) ==
    LET F(f) == IF values[f] = None THEN <<>> ELSE LiveNumber(f, values[f])
    IN Flatten([k \in DOMAIN LiveOrder |-> F(LiveOrder[k])])

\* Fields 3, 30 and 4 of the wire types 0, 1, 2 and 5.
Strangers ==
    {<<>>, <<24, 200, 1>>, <<25, 8, 1, 8, 1, 8, 1, 8, 1>>, <<242, 1, 2, 8, 1>>, <<37, 8, 1, 8, 1>>}

Updates ==
    (UNION {{[NothingLive EXCEPT ![f] = v] : v \in LiveValues(f)} : f \in LiveTold})
    \cup {[NothingLive EXCEPT ![1] = n, ![Cadence] = c, ![17] = 1, ![21] = b] :
            n \in Numbers, c \in LiveValues(Cadence), b \in {0, 1}}

\* Object.assign(bleLiveState, partial).
Assign(state, partial) ==
    [f \in LiveFields |-> IF partial[f] = None THEN state[f] ELSE partial[f]]

(***************************************************************************)
(* The modes of the bike: 0 is off, which its lists may leave out.  Mode 2 *)
(* has no name.                                                            *)
(***************************************************************************)
Id(k) == CASE k = 0 -> OffMode [] k = 1 -> ConfigId [] k = 2 -> <<52>>
Name(k) == CASE k = 0 -> <<79>> [] k = 1 -> <<69, 67>> [] k = 2 -> <<>>
Shade(k) == [r |-> k, g |-> 2, b |-> 0, a |-> 15 * Bit(k > 0)]

Modes == {<<1, 2>>, <<0, 1, 2>>}

IdList(ks) ==
    [bytes |-> Flatten([k \in DOMAIN ks |-> Bytes(1, Bytes(1, Id(ks[k])))]),
     shows |-> [k \in DOMAIN ks |-> Id(ks[k])]]

NameList(ks) ==
    [bytes |-> Flatten([k \in DOMAIN ks |-> Bytes(1, Name(ks[k]))]),
     shows |-> [k \in DOMAIN ks |-> Name(ks[k])]]

ShadeList(ks) ==
    [bytes |-> Bytes(1, Packed([k \in DOMAIN ks |-> ColorWord(Shade(ks[k]))])),
     shows |-> [k \in DOMAIN ks |-> Shade(ks[k])]]

\* The answers the bike may give: bytes, and what the tool is to read in them.
Answers(point) ==
    CASE point = "params" -> {[bytes |-> Proto(bike), shows |-> Seen(bike)]}
      [] point = "limits" ->
            {[bytes |-> Bytes(1, Proto(bike)) \o Bytes(2, Proto([bike EXCEPT ![1] = n])),
              shows |-> [max |-> Seen(bike), min |-> Seen([bike EXCEPT ![1] = n])]] : n \in Numbers}
      [] point = "statistics" ->
            {[bytes |-> Bytes(1, Implicit(1, d) \o Number(2, 7)),
              shows |-> [distance |-> IF d = 0 THEN None ELSE d, consumedEnergy |-> 7]] : d \in Numbers}
      [] point = "modes" -> {IdList(m) : m \in Modes}
      [] point = "names" -> {NameList(m) : m \in Modes}
      [] point = "colors" -> {ShadeList(m) : m \in Modes}
      [] point = "row" -> {[bytes |-> Encoded(row.shape, held), shows |-> Meant(row.shape, held)]}
      [] point = "time" ->
            {[bytes |-> Implicit(1, 2 * t), shows |-> t] : t \in {n \in Numbers : 2 * n < 2^Word}}
      [] point = "issue" ->
            {[bytes |-> Concat3(Bytes(1, Bytes(2, Number(1, 2 * t)) \o Number(3, 2)),
                                Bytes(2, Number(1, 5) \o Bytes(2, Number(1, t)) \o Number(3, 1)), Number(4, 1)),
              shows |-> [returnValue |-> 0, entryCount |-> 1, issueId |-> t, timestamp |-> t,
                         activationCount |-> 2]] : t \in Numbers}
      [] OTHER -> {[bytes |-> <<>>, shows |-> <<>>]}

Decode(point, p) ==
    CASE point = "params" -> DecodeUdamParams(p)
      [] point = "limits" -> DecodeUdamLimits(p)
      [] point = "statistics" -> DecodeStatistics(p)
      [] point = "modes" -> DecodeConfigIdList(p)
      [] point = "names" -> DecodeStringList(p)
      [] point = "range" -> DecodeUint32List(p)
      [] point = "time" -> DecodeClock(p)
      [] point = "issue" -> DecodeIssue(p)
      [] point = "set" -> DecodeBool(p)
      [] point = "colors" -> DecodeTyped(AssistModeColors, p)
      [] point = "row" -> ValueAt(row.address, p)
      [] point = "write" -> p

Init ==
    /\ bike \in UdamRecords /\ row \in {None} \cup ReadRows
    /\ transport \in IF row = None THEN Transports ELSE Transports \ {"live"}
    /\ held \in IF row = None THEN {None} ELSE Meanings(row.shape)
    /\ entry = None /\ modeTable = None
    /\ toBike = <<>> /\ fromBike = <<>> /\ readQueue = <<>>
    /\ udam = None /\ startupStage = NotAFrame /\ seq = 0
    /\ stageSaid = NotAFrame /\ meant = <<>> /\ asked = <<>>
    /\ understood = None /\ seen = None /\ replied = None
    /\ unasked = 0 /\ bleLiveState = NothingLive /\ told = NothingLive

-----------------------------------------------------------------------------
(***************************************************************************)
(* The tool sends.                                                         *)
(***************************************************************************)
Send(point, payload, change) ==
    LET frame == BuildFrame(Addr(point), TypeOf(point), seq, payload)
    IN /\ toBike' = <<[bytes |-> IF transport = "ble" THEN BleRequest(frame) ELSE frame,
                       point |-> point, seq |-> seq, change |-> change]>>
       /\ seq' = (seq + 1) % 16

\* Bound: the messages of a behaviour.
Unspent ==
    seq + unasked < IF row = None THEN MaxMessages ELSE IF row.address \in LabAddresses THEN 2 ELSE 1

Idle == toBike = <<>> /\ \A k \in DOMAIN meant : meant[k].push

\* One request is under way at a time.
Asks(point) ==
    /\ transport \in {"usb", "ble"} /\ Idle /\ Unspent
    /\ point \notin {"set", "write"} /\ (point = "row" <=> row # None)
    /\ point \in {"names", "colors"} => modeTable # None
    /\ Send(point, Argument(point), None)
    /\ Forget
    /\ UNCHANGED <<transport, bike, fromBike, readQueue, udam, startupStage, stageSaid,
                   meant, asked, unasked, live, points>>

\* setUdamValuesForMode: the record as last read, with one field changed.
Sets(f, n) ==
    /\ Idle /\ Unspent
    /\ udam # None /\ n # udam[f]
    /\ Send("set", EncodeSetUdamArg(ConfigId, [udam EXCEPT ![f] = n]), [field |-> f, value |-> n, from |-> udam])
    /\ Forget
    /\ UNCHANGED <<transport, bike, fromBike, readQueue, udam, startupStage, stageSaid,
                   meant, asked, unasked, live, points>>

\* attemptWriteLab, writeAndReadBack: the kinds without an input of their own
\* are typed in hex.
LabWrites(v) ==
    /\ transport \in {"usb", "ble"} /\ Idle /\ Unspent
    /\ Send("write", LabArgument(row.shape, IF row.shape.kind \in {"bool", "enum", "uint", "string"}
                                            THEN v ELSE Encoded(row.shape, v)), v)
    /\ Forget
    /\ UNCHANGED <<transport, bike, fromBike, readQueue, udam, startupStage, stageSaid,
                   meant, asked, unasked, live, points>>

-----------------------------------------------------------------------------
(***************************************************************************)
(* The bike.                                                               *)
(***************************************************************************)
HostAddress == IF transport = "ble" THEN HostBle ELSE HostUsb

\* The body of a request as the bike takes it from the transport.
RequestBody(bytes) ==
    IF transport = "usb" THEN SubSeq(bytes, 3, Len(bytes)) ELSE DecodeSegments(bytes)[1].payload

\* A body on its way to the tool; over Bluetooth it may share a notification
\* with the one before.
Carry(body) ==
    IF transport = "usb" THEN fromBike' = Append(fromBike, Wrap(body))
    ELSE LET segment == EncodeSegment(MessageBus, body)
         IN \/ fromBike' = Append(fromBike, segment)
            \/ /\ fromBike # <<>>
               /\ fromBike' = [fromBike EXCEPT ![Len(fromBike)] = @ \o segment]

\* The record that a SET argument stands for, an omitted field being 0.
Holds(params) ==
    [f \in UdamFields |-> IF f \notin OptionalFields /\ params[f] = None THEN 0 ELSE params[f]]

ArgumentOf(params) ==
    LET F(f) == IF params[f] = None THEN <<>> ELSE Number(f, params[f])
    IN Bytes(1, Bytes(1, ConfigId)) \o Bytes(2, Flatten([f \in UdamFields |-> F(f)]))

\* The records a save can ask for; an argument that is none of them is garbage.
Savable ==
    {[r EXCEPT ![f] = n] : r \in {bike, Seen(bike)}, f \in EditableFields, n \in Numbers}

SetTo(payload) ==
    LET matches == {p \in Savable : ArgumentOf(p) = payload}
    IN IF matches = {} THEN bike ELSE Holds(CHOOSE p \in matches : TRUE)

\* The bike takes the request and answers, with a status or with a value.
Serves(status) ==
    /\ toBike # <<>>
    /\ LET request == toBike[1]
           body == RequestBody(request.bytes)
           to == IF status = 0 THEN <<128 + HostAddress[1], HostAddress[2]>>
                 ELSE HostAddress
           head(value) == <<Low7(body[3]), body[4]>> \o to \o <<body[5] + 16>> \o value
           parsed == [host |-> SubSeq(body, 1, 2), addr |-> <<Low7(body[3]), body[4]>>,
                      type |-> body[5] \div 16, seq |-> body[5] % 16,
                      payload |-> SubSeq(body, 6, Len(body))]
       IN /\ bike' = IF request.point = "set" /\ status = 0 THEN SetTo(parsed.payload) ELSE bike
          /\ held' = IF request.point = "write" /\ status = 0
                     THEN Taken(row.shape, parsed.payload, held) ELSE held
          /\ understood' = [request |-> parsed, point |-> request.point, seq |-> request.seq,
                            before |-> bike, after |-> bike', change |-> request.change,
                            held |-> held', status |-> status]
          /\ \E a \in IF status # 0 THEN {[bytes |-> <<status>>, shows |-> <<>>]}
                      ELSE IF request.point = "set" THEN {[bytes |-> <<8, 1>>, shows |-> TRUE]}
                      ELSE Answers(request.point) :
                /\ Carry(head(a.bytes))
                /\ meant' = Append(meant, [addr |-> Addr(request.point), point |-> request.point,
                                           push |-> FALSE, seq |-> request.seq, status |-> status,
                                           shows |-> a.shows, held |-> held])
    /\ toBike' = <<>> /\ seen' = None /\ replied' = None
    /\ UNCHANGED <<transport, readQueue, udam, startupStage, seq, stageSaid, asked, unasked, live,
                   row, entry, modeTable>>

\* A push of a subscribed point: REACHABLE_RANGE, a packed list.
Pushes(n) ==
    /\ row = None /\ transport # "live" /\ Unspent /\ unasked' = unasked + 1
    /\ Carry(<<128 + Addr("range")[1], Addr("range")[2]>> \o Bytes(1, Varint(n) \o Varint(3)))
    /\ meant' = Append(meant, [addr |-> Addr("range"), point |-> "range", push |-> TRUE, seq |-> 0,
                               status |-> 0, shows |-> <<n, 3>>, held |-> held])
    /\ Forget
    /\ UNCHANGED <<transport, bike, toBike, readQueue, udam, startupStage, seq, stageSaid, asked, live, points>>

\* readValue() and every notification of the live interface.
Tells ==
    /\ transport = "live" /\ fromBike = <<>> /\ Unspent /\ unasked' = unasked + 1
    /\ \E update \in Updates, stranger \in Strangers :
          /\ fromBike' = <<stranger \o LiveMessage(update)>>
          /\ told' = Assign(told, update)
    /\ UNCHANGED <<transport, bike, toBike, readQueue, udam, startupStage, seq, stageSaid, meant,
                   asked, understood, seen, replied, bleLiveState, points>>

\* Over Bluetooth the bike reads and writes the app's own points.
Own == [type : {READ}, low : {FeaturesLow}, stage : {0}]
       \cup [type : {WRITE}, low : {StageLow, FeaturesLow}, stage : {0, 9}]

BikeAsks(own) ==
    /\ row = None /\ transport = "ble" /\ Unspent /\ unasked' = unasked + 1
    /\ LET body == <<32, 40, 128 + MobileAppHigh, own.low, 16 * own.type + (unasked % 16)>>
                   \o (IF own.type = WRITE THEN Implicit(1, own.stage) ELSE <<>>)
       IN /\ Carry(body) /\ asked' = Append(asked, [type |-> own.type, low |-> own.low, stage |-> own.stage, number |-> unasked % 16])
    /\ Forget
    /\ UNCHANGED <<transport, bike, toBike, readQueue, udam, startupStage, seq, stageSaid, meant, live, points>>

-----------------------------------------------------------------------------
(***************************************************************************)
(* The tool receives.                                                      *)
(***************************************************************************)
\* _handleNotification, segment after segment.
Busy(segments) == Chosen(segments, {k \in DOMAIN segments : segments[k].channel = MessageBus /\ segments[k].end})

NotificationArrives ==
    /\ transport = "ble" /\ fromBike # <<>>
    /\ LET bodies == LET busy == Busy(DecodeSegments(fromBike[1]))
                     IN [k \in DOMAIN busy |-> busy[k].payload]
           requests == Chosen(bodies, {k \in DOMAIN bodies : IsMobileAppRequest(bodies[k])})
           others == Chosen(bodies, {k \in DOMAIN bodies : ~IsMobileAppRequest(bodies[k]) /\ Len(bodies[k]) < 256})
           stages == Chosen(requests, {k \in DOMAIN requests : WritesStage(requests[k])})
           n == Len(requests)
           Said(k) == asked[k].type = WRITE /\ asked[k].low = StageLow
       IN /\ readQueue' = readQueue \o [k \in DOMAIN others |-> Rebuild(others[k])]
          /\ replied' = [asks |-> SubSeq(asked, 1, n),
                         replies |-> [k \in DOMAIN requests |-> MobileAppReply(requests[k])]]
          /\ startupStage' = IF stages = <<>> THEN startupStage ELSE StageIn(stages[Len(stages)])
          /\ asked' = SubSeq(asked, n + 1, Len(asked))
          /\ stageSaid' = IF \E k \in 1..n : Said(k)
                          THEN asked[CHOOSE k \in 1..n : Said(k) /\ \A j \in (k + 1)..n : ~Said(j)].stage
                          ELSE stageSaid
    /\ fromBike' = Tail(fromBike) /\ understood' = None /\ seen' = None
    /\ UNCHANGED <<transport, bike, toBike, udam, seq, meant, unasked, live, points>>

FrameArrives ==
    /\ transport = "usb" /\ fromBike # <<>>
    /\ readQueue' = Append(readQueue, fromBike[1]) /\ fromBike' = Tail(fromBike)
    /\ Forget
    /\ UNCHANGED <<transport, bike, toBike, udam, startupStage, seq, stageSaid, meant, asked,
                   unasked, live, points>>

LiveDataArrives ==
    /\ transport = "live" /\ fromBike # <<>> /\ fromBike' = <<>>
    /\ bleLiveState' = Assign(bleLiveState, DecodeLiveData(fromBike[1]))
    /\ UNCHANGED <<transport, bike, toBike, readQueue, udam, startupStage, seq, stageSaid, meant,
                   asked, understood, seen, replied, unasked, told, points>>

\* readAllAssistModeStats, answer after answer; a list that is declined or does
\* not fit leaves the entries as they were.
Lists(point, value, response) ==
    LET ok == response # NotAFrame /\ response.status = 0
        Blank(ids) == [ids |-> ids, labels |-> [k \in DOMAIN ids |-> None], colors |-> [k \in DOMAIN ids |-> None]]
    IN CASE point = "modes" -> Blank(ConfigIds(IF ok THEN value ELSE <<>>))
         [] point = "names" /\ ok -> [modeTable EXCEPT !.labels = Labels(Len(modeTable.ids), value)]
         [] point = "colors" /\ ok -> [modeTable EXCEPT !.colors = LinedUp(Len(modeTable.ids), value)]
         [] OTHER -> modeTable

\* A frame is taken from the queue, parsed as a push and as a response.
Reads ==
    /\ readQueue # <<>>
    /\ LET response == ParseResponse(readQueue[1])
           notify == ParseNotify(readQueue[1])
           m == meant[1]
           p == IF response # NotAFrame THEN response.payload
                ELSE IF notify # NotAFrame THEN notify.payload
                ELSE <<>>
           value == IF response # NotAFrame /\ response.status # 0 THEN <<>> ELSE Decode(m.point, p)
       IN /\ seen' = [meant |-> m, response |-> response, notify |-> notify, value |-> value]
          /\ udam' = IF m.point = "params" /\ response # NotAFrame /\ response.status = 0
                     THEN value ELSE udam
          /\ entry' = IF m.point = "row" /\ response # NotAFrame /\ response.status = 0
                      THEN [typed |-> IsTyped(row.address), value |-> value,
                            display |-> DisplayAt(row.address, p), held |-> m.held]
                      ELSE entry
          /\ modeTable' = Lists(m.point, value, response)
    /\ readQueue' = Tail(readQueue) /\ meant' = Tail(meant)
    /\ understood' = None /\ replied' = None
    /\ UNCHANGED <<transport, bike, toBike, fromBike, startupStage, seq, stageSaid, asked,
                   unasked, live, row, held>>

\* A report with the row is exported, and loaded where it is the only source.
Reopens ==
    /\ transport \in {"usb", "ble"} /\ Idle /\ meant = <<>> /\ entry # None
    /\ LET loaded == FromReport(row.address, Exported(entry))
       IN entry' = [typed |-> loaded.typed, value |-> loaded.value, display |-> loaded.display,
                    held |-> entry.held]
    /\ transport' = "file" /\ modeTable' = None
    /\ Forget
    /\ UNCHANGED <<bike, toBike, fromBike, readQueue, udam, startupStage, seq, stageSaid, meant,
                   asked, unasked, live, row, held>>


Next ==
    \/ \E point \in Points : Asks(point)
    \/ \E f \in EditableFields, n \in Numbers : Sets(f, n)
    \/ \E status \in Statuses : Serves(status)
    \/ \E n \in Numbers : Pushes(n)
    \/ \E own \in Own : BikeAsks(own)
    \/ row # None /\ \E v \in Meanings(row.shape) : LabWrites(v)
    \/ NotificationArrives \/ FrameArrives \/ Reads \/ Reopens
    \/ Tells \/ LiveDataArrives

Spec == Init /\ [][Next]_vars

-----------------------------------------------------------------------------
(***************************************************************************)
(* The bike gets what the tool asked: the address, type, sequence number   *)
(* and argument, from the host of the transport in use; and a value typed  *)
(* in the Write Lab is the value the point then has.                       *)
(***************************************************************************)
RequestArrives ==
    understood # None =>
        LET r == understood.request
        IN /\ r.host = HostAddress
           /\ r.addr = Addr(understood.point) /\ r.type = TypeOf(understood.point)
           /\ r.seq = understood.seq
           /\ understood.point \notin {"set", "write"} => r.payload = Argument(understood.point)
           /\ understood.point = "write" /\ understood.status = 0 => understood.held = understood.change

(***************************************************************************)
(* A save changes the field the user edited and no other, although the     *)
(* whole record is sent, null fields left out and numbers re-encoded, when *)
(* the record was last read as it still is (UdamEdit is about when not).   *)
(***************************************************************************)
SaveChangesOneField ==
    understood # None /\ understood.point = "set" /\ understood.status = 0
        /\ Seen(understood.before) = understood.change.from =>
        understood.after = [understood.before EXCEPT ![understood.change.field] = understood.change.value]

(***************************************************************************)
(* The tool reads in every frame what the bike put in it, whichever        *)
(* transport carried it: a response is a response with its address,        *)
(* sequence number and status, a push is a push, and the value decoded is  *)
(* the value encoded.                                                      *)
(***************************************************************************)
ReadAsMeant ==
    seen # None =>
        IF seen.meant.push
        THEN seen.response = NotAFrame /\ seen.notify.addr = seen.meant.addr /\ seen.value = seen.meant.shows
        ELSE /\ seen.notify = NotAFrame /\ seen.response # NotAFrame
             /\ seen.response.addr = seen.meant.addr /\ seen.response.seq = seen.meant.seq
             /\ seen.response.type = TypeOf(seen.meant.point) + 1
             /\ seen.response.status = seen.meant.status
             /\ seen.meant.point # "range" => seen.value = seen.meant.shows

(***************************************************************************)
(* An entry of the page has the value its point had when it was read, and  *)
(* shows it as it is to be shown, whatever the kind; and so it does after  *)
(* the report was saved, and loaded with nothing but itself.               *)
(***************************************************************************)
EntryShowsPoint ==
    entry # None =>
        /\ entry.value = Meant(row.shape, entry.held)
        /\ entry.display = MeantDisplay(row.shape, entry.held)

(***************************************************************************)
(* No mode is shown with the name or the colour of another, whether or not *)
(* the bike lists an entry for off in each of its lists; and a list that   *)
(* was read in full names and colours every active mode.                   *)
(***************************************************************************)
ModesLineUp ==
    modeTable # None =>
        LET ids == modeTable.ids
            Whole == Len(ids) = 3 /\ seen # None /\ seen.response # NotAFrame /\ seen.response.status = 0
            ModeOf(k) == CHOOSE m \in 0..2 : Id(m) = ids[k]
            NameShown(m) == IF Name(m) = <<>> THEN None ELSE Name(m)
        IN /\ ids[1] = OffMode
           /\ \A k \in DOMAIN ids :
                 /\ modeTable.labels[k] \in {None, Name(ModeOf(k))}
                 /\ modeTable.colors[k] \in {None, Shade(ModeOf(k))}
           /\ Whole /\ seen.meant.point = "names" =>
                 \A k \in {2, 3} : modeTable.labels[k] = NameShown(ModeOf(k))
           /\ Whole /\ seen.meant.point = "colors" =>
                 \A k \in {2, 3} : modeTable.colors[k] = Shade(ModeOf(k))

(***************************************************************************)
(* Every request of the bike to the app is answered once, in order, with   *)
(* its own field, requester and sequence number, however the notifications *)
(* are packed, and none of them is left for readNextFrame to return; and   *)
(* what waitForBikeReady waits for is the last stage the bike has told.    *)
(***************************************************************************)
BikeIsAnswered ==
    /\ replied # None =>
        /\ Len(replied.asks) = Len(replied.replies)
        /\ \A k \in DOMAIN replied.asks :
              SubSeq(replied.replies[k], 1, 5) =
                <<MobileAppHigh, replied.asks[k].low, 128 + 32, 40,
                  16 * (replied.asks[k].type + 1) + replied.asks[k].number>>
    /\ fromBike = <<>> => asked = <<>> /\ Len(readQueue) = Len(meant)
    /\ (startupStage = 9) <=> (stageSaid = 9)

(***************************************************************************)
(* The live page shows of every field the last value the bike told, in     *)
(* whichever mixture of full and partial messages, 0, FALSE and negative   *)
(* values included, and fields of a later version of the interface do not  *)
(* disturb it.                                                             *)
(***************************************************************************)
LiveIsLastTold == fromBike = <<>> => bleLiveState = told

TypeOK ==
    /\ seq \in 0..15 /\ \A f \in UdamFields : bike[f] = None \/ bike[f] \in 0..(2^Word - 1)
    /\ \A s \in {toBike[k].bytes : k \in DOMAIN toBike} \cup {fromBike[k] : k \in DOMAIN fromBike}
                \cup {readQueue[k] : k \in DOMAIN readQueue} : \A k \in DOMAIN s : s[k] \in 0..255
=============================================================================
