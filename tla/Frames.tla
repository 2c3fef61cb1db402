-------------------------------- MODULE Frames --------------------------------
(***************************************************************************)
(* The frames of the message bus (protocol.js) and what the Bluetooth      *)
(* transport makes of them (transport-webble-mcsp.js): segments on         *)
(* channels, its own address in place of the USB one, and the answers it   *)
(* gives to the bike in the role of a "MobileApp".  Frames and payloads    *)
(* are sequences of bytes; an address is a pair of bytes.                  *)
(***************************************************************************)
EXTENDS Loops

CONSTANT NotAFrame  \* null

ASSUME NotAFrameAssumption ==
    /\ NotAFrame \notin Nat /\ NotAFrame \notin Seq(0..255)
    /\ NotAFrame \notin [addr : Seq(0..255), payload : Seq(0..255)]
    /\ NotAFrame \notin [addr : Seq(0..255), type : Nat, seq : Nat, status : Nat, payload : Seq(0..255)]

BlockOp == 48
HostUsb == <<14, 16>>
HostBle == <<65, 128>>
MobileAppHigh == 64
StageLow == 169         \* STARTUP_STAGE
FeaturesLow == 170      \* MOBILE_APP_STATIC_FEATURE_PROPERTIES

READ == 0
WRITE == 2
RPC == 4
SUBSCRIBE == 6

\* The channel of the segments that carry frames.
MessageBus == 1

Low7(b) == b % 128
Flagged(b) == b >= 128

-----------------------------------------------------------------------------
(***************************************************************************)
(* protocol.js.                                                            *)
(***************************************************************************)
Wrap(body) == <<BlockOp, Len(body) % 256>> \o body

BuildFrame(addr, type, seq, payload) ==
    Wrap(HostUsb \o <<128 + Low7(addr[1]), addr[2], 16 * (type % 16) + (seq % 16)>> \o payload)

\* The body of a frame that starts with the block operation.
BodyOf(bytes) ==
    IF Len(bytes) < 2 \/ bytes[1] # BlockOp THEN NotAFrame ELSE Slice(bytes, 3, bytes[2])

ParseNotify(bytes) ==
    LET b == BodyOf(bytes)
    IN IF b = NotAFrame \/ Len(b) < 2 \/ ~Flagged(b[1]) THEN NotAFrame
       ELSE [addr |-> <<Low7(b[1]), b[2]>>, payload |-> Slice(b, 3, Len(b))]

\* A destination flag stands for SUCCESS and no status byte.
ParseResponse(bytes) ==
    LET b == BodyOf(bytes)
        status == IF Flagged(b[3]) THEN 0 ELSE IF Len(b) >= 6 THEN b[6] ELSE NotAFrame
    IN IF \/ b = NotAFrame \/ Len(b) < 5
          \/ Flagged(b[1]) \/ Low7(b[3]) # HostUsb[1] THEN NotAFrame
       ELSE [addr |-> <<b[1], b[2]>>, type |-> b[5] \div 16, seq |-> b[5] % 16,
             status |-> status, payload |-> Slice(b, IF Flagged(b[3]) THEN 6 ELSE 7, Len(b))]

-----------------------------------------------------------------------------
(***************************************************************************)
(* Segments: the channel, the end-of-channel flag and a length of 12 bits. *)
(***************************************************************************)
SegmentHead(channel, n) == <<32 * channel + 16 + ((n \div 256) % 16), n % 256>>

EncodeSegment(channel, payload) == SegmentHead(channel, Len(payload)) \o payload

\* Mutant: only the first segment of a notification is read.
FirstSegment(buffer) ==
    IF Len(buffer) < 2 THEN <<>>
    ELSE <<[channel |-> buffer[1] \div 32, end |-> (buffer[1] \div 16) % 2 = 1,
            payload |-> Slice(buffer, 3, 256 * (buffer[1] % 16) + buffer[2])]>>

\* The segment that starts at i, if the buffer holds all of it.
SegmentAt(buffer, i) ==
    LET next == i + 2 + 256 * (buffer[i] % 16) + buffer[i + 1]
    IN IF i + 1 > Len(buffer) \/ next > Len(buffer) + 1 THEN Stops
       ELSE Finds([channel |-> buffer[i] \div 32, end |-> (buffer[i] \div 16) % 2 = 1,
                   payload |-> SubSeq(buffer, i + 2, next - 1)], next)

DecodeSegments(buffer) == Walk([i \in 1..Len(buffer) |-> SegmentAt(buffer, i)], 1)

-----------------------------------------------------------------------------
(***************************************************************************)
(* The Bluetooth transport.                                                *)
(***************************************************************************)
\* Mutant: the source stays the USB address.
BleRequestAsIs(frame) == EncodeSegment(MessageBus, Slice(frame, 3, Len(frame)))

\* doMcspWrite: the source becomes the address of the app.
BleRequest(frame) ==
    LET b == Slice(frame, 3, Len(frame))
    IN EncodeSegment(MessageBus, IF SubSeq(b, 1, 2) = HostUsb THEN HostBle \o Slice(b, 3, Len(b)) ELSE b)

\* Mutant: the flag of the destination is forced to success.
RebuildAsSuccess(body) ==
    Wrap(IF Len(body) >= 4 /\ Low7(body[3]) = HostBle[1]
         THEN [body EXCEPT ![3] = 128 + HostUsb[1], ![4] = HostUsb[2]]
         ELSE body)

\* An inbound body as readNextFrame of the USB transport would return it: the
\* destination becomes the USB address, its flag is kept.
Rebuild(body) ==
    Wrap(IF Len(body) >= 4 /\ Low7(body[3]) = HostBle[1]
         THEN [body EXCEPT ![3] = body[3] - Low7(body[3]) + HostUsb[1], ![4] = HostUsb[2]]
         ELSE body)

IsMobileAppRequest(body) ==
    /\ Len(body) >= 5 /\ Low7(body[3]) = MobileAppHigh
    /\ body[5] \div 16 \in {READ, WRITE}

MobileAppReply(body) ==
    LET type == body[5] \div 16
    IN <<MobileAppHigh, body[4], 128 + Low7(body[1]), body[2], 16 * (type + 1) + (body[5] % 16)>>
       \o (IF type = READ /\ body[4] = FeaturesLow THEN <<24, 1>> ELSE <<>>)

\* The stage a STARTUP_STAGE write carries.
WritesStage(body) == IsMobileAppRequest(body) /\ body[5] \div 16 = WRITE /\ body[4] = StageLow

StageIn(body) == IF Len(body) >= 7 THEN body[7] ELSE NotAFrame
=============================================================================
