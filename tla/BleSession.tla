------------------------------ MODULE BleSession ------------------------------
(***************************************************************************)
(* Bluetooth sessions over the life of the page: connectBle and            *)
(* runSweep('ble-mcsp') of web/app.js with the open/connect retry loops of *)
(* the two transports, one bike, and the buttons.  Every session is a      *)
(* coroutine that goes on after the page has left it, and all of them read *)
(* the globals `phase` and `transport` again after each await.  The sweep  *)
(* itself is reduced to how it ends (module Sweep).                        *)
(***************************************************************************)
EXTENDS Naturals

CONSTANTS
    Kinds,          \* the sessions the user starts: live, mcsp
    MaxAttempts,    \* length of backoffsMs: 4 in the code
    MaxSessions,    \* bound: clicks on Connect and Read again
    None

ASSUME KindsAssumption == Kinds \subseteq {"live", "mcsp"}
ASSUME BoundsAssumption == MaxAttempts \in Nat \ {0} /\ MaxSessions \in Nat

Flows == 1..MaxSessions

VARIABLES
    phase,          \* idle | scanning | connecting | connected
    method,         \* ble | ble-mcsp: what Read again starts
    transport,      \* the session whose transport object `transport` is
    abortRequested,
    disconnectedAfterRead,
    flow,           \* the coroutines: kind, pc, attempt, and the transport a call is on
    link,           \* the sessions whose connection is up: none when the device is disconnected
    listening,      \* gattserverdisconnected has a listener, of any session
    overlapped      \* history: a session was started while an older one was still running

vars == <<phase, method, transport, abortRequested, disconnectedAfterRead, flow, link, listening, overlapped>>

page == <<phase, transport, abortRequested, disconnectedAfterRead>>

NotStarted == [kind |-> None, pc |-> "none", attempt |-> 0, via |-> None]

\* renderPhase: the status reads "CONNECTED" and the Disconnect button shows.
ShowsConnected == phase = "connected" /\ ~disconnectedAfterRead

\* The awaits inside open() and connect() during which an attempt may fail.
Opening == {"connecting", "discovering", "handshake"}

Init ==
    /\ phase = "idle" /\ method = "ble" /\ transport = None
    /\ abortRequested = FALSE /\ disconnectedAfterRead = FALSE
    /\ flow = [f \in Flows |-> NotStarted]
    /\ link = {} /\ listening = FALSE /\ overlapped = FALSE

GoIdle ==
    /\ phase' = "idle" /\ transport' = None
    /\ abortRequested' = FALSE /\ disconnectedAfterRead' = FALSE

HandleDisconnect ==
    CASE phase = "idle" -> UNCHANGED page
      [] phase = "connected" -> /\ transport' = None /\ disconnectedAfterRead' = TRUE
                                /\ UNCHANGED <<phase, abortRequested>>
      [] OTHER -> GoIdle

\* The link goes down, by gatt.disconnect() or by itself: the event is
\* dispatched to the listeners before anything else runs.
LinkGoesDown ==
    /\ link' = {}
    /\ IF link # {} /\ listening THEN HandleDisconnect ELSE UNCHANGED page

Goto(f, pc) == flow' = [flow EXCEPT ![f].pc = pc]

\* A session calls the methods of whatever `transport` holds by now: null or
\* a transport of the other kind throws a TypeError.
Speaks(f) == transport # None /\ flow[transport].kind = flow[f].kind

\* A GATT operation needs a characteristic of the connection that is up: one
\* of a connection that is lost is rejected, also after a reconnection.
Usable(g) == g \in link /\ flow[g].pc # "connecting"

(***************************************************************************)
(* Starting: Connect on the start screen, Read again on the dashboard.     *)
(***************************************************************************)
Started == {f \in Flows : flow[f].pc # "none"}

\* The browser shows one device picker at a time.
NextFlow(f) == f \notin Started /\ (\A g \in 1..(f - 1) : g \in Started)
               /\ \A g \in Flows : flow[g].pc # "picking"

Launch(f, kind) ==
    /\ flow' = [flow EXCEPT ![f] = [NotStarted EXCEPT !.kind = kind, !.pc = "picking"]]
    /\ disconnectedAfterRead' = FALSE
    /\ overlapped' = (overlapped \/ \E g \in Flows : flow[g].pc \notin {"none", "threw", "returned"})
    /\ IF kind = "live" THEN phase' = "scanning" /\ abortRequested' = FALSE
       ELSE UNCHANGED <<phase, abortRequested>>

\* Bluetooth is picked on the start screen first.
Connect(f, kind) ==
    /\ NextFlow(f) /\ phase = "idle" /\ Launch(f, kind)
    /\ method' = "ble"
    /\ UNCHANGED <<transport, link, listening>>

\* The old transport is closed if there is one, then the sweep or the live
\* session starts from its picker.
ReadAgain(f) ==
    /\ NextFlow(f) /\ phase = "connected"
    /\ LET kind == IF method = "ble" THEN "live" ELSE "mcsp"
       IN kind \in Kinds /\ Launch(f, kind)
    /\ link' = (IF transport = None THEN link ELSE {}) /\ transport' = None
    /\ UNCHANGED <<method, listening>>

PickerCancelled(f) ==
    /\ flow[f].pc = "picking" /\ Goto(f, "returned")
    /\ IF flow[f].kind = "live" THEN GoIdle ELSE UNCHANGED page
    /\ UNCHANGED <<method, link, listening, overlapped>>

Picked(f) ==
    /\ flow[f].pc = "picking"
    /\ \/ /\ flow[f].kind = "live" /\ abortRequested
          /\ GoIdle /\ Goto(f, "returned") /\ UNCHANGED method
       \/ /\ flow[f].kind = "mcsp" \/ ~abortRequested
          /\ phase' = "connecting" /\ transport' = f
          /\ method' = IF flow[f].kind = "live" THEN method ELSE "ble-mcsp"
          /\ abortRequested' = FALSE /\ UNCHANGED disconnectedAfterRead
          /\ flow' = [flow EXCEPT ![f].pc = "connecting", ![f].attempt = 1]
    /\ UNCHANGED <<link, listening, overlapped>>

(***************************************************************************)
(* open() of the MCSP transport and connect() of the live one.             *)
(***************************************************************************)
GattConnects(f) ==
    /\ flow[f].pc = "connecting" /\ link' = link \cup {f} /\ Goto(f, "discovering")
    /\ UNCHANGED <<method, page, listening, overlapped>>

\* A live session calls readOnce() or subscribe() of `transport`.
Calls(f, pc) ==
    IF Speaks(f) /\ (transport = f \/ (Usable(transport) /\ flow[transport].pc # "discovering"))
    THEN flow' = [flow EXCEPT ![f].pc = pc, ![f].via = transport] /\ UNCHANGED page
    ELSE Goto(f, "returned") /\ GoIdle

Discovers(f) ==
    /\ flow[f].pc = "discovering" /\ f \in link
    /\ IF flow[f].kind = "mcsp" THEN Goto(f, "handshake") /\ UNCHANGED page
       ELSE Calls(f, "readOnce")
    /\ UNCHANGED <<method, link, listening, overlapped>>

\* Nine writes, then the acknowledgements or three seconds, link or no link;
\* the drop of the bike is listened to from here, and `transport` may be null
\* by now.
Handshakes(f) ==
    /\ flow[f].pc = "handshake"
    /\ listening' = TRUE
    /\ Goto(f, IF Speaks(f) THEN "waitReady" ELSE "threw")
    /\ UNCHANGED <<method, page, link, overlapped>>

\* Mutant: one attempt more than there are backoffs.
AttemptFailsOnceMore(f, unpaired) ==
    /\ flow[f].pc \in Opening
    /\ IF unpaired \/ flow[f].attempt > MaxAttempts
       THEN link' = {} /\ GoIdle /\ Goto(f, "returned")
       ELSE LinkGoesDown /\ Goto(f, "backoff")
    /\ UNCHANGED <<method, listening, overlapped>>

\* Mutant: a rejected open() is not reported.
AttemptFailsSilently(f, unpaired) ==
    /\ flow[f].pc \in Opening
    /\ LinkGoesDown
    /\ Goto(f, IF unpaired \/ flow[f].attempt = MaxAttempts THEN "returned" ELSE "backoff")
    /\ UNCHANGED <<method, listening, overlapped>>

\* The catch block of an attempt: disconnect, then back off, or, after the
\* last one or when the bike is not paired, reject, which ends the session.
AttemptFails(f, unpaired) ==
    /\ flow[f].pc \in Opening
    /\ IF unpaired \/ flow[f].attempt = MaxAttempts
       THEN link' = {} /\ GoIdle /\ Goto(f, "returned")
       ELSE LinkGoesDown /\ Goto(f, "backoff")
    /\ UNCHANGED <<method, listening, overlapped>>

BackedOff(f) ==
    /\ flow[f].pc = "backoff"
    /\ flow' = [flow EXCEPT ![f].pc = "connecting", ![f].attempt = @ + 1]
    /\ UNCHANGED <<method, page, link, listening, overlapped>>

(***************************************************************************)
(* The live session after connect().                                       *)
(***************************************************************************)
ReadsOnce(f) ==
    /\ flow[f].pc = "readOnce" /\ flow[f].via \in link
    /\ Calls(f, "subscribing")
    /\ UNCHANGED <<method, link, listening, overlapped>>

\* Mutant: the drop of the bike is not listened to.
SubscribesOnly(f) ==
    /\ flow[f].pc = "subscribing" /\ flow[f].via \in link
    /\ phase' = "connected" /\ Goto(f, "returned")
    /\ UNCHANGED <<method, transport, abortRequested, disconnectedAfterRead, link, listening, overlapped>>

Subscribes(f) ==
    /\ flow[f].pc = "subscribing" /\ flow[f].via \in link
    /\ listening' = TRUE /\ phase' = "connected" /\ Goto(f, "returned")
    /\ UNCHANGED <<method, transport, abortRequested, disconnectedAfterRead, link, overlapped>>

\* The catch of connectBle reports, and leaves the link as it is.
LiveFails(f) ==
    /\ flow[f].pc \in {"readOnce", "subscribing"}
    /\ GoIdle /\ Goto(f, "returned")
    /\ UNCHANGED <<method, link, listening, overlapped>>

(***************************************************************************)
(* The MCSP session after open(): waitForBikeReady, then the sweep, before *)
(* and behind the dashboard.                                               *)
(***************************************************************************)
\* Nothing catches what the warm-up reads throw.
BikeReady(f) ==
    /\ flow[f].pc = "waitReady"
    /\ Goto(f, IF Speaks(f) /\ Usable(transport) THEN "sweep" ELSE "threw")
    /\ UNCHANGED <<method, page, link, listening, overlapped>>

SweepReveals(f) ==
    /\ flow[f].pc = "sweep" /\ Goto(f, "behind") /\ phase' = "connected"
    /\ UNCHANGED <<method, transport, abortRequested, disconnectedAfterRead, link, listening, overlapped>>

SweepCancelled(f) ==
    /\ flow[f].pc \in {"sweep", "behind"} /\ transport # None /\ abortRequested
    /\ Goto(f, "returned")
    /\ phase' = IF flow[f].pc = "sweep" THEN "connected" ELSE phase
    /\ UNCHANGED <<method, transport, abortRequested, disconnectedAfterRead, link, listening, overlapped>>

SweepEnds(f) ==
    /\ flow[f].pc = "behind" \/ (flow[f].pc = "sweep" /\ transport = None)
    /\ Goto(f, "returned")
    /\ UNCHANGED <<method, page, link, listening, overlapped>>

SweepSeesDrop(f) ==
    /\ flow[f].pc \in {"sweep", "behind"} /\ transport # None /\ transport \notin link
    /\ HandleDisconnect /\ Goto(f, "returned")
    /\ UNCHANGED <<method, link, listening, overlapped>>

(***************************************************************************)
(* The buttons and the bike.                                               *)
(***************************************************************************)
Cancel ==
    \/ /\ phase = "scanning" /\ GoIdle
       /\ UNCHANGED <<method, flow, link, listening, overlapped>>
    \/ /\ phase = "connecting" /\ abortRequested' = TRUE
       /\ UNCHANGED <<phase, method, transport, disconnectedAfterRead, flow, link, listening, overlapped>>

Disconnect ==
    /\ ShowsConnected
    /\ link' = (IF transport = None THEN link ELSE {}) /\ GoIdle
    /\ UNCHANGED <<method, flow, listening, overlapped>>

LinkDrops == link # {} /\ LinkGoesDown /\ UNCHANGED <<method, flow, listening, overlapped>>

\* The promises a session awaits, the browser's picker apart, settle.
Settles(f) ==
    \/ GattConnects(f) \/ Discovers(f) \/ Handshakes(f)
    \/ \E unpaired \in BOOLEAN : AttemptFails(f, unpaired)
    \/ BackedOff(f) \/ ReadsOnce(f) \/ Subscribes(f) \/ LiveFails(f)
    \/ BikeReady(f) \/ SweepReveals(f) \/ SweepCancelled(f) \/ SweepEnds(f) \/ SweepSeesDrop(f)

Next ==
    \/ \E f \in Flows : \/ \E kind \in Kinds : Connect(f, kind)
                        \/ ReadAgain(f) \/ PickerCancelled(f) \/ Picked(f) \/ Settles(f)
    \/ Cancel \/ Disconnect \/ LinkDrops

Spec == Init /\ [][Next]_vars

FairSpec == Spec /\ \A f \in Flows : WF_vars(Settles(f))

-----------------------------------------------------------------------------
PCs == {"none", "picking", "connecting", "discovering", "handshake", "backoff", "readOnce",
        "subscribing", "waitReady", "sweep", "behind", "threw", "returned"}

TypeOK ==
    /\ phase \in {"idle", "scanning", "connecting", "connected"}
    /\ method \in {"ble", "ble-mcsp"} /\ transport \in Flows \cup {None}
    /\ abortRequested \in BOOLEAN /\ disconnectedAfterRead \in BOOLEAN
    /\ flow \in [Flows -> [kind : {"live", "mcsp", None}, pc : PCs, attempt : 0..MaxAttempts,
                        via : Flows \cup {None}]]
    /\ link \subseteq Flows /\ listening \in BOOLEAN /\ overlapped \in BOOLEAN

(***************************************************************************)
(* The connecting screen of any session ends, however many attempts fail,  *)
(* whatever an older session still running does to the globals, unless the *)
(* warm-up of a sweep throws (module Sweep).                               *)
(***************************************************************************)
ConnectingEnds ==
    (phase = "connecting") ~> (phase # "connecting" \/ \E f \in Flows : flow[f].pc = "threw")

(***************************************************************************)
(* On a page that has only used the live interface, one session at a time, *)
(* the status "BLUETOOTH - CONNECTED" is true whatever failed, dropped or  *)
(* was listened to before: there is a transport and its connection is up.  *)
(***************************************************************************)
LiveStatusIsTrue ==
    ~overlapped /\ (\A f \in Flows : flow[f].kind # "mcsp") /\ ShowsConnected
        => transport # None /\ transport \in link

(***************************************************************************)
(* "Retry the whole connect+discover+subscribe sequence with backoff,      *)
(* disconnecting any half-open link between attempts": an attempt that is  *)
(* to be retried does not end the session.                                 *)
(***************************************************************************)
RetryKeepsSession ==
    [][\A f \in Flows : flow[f].pc \in Opening /\ flow'[f].pc = "backoff" => phase' = phase]_vars
=============================================================================
