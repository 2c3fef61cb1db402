-------------------------- MODULE BleSessionProofs --------------------------
(***************************************************************************)
(* Theorems about BleSession, for any number of attempts and of sessions.  *)
(***************************************************************************)
EXTENDS BleSession, TLAPS

FlowStates == [kind : {"live", "mcsp", None}, pc : PCs, attempt : 0..MaxAttempts, via : Flows \cup {None}]

(* A flow in `backoff` has an attempt left, and those of a sweep belong to *)
(* a session of that kind.                                                 *)
FlowsSound ==
    \A f \in Flows :
        /\ flow[f].pc = "none" => flow[f].kind = None
        /\ flow[f].pc = "backoff" => flow[f].attempt < MaxAttempts
        /\ flow[f].pc \in {"handshake", "waitReady", "sweep", "behind", "threw"} => flow[f].kind = "mcsp"

LEMMA PageDisconnects ==
    ASSUME TypeOK, GoIdle \/ HandleDisconnect \/ LinkGoesDown \/ UNCHANGED page
    PROVE  /\ phase' \in {"idle", phase} /\ transport' \in {None, transport}
           /\ abortRequested' \in BOOLEAN /\ disconnectedAfterRead' \in BOOLEAN
<1>1. CASE GoIdle
  BY <1>1 DEF GoIdle, TypeOK
<1>2. CASE UNCHANGED page
  BY <1>2 DEF page, TypeOK
<1>3. CASE HandleDisconnect
  <2>1. CASE phase = "connected"
    BY <1>3, <2>1 DEF HandleDisconnect, TypeOK
  <2>2. CASE phase # "connected"
    BY <1>1, <1>2, <1>3, <2>2 DEF HandleDisconnect
  <2> QED BY <2>1, <2>2
<1> QED BY <1>1, <1>2, <1>3 DEF LinkGoesDown

(* How the fields of one flow are set.                                     *)
LEMMA FlowFields ==
    ASSUME NEW r \in FlowStates
    PROVE  /\ \A pc \in PCs : LET s == [r EXCEPT !.pc = pc]
                IN s \in FlowStates /\ s.pc = pc /\ s.kind = r.kind /\ s.attempt = r.attempt /\ s.via = r.via
           /\ \A n \in 0..MaxAttempts : LET s == [r EXCEPT !.attempt = n]
                IN s \in FlowStates /\ s.pc = r.pc /\ s.kind = r.kind /\ s.attempt = n /\ s.via = r.via
           /\ \A v \in Flows \cup {None} : LET s == [r EXCEPT !.via = v]
                IN s \in FlowStates /\ s.pc = r.pc /\ s.kind = r.kind /\ s.attempt = r.attempt /\ s.via = v
BY DEF FlowStates

(* A step that moves one flow to another pc of the same session.           *)
Moves(f, s) == flow' = [flow EXCEPT ![f] = s] /\ s \in FlowStates /\ s.kind = flow[f].kind

LEMMA GotoMoves ==
    ASSUME TypeOK, NEW f \in Flows, NEW pc \in PCs, Goto(f, pc)
    PROVE  \E s : Moves(f, s) /\ s.pc = pc /\ s.attempt = flow[f].attempt /\ s.via = flow[f].via
<1> DEFINE s == [flow[f] EXCEPT !.pc = pc]
<1>1. flow \in [Flows -> FlowStates]
  BY DEF TypeOK, FlowStates
<1>2. flow' = [flow EXCEPT ![f] = s]
  BY <1>1 DEF Goto
<1>3. s \in FlowStates /\ s.pc = pc /\ s.kind = flow[f].kind /\ s.attempt = flow[f].attempt /\ s.via = flow[f].via
  BY <1>1, FlowFields
<1> HIDE DEF s
<1> QED BY <1>2, <1>3 DEF Moves

(* Calls returns, or calls a transport whose connection is up.             *)
LEMMA CallsMoves ==
    ASSUME TypeOK, NEW f \in Flows, NEW pc \in PCs, Calls(f, pc)
    PROVE  \E s : /\ Moves(f, s)
                  /\ \/ s.pc = pc /\ transport # None /\ s.via = transport /\ UNCHANGED page
                     \/ s.pc = "returned" /\ GoIdle
<1>1. flow \in [Flows -> FlowStates] /\ transport \in Flows \cup {None} /\ "returned" \in PCs
  BY DEF TypeOK, FlowStates, PCs
<1>2. CASE Speaks(f) /\ (transport = f \/ (Usable(transport) /\ flow[transport].pc # "discovering"))
  <2> DEFINE q == [flow[f] EXCEPT !.pc = pc]
             s == [q EXCEPT !.via = transport]
  <2>1. flow' = [flow EXCEPT ![f] = s] /\ UNCHANGED page /\ transport # None
    BY <1>1, <1>2 DEF Calls, Speaks
  <2>2. q \in FlowStates /\ q.pc = pc /\ q.kind = flow[f].kind
    BY <1>1, FlowFields
  <2> HIDE DEF q
  <2>3. s \in FlowStates /\ s.pc = pc /\ s.kind = flow[f].kind /\ s.via = transport
    BY <1>1, <2>2, FlowFields
  <2> HIDE DEF s
  <2> QED BY <2>1, <2>3 DEF Moves
<1>3. CASE ~(Speaks(f) /\ (transport = f \/ (Usable(transport) /\ flow[transport].pc # "discovering")))
  BY <1>1, <1>3, GotoMoves DEF Calls
<1> QED BY <1>2, <1>3

-----------------------------------------------------------------------------
(* What a settled promise does, as far as the live sessions go.            *)
Settled(f, s) ==
    /\ Moves(f, s) /\ flow[f].pc \notin {"none", "picking", "threw", "returned"} /\ s.pc \notin {"none", "picking"}
    /\ s.pc = "backoff" => s.attempt < MaxAttempts
    /\ s.pc \in {"handshake", "waitReady", "sweep", "behind", "threw"} => s.kind = "mcsp"
    /\ UNCHANGED <<method, overlapped>> /\ link' \subseteq Flows /\ listening' \in {listening, TRUE}
    /\ phase' \in {phase, "idle", "connected"} /\ transport' \in {transport, None}
    /\ abortRequested' \in BOOLEAN /\ disconnectedAfterRead' \in BOOLEAN
    /\ flow[f].kind # "mcsp" /\ phase' = "connected" =>
         \/ /\ flow[f].pc = "subscribing" /\ flow[f].via \in link /\ UNCHANGED <<transport, link>>
            /\ s.pc = "returned" /\ listening'
         \/ phase = "connected"
    /\ s.pc \in {"readOnce", "subscribing"} =>
         s.via = transport /\ s.via # None /\ transport' = transport /\ link' = link

LEMMA SettledStep ==
    ASSUME TypeOK, FlowsSound, NEW f \in Flows, Settles(f)
    PROVE  \E s : Settled(f, s)
<1>1. /\ flow \in [Flows -> FlowStates] /\ flow[f] \in FlowStates /\ link \subseteq Flows
      /\ phase \in {"idle", "scanning", "connecting", "connected"} /\ transport \in Flows \cup {None}
      /\ abortRequested \in BOOLEAN /\ disconnectedAfterRead \in BOOLEAN /\ listening \in BOOLEAN
  BY DEF TypeOK, FlowStates
<1>2. CASE GattConnects(f)
  <2>1. PICK s : Moves(f, s) /\ s.pc = "discovering"
    BY <1>2, GotoMoves DEF GattConnects, PCs
  <2> QED BY <1>1, <1>2, <2>1 DEF GattConnects, Settled, page
<1>3. CASE Discovers(f)
  <2>1. CASE flow[f].kind = "mcsp"
    <3>1. PICK s : Moves(f, s) /\ s.pc = "handshake"
      BY <1>3, <2>1, GotoMoves DEF Discovers, PCs
    <3> QED BY <1>1, <1>3, <2>1, <3>1 DEF Discovers, Settled, Moves, page
  <2>2. CASE flow[f].kind # "mcsp"
    <3>1. PICK s : /\ Moves(f, s)
                   /\ \/ s.pc = "readOnce" /\ transport # None /\ s.via = transport /\ UNCHANGED page
                      \/ s.pc = "returned" /\ GoIdle
      BY <1>3, <2>2, CallsMoves DEF Discovers, PCs
    <3> QED BY <1>1, <1>3, <3>1 DEF Discovers, Settled, GoIdle, page
  <2> QED BY <2>1, <2>2
<1>4. CASE Handshakes(f)
  <2>1. PICK s : Moves(f, s) /\ s.pc \in {"waitReady", "threw"}
    BY <1>4, GotoMoves DEF Handshakes, PCs
  <2>2. flow[f].kind = "mcsp"
    BY <1>4 DEF FlowsSound, Handshakes
  <2> QED BY <1>1, <1>4, <2>1, <2>2 DEF Handshakes, Settled, Moves, page
<1>5. ASSUME NEW unpaired \in BOOLEAN, AttemptFails(f, unpaired) PROVE \E s : Settled(f, s)
  <2>1. CASE unpaired \/ flow[f].attempt = MaxAttempts
    <3>1. PICK s : Moves(f, s) /\ s.pc = "returned"
      BY <1>5, <2>1, GotoMoves DEF AttemptFails, PCs
    <3> QED BY <1>1, <1>5, <2>1, <3>1 DEF AttemptFails, Settled, GoIdle, Opening
  <2>2. CASE ~(unpaired \/ flow[f].attempt = MaxAttempts)
    <3>1. PICK s : Moves(f, s) /\ s.pc = "backoff" /\ s.attempt = flow[f].attempt
      BY <1>5, <2>2, GotoMoves DEF AttemptFails, PCs
    <3>2. s.attempt < MaxAttempts
      BY <1>1, <2>2, <3>1, BoundsAssumption DEF FlowStates
    <3>3. /\ phase' \in {"idle", phase} /\ transport' \in {None, transport}
          /\ abortRequested' \in BOOLEAN /\ disconnectedAfterRead' \in BOOLEAN /\ link' = {}
      BY <1>5, <2>2, PageDisconnects DEF AttemptFails, LinkGoesDown
    <3> QED BY <1>1, <1>5, <3>1, <3>2, <3>3 DEF AttemptFails, Settled, Opening
  <2> QED BY <2>1, <2>2
<1>6. CASE BackedOff(f)
  <2> DEFINE q == [flow[f] EXCEPT !.pc = "connecting"]
             s == [q EXCEPT !.attempt = flow[f].attempt + 1]
  <2>1. flow[f].attempt + 1 \in 0..MaxAttempts
    BY <1>1, <1>6, BoundsAssumption DEF FlowsSound, BackedOff, FlowStates
  <2>2. q \in FlowStates /\ q.pc = "connecting" /\ q.kind = flow[f].kind
    BY <1>1, FlowFields DEF PCs
  <2>3. flow' = [flow EXCEPT ![f] = s]
    BY <1>1, <1>6 DEF BackedOff
  <2> HIDE DEF q
  <2>4. s \in FlowStates /\ s.pc = "connecting" /\ s.kind = flow[f].kind
    BY <2>1, <2>2, FlowFields
  <2> HIDE DEF s
  <2> QED BY <1>1, <1>6, <2>3, <2>4 DEF BackedOff, Settled, Moves, page
<1>7. CASE ReadsOnce(f)
  <2>1. PICK s : /\ Moves(f, s)
                 /\ \/ s.pc = "subscribing" /\ transport # None /\ s.via = transport /\ UNCHANGED page
                    \/ s.pc = "returned" /\ GoIdle
    BY <1>7, CallsMoves DEF ReadsOnce, PCs
  <2> QED BY <1>1, <1>7, <2>1 DEF ReadsOnce, Settled, GoIdle, page
<1>8. CASE Subscribes(f)
  <2>1. PICK s : Moves(f, s) /\ s.pc = "returned"
    BY <1>8, GotoMoves DEF Subscribes, PCs
  <2> QED BY <1>1, <1>8, <2>1 DEF Subscribes, Settled
<1>9. CASE LiveFails(f)
  <2>1. PICK s : Moves(f, s) /\ s.pc = "returned"
    BY <1>9, GotoMoves DEF LiveFails, PCs
  <2> QED BY <1>1, <1>9, <2>1 DEF LiveFails, Settled, GoIdle
<1>10. CASE BikeReady(f)
  <2>1. PICK s : Moves(f, s) /\ s.pc \in {"sweep", "threw"}
    BY <1>10, GotoMoves DEF BikeReady, PCs
  <2>2. flow[f].kind = "mcsp"
    BY <1>10 DEF FlowsSound, BikeReady
  <2> QED BY <1>1, <1>10, <2>1, <2>2 DEF BikeReady, Settled, Moves, page
<1>11. CASE SweepReveals(f) \/ SweepCancelled(f) \/ SweepEnds(f) \/ SweepSeesDrop(f)
  <2>1. flow[f].pc \in {"sweep", "behind"} /\ flow[f].kind = "mcsp"
    BY <1>11 DEF FlowsSound, SweepReveals, SweepCancelled, SweepEnds, SweepSeesDrop
  <2>2. PICK s : Moves(f, s) /\ s.pc \in {"behind", "returned"}
    BY <1>11, GotoMoves DEF SweepReveals, SweepCancelled, SweepEnds, SweepSeesDrop, PCs
  <2>3. UNCHANGED <<method, link, listening, overlapped>>
    BY <1>11 DEF SweepReveals, SweepCancelled, SweepEnds, SweepSeesDrop
  <2>4. /\ phase' \in {phase, "idle", "connected"} /\ transport' \in {transport, None}
        /\ abortRequested' \in BOOLEAN /\ disconnectedAfterRead' \in BOOLEAN
    <3>1. CASE SweepReveals(f) \/ SweepCancelled(f) \/ SweepEnds(f)
      BY <1>1, <3>1 DEF SweepReveals, SweepCancelled, SweepEnds, page
    <3>2. CASE SweepSeesDrop(f)
      BY <3>2, PageDisconnects DEF SweepSeesDrop
    <3> QED BY <1>11, <3>1, <3>2
  <2> QED BY <1>1, <2>1, <2>2, <2>3, <2>4 DEF Settled, Moves
<1> QED BY <1>2, <1>3, <1>4, <1>5, <1>6, <1>7, <1>8, <1>9, <1>10, <1>11 DEF Settles

-----------------------------------------------------------------------------
(* One live session at a time: a dashboard is shown by no session that is  *)
(* still running, the disconnect of its link is listened to, and a session *)
(* about to show one speaks over the transport the page holds, unless its  *)
(* link is lost.                                                           *)
Running(f) == flow[f].pc \notin {"none", "threw", "returned"}

LiveOnly == ~overlapped /\ \A f \in Flows : flow[f].kind # "mcsp"

LiveInv ==
    LiveOnly =>
        /\ \A f, g \in Flows : Running(f) /\ Running(g) => f = g
        /\ phase = "connected" =>
             /\ listening /\ \A f \in Flows : ~Running(f)
             /\ ~disconnectedAfterRead => transport # None /\ transport \in link
        /\ phase = "scanning" => \A f \in Flows : Running(f) => flow[f].pc = "picking"
        /\ \A f \in Flows : flow[f].pc \in {"readOnce", "subscribing"} /\ flow[f].via \in link =>
             transport = flow[f].via /\ flow[f].via # None

Inv == TypeOK /\ FlowsSound /\ LiveInv

LEMMA InitInv == Init => Inv
<1> SUFFICES ASSUME Init PROVE Inv
  OBVIOUS
<1>1. TypeOK
  <2>1. NotStarted \in FlowStates
    BY BoundsAssumption DEF NotStarted, FlowStates, PCs
  <2>2. flow \in [Flows -> FlowStates]
    BY <2>1 DEF Init
  <2> QED BY <2>2 DEF Init, TypeOK, FlowStates
<1>2. FlowsSound /\ LiveInv
  BY DEF Init, NotStarted, FlowsSound, LiveInv, Running
<1> QED BY <1>1, <1>2 DEF Inv

LEMMA SettledKeeps ==
    ASSUME Inv, NEW f \in Flows, Settles(f)
    PROVE  Inv'
<1>1. PICK s : Settled(f, s)
  BY SettledStep DEF Inv
<1>2. /\ flow'[f] = s /\ s \in FlowStates /\ s.kind = flow[f].kind
      /\ \A g \in Flows \ {f} : flow'[g] = flow[g]
      /\ flow' \in [Flows -> FlowStates]
  BY <1>1 DEF Settled, Moves, Inv, TypeOK, FlowStates
<1>3. TypeOK'
  BY <1>1, <1>2 DEF Inv, TypeOK, Settled, FlowStates
<1>4. FlowsSound'
  BY <1>1, <1>2 DEF Inv, FlowsSound, Settled
<1>5. LiveInv'
  <2> SUFFICES ASSUME LiveOnly' PROVE LiveInv'
    BY DEF LiveInv
  <2>1. LiveOnly /\ flow[f].kind # "mcsp"
    BY <1>1, <1>2 DEF LiveOnly, Settled
  <2>2. Running(f) /\ flow[f].pc # "picking" /\ s.pc # "picking"
    BY <1>1 DEF Settled, Running
  <2>3. phase # "scanning" /\ phase # "connected" /\ \A g \in Flows \ {f} : ~Running(g)
    BY <2>1, <2>2 DEF Inv, LiveInv
  <2>4. \A g \in Flows \ {f} : ~Running(g)'
    BY <1>2, <2>3 DEF Running
  <2>5. \A g, h \in Flows : Running(g)' /\ Running(h)' => g = h
    BY <2>4
  <2>6. phase' # "scanning"
    BY <1>1, <2>3 DEF Settled
  <2>7. \A g \in Flows : flow'[g].pc \in {"readOnce", "subscribing"} /\ flow'[g].via \in link' =>
             transport' = flow'[g].via /\ flow'[g].via # None
    BY <1>1, <1>2, <2>4 DEF Settled, Running
  <2>8. phase' = "connected" =>
             /\ listening' /\ \A g \in Flows : ~Running(g)'
             /\ transport' # None /\ transport' \in link'
    <3> SUFFICES ASSUME phase' = "connected"
                 PROVE  /\ listening' /\ \A g \in Flows : ~Running(g)'
                        /\ transport' # None /\ transport' \in link'
      OBVIOUS
    <3>1. /\ flow[f].pc = "subscribing" /\ flow[f].via \in link /\ UNCHANGED <<transport, link>>
          /\ s.pc = "returned" /\ listening'
      BY <1>1, <2>1, <2>3 DEF Settled
    <3>2. transport = flow[f].via /\ flow[f].via # None
      BY <2>1, <3>1 DEF Inv, LiveInv
    <3> QED BY <1>2, <2>4, <3>1, <3>2 DEF Running
  <2> QED BY <2>5, <2>6, <2>7, <2>8 DEF LiveInv
<1> QED BY <1>3, <1>4, <1>5 DEF Inv

LEMMA LaunchKeeps ==
    ASSUME Inv, NEW f \in Flows, (\E kind \in Kinds : Connect(f, kind)) \/ ReadAgain(f)
    PROVE  Inv'
<1>1. PICK kind \in Kinds : Launch(f, kind)
  BY DEF Connect, ReadAgain
<1> DEFINE s == [NotStarted EXCEPT !.kind = kind, !.pc = "picking"]
<1>2. s \in FlowStates /\ s.kind = kind /\ s.pc = "picking" /\ kind \in {"live", "mcsp"}
  <2>1. kind \in {"live", "mcsp"} /\ 0 \in 0..MaxAttempts
    BY BoundsAssumption, KindsAssumption
  <2> DEFINE q == [NotStarted EXCEPT !.kind = kind]
  <2>2. q = [kind |-> kind, pc |-> "none", attempt |-> 0, via |-> None]
    BY DEF NotStarted
  <2>3. q \in FlowStates /\ q.kind = kind
    BY <2>1, <2>2 DEF FlowStates, PCs
  <2>4. s = [q EXCEPT !.pc = "picking"]
    OBVIOUS
  <2> HIDE DEF q, s
  <2> QED BY <2>1, <2>3, <2>4, FlowFields DEF PCs
<1>3. flow' = [flow EXCEPT ![f] = s] /\ flow[f].pc = "none" /\ flow \in [Flows -> FlowStates]
  BY <1>1 DEF Launch, Connect, ReadAgain, NextFlow, Started, Inv, TypeOK, FlowStates
<1> HIDE DEF s
<1>4. flow'[f] = s /\ flow' \in [Flows -> FlowStates] /\ \A g \in Flows \ {f} : flow'[g] = flow[g]
  BY <1>2, <1>3
<1>5. /\ method' \in {"ble", "ble-mcsp"} /\ transport' \in Flows \cup {None} /\ link' \subseteq Flows
      /\ UNCHANGED listening
  BY DEF Connect, ReadAgain, Inv, TypeOK
<1>6. /\ phase' \in {phase, "scanning"} /\ abortRequested' \in BOOLEAN /\ disconnectedAfterRead' = FALSE
      /\ kind = "live" => phase' = "scanning"
  BY <1>1 DEF Launch, Inv, TypeOK
<1>7. overlapped' \in BOOLEAN /\ (overlapped => overlapped')
      /\ (~overlapped' => \A g \in Flows : ~Running(g))
  BY <1>1 DEF Launch, Running, Inv, TypeOK
<1>8. TypeOK'
  BY <1>4, <1>5, <1>6, <1>7 DEF TypeOK, Inv, FlowStates
<1>9. FlowsSound'
  BY <1>2, <1>4 DEF FlowsSound, Inv
<1>10. LiveInv'
  <2> SUFFICES ASSUME LiveOnly' PROVE LiveInv'
    BY DEF LiveInv
  <2>1. kind = "live" /\ \A g \in Flows : ~Running(g)
    BY <1>2, <1>4, <1>7 DEF LiveOnly
  <2>2. \A g \in Flows : Running(g)' => g = f
    BY <1>4, <2>1 DEF Running
  <2>3. phase' = "scanning" /\ \A g \in Flows : Running(g)' => flow'[g].pc = "picking"
    BY <1>2, <1>4, <1>6, <2>1, <2>2
  <2> QED BY <2>2, <2>3 DEF LiveInv, Running
<1> QED BY <1>8, <1>9, <1>10 DEF Inv

(* The picker, which belongs to a session that is running.                 *)
LEMMA PickerKeeps ==
    ASSUME Inv, NEW f \in Flows, PickerCancelled(f) \/ Picked(f)
    PROVE  Inv'
<1>1. flow \in [Flows -> FlowStates] /\ flow[f] \in FlowStates /\ flow[f].pc = "picking"
  BY DEF Inv, TypeOK, FlowStates, PickerCancelled, Picked
<1>2. \E s : /\ Moves(f, s) /\ s.pc \in {"returned", "connecting"}
             /\ s.pc = "connecting" => phase' = "connecting"
  <2>1. CASE Goto(f, "returned")
    <3>1. PICK s : Moves(f, s) /\ s.pc = "returned"
      BY <2>1, GotoMoves DEF Inv, PCs
    <3> QED BY <3>1
  <2>2. CASE flow' = [flow EXCEPT ![f].pc = "connecting", ![f].attempt = 1] /\ phase' = "connecting"
    <3> DEFINE q == [flow[f] EXCEPT !.pc = "connecting"]
               s == [q EXCEPT !.attempt = 1]
    <3>1. flow' = [flow EXCEPT ![f] = s]
      BY <1>1, <2>2
    <3>2. q \in FlowStates /\ q.pc = "connecting" /\ q.kind = flow[f].kind
      BY <1>1, FlowFields DEF PCs
    <3>3. 1 \in 0..MaxAttempts
      BY BoundsAssumption
    <3> HIDE DEF q
    <3>4. s \in FlowStates /\ s.pc = "connecting" /\ s.kind = flow[f].kind
      BY <3>2, <3>3, FlowFields
    <3> HIDE DEF s
    <3> QED BY <2>2, <3>1, <3>4 DEF Moves
  <2> QED BY <2>1, <2>2 DEF PickerCancelled, Picked
<1>3. PICK s : /\ Moves(f, s) /\ s.pc \in {"returned", "connecting"}
               /\ s.pc = "connecting" => phase' = "connecting"
  BY <1>2
<1>4. /\ flow'[f] = s /\ s \in FlowStates /\ s.kind = flow[f].kind
      /\ \A g \in Flows \ {f} : flow'[g] = flow[g]
      /\ flow' \in [Flows -> FlowStates]
  BY <1>1, <1>3 DEF Moves
<1>5. /\ UNCHANGED <<link, listening, overlapped>> /\ method' \in {method, "ble-mcsp"}
      /\ phase' \in {phase, "idle", "connecting"} /\ transport' \in {None, f, transport}
      /\ abortRequested' \in BOOLEAN /\ disconnectedAfterRead' \in BOOLEAN
      /\ flow[f].kind # "live" \/ phase' \in {"idle", "connecting"}
  <2>1. CASE PickerCancelled(f)
    BY <2>1 DEF PickerCancelled, GoIdle, page, Inv, TypeOK
  <2>2. CASE Picked(f)
    BY <2>2 DEF Picked, GoIdle, Inv, TypeOK
  <2> QED BY <2>1, <2>2
<1>6. TypeOK'
  BY <1>4, <1>5 DEF Inv, TypeOK, FlowStates
<1>7. FlowsSound'
  BY <1>3, <1>4 DEF Inv, FlowsSound
<1>8. LiveInv'
  <2> SUFFICES ASSUME LiveOnly' PROVE LiveInv'
    BY DEF LiveInv
  <2>1. LiveOnly /\ flow[f].kind # "mcsp"
    BY <1>4, <1>5 DEF LiveOnly
  <2>2. Running(f) /\ \A g \in Flows \ {f} : ~Running(g)
    BY <1>1, <2>1 DEF Inv, LiveInv, Running
  <2>3. \A g \in Flows \ {f} : ~Running(g)'
    BY <1>4, <2>2 DEF Running
  <2>4. phase # "connected"
    BY <2>1, <2>2 DEF Inv, LiveInv
  <2>5. phase' # "connected"
    BY <1>5, <2>4
  <2>6. phase' = "scanning" => s.pc = "returned"
    BY <1>3
  <2> QED BY <1>3, <1>4, <2>3, <2>5, <2>6 DEF LiveInv, Running
<1> QED BY <1>6, <1>7, <1>8 DEF Inv

LEMMA StepInv == Inv /\ [Next]_vars => Inv'
<1> SUFFICES ASSUME Inv, [Next]_vars PROVE Inv'
  OBVIOUS
<1>1. ASSUME NEW f \in Flows,
             (\E kind \in Kinds : Connect(f, kind)) \/ ReadAgain(f) \/ PickerCancelled(f) \/ Picked(f) \/ Settles(f)
      PROVE  Inv'
  BY <1>1, LaunchKeeps, PickerKeeps, SettledKeeps
<1>2. CASE Cancel \/ Disconnect
  <2>1. /\ UNCHANGED <<method, flow, listening, overlapped>> /\ link' \subseteq Flows /\ phase # "idle"
        /\ \/ phase = "connecting" /\ UNCHANGED <<phase, transport, disconnectedAfterRead, link>>
              /\ abortRequested' = TRUE
           \/ phase \in {"scanning", "connected"} /\ GoIdle
    BY <1>2 DEF Cancel, Disconnect, ShowsConnected, Inv, TypeOK
  <2>2. TypeOK' /\ FlowsSound'
    BY <2>1 DEF GoIdle, Inv, TypeOK, FlowsSound
  <2>3. LiveInv'
    BY <2>1 DEF GoIdle, Inv, LiveInv, LiveOnly, Running
  <2> QED BY <2>2, <2>3 DEF Inv
<1>3. CASE LinkDrops
  <2>1. /\ UNCHANGED <<method, flow, listening, overlapped>> /\ link' = {} /\ link # {}
        /\ IF listening THEN HandleDisconnect ELSE UNCHANGED page
    BY <1>3 DEF LinkDrops, LinkGoesDown
  <2>2. /\ phase' \in {"idle", phase} /\ transport' \in {None, transport}
        /\ abortRequested' \in BOOLEAN /\ disconnectedAfterRead' \in BOOLEAN
    BY <2>1, PageDisconnects DEF Inv
  <2>3. TypeOK' /\ FlowsSound'
    BY <2>1, <2>2 DEF Inv, TypeOK, FlowsSound
  <2>4. listening /\ phase = "connected" => disconnectedAfterRead'
    BY <2>1 DEF HandleDisconnect
  <2>5. LiveInv'
    BY <2>1, <2>2, <2>4 DEF Inv, LiveInv, LiveOnly, Running
  <2> QED BY <2>3, <2>5 DEF Inv
<1>4. CASE UNCHANGED vars
  BY <1>4 DEF vars, Inv, TypeOK, FlowsSound, LiveInv, LiveOnly, Running
<1> QED BY <1>1, <1>2, <1>3, <1>4 DEF Next

LEMMA Invariance == Spec => []Inv
BY InitInv, StepInv, PTL DEF Spec

(* Type correctness.                                                       *)
THEOREM TypeCorrect == Spec => []TypeOK
<1>1. Inv => TypeOK
  BY DEF Inv
<1> QED BY <1>1, Invariance, PTL

(* The status of a live session is true whatever failed, dropped or was    *)
(* listened to before, for any number of attempts and sessions, as long as *)
(* they are live ones and do not overlap.                                  *)
THEOREM ConnectedMeansConnected == Spec => []LiveStatusIsTrue
<1>1. Inv => LiveStatusIsTrue
  BY DEF Inv, LiveInv, LiveOnly, LiveStatusIsTrue, ShowsConnected
<1> QED BY <1>1, Invariance, PTL

=============================================================================
