---------------------------- MODULE BridgeProofs ----------------------------
(***************************************************************************)
(* Theorems about Bridge, for either host, any callers and frame lengths   *)
(* and any number of frames, handshakes, polls and tries.                  *)
(***************************************************************************)
EXTENDS Bridge, SequenceTheorems, TLAPS

PCs == {"none"} \cup Sending \cup Receiving
CallStates == [pc : PCs, tries : Nat, frame : Nat \cup {None}, clean : BOOLEAN]
Forwards == [id : Ids, whole : BOOLEAN, clean : BOOLEAN]

(* TypeOK, with the domains of the functions and what a call carries.      *)
Limit(s) == IF s.pc \in Receiving THEN MaxPolls ELSE MaxTries

Sound(s) ==
    /\ s \in CallStates /\ s.tries < Limit(s)
    /\ s.pc \in Sending => s.frame \in Ids
    /\ s.pc \in {"confirm", "unconfirmed"} => s.frame \in 1..MaxArrivals

CallsTyped == call \in [Callers -> CallStates] /\ \A c \in Callers : Sound(call[c])

OpeningTyped ==
    /\ host \in Hosts /\ step \in Nat /\ drained \in Nat
    /\ stage \in {"configure", "greet", "drain", "open", "failed", "closed"}

BusTyped ==
    /\ size \in Nat /\ out \in {"idle", "busy", "done", "failed"} /\ configured \in BOOLEAN
    /\ pending \in Forwards \cup {None} /\ carried \in Forwards \cup {None}
    /\ writes \in 0..MaxWrites

InboxTyped ==
    /\ inbox \in Seq(1..MaxArrivals) /\ arrived \in 0..MaxArrivals
    /\ got \in [Callers -> Nat \cup {None}]

(* A call that is clean overlaps no other of its direction.                *)
Overlap(s, t) == (s.pc \in Sending /\ t.pc \in Sending) \/ (s.pc \in Receiving /\ t.pc \in Receiving)

Alone == \A c, d \in Callers : c # d /\ call[c].clean => ~Overlap(call[c], call[d])

(* So what the bridge holds for a clean write is its own,                  *)
Carries(s) ==
    \/ out = "busy" /\ pending # None /\ pending.id = s.frame
    \/ out = "failed"
    \/ out = "done" /\ carried # None /\ carried.id = s.frame

OwnSize == \A c \in Callers : call[c].pc = "bulk" /\ call[c].clean => size = Length[c]
OwnFrame == \A c \in Callers : configured /\ call[c].pc = "ack" /\ call[c].clean => Carries(call[c])
Whole == \A f \in {pending, carried} : f # None /\ f.clean => f.whole

(* ... and what a clean read has fetched is the frame it will confirm.     *)
OwnHead ==
    \A c \in Callers : call[c].clean =>
        /\ call[c].pc # "unconfirmed"
        /\ call[c].pc = "confirm" => inbox # <<>> /\ call[c].frame = Head(inbox)

Inv == OpeningTyped /\ CallsTyped /\ BusTyped /\ InboxTyped /\ Alone /\ OwnSize /\ OwnFrame /\ Whole /\ OwnHead

LEMMA InitInv == Init => Inv
<1> SUFFICES ASSUME Init PROVE Inv
  OBVIOUS
<1> USE CallersAssumption, BoundsAssumption DEF Init
<1>1. OpeningTyped
  BY DEF OpeningTyped
<1>2. Idle \in CallStates /\ Idle.pc = "none" /\ Sound(Idle)
  BY DEF Idle, CallStates, PCs, Sending, Receiving, Sound, Limit
<1>3. CallsTyped
  BY <1>2 DEF CallsTyped
<1>4. BusTyped
  <2>1. configured \in BOOLEAN
    OBVIOUS
  <2>2. size \in Nat /\ writes \in 0..MaxWrites
    OBVIOUS
  <2> QED BY <2>1, <2>2, Zenon DEF BusTyped
<1>5. InboxTyped
  BY DEF InboxTyped
<1>6. Alone /\ OwnSize /\ OwnFrame /\ Whole /\ OwnHead
  BY <1>2 DEF Alone, Overlap, OwnSize, OwnFrame, Whole, OwnHead, Sending, Receiving
<1> QED BY <1>1, <1>3, <1>4, <1>5, <1>6 DEF Inv

-----------------------------------------------------------------------------
(* A transfer moves one call, forward or to its end, and never makes it    *)
(* clean again.                                                            *)
Moved(c, s) ==
    /\ call' = [call EXCEPT ![c] = s] /\ Sound(s)
    /\ \/ s = Idle
       \/ /\ s.pc \in Sending => call[c].pc \in Sending
          /\ s.pc \in Receiving => call[c].pc \in Receiving
          /\ s.clean => call[c].clean

Quiet == UNCHANGED <<configured, arrived, writes>>

LEMMA GoOnTyped ==
    ASSUME OpeningTyped, NEW outcome, GoOn(outcome) \/ UNCHANGED opening
    PROVE  OpeningTyped'
<1>1. CASE UNCHANGED opening
  BY <1>1 DEF OpeningTyped, opening
<1>2. CASE GoOn(outcome)
  <2>1. CASE stage \notin {"greet", "drain"}
    BY <1>2, <2>1 DEF GoOn, OpeningTyped, opening
  <2>2. CASE stage = "greet"
    BY <1>2, <2>2 DEF GoOn, OpeningTyped, opening
  <2>3. CASE stage = "drain"
    <3>1. CASE outcome = "threw"
      BY <1>2, <2>3, <3>1 DEF GoOn, OpeningTyped
    <3>2. CASE outcome # "threw" /\ outcome = "frame" /\ drained + 1 < MaxDrain
      BY <1>2, <2>3, <3>2 DEF GoOn, OpeningTyped
    <3>3. CASE outcome # "threw" /\ ~(outcome = "frame" /\ drained + 1 < MaxDrain)
      BY <1>2, <2>3, <3>3 DEF GoOn, OpeningTyped
    <3> QED BY <3>1, <3>2, <3>3
  <2> QED BY <2>1, <2>2, <2>3
<1> QED BY <1>1, <1>2

LEMMA MovedTyped ==
    ASSUME CallsTyped, Alone, NEW c \in Callers, NEW s, Moved(c, s)
    PROVE  CallsTyped' /\ Alone' /\ call'[c] = s /\ \A d \in Callers \ {c} : call'[d] = call[d]
<1>1. call'[c] = s /\ \A d \in Callers \ {c} : call'[d] = call[d]
  BY DEF Moved, CallsTyped
<1>2. CallsTyped'
  BY <1>1 DEF Moved, CallsTyped, Sound
<1>3. Idle.pc = "none"
  BY DEF Idle
<1>4. Alone'
  <2> SUFFICES ASSUME NEW a \in Callers, NEW b \in Callers, a # b, call'[a].clean
               PROVE  ~Overlap(call'[a], call'[b])
    BY DEF Alone, Overlap
  <2>1. CASE a # c /\ b # c
    BY <1>1, <2>1 DEF Alone
  <2>2. CASE s = Idle
    BY <1>1, <1>3, <2>1, <2>2 DEF Overlap, Sending, Receiving
  <2>3. CASE a = c /\ s # Idle
    <3>1. call[a].clean /\ ~Overlap(call[a], call[b])
      BY <1>1, <2>3 DEF Moved, Alone
    <3> QED BY <1>1, <2>3, <3>1 DEF Moved, Overlap
  <2>4. CASE b = c /\ s # Idle
    <3>1. ~Overlap(call[a], call[b])
      BY <1>1, <2>4 DEF Moved, Alone
    <3> QED BY <1>1, <2>4, <3>1 DEF Moved, Overlap
  <2> QED BY <2>1, <2>2, <2>3, <2>4
<1> QED BY <1>1, <1>2, <1>4

(* What the step of a call may do to the bridge's outbound side,           *)
ToBus(c, s) ==
    \/ /\ UNCHANGED outbound
       /\ s.pc \in {"bulk", "ack"} /\ s.clean =>
            call[c].clean /\ s.pc = call[c].pc /\ s.frame = call[c].frame
    \/ call[c].pc = "announce" /\ TakeSize(c) /\ s.pc \in {"bulk", "none"}
    \/ /\ call[c].pc = "bulk" /\ TakeFrame(c) /\ s.pc \in {"ack", "none"}
       /\ s.pc = "ack" => s.frame = call[c].frame

LEMMA BusStep ==
    ASSUME Inv, NEW c \in Callers, NEW s, Moved(c, s), Quiet, ToBus(c, s)
    PROVE  BusTyped' /\ OwnSize' /\ OwnFrame' /\ Whole'
<1> USE DEF Inv
<1>1. call'[c] = s /\ \A d \in Callers \ {c} : call'[d] = call[d]
  BY MovedTyped
<1>2. call[c] \in CallStates /\ Sound(call[c]) /\ c \in Callers /\ Length[c] \in Nat
  BY CallersAssumption DEF CallsTyped
<1>3. CASE UNCHANGED outbound /\ (s.pc \in {"bulk", "ack"} /\ s.clean =>
                call[c].clean /\ s.pc = call[c].pc /\ s.frame = call[c].frame)
  <2>1. BusTyped' /\ Whole'
    BY <1>3 DEF BusTyped, Whole, outbound, Quiet
  <2>2. OwnSize'
    BY <1>1, <1>3 DEF OwnSize, outbound
  <2>3. OwnFrame'
    BY <1>1, <1>3 DEF OwnFrame, Carries, outbound, Quiet
  <2> QED BY <2>1, <2>2, <2>3
<1>4. CASE call[c].pc = "announce" /\ TakeSize(c) /\ s.pc \in {"bulk", "none"}
  <2>1. BusTyped' /\ Whole'
    BY <1>2, <1>4 DEF BusTyped, Whole, TakeSize, Quiet
  <2>2. \A d \in Callers \ {c} : ~(call[d].pc = "bulk" /\ call[d].clean)
    BY <1>4 DEF Alone, Overlap, Sending
  <2>3. OwnSize'
    BY <1>1, <1>4, <2>2 DEF OwnSize, TakeSize
  <2>4. OwnFrame'
    BY <1>1, <1>4 DEF OwnFrame, Carries, TakeSize, Quiet
  <2> QED BY <2>1, <2>3, <2>4
<1>5. CASE /\ call[c].pc = "bulk" /\ TakeFrame(c) /\ s.pc \in {"ack", "none"}
           /\ s.pc = "ack" => s.frame = call[c].frame
  <2>1. call[c].frame \in Ids /\ call[c].clean \in BOOLEAN
    BY <1>2, <1>5 DEF Sound, Sending, CallStates
  <2>2. pending' \in Forwards /\ out' = "busy" /\ UNCHANGED <<size, carried>> /\ pending'.id = call[c].frame
    BY <1>5, <2>1 DEF TakeFrame, Forwards
  <2>3. pending'.clean = call[c].clean /\ pending'.whole = (size = Length[c])
    BY <1>5 DEF TakeFrame
  <2>4. pending' # None
    <3>1. Forwards \subseteq [id : Nat, whole : BOOLEAN, clean : BOOLEAN]
      BY DEF Forwards, Ids
    <3> QED BY <2>2, <3>1, CallersAssumption
  <2>5. BusTyped'
    BY <2>2 DEF BusTyped, Quiet
  <2>6. Whole'
    BY <1>2, <1>5, <2>2, <2>3 DEF Whole, OwnSize
  <2>7. OwnSize'
    BY <1>1, <1>5, <2>2 DEF OwnSize
  <2>8. \A d \in Callers \ {c} : ~(call[d].pc = "ack" /\ call[d].clean)
    BY <1>5 DEF Alone, Overlap, Sending
  <2>9. OwnFrame'
    BY <1>1, <1>5, <2>2, <2>4, <2>8 DEF OwnFrame, Carries
  <2> QED BY <2>5, <2>6, <2>7, <2>9
<1> QED BY <1>3, <1>4, <1>5 DEF ToBus

(* ... and to its inbox.                                                   *)
ToInbox(c, s) ==
    \/ /\ UNCHANGED inbox
       /\ s.clean /\ s.pc \in {"confirm", "unconfirmed"} =>
            s.pc = "confirm" /\ inbox # <<>> /\ s.frame = Head(inbox)
    \/ call[c].pc = "confirm" /\ TakeDone /\ s = Idle

GotStep(c) == got' = got \/ \E v \in Nat \cup {None} : got' = [got EXCEPT ![c] = v]

LEMMA InboxStep ==
    ASSUME Inv, NEW c \in Callers, NEW s, Moved(c, s), Quiet, ToInbox(c, s), GotStep(c)
    PROVE  InboxTyped' /\ OwnHead'
<1> USE DEF Inv
<1>1. call'[c] = s /\ \A d \in Callers \ {c} : call'[d] = call[d]
  BY MovedTyped
<1>2. got' \in [Callers -> Nat \cup {None}] /\ arrived' \in 0..MaxArrivals
  BY DEF InboxTyped, GotStep, Quiet
<1>3. CASE UNCHANGED inbox /\ (s.clean /\ s.pc \in {"confirm", "unconfirmed"} =>
                s.pc = "confirm" /\ inbox # <<>> /\ s.frame = Head(inbox))
  <2>1. InboxTyped'
    BY <1>2, <1>3 DEF InboxTyped
  <2>2. OwnHead'
    BY <1>1, <1>3 DEF OwnHead
  <2> QED BY <2>1, <2>2
<1>4. CASE call[c].pc = "confirm" /\ TakeDone /\ s = Idle
  <2>1. inbox' \in Seq(1..MaxArrivals)
    <3>1. inbox \in Seq(1..MaxArrivals)
      BY DEF InboxTyped
    <3>2. inbox # <<>> => Tail(inbox) \in Seq(1..MaxArrivals)
      BY <3>1, HeadTailProperties
    <3> QED BY <1>4, <3>1, <3>2 DEF TakeDone
  <2>2. \A d \in Callers \ {c} : call[d].clean => call[d].pc \notin {"confirm", "unconfirmed"}
    BY <1>4 DEF Alone, Overlap, Receiving
  <2>3. s.pc = "none"
    BY <1>4 DEF Idle
  <2>4. OwnHead'
    BY <1>1, <2>2, <2>3 DEF OwnHead
  <2> QED BY <1>2, <2>1, <2>4 DEF InboxTyped
<1> QED BY <1>3, <1>4 DEF ToInbox

(* Every transfer, and every rejected one, is such a step.                 *)
OpeningStep == UNCHANGED opening \/ \E outcome : GoOn(outcome)

Effect(c, s) == Moved(c, s) /\ Quiet /\ ToBus(c, s) /\ ToInbox(c, s) /\ GotStep(c) /\ OpeningStep

LEMMA EffectKeeps ==
    ASSUME Inv, NEW c \in Callers, NEW s, Effect(c, s)
    PROVE  Inv'
<1>1. OpeningTyped'
  BY GoOnTyped DEF Inv, Effect, OpeningStep
<1>2. CallsTyped' /\ Alone'
  BY MovedTyped DEF Inv, Effect
<1>3. BusTyped' /\ OwnSize' /\ OwnFrame' /\ Whole'
  BY BusStep DEF Effect
<1>4. InboxTyped' /\ OwnHead'
  BY InboxStep DEF Effect
<1> QED BY <1>1, <1>2, <1>3, <1>4 DEF Inv

(* A call with one of its fields changed.                                  *)
Same(s, r, fields) == \A x \in {"pc", "tries", "frame", "clean"} \ fields : s[x] = r[x]

LEMMA CallFields ==
    ASSUME NEW r \in CallStates
    PROVE  /\ \A pc \in PCs : LET s == [r EXCEPT !.pc = pc]
                               IN s \in CallStates /\ s.pc = pc /\ Same(s, r, {"pc"})
           /\ \A n \in Nat : LET s == [r EXCEPT !.tries = n]
                              IN s \in CallStates /\ s.tries = n /\ Same(s, r, {"tries"})
           /\ \A f \in Nat : LET s == [r EXCEPT !.frame = f]
                              IN s \in CallStates /\ s.frame = f /\ Same(s, r, {"frame"})
           /\ LET s == [r EXCEPT !.clean = FALSE]
              IN s \in CallStates /\ s.clean = FALSE /\ Same(s, r, {"clean"})
BY DEF CallStates, Same

LEMMA TransferEffect ==
    ASSUME Inv, NEW c \in Callers, Transfer(c) \/ Throw(c)
    PROVE  \E s : Effect(c, s)
<1> DEFINE r == call[c]
<1>1. r \in CallStates /\ Sound(r) /\ call \in [Callers -> CallStates]
  BY DEF Inv, CallsTyped
<1>2. Sound(Idle) /\ Idle.pc = "none"
  BY BoundsAssumption, CallersAssumption
     DEF Idle, Sound, CallStates, PCs, Sending, Receiving, Limit
<1>3. ASSUME NEW outcome, Leave(c, outcome) PROVE Moved(c, Idle) /\ OpeningStep
  BY <1>2, <1>3 DEF Moved, OpeningStep, Leave
<1>4. ASSUME NEW pc \in PCs \ {"none"}, Goto(c, pc), pc \in Sending <=> r.pc \in Sending,
             pc \in Receiving <=> r.pc \in Receiving, pc \notin {"confirm", "unconfirmed"}
      PROVE  Moved(c, [r EXCEPT !.pc = pc])
  <2> DEFINE s == [r EXCEPT !.pc = pc]
  <2>1. s \in CallStates /\ s.pc = pc /\ s.tries = r.tries /\ s.frame = r.frame /\ s.clean = r.clean
    BY <1>1 DEF CallStates
  <2>2. Sound(s)
    BY <1>1, <1>4, <2>1 DEF Sound, Limit
  <2>3. call' = [call EXCEPT ![c] = s]
    BY <1>1, <1>4 DEF Goto
  <2> QED BY <1>4, <2>1, <2>2, <2>3 DEF Moved
<1>5. CASE Announce(c)
  <2> DEFINE s == [r EXCEPT !.pc = "bulk"]
  <2>1. Moved(c, s)
    BY <1>4, <1>5 DEF Announce, PCs, Sending, Receiving
  <2>2. s.pc = "bulk"
    BY <1>1 DEF CallStates
  <2>3. ToBus(c, s) /\ ToInbox(c, s)
    BY <1>5, <2>2 DEF Announce, ToBus, ToInbox
  <2> HIDE DEF s
  <2> QED BY <1>5, <2>1, <2>3 DEF Announce, Effect, Quiet, GotStep, OpeningStep
<1>6. CASE Bulk(c)
  <2> DEFINE s == [r EXCEPT !.pc = "ack"]
  <2>1. Moved(c, s)
    BY <1>4, <1>6 DEF Bulk, PCs, Sending, Receiving
  <2>2. s.pc = "ack" /\ s.frame = r.frame
    BY <1>1 DEF CallStates
  <2>3. ToBus(c, s) /\ ToInbox(c, s)
    BY <1>6, <2>2 DEF Bulk, ToBus, ToInbox
  <2> HIDE DEF s
  <2> QED BY <1>6, <2>1, <2>3 DEF Bulk, Effect, Quiet, GotStep, OpeningStep
<1>7. CASE Stalls(c)
  <2> DEFINE next == IF r.pc = "announce" THEN "bulk" ELSE IF r.pc = "bulk" THEN "ack" ELSE "unconfirmed"
             q == [r EXCEPT !.pc = next]
             s == [q EXCEPT !.clean = FALSE]
  <2>0. r.pc \in {"announce", "bulk", "confirm"} /\ AfterStall[r.pc] = next /\ next \in PCs
    BY <1>7 DEF Stalls, AfterStall, PCs, Sending, Receiving
  <2>1. s.pc = next /\ s.tries = r.tries /\ s.frame = r.frame /\ s.clean = FALSE /\ s \in CallStates
    <3>1. q \in CallStates /\ q.pc = next /\ Same(q, r, {"pc"})
      BY <1>1, <2>0, CallFields
    <3> HIDE DEF q, next
    <3>2. s \in CallStates /\ s.clean = FALSE /\ Same(s, q, {"clean"})
      BY <3>1, CallFields
    <3> QED BY <3>1, <3>2 DEF Same
  <2>2. call' = [call EXCEPT ![c] = s]
    BY <1>1, <1>7, <2>0 DEF Stalls
  <2> HIDE DEF s
  <2>3. Sound(s)
    BY <1>1, <2>0, <2>1 DEF Sound, Limit, Sending, Receiving
  <2>4. Moved(c, s)
    BY <2>0, <2>1, <2>2, <2>3 DEF Moved, Sending, Receiving
  <2>5. ToBus(c, s) /\ ToInbox(c, s)
    BY <1>7, <2>1 DEF Stalls, ToBus, ToInbox
  <2> QED BY <1>7, <2>4, <2>5 DEF Stalls, Effect, Quiet, GotStep, OpeningStep
<1>8. \A s : s = Idle => (UNCHANGED outbound => ToBus(c, s)) /\ (UNCHANGED inbox => ToInbox(c, s))
  BY <1>2 DEF ToBus, ToInbox
<1>9. CASE AckDone(c) \/ AckFailed(c)
  <2>1. Moved(c, Idle) /\ OpeningStep
    BY <1>3, <1>9 DEF AckDone, AckFailed
  <2>2. ToBus(c, Idle) /\ ToInbox(c, Idle)
    BY <1>8, <1>9 DEF AckDone, AckFailed
  <2> QED BY <1>9, <2>1, <2>2 DEF AckDone, AckFailed, Effect, Quiet, GotStep
<1>10. CASE AckAgain(c)
  <2>1. CASE r.tries + 1 < MaxTries
    <3> DEFINE s == [r EXCEPT !.tries = @ + 1]
    <3>1. s \in CallStates /\ s.pc = r.pc /\ s.tries = r.tries + 1 /\ s.frame = r.frame /\ s.clean = r.clean
      BY <1>1 DEF CallStates
    <3>2. call' = [call EXCEPT ![c] = s] /\ r.pc = "ack"
      BY <1>1, <1>10, <2>1 DEF AckAgain
    <3> HIDE DEF s
    <3>3. Sound(s)
      BY <1>1, <2>1, <3>1, <3>2 DEF Sound, Limit, Receiving
    <3>4. Moved(c, s)
      BY <3>1, <3>2, <3>3 DEF Moved
    <3>5. ToBus(c, s) /\ ToInbox(c, s)
      BY <1>10, <3>1, <3>2 DEF AckAgain, ToBus, ToInbox
    <3> QED BY <1>10, <2>1, <3>4, <3>5 DEF AckAgain, Effect, Quiet, GotStep, OpeningStep
  <2>2. CASE ~(r.tries + 1 < MaxTries)
    <3>1. Moved(c, Idle) /\ OpeningStep
      BY <1>3, <1>10, <2>2 DEF AckAgain
    <3>2. ToBus(c, Idle) /\ ToInbox(c, Idle)
      BY <1>8, <1>10 DEF AckAgain
    <3> QED BY <1>10, <3>1, <3>2 DEF AckAgain, Effect, Quiet, GotStep
  <2> QED BY <2>1, <2>2
<1>11. CASE Pending(c)
  <2> DEFINE s == [r EXCEPT !.pc = "fetch"]
  <2>1. Moved(c, s)
    BY <1>4, <1>11 DEF Pending, PCs, Sending, Receiving
  <2>2. s.pc = "fetch"
    BY <1>1 DEF CallStates
  <2>3. ToBus(c, s) /\ ToInbox(c, s)
    BY <1>11, <2>2 DEF Pending, ToBus, ToInbox
  <2> HIDE DEF s
  <2> QED BY <1>11, <2>1, <2>3 DEF Pending, Effect, Quiet, GotStep, OpeningStep
<1>12. CASE NothingPending(c) \/ FetchStalls(c)
  <2>0. r.pc \in {"poll", "fetch"} /\ PollsOn(c) /\ Quiet /\ UNCHANGED <<outbound, inbox>>
    BY <1>12 DEF NothingPending, FetchStalls, Quiet
  <2>1. CASE r.tries + 1 < MaxPolls
    <3> DEFINE q == [r EXCEPT !.pc = "poll"]
               s == [q EXCEPT !.tries = r.tries + 1]
    <3>1. s \in CallStates /\ s.pc = "poll" /\ s.tries = r.tries + 1 /\ s.clean = r.clean
      <4>1. q \in CallStates /\ q.pc = "poll" /\ Same(q, r, {"pc"})
        BY <1>1, CallFields DEF PCs, Receiving
      <4>2. r.tries + 1 \in Nat
        BY <1>1 DEF CallStates
      <4> HIDE DEF q
      <4>3. s \in CallStates /\ s.tries = r.tries + 1 /\ Same(s, q, {"tries"})
        BY <4>1, <4>2, CallFields
      <4> QED BY <4>1, <4>3 DEF Same
    <3>2. call' = [call EXCEPT ![c] = s] /\ UNCHANGED <<opening, got>>
      BY <1>1, <2>0, <2>1 DEF PollsOn
    <3> HIDE DEF s
    <3>3. Sound(s)
      BY <2>1, <3>1 DEF Sound, Limit, Sending, Receiving
    <3>4. Moved(c, s)
      BY <2>0, <3>1, <3>2, <3>3 DEF Moved, Sending, Receiving
    <3>5. ToBus(c, s) /\ ToInbox(c, s)
      BY <2>0, <3>1 DEF ToBus, ToInbox
    <3> QED BY <2>0, <3>2, <3>4, <3>5 DEF Effect, GotStep, OpeningStep
  <2>2. CASE ~(r.tries + 1 < MaxPolls)
    <3>1. Moved(c, Idle) /\ OpeningStep /\ GotStep(c)
      BY <1>3, <2>0, <2>2 DEF PollsOn, GotStep
    <3>2. ToBus(c, Idle) /\ ToInbox(c, Idle)
      BY <1>8, <2>0
    <3> QED BY <2>0, <3>1, <3>2 DEF Effect
  <2> QED BY <2>1, <2>2
<1>13. CASE Fetch(c)
  <2> DEFINE q == [r EXCEPT !.pc = "confirm"]
             s == [q EXCEPT !.frame = Head(inbox)]
  <2>0. Head(inbox) \in 1..MaxArrivals /\ inbox # <<>> /\ r.pc = "fetch"
    <3>1. inbox \in Seq(1..MaxArrivals) /\ inbox # <<>>
      BY <1>13 DEF Inv, InboxTyped, Fetch
    <3> QED BY <1>13, <3>1, HeadTailProperties DEF Fetch
  <2>1. s \in CallStates /\ s.pc = "confirm" /\ s.tries = r.tries /\ s.frame = Head(inbox) /\ s.clean = r.clean
    <3>1. q \in CallStates /\ q.pc = "confirm" /\ Same(q, r, {"pc"})
      BY <1>1, CallFields DEF PCs, Receiving
    <3>2. Head(inbox) \in Nat
      BY <2>0, BoundsAssumption
    <3> HIDE DEF q
    <3>3. s \in CallStates /\ s.frame = Head(inbox) /\ Same(s, q, {"frame"})
      BY <3>1, <3>2, CallFields
    <3> QED BY <3>1, <3>3 DEF Same
  <2>2. call' = [call EXCEPT ![c] = s]
    BY <1>1, <1>13 DEF Fetch
  <2> HIDE DEF s
  <2>3. Sound(s)
    BY <1>1, <2>0, <2>1 DEF Sound, Limit, Sending, Receiving
  <2>4. Moved(c, s)
    BY <2>0, <2>1, <2>2, <2>3 DEF Moved, Sending, Receiving
  <2>5. ToBus(c, s) /\ ToInbox(c, s)
    BY <1>13, <2>0, <2>1 DEF Fetch, ToBus, ToInbox
  <2> QED BY <1>13, <2>4, <2>5 DEF Fetch, Effect, Quiet, GotStep, OpeningStep
<1>14. CASE Confirm(c)
  <2>1. Moved(c, Idle) /\ OpeningStep
    BY <1>3, <1>14 DEF Confirm
  <2>2. ToBus(c, Idle)
    BY <1>8, <1>14 DEF Confirm
  <2>3. ToInbox(c, Idle)
    BY <1>8, <1>14 DEF Confirm, ToInbox
  <2>4. GotStep(c)
    BY <1>1, <1>14 DEF Confirm, GotStep, CallStates
  <2> QED BY <1>14, <2>1, <2>2, <2>3, <2>4 DEF Confirm, Effect, Quiet
<1>15. CASE Throw(c)
  <2>1. Moved(c, Idle) /\ OpeningStep
    BY <1>3, <1>15 DEF Throw
  <2>2. GotStep(c)
    BY <1>15 DEF Throw, GotStep
  <2>3. ToBus(c, Idle) /\ ToInbox(c, Idle)
    <3>1. CASE UNCHANGED <<outbound, inbox>>
      BY <1>8, <3>1
    <3>2. CASE Reached(c) /\ r.pc = "announce"
      BY <1>2, <1>8, <3>2 DEF Reached, ToBus
    <3>3. CASE Reached(c) /\ r.pc = "bulk"
      BY <1>2, <1>8, <3>3 DEF Reached, ToBus
    <3>4. CASE Reached(c) /\ r.pc = "confirm"
      BY <1>8, <3>4 DEF Reached, ToInbox
    <3>5. CASE Reached(c) /\ r.pc \notin {"announce", "bulk", "confirm"}
      BY <1>8, <3>5 DEF Reached
    <3> QED BY <1>15, <3>1, <3>2, <3>3, <3>4, <3>5 DEF Throw
  <2> QED BY <1>15, <2>1, <2>2, <2>3 DEF Throw, Effect, Quiet
<1> QED BY <1>5, <1>6, <1>7, <1>9, <1>10, <1>11, <1>12, <1>13, <1>14, <1>15 DEF Transfer

(* A call that starts takes its cleanness from those it overlaps.          *)
LEMMA EnterStep ==
    ASSUME Inv, NEW c \in Callers, call[c].pc = "none", NEW pc, NEW same, NEW frame,
           Enter(c, pc, same, frame),
           \/ pc = "announce" /\ same = Sending /\ frame \in Ids
           \/ pc = "poll" /\ same = Receiving /\ frame = None
    PROVE  /\ CallsTyped' /\ Alone' /\ call'[c].pc = pc
           /\ \A d \in Callers \ {c} : /\ call'[d].pc = call[d].pc /\ call'[d].frame = call[d].frame
                                       /\ call'[d].clean => call[d].clean
<1> DEFINE others == {d \in Callers \ {c} : call[d].pc \in same}
           new == [pc |-> pc, tries |-> 0, frame |-> frame, clean |-> others = {}]
<1>1. call \in [Callers -> CallStates] /\ \A d \in Callers : Sound(call[d])
  BY DEF Inv, CallsTyped
<1>2. call'[c] = new /\ \A d \in Callers \ {c} :
        call'[d] = IF d \in others THEN [call[d] EXCEPT !.clean = FALSE] ELSE call[d]
  BY DEF Enter
<1>3. new \in CallStates /\ Sound(new)
  BY BoundsAssumption DEF CallStates, PCs, Sending, Receiving, Ids, Sound, Limit
<1>4. \A d \in others : LET s == [call[d] EXCEPT !.clean = FALSE]
                        IN s \in CallStates /\ s.clean = FALSE /\ Same(s, call[d], {"clean"})
  BY <1>1, CallFields
<1>5. \A d \in Callers \ {c} :
        /\ call'[d] \in CallStates /\ call'[d].pc = call[d].pc /\ call'[d].frame = call[d].frame
        /\ call'[d].tries = call[d].tries
        /\ call'[d].clean => call[d].clean /\ d \notin others
  <2> SUFFICES ASSUME NEW d \in Callers \ {c}
               PROVE  /\ call'[d] \in CallStates /\ call'[d].pc = call[d].pc /\ call'[d].frame = call[d].frame
                      /\ call'[d].tries = call[d].tries
                      /\ call'[d].clean => call[d].clean /\ d \notin others
    OBVIOUS
  <2>1. CASE d \in others
    <3> DEFINE s == [call[d] EXCEPT !.clean = FALSE]
    <3>1. call'[d] = s
      BY <1>2, <2>1
    <3>2. s \in CallStates /\ s.clean = FALSE /\ Same(s, call[d], {"clean"})
      BY <1>4, <2>1
    <3> HIDE DEF s
    <3> QED BY <3>1, <3>2 DEF Same
  <2>2. CASE d \notin others
    BY <1>1, <1>2, <2>2
  <2> QED BY <2>1, <2>2
<1>6. \A d \in Callers \ {c} : Sound(call'[d])
  BY <1>1, <1>5 DEF Sound, Limit
<1>7. new.pc = pc /\ (new.clean => others = {})
  OBVIOUS
<1>8. CallsTyped'
  <2>1. \A d \in Callers : call'[d] \in CallStates /\ Sound(call'[d])
    <3> HIDE DEF new, others
    <3> QED BY <1>2, <1>3, <1>5, <1>6
  <2>2. call' \in [Callers -> CallStates]
    <3>1. DOMAIN call' = Callers /\ call' = [d \in Callers |-> call'[d]]
      BY DEF Enter
    <3> QED BY <2>1, <3>1
  <2> QED BY <2>1, <2>2 DEF CallsTyped, Sound, Limit
<1>9. Alone'
  <2> SUFFICES ASSUME NEW a \in Callers, NEW b \in Callers, a # b, call'[a].clean
               PROVE  ~Overlap(call'[a], call'[b])
    BY DEF Alone, Overlap
  <2>1. CASE a # c /\ b # c
    BY <1>5, <2>1 DEF Inv, Alone, Overlap
  <2>2. CASE a = c
    BY <1>2, <1>5, <1>7, <2>2 DEF Overlap, Sending, Receiving
  <2>3. CASE b = c
    BY <1>2, <1>5, <1>7, <2>3 DEF Overlap, Sending, Receiving
  <2> QED BY <2>1, <2>2, <2>3
<1>10. call'[c].pc = pc
  BY <1>2, <1>7
<1> QED BY <1>5, <1>8, <1>9, <1>10

LEMMA StartKeeps ==
    ASSUME Inv, NEW c \in Callers, StartWrite(c) \/ StartRead(c)
    PROVE  Inv'
<1>1. /\ CallsTyped' /\ Alone' /\ call'[c].pc \in {"announce", "poll"}
      /\ \A d \in Callers \ {c} : /\ call'[d].pc = call[d].pc /\ call'[d].frame = call[d].frame
                                  /\ call'[d].clean => call[d].clean
  <2>1. CASE StartWrite(c)
    <3>1. writes' \in Ids
      <4>1. writes \in 0..MaxWrites /\ writes < MaxWrites /\ writes' = writes + 1
        BY <2>1 DEF Inv, BusTyped, StartWrite
      <4> QED BY <4>1, BoundsAssumption DEF Ids
    <3> QED BY <2>1, <3>1, EnterStep DEF StartWrite
  <2>2. CASE StartRead(c)
    BY <2>2, EnterStep DEF StartRead
  <2> QED BY <2>1, <2>2
<1>2. UNCHANGED <<opening, configured, outbound, inbox, arrived>>
  BY DEF StartWrite, StartRead
<1>3. got' \in [Callers -> Nat \cup {None}] /\ writes' \in 0..MaxWrites
  BY BoundsAssumption DEF Inv, InboxTyped, BusTyped, StartWrite, StartRead
<1>4. OpeningTyped' /\ Whole'
  BY <1>2 DEF Inv, OpeningTyped, Whole, opening, outbound
<1>5. BusTyped' /\ InboxTyped'
  BY <1>2, <1>3 DEF Inv, BusTyped, InboxTyped, outbound
<1>6. OwnSize'
  BY <1>1, <1>2 DEF Inv, OwnSize, outbound
<1>7. OwnFrame'
  BY <1>1, <1>2 DEF Inv, OwnFrame, Carries, outbound
<1>8. OwnHead'
  BY <1>1, <1>2 DEF Inv, OwnHead
<1> QED BY <1>1, <1>4, <1>5, <1>6, <1>7, <1>8 DEF Inv

LEMMA StepInv == Inv /\ [Next]_vars => Inv'
<1> SUFFICES ASSUME Inv, [Next]_vars PROVE Inv'
  OBVIOUS
<1>1. CASE Configure \/ ConfigureThrows \/ Close
  <2>0. step' \in Nat
    <3>1. step \in Nat /\ ConfigSteps \in Nat \ {0} /\ (step' = step \/ step' = (step + 1) % ConfigSteps)
      BY <1>1, BoundsAssumption DEF Configure, ConfigureThrows, Close, Inv, OpeningTyped
    <3> QED BY <3>1
  <2>1. configured' \in BOOLEAN /\ (configured' => configured)
    <3>1. configured \in BOOLEAN /\ (configured' = configured \/ configured' = FALSE)
      BY <1>1, Zenon DEF Configure, ConfigureThrows, Close, Inv, BusTyped
    <3>2. CASE configured' = configured
      BY <3>1, <3>2
    <3>3. CASE configured' = FALSE
      BY <3>3
    <3> QED BY <3>1, <3>2, <3>3
  <2>2. OpeningTyped'
    BY <1>1, <2>0 DEF Configure, ConfigureThrows, Close, Inv, OpeningTyped
  <2>3. UNCHANGED <<call, outbound, inbox, arrived, writes, got>>
    BY <1>1 DEF Configure, ConfigureThrows, Close
  <2>4. CallsTyped' /\ Alone'
    BY <2>3 DEF Inv, CallsTyped, Alone
  <2>5. BusTyped' /\ Whole' /\ OwnSize'
    BY <2>1, <2>3 DEF Inv, BusTyped, Whole, OwnSize, outbound
  <2>6. OwnFrame'
    BY <2>1, <2>3 DEF Inv, OwnFrame, Carries, outbound
  <2>7. InboxTyped' /\ OwnHead'
    BY <2>3 DEF Inv, InboxTyped, OwnHead
  <2> QED BY <2>2, <2>4, <2>5, <2>6, <2>7 DEF Inv
<1>2. CASE Forward
  <2>1. /\ UNCHANGED <<opening, call, configured, size, inbox, arrived, writes, got>> /\ pending' = None
        /\ carried' \in {carried, pending} /\ out = "busy" /\ out' \in {"done", "failed"}
        /\ out' = "done" /\ configured => carried' = pending
    BY <1>2 DEF Forward
  <2>2. OpeningTyped' /\ CallsTyped' /\ Alone'
    BY <2>1 DEF Inv, OpeningTyped, CallsTyped, Alone, opening
  <2>3. BusTyped' /\ Whole' /\ OwnSize'
    BY <2>1 DEF Inv, BusTyped, Whole, OwnSize
  <2>4. OwnFrame'
    BY <2>1 DEF Inv, OwnFrame, Carries
  <2>5. InboxTyped' /\ OwnHead'
    BY <2>1 DEF Inv, InboxTyped, OwnHead
  <2> QED BY <2>2, <2>3, <2>4, <2>5 DEF Inv
<1>3. CASE Arrive
  <2>1. /\ UNCHANGED <<opening, call, configured, outbound, writes, got>>
        /\ inbox' = Append(inbox, arrived') /\ arrived' \in 1..MaxArrivals /\ inbox \in Seq(1..MaxArrivals)
    <3>1. arrived \in 0..MaxArrivals /\ arrived < MaxArrivals /\ arrived' = arrived + 1
      BY <1>3 DEF Arrive, Inv, InboxTyped
    <3>2. arrived' \in 1..MaxArrivals
      BY <3>1, BoundsAssumption
    <3> QED BY <1>3, <3>2 DEF Arrive, Inv, InboxTyped
  <2>2. OpeningTyped' /\ CallsTyped' /\ Alone'
    BY <2>1 DEF Inv, OpeningTyped, CallsTyped, Alone, opening
  <2>3. BusTyped' /\ Whole' /\ OwnSize'
    BY <2>1 DEF Inv, BusTyped, Whole, OwnSize, outbound
  <2>4. OwnFrame'
    BY <2>1 DEF Inv, OwnFrame, Carries, outbound
  <2>5. inbox' \in Seq(1..MaxArrivals) /\ inbox' # <<>> /\ (inbox # <<>> => Head(inbox') = Head(inbox))
    BY <2>1, AppendProperties, HeadTailProperties
  <2>6. InboxTyped'
    BY <2>1, <2>5 DEF Inv, InboxTyped
  <2>7. OwnHead'
    BY <2>1, <2>5 DEF Inv, OwnHead
  <2> QED BY <2>2, <2>3, <2>4, <2>6, <2>7 DEF Inv
<1>4. ASSUME NEW c \in Callers, StartWrite(c) \/ StartRead(c) PROVE Inv'
  BY <1>4, StartKeeps
<1>5. ASSUME NEW c \in Callers, Transfer(c) \/ Throw(c) PROVE Inv'
  BY <1>5, TransferEffect, EffectKeeps
<1>6. CASE UNCHANGED vars
  BY <1>6 DEF vars, opening, outbound, Inv, OpeningTyped, CallsTyped, BusTyped, InboxTyped, Alone, OwnSize,
              OwnFrame, Carries, Whole, OwnHead
<1> QED BY <1>1, <1>2, <1>3, <1>4, <1>5, <1>6 DEF Next

LEMMA Invariance == Spec => []Inv
BY InitInv, StepInv, PTL DEF Spec

(* Type correctness.                                                       *)
THEOREM TypeCorrect == Spec => []TypeOK
<1>1. Inv => TypeOK
  <2> SUFFICES ASSUME Inv PROVE TypeOK
    OBVIOUS
  <2>1. inbox \in Seq(Nat)
    <3>1. inbox \in Seq(1..MaxArrivals) /\ 1..MaxArrivals \subseteq Nat
      BY BoundsAssumption DEF Inv, InboxTyped
    <3> QED BY <3>1, SeqMonotonic
  <2>2. \A c \in Callers :
         /\ call[c].pc \in {"none"} \cup Sending \cup Receiving
         /\ call[c].tries < IF call[c].pc \in Receiving THEN MaxPolls ELSE MaxTries
         /\ call[c].tries \in Nat /\ call[c].clean \in BOOLEAN
         /\ call[c].frame \in Nat \cup {None} /\ got[c] \in Nat \cup {None}
    BY DEF Inv, CallsTyped, InboxTyped, CallStates, PCs, Sound, Limit
  <2> QED BY <2>1, <2>2 DEF TypeOK, Inv, OpeningTyped, BusTyped, InboxTyped, Forwards
<1> QED BY <1>1, Invariance, PTL

(* A write that overlaps no other announces the length its frame goes out  *)
(* with, for any frame lengths.                                            *)
THEOREM OwnLengthAnnounced == Spec => []WholeFrames
<1>1. Inv => WholeFrames
  BY DEF Inv, Whole, WholeFrames
<1> QED BY <1>1, Invariance, PTL

(* Its success is its own: however many tries, failures and frames before. *)
THEOREM OwnFrameAcknowledged == Spec => []SuccessMeansForwarded
<1>1. Inv => SuccessMeansForwarded
  BY DEF Inv, OwnFrame, Carries, SuccessMeansForwarded, Acked, Acks, OnTheBus
<1> QED BY <1>1, Invariance, PTL

-----------------------------------------------------------------------------
(* The inbox a reader sees.                                                *)
View == <<inbox, Reading, got>>

State(s) == IF s.pc \notin Receiving THEN "no" ELSE IF s.clean THEN "alone" ELSE "crossed"

LEMMA ReadingIs == Reading = [c \in Callers |-> State(call[c])]
BY DEF Reading, State

LEMMA ReadingMoves ==
    ASSUME Inv, NEW c \in Callers, NEW s, Moved(c, s)
    PROVE  /\ Reading[c] = State(call[c]) /\ Reading' = [Reading EXCEPT ![c] = State(s)]
           /\ State(s) = State(call[c]) => Reading' = Reading
<1>1. call'[c] = s /\ \A d \in Callers \ {c} : call'[d] = call[d]
  BY MovedTyped DEF Inv
<1>2. Reading' = [d \in Callers |-> State(call'[d])]
  BY DEF Reading, State
<1>3. Reading' = [Reading EXCEPT ![c] = State(s)]
  BY <1>1, <1>2, ReadingIs
<1>4. Reading = [Reading EXCEPT ![c] = Reading[c]]
  BY ReadingIs
<1> QED BY <1>3, <1>4, ReadingIs

LEMMA StartRefines ==
    ASSUME Inv, NEW c \in Callers, StartWrite(c) \/ StartRead(c)
    PROVE  Abstract!Begin(c) \/ UNCHANGED View
<1>0. \A d \in Callers : call[d] \in CallStates
  BY DEF Inv, CallsTyped
<1>1. CASE StartWrite(c)
  <2> DEFINE others == {d \in Callers \ {c} : call[d].pc \in Sending}
  <2>1. \A d \in Callers : call'[d] = IF d = c THEN [pc |-> "announce", tries |-> 0, frame |-> writes', clean |-> others = {}]
                                     ELSE IF d \in others THEN [call[d] EXCEPT !.clean = FALSE] ELSE call[d]
    BY <1>1 DEF StartWrite, Enter
  <2>2. ASSUME NEW d \in Callers PROVE State(call'[d]) = State(call[d])
    <3>1. CASE d = c
      <4> DEFINE s == [pc |-> "announce", tries |-> 0, frame |-> writes', clean |-> others = {}]
      <4>1. call'[d] = s /\ s.pc = "announce" /\ call[d].pc = "none"
        BY <1>1, <2>1, <3>1 DEF StartWrite
      <4> HIDE DEF s
      <4> QED BY <4>1 DEF State, Receiving
    <3>2. CASE d # c /\ d \in others
      <4> DEFINE s == [call[d] EXCEPT !.clean = FALSE]
      <4>1. call'[d] = s
        BY <2>1, <3>2
      <4>2. s.pc = call[d].pc /\ call[d].pc \in Sending
        BY <1>0, <3>2 DEF CallStates
      <4> HIDE DEF s
      <4> QED BY <4>1, <4>2 DEF State, Sending, Receiving
    <3>3. CASE d # c /\ d \notin others
      <4>1. call'[d] = call[d]
        BY <2>1, <3>3
      <4> QED BY <4>1 DEF State
    <3> QED BY <3>1, <3>2, <3>3
  <2>3. Reading' = Reading
    <3>1. Reading' = [d \in Callers |-> State(call'[d])]
      BY DEF Reading, State
    <3> QED BY <2>2, <3>1, ReadingIs
  <2> QED BY <1>1, <2>3 DEF StartWrite, View
<1>2. CASE StartRead(c)
  <2> DEFINE others == {d \in Callers \ {c} : call[d].pc \in Receiving}
             readers == {d \in Callers : Reading[d] # "no"}
  <2>1. \A d \in Callers : call'[d] = IF d = c THEN [pc |-> "poll", tries |-> 0, frame |-> None, clean |-> others = {}]
                                     ELSE IF d \in others THEN [call[d] EXCEPT !.clean = FALSE] ELSE call[d]
    BY <1>2 DEF StartRead, Enter
  <2>2. Reading[c] = "no" /\ others = readers
    BY <1>2, ReadingIs DEF StartRead, State, Receiving
  <2>3. ASSUME NEW d \in Callers
        PROVE  State(call'[d]) = IF d = c THEN IF readers = {} THEN "alone" ELSE "crossed"
                                 ELSE IF d \in readers THEN "crossed" ELSE Reading[d]
    <3>1. CASE d = c
      <4> DEFINE s == [pc |-> "poll", tries |-> 0, frame |-> None, clean |-> others = {}]
      <4>1. call'[d] = s /\ s.pc = "poll" /\ s.clean = (others = {})
        BY <2>1, <3>1
      <4> HIDE DEF s
      <4> QED BY <2>2, <3>1, <4>1 DEF State, Receiving
    <3>2. CASE d # c /\ d \in others
      <4> DEFINE s == [call[d] EXCEPT !.clean = FALSE]
      <4>1. call'[d] = s
        BY <2>1, <3>2
      <4>2. s.pc = call[d].pc /\ call[d].pc \in Receiving /\ s.clean = FALSE
        BY <1>0, <3>2 DEF CallStates
      <4> HIDE DEF s
      <4> QED BY <2>2, <3>2, <4>1, <4>2 DEF State
    <3>3. CASE d # c /\ d \notin others
      <4>1. call'[d] = call[d]
        BY <2>1, <3>3
      <4> QED BY <2>2, <3>3, <4>1, ReadingIs DEF State
    <3> QED BY <3>1, <3>2, <3>3
  <2>4. Reading' = [d \in Callers |-> State(call'[d])]
    BY DEF Reading, State
  <2> HIDE DEF others
  <2>5. Reading' = [d \in Callers |-> IF d = c THEN IF readers = {} THEN "alone" ELSE "crossed"
                                      ELSE IF d \in readers THEN "crossed" ELSE Reading[d]]
    BY <2>3, <2>4
  <2> QED BY <1>2, <2>2, <2>5 DEF StartRead, Abstract!Begin
<1> QED BY <1>1, <1>2

LEMMA TransferRefines ==
    ASSUME Inv, NEW c \in Callers, Transfer(c) \/ Throw(c)
    PROVE  [Abstract!Next]_View
<1> DEFINE r == call[c]
<1>1. r \in CallStates /\ Sound(r) /\ call \in [Callers -> CallStates]
  BY DEF Inv, CallsTyped
<1>2. PICK s : Effect(c, s)
  BY TransferEffect
<1>3. /\ call'[c] = s /\ Reading[c] = State(r) /\ Reading' = [Reading EXCEPT ![c] = State(s)]
      /\ State(s) = State(r) => Reading' = Reading
  BY <1>2, ReadingMoves, MovedTyped DEF Effect, Inv
<1>4. call' = [call EXCEPT ![c] = Idle] => s = Idle /\ State(s) = "no"
  BY <1>1, <1>3 DEF Idle, State, Receiving
<1>5. r.pc \in Receiving => Reading[c] # "no"
  BY <1>3 DEF State
<1>6. ASSUME UNCHANGED <<inbox, got>>, State(s) = State(r) PROVE UNCHANGED View
  BY <1>3, <1>6 DEF View
<1>7. \A q \in CallStates, pc \in PCs : [q EXCEPT !.pc = pc].clean = q.clean /\ [q EXCEPT !.pc = pc].pc = pc
  BY DEF CallStates
<1>8. \A pc \in PCs : Goto(c, pc) => s.pc = pc /\ s.clean = r.clean
  <2> SUFFICES ASSUME NEW pc \in PCs, Goto(c, pc) PROVE s.pc = pc /\ s.clean = r.clean
    OBVIOUS
  <2>1. call'[c] = [r EXCEPT !.pc = pc]
    BY <1>1 DEF Goto
  <2>2. s = [r EXCEPT !.pc = pc]
    BY <1>3, <2>1
  <2> QED BY <1>1, <1>7, <2>2
<1>9. CASE Announce(c) \/ Bulk(c) \/ AckDone(c) \/ AckFailed(c) \/ AckAgain(c)
  <2>1. UNCHANGED <<inbox, got>> /\ r.pc \notin Receiving
    <3>1. CASE Announce(c) \/ Bulk(c)
      BY <3>1 DEF Announce, Bulk, Receiving
    <3>2. CASE AckDone(c) \/ AckFailed(c) \/ AckAgain(c)
      <4>1. UNCHANGED <<inbox, got>>
        BY <3>2, Zenon DEF AckDone, AckFailed, AckAgain
      <4>2. r.pc = "ack"
        BY <3>2, Zenon DEF AckDone, AckFailed, AckAgain, Acked
      <4> QED BY <4>1, <4>2 DEF Receiving
    <3> QED BY <1>9, <3>1, <3>2
  <2>2. s = Idle \/ (s.pc \in Receiving => r.pc \in Receiving)
    BY <1>2 DEF Effect, Moved
  <2>3. State(s) = State(r)
    BY <2>1, <2>2 DEF State, Idle, Receiving
  <2> QED BY <1>6, <2>1, <2>3
<1>10. CASE Pending(c)
  BY <1>6, <1>8, <1>10 DEF Pending, State, Receiving, PCs
<1>11. CASE Fetch(c)
  <2>1. call'[c] = [[r EXCEPT !.pc = "confirm"] EXCEPT !.frame = Head(inbox)]
    BY <1>1, <1>11 DEF Fetch
  <2>2. \A q \in CallStates : [q EXCEPT !.frame = Head(inbox)].pc = q.pc /\ [q EXCEPT !.frame = Head(inbox)].clean = q.clean
    BY DEF CallStates
  <2>3. [r EXCEPT !.pc = "confirm"] \in CallStates
    BY <1>1, CallFields DEF PCs, Receiving
  <2>4. s.pc = "confirm" /\ s.clean = r.clean
    BY <1>1, <1>3, <1>7, <2>1, <2>2, <2>3 DEF PCs, Receiving
  <2> QED BY <1>6, <1>11, <2>4 DEF Fetch, State, Receiving
<1>12. CASE Stalls(c)
  <2>1. UNCHANGED <<inbox, got>> /\ r.pc \in {"announce", "bulk", "confirm"}
    BY <1>12 DEF Stalls, AfterStall
  <2>2. call'[c] = [[r EXCEPT !.pc = AfterStall[r.pc]] EXCEPT !.clean = FALSE]
    BY <1>1, <1>12 DEF Stalls
  <2>3. AfterStall[r.pc] \in PCs /\ (AfterStall[r.pc] \in Receiving <=> r.pc = "confirm")
    BY <2>1 DEF AfterStall, PCs, Sending, Receiving
  <2>4. [r EXCEPT !.pc = AfterStall[r.pc]] \in CallStates /\ [r EXCEPT !.pc = AfterStall[r.pc]].pc = AfterStall[r.pc]
    BY <1>1, <2>3, CallFields
  <2>5. s.pc = AfterStall[r.pc] /\ ~s.clean
    <3> HIDE DEF r
    <3>1. \A q \in CallStates : [q EXCEPT !.clean = FALSE].pc = q.pc /\ ~[q EXCEPT !.clean = FALSE].clean
      BY DEF CallStates
    <3> QED BY <1>3, <2>2, <2>4, <3>1
  <2>6. CASE r.pc = "confirm" /\ r.clean
    <3>1. Reading[c] = "alone" /\ State(s) = "crossed"
      BY <1>3, <2>3, <2>5, <2>6 DEF State, Receiving
    <3> QED BY <1>3, <2>1, <3>1 DEF Abstract!Next, Abstract!Taint
  <2>7. CASE ~(r.pc = "confirm" /\ r.clean)
    BY <1>6, <2>1, <2>3, <2>5, <2>7 DEF State, Receiving
  <2> QED BY <2>6, <2>7
<1>13. ASSUME r.pc \in Receiving, s = Idle PROVE Abstract!End(c)
  BY <1>3, <1>5, <1>13 DEF Abstract!End, State, Idle, Receiving
<1>14. CASE NothingPending(c) \/ FetchStalls(c)
  <2>0. r.pc \in {"poll", "fetch"} /\ PollsOn(c) /\ UNCHANGED inbox
    BY <1>14 DEF NothingPending, FetchStalls
  <2>1. CASE r.tries + 1 < MaxPolls
    <3>1. call'[c] = [[r EXCEPT !.pc = "poll"] EXCEPT !.tries = r.tries + 1] /\ UNCHANGED got
      BY <1>1, <2>0, <2>1 DEF PollsOn
    <3>2. \A q \in CallStates : [q EXCEPT !.tries = r.tries + 1].pc = q.pc /\ [q EXCEPT !.tries = r.tries + 1].clean = q.clean
      BY DEF CallStates
    <3>3. [r EXCEPT !.pc = "poll"] \in CallStates
      BY <1>1, CallFields DEF PCs, Receiving
    <3>4. s.pc = "poll" /\ s.clean = r.clean
      BY <1>1, <1>3, <1>7, <3>1, <3>2, <3>3 DEF PCs, Receiving
    <3> QED BY <1>6, <2>0, <3>1, <3>4 DEF State, Receiving
  <2>2. CASE ~(r.tries + 1 < MaxPolls)
    <3>1. s = Idle /\ got' = [got EXCEPT ![c] = None]
      BY <1>4, <2>0, <2>2 DEF PollsOn, Leave
    <3>2. Abstract!Miss(c)
      BY <1>13, <2>0, <3>1 DEF Abstract!Miss, Receiving
    <3> QED BY <3>2 DEF Abstract!Next
  <2> QED BY <2>1, <2>2
<1>15. CASE Confirm(c)
  <2>1. /\ s = Idle /\ got' = [got EXCEPT ![c] = r.frame] /\ r.pc \in {"confirm", "unconfirmed"}
        /\ r.frame \in 1..MaxArrivals
    BY <1>1, <1>4, <1>15 DEF Confirm, Leave, Sound
  <2>2. Abstract!End(c)
    BY <1>13, <2>1 DEF Receiving
  <2>3. CASE r.clean
    <3>1. r.pc = "confirm" /\ inbox # <<>> /\ r.frame = Head(inbox) /\ Reading[c] = "alone"
      BY <1>3, <2>1, <2>3 DEF Inv, OwnHead, State, Receiving
    <3>2. Abstract!Take(c)
      BY <1>15, <2>1, <2>2, <3>1 DEF Confirm, TakeDone, Abstract!Take
    <3> QED BY <3>2 DEF Abstract!Next
  <2>4. CASE ~r.clean
    <3>1. Reading[c] = "crossed"
      BY <1>3, <2>1, <2>4 DEF State, Receiving
    <3>2. Abstract!Drops
      BY <1>15 DEF Confirm, TakeDone, Abstract!Drops
    <3>3. Abstract!TakeCrossed(c)
      BY <2>1, <2>2, <3>1, <3>2 DEF Abstract!TakeCrossed
    <3> QED BY <3>3 DEF Abstract!Next
  <2> QED BY <2>3, <2>4
<1>16. CASE Throw(c)
  <2>1. s = Idle
    BY <1>4, <1>16 DEF Throw, Leave
  <2>2. CASE r.pc \in Receiving
    <3>1. got' = [got EXCEPT ![c] = None] /\ Abstract!End(c)
      BY <1>13, <1>16, <2>1, <2>2 DEF Throw
    <3>2. Abstract!Drops
      <4>1. CASE UNCHANGED inbox
        BY <4>1 DEF Abstract!Drops
      <4>2. CASE Reached(c) /\ r.pc = "confirm"
        BY <4>2 DEF Reached, TakeDone, Abstract!Drops
      <4>3. CASE Reached(c) /\ r.pc # "confirm"
        BY <2>2, <4>1, <4>3 DEF Reached, Receiving
      <4> QED BY <1>16, <4>1, <4>2, <4>3 DEF Throw
    <3>3. Abstract!Throw(c)
      BY <3>1, <3>2 DEF Abstract!Throw
    <3> QED BY <3>3 DEF Abstract!Next
  <2>3. CASE r.pc \notin Receiving
    <3>1. UNCHANGED <<inbox, got>>
      BY <1>16, <2>3 DEF Throw, Reached, Receiving
    <3>2. State(s) = State(r)
      BY <2>1, <2>3 DEF State, Idle, Receiving
    <3> QED BY <1>6, <3>1, <3>2
  <2> QED BY <2>2, <2>3
<1> QED BY <1>9, <1>10, <1>11, <1>12, <1>14, <1>15, <1>16 DEF Transfer

(* readNextFrame is a first-in first-out inbox for callers that do not     *)
(* overlap, in every behaviour of the transport.                           *)
THEOREM ReadsInOrder == Spec => ImplementsChannel
<1>1. Init => Abstract!Init
  <2> SUFFICES ASSUME Init PROVE Abstract!Init
    OBVIOUS
  <2>1. \A c \in Callers : State(call[c]) = "no"
    BY DEF Init, Idle, State, Receiving
  <2>2. Reading = [c \in Callers |-> "no"]
    BY <2>1, ReadingIs
  <2> QED BY <2>2 DEF Init, Abstract!Init
<1>2. Inv /\ [Next]_vars => [Abstract!Next]_View
  <2> SUFFICES ASSUME Inv, [Next]_vars PROVE [Abstract!Next]_View
    OBVIOUS
  <2>1. CASE Configure \/ ConfigureThrows \/ Close \/ Forward \/ UNCHANGED vars
    <3>1. UNCHANGED <<call, inbox, got>>
      BY <2>1 DEF Configure, ConfigureThrows, Close, Forward, vars
    <3> QED BY <3>1 DEF View, Reading
  <2>2. CASE Arrive
    <3>1. UNCHANGED <<call, got>> /\ inbox' = Append(inbox, arrived')
      BY <2>2 DEF Arrive
    <3>2. arrived' \in 1..MaxArrivals
      <4>1. arrived \in 0..MaxArrivals /\ arrived < MaxArrivals /\ arrived' = arrived + 1
        BY <2>2 DEF Arrive, Inv, InboxTyped
      <4> QED BY <4>1, BoundsAssumption
    <3>3. Abstract!Arrive
      BY <3>1, <3>2 DEF Abstract!Arrive, Reading
    <3> QED BY <3>3 DEF Abstract!Next
  <2>3. ASSUME NEW c \in Callers, StartWrite(c) \/ StartRead(c) PROVE [Abstract!Next]_View
    BY <2>3, StartRefines DEF Abstract!Next
  <2>4. ASSUME NEW c \in Callers, Transfer(c) \/ Throw(c) PROVE [Abstract!Next]_View
    BY <2>4, TransferRefines
  <2> QED BY <2>1, <2>2, <2>3, <2>4 DEF Next
<1>3. Abstract!vars = View
  BY DEF Abstract!vars, View
<1>4. Inv /\ [Next]_vars => [Abstract!Next]_Abstract!vars
  BY <1>2, <1>3 DEF Abstract!vars, View
<1> QED BY <1>1, <1>4, Invariance, PTL DEF Spec, ImplementsChannel, Abstract!Spec

=============================================================================
