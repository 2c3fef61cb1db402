------------------------------- MODULE Bridge -------------------------------
(***************************************************************************)
(* The USB transports of web/transport-webusb.js and of                    *)
(* node/transport-node-usb.js over the registers of the bike's USB-MCSP    *)
(* bridge.  A write is an announced length, a bulk transfer and polls of   *)
(* its acknowledgement; a read is polls of a length, a bulk transfer and a *)
(* confirmation.  Every transfer is an await, so the calls of two callers  *)
(* interleave transfer by transfer: nothing keeps them apart.              *)
(***************************************************************************)
EXTENDS Naturals, Sequences

CONSTANTS
    Callers,        \* coroutines with a call on the transport: an exchange, a keep-alive
    Opener,         \* the one that runs open()
    Length,         \* the length of the frames each caller writes
    Hosts,          \* browser, node: the transports
    ConfigSteps,    \* configuring control transfers of init(): 6 in the code
    Handshakes,     \* handshake frames of init(): 9 in the code
    MaxDrain,       \* 4 in the code
    MaxTries,       \* acknowledgement polls of a write: 10 in the code
    MaxPolls,       \* polls of a read: 1 to 5, by the caller
    MaxWrites,      \* bound: frames written
    MaxArrivals,    \* bound: frames the bike sends
    None

ASSUME CallersAssumption ==
    /\ Opener \in Callers /\ Length \in [Callers -> Nat]
    /\ None \notin Nat /\ None \notin [id : Nat, whole : BOOLEAN, clean : BOOLEAN]
ASSUME BoundsAssumption ==
    /\ Hosts \subseteq {"browser", "node"} /\ ConfigSteps \in Nat \ {0} /\ Handshakes \in Nat \ {0}
    /\ MaxDrain \in Nat \ {0} /\ MaxTries \in Nat \ {0} /\ MaxPolls \in Nat \ {0}
    /\ MaxWrites \in Nat /\ MaxArrivals \in Nat

VARIABLES
    host,       \* the transport in use
    stage,      \* how far open() is: configure | greet | drain | open, or failed, closed
    step,       \* transfers or handshake frames done in this stage
    drained,    \* frames drained after the current handshake frame
    call,       \* the call each caller awaits
    configured, \* bridge: it took every configuring transfer, now or from an earlier host
    size,       \* bridge: the announced length
    out,        \* bridge: idle | busy | done | failed, the state 0x47 reports
    pending,    \* bridge: the frame it is forwarding
    inbox,      \* bridge: frames of the bike, oldest first
    arrived,    \* frames the bike has sent so far
    writes,     \* frames written so far
    carried,    \* history: the last frame put on the bike's bus
    got         \* history: what the last read of each caller returned

opening == <<host, stage, step, drained>>
outbound == <<size, out, pending, carried>>
vars == <<opening, call, configured, outbound, inbox, arrived, writes, got>>

Sending == {"announce", "bulk", "ack"}
Receiving == {"poll", "fetch", "confirm", "unconfirmed"}

Idle == [pc |-> "none", tries |-> 0, frame |-> None, clean |-> TRUE]

Init ==
    /\ host \in Hosts /\ step = 0 /\ drained = 0
    /\ \/ host = "browser" /\ stage = "configure" /\ configured = TRUE
       \/ host = "node" /\ stage = "open" /\ configured \in BOOLEAN
    /\ call = [c \in Callers |-> Idle]
    /\ size = 0 /\ out = "idle" /\ pending = None /\ carried = None
    /\ inbox = <<>> /\ arrived = 0 /\ writes = 0
    /\ got = [c \in Callers |-> None]

(***************************************************************************)
(* open(): the configuring transfers, then for every handshake frame a     *)
(* write and a drain of its answers.                                       *)
(***************************************************************************)
\* The status of the transfer is not looked at.
Configure ==
    /\ stage = "configure"
    /\ step' = (step + 1) % ConfigSteps /\ stage' = IF step' = 0 THEN "greet" ELSE stage
    /\ configured' \in {configured, FALSE}
    /\ UNCHANGED <<host, drained, call, outbound, inbox, arrived, writes, got>>

ConfigureThrows ==
    /\ stage = "configure" /\ stage' = "failed"
    /\ UNCHANGED <<host, step, drained, call, configured, outbound, inbox, arrived, writes, got>>

\* Mutant: the drain goes on until nothing comes.
GoOnUnbounded(outcome) ==
    IF stage \notin {"greet", "drain"} THEN UNCHANGED opening
    ELSE IF outcome = "threw" THEN stage' = "failed" /\ UNCHANGED <<host, step, drained>>
    ELSE IF stage = "greet" THEN stage' = "drain" /\ drained' = 0 /\ UNCHANGED <<host, step>>
    ELSE IF outcome = "frame" THEN UNCHANGED opening
    ELSE /\ step' = step + 1 /\ drained' = 0 /\ UNCHANGED host
         /\ stage' = IF step' = Handshakes THEN "open" ELSE "greet"

\* What open() does when its call ends with an outcome; nothing, once it is open.
GoOn(outcome) ==
    IF stage \notin {"greet", "drain"} THEN UNCHANGED opening
    ELSE IF outcome = "threw" THEN stage' = "failed" /\ UNCHANGED <<host, step, drained>>
    ELSE IF stage = "greet" THEN stage' = "drain" /\ drained' = 0 /\ UNCHANGED <<host, step>>
    ELSE IF outcome = "frame" /\ drained + 1 < MaxDrain
         THEN drained' = drained + 1 /\ UNCHANGED <<host, stage, step>>
    ELSE /\ step' = step + 1 /\ drained' = 0 /\ UNCHANGED host
         /\ stage' = IF step' = Handshakes THEN "open" ELSE "greet"

(***************************************************************************)
(* A call starts.  `clean` is a history field: no call of the same         *)
(* direction overlapped this one, and no transfer of it was stalled.       *)
(***************************************************************************)
Enter(c, pc, same, frame) ==
    LET others == {d \in Callers \ {c} : call[d].pc \in same}
    IN call' = [d \in Callers |->
          IF d = c THEN [pc |-> pc, tries |-> 0, frame |-> frame, clean |-> others = {}]
          ELSE IF d \in others THEN [call[d] EXCEPT !.clean = FALSE]
          ELSE call[d]]

StartWrite(c) ==
    /\ call[c].pc = "none" /\ writes < MaxWrites
    /\ stage = "open" \/ (stage = "greet" /\ c = Opener)
    /\ writes' = writes + 1 /\ Enter(c, "announce", Sending, writes')
    /\ UNCHANGED <<opening, configured, outbound, inbox, arrived, got>>

StartRead(c) ==
    /\ call[c].pc = "none"
    /\ stage = "open" \/ (stage = "drain" /\ c = Opener)
    /\ Enter(c, "poll", Receiving, None) /\ got' = [got EXCEPT ![c] = None]
    /\ UNCHANGED <<opening, configured, outbound, inbox, arrived, writes>>

(***************************************************************************)
(* What the bridge does with a transfer that reaches it.                   *)
(***************************************************************************)
\* Mutant: the length of the padded transfer is announced.
AnnouncePadded(c) == size' = 64 * ((Length[c] + 63) \div 64) /\ UNCHANGED <<out, pending, carried>>

TakeSize(c) == size' = Length[c] /\ UNCHANGED <<out, pending, carried>>

\* The endpoint takes no data while the previous frame is being forwarded.
TakeFrame(c) ==
    /\ out # "busy" /\ out' = "busy"
    /\ pending' = [id |-> call[c].frame, whole |-> size = Length[c], clean |-> call[c].clean]
    /\ UNCHANGED <<size, carried>>

TakeDone == inbox' = IF inbox = <<>> THEN inbox ELSE Tail(inbox)

(***************************************************************************)
(* doMcspWrite.                                                            *)
(***************************************************************************)
Goto(c, pc) == call' = [call EXCEPT ![c].pc = pc]

Announce(c) ==
    /\ call[c].pc = "announce" /\ TakeSize(c) /\ Goto(c, "bulk")
    /\ UNCHANGED <<opening, configured, inbox, arrived, writes, got>>

Bulk(c) ==
    /\ call[c].pc = "bulk" /\ TakeFrame(c) /\ Goto(c, "ack")
    /\ UNCHANGED <<opening, configured, inbox, arrived, writes, got>>

AfterStall == [announce |-> "bulk", bulk |-> "ack", confirm |-> "unconfirmed"]

\* A browser resolves a stalled transfer to the device, and the code does not
\* look: it goes on as if the bridge had taken it.
Stalls(c) ==
    /\ host = "browser" /\ call[c].pc \in DOMAIN AfterStall
    /\ call' = [call EXCEPT ![c].pc = AfterStall[@], ![c].clean = FALSE]
    /\ UNCHANGED <<opening, configured, outbound, inbox, arrived, writes, got>>

Leave(c, outcome) == call' = [call EXCEPT ![c] = Idle] /\ GoOn(outcome)

\* Mutant: "transfer still running" is read as the answer.
AcksBusy == TRUE

Acks == out # "busy"

\* Not running any more, and the third byte is zero: no error.
Acked(c) == call[c].pc = "ack" /\ Acks /\ out # "failed"

AckDone(c) ==
    /\ Acked(c) /\ Leave(c, "done")
    /\ UNCHANGED <<configured, outbound, inbox, arrived, writes, got>>

AckFailed(c) ==
    /\ call[c].pc = "ack" /\ out = "failed" /\ Leave(c, "threw")
    /\ UNCHANGED <<configured, outbound, inbox, arrived, writes, got>>

\* Mutant: one poll too many.
AckOnceMore(c) ==
    /\ call[c].pc = "ack"
    /\ IF call[c].tries < MaxTries
       THEN call' = [call EXCEPT ![c].tries = @ + 1] /\ UNCHANGED opening
       ELSE Leave(c, "threw")
    /\ UNCHANGED <<configured, outbound, inbox, arrived, writes, got>>

\* Busy, or an answer that is short or stalled: one more try, or the timeout.
AckAgain(c) ==
    /\ call[c].pc = "ack"
    /\ IF call[c].tries + 1 < MaxTries
       THEN call' = [call EXCEPT ![c].tries = @ + 1] /\ UNCHANGED opening
       ELSE Leave(c, "threw")
    /\ UNCHANGED <<configured, outbound, inbox, arrived, writes, got>>

(***************************************************************************)
(* readNextFrame.                                                          *)
(***************************************************************************)
Pending(c) ==
    /\ call[c].pc = "poll" /\ inbox # <<>> /\ Goto(c, "fetch")
    /\ UNCHANGED <<opening, configured, outbound, inbox, arrived, writes, got>>

\* Mutant: a failed bulk transfer starts the polls over.
PollsOver(c) == call' = [call EXCEPT ![c].pc = "poll", ![c].tries = 0] /\ UNCHANGED <<opening, got>>

\* A poll that led to no frame: the next one, or null.
PollsOn(c) ==
    IF call[c].tries + 1 < MaxPolls
    THEN /\ call' = [call EXCEPT ![c].pc = "poll", ![c].tries = @ + 1]
         /\ UNCHANGED <<opening, got>>
    ELSE Leave(c, "null") /\ got' = [got EXCEPT ![c] = None]

\* No length, one out of range, or an answer that is short or stalled.
NothingPending(c) ==
    /\ call[c].pc = "poll" /\ PollsOn(c)
    /\ UNCHANGED <<configured, outbound, inbox, arrived, writes>>

\* The bulk transfer ends when the bridge has a frame.
Fetch(c) ==
    /\ call[c].pc = "fetch" /\ inbox # <<>>
    /\ call' = [call EXCEPT ![c].pc = "confirm", ![c].frame = Head(inbox)]
    /\ UNCHANGED <<opening, configured, outbound, inbox, arrived, writes, got>>

FetchStalls(c) ==
    /\ host = "browser" /\ call[c].pc = "fetch" /\ PollsOn(c)
    /\ UNCHANGED <<configured, outbound, inbox, arrived, writes>>

\* Mutant: the frame is returned and left in the bridge.
ConfirmNothing(c) ==
    /\ call[c].pc = "confirm" /\ UNCHANGED inbox
    /\ Leave(c, "frame") /\ got' = [got EXCEPT ![c] = call[c].frame]
    /\ UNCHANGED <<configured, outbound, arrived, writes>>

Confirm(c) ==
    /\ \/ call[c].pc = "confirm" /\ TakeDone
       \/ call[c].pc = "unconfirmed" /\ UNCHANGED inbox
    /\ Leave(c, "frame") /\ got' = [got EXCEPT ![c] = call[c].frame]
    /\ UNCHANGED <<configured, outbound, arrived, writes>>

(***************************************************************************)
(* A transfer rejects, whether or not it had reached the bridge, and so    *)
(* does the call; close() rejects all that follow.                         *)
(***************************************************************************)
Reached(c) ==
    CASE call[c].pc = "announce" -> TakeSize(c) /\ UNCHANGED inbox
      [] call[c].pc = "bulk" -> TakeFrame(c) /\ UNCHANGED inbox
      [] call[c].pc = "confirm" -> TakeDone /\ UNCHANGED outbound
      [] OTHER -> UNCHANGED <<outbound, inbox>>

Throw(c) ==
    /\ call[c].pc # "none" /\ Leave(c, "threw")
    /\ got' = IF call[c].pc \in Receiving THEN [got EXCEPT ![c] = None] ELSE got
    /\ Reached(c) \/ UNCHANGED <<outbound, inbox>>
    /\ UNCHANGED <<configured, arrived, writes>>

Close ==
    /\ stage \in {"greet", "drain", "open"} /\ stage' = "closed"
    /\ UNCHANGED <<host, step, drained, call, configured, outbound, inbox, arrived, writes, got>>

(***************************************************************************)
(* The bridge and the bike.                                                *)
(***************************************************************************)
\* Not configured, it acknowledges the writes, forwards none of them and has
\* nothing to read (the comment of init()).
Forward ==
    /\ out = "busy" /\ stage # "closed" /\ pending' = None
    /\ \/ out' = "done" /\ carried' = IF configured THEN pending ELSE carried
       \/ out' = "failed" /\ UNCHANGED carried
    /\ UNCHANGED <<opening, call, configured, size, inbox, arrived, writes, got>>

Arrive ==
    /\ arrived < MaxArrivals /\ configured /\ stage \in {"greet", "drain", "open"}
    /\ arrived' = arrived + 1 /\ inbox' = Append(inbox, arrived')
    /\ UNCHANGED <<opening, call, configured, outbound, writes, got>>

Transfer(c) ==
    /\ stage # "closed"
    /\ \/ Announce(c) \/ Bulk(c) \/ Stalls(c) \/ AckDone(c) \/ AckFailed(c) \/ AckAgain(c)
       \/ Pending(c) \/ NothingPending(c) \/ Fetch(c) \/ FetchStalls(c) \/ Confirm(c)

Next ==
    \/ Configure \/ ConfigureThrows \/ Close \/ Forward \/ Arrive
    \/ \E c \in Callers : StartWrite(c) \/ StartRead(c) \/ Transfer(c) \/ Throw(c)

Spec == Init /\ [][Next]_vars

\* A transfer the bridge can serve settles, a frame it holds is forwarded, and
\* nothing hangs in a closed device.
Fairness ==
    /\ WF_vars(Configure) /\ WF_vars(Forward)
    /\ \A c \in Callers : WF_vars(Transfer(c)) /\ WF_vars(stage = "closed" /\ Throw(c))
    /\ WF_vars(StartWrite(Opener) /\ stage = "greet") /\ WF_vars(StartRead(Opener) /\ stage = "drain")

FairSpec == Spec /\ Fairness

-----------------------------------------------------------------------------
Ids == 1..MaxWrites

TypeOK ==
    /\ host \in Hosts
    /\ stage \in {"configure", "greet", "drain", "open", "failed", "closed"}
    /\ step \in Nat /\ drained \in Nat /\ configured \in BOOLEAN
    /\ \A c \in Callers :
         /\ call[c].pc \in {"none"} \cup Sending \cup Receiving
         /\ call[c].tries < IF call[c].pc \in Receiving THEN MaxPolls ELSE MaxTries
         /\ call[c].tries \in Nat /\ call[c].clean \in BOOLEAN
         /\ call[c].frame \in Nat \cup {None} /\ got[c] \in Nat \cup {None}
    /\ size \in Nat /\ out \in {"idle", "busy", "done", "failed"}
    /\ {pending, carried} \subseteq [id : Ids, whole : BOOLEAN, clean : BOOLEAN] \cup {None}
    /\ inbox \in Seq(Nat) /\ arrived \in 0..MaxArrivals /\ writes \in 0..MaxWrites

(***************************************************************************)
(* The length announced by one write is the length of the frame the bridge *)
(* forwards for it: only writes that overlapped, or lost their             *)
(* announcement to a stall, go out with a length that is not theirs.       *)
(***************************************************************************)
WholeFrames == carried # None /\ carried.clean => carried.whole

(***************************************************************************)
(* doMcspWrite returns without an error only when its own frame is on the  *)
(* bus: the acknowledgement it reads is never the one of an earlier frame. *)
(***************************************************************************)
OnTheBus(c) == carried # None /\ carried.id = call[c].frame

SuccessMeansForwarded == \A c \in Callers : configured /\ Acked(c) /\ call[c].clean => OnTheBus(c)

(***************************************************************************)
(* readNextFrame, for callers that do not overlap, is a first-in first-out *)
(* inbox (Channel): no frame twice, none skipped, none out of order.       *)
(***************************************************************************)
Reading == [c \in Callers |->
    IF call[c].pc \notin Receiving THEN "no" ELSE IF call[c].clean THEN "alone" ELSE "crossed"]

Abstract == INSTANCE Channel WITH Frames <- 1..MaxArrivals, reading <- Reading

ImplementsChannel == Abstract!Spec

(***************************************************************************)
(* A call on the transport ends unless it overlapped another one: the      *)
(* polls are bounded, and the bulk transfer of a read starts only when     *)
(* there is a frame for it.  (Two overlapping reads may see the same       *)
(* length; the second then waits for a frame that has been confirmed.)     *)
(***************************************************************************)
CallsEnd == \A c \in Callers : (call[c].pc # "none") ~> (call[c].pc = "none" \/ ~call[c].clean)

(***************************************************************************)
(* open() ends, however many frames the bike keeps sending.                *)
(***************************************************************************)
OpenEnds == (stage \in {"configure", "greet", "drain"}) ~> (stage \in {"open", "failed", "closed"})
=============================================================================
