------------------------------ MODULE Exchange ------------------------------
(***************************************************************************)
(* The request/response exchanges of web/app.js over the one frame queue   *)
(* of a transport: readOne, rpcCallWithArg, writeAndReadBack,              *)
(* subscribeOnce and the keep-alive timer, run as coroutines that take     *)
(* turns at every await.  The bike answers a request at any later moment,  *)
(* in any order, or never; a transfer may get stuck; the link may drop.    *)
(***************************************************************************)
EXTENDS Naturals, Sequences, FiniteSets

CONSTANTS
    Callers,        \* coroutines that run exchanges: the sweep, click handlers
    Pings,          \* keep-alive timer callbacks that may be in flight
    Addrs,          \* data-point addresses the callers use
    KeepAliveAddr,  \* KEEP_ALIVE_ADDR, never read or called by the sweep
    Ops,            \* the exchanges the callers start
    Declines,       \* the kinds of request the bike may decline
    SeqMod,         \* sequence numbers are masked with 0x0f: 16 in the code
    MaxAttempts,    \* 2 in the code
    MaxDrain,       \* 4 in the code
    MaxCalls,       \* bound: no exchange starts after this many nextSeq() calls
    MaxPings,       \* bound: keep-alive requests
    MaxQueue,       \* bound: pushed frames are not queued beyond this length
    None

ASSUME CallersAssumption == Callers \cap Pings = {}
ASSUME AddrAssumption == KeepAliveAddr \notin Addrs
ASSUME OpsAssumption == Ops \subseteq {"read", "rpc", "write", "subscribe"}
ASSUME BoundsAssumption ==
    /\ SeqMod \in Nat \ {0} /\ MaxAttempts \in Nat \ {0} /\ MaxDrain \in Nat
    /\ MaxCalls \in Nat /\ MaxPings \in Nat /\ MaxQueue \in Nat

VARIABLES
    queue,      \* inbound frames of the transport, oldest first
    wire,       \* requests sent and not yet answered by the bike
    subs,       \* addresses the bike pushes to us
    linkUp,     \* FALSE once the device is gone: transport calls then throw
    calls,      \* nextSeq() calls so far; seqCounter is calls % SeqMod
    pings,      \* keep-alive requests so far; keepAliveSeq is pings % SeqMod
    busy,       \* transportBusy
    task,       \* the state of every coroutine
    stuck,      \* coroutines whose awaited transfer neither returns nor throws
    got,        \* history: the last reply a caller's exchange accepted
    lastSub     \* history: the last (un)subscription attempted per address

vars == <<queue, wire, subs, linkUp, calls, pings, busy, task, stuck, got, lastSub>>

Tasks == Callers \cup Pings

(***************************************************************************)
(* Frames.  A request carries who sent it and the count of nextSeq() calls *)
(* at that moment (id); the wire shows only addr, kind and seq.            *)
(***************************************************************************)
Kinds == {"READ", "WRITE", "RPC", "SUBSCRIBE", "UNSUBSCRIBE"}

ResponseType(kind) ==
    CASE kind = "READ" -> "READ_RESPONSE"
      [] kind = "WRITE" -> "WRITE_RESPONSE"
      [] kind = "RPC" -> "RPC_RESPONSE"
      [] kind = "SUBSCRIBE" -> "SUBSCRIBE_RESPONSE"
      [] OTHER -> "UNSUBSCRIBE_RESPONSE"

ResponseTypes == {"READ_RESPONSE", "WRITE_RESPONSE", "RPC_RESPONSE",
                  "SUBSCRIBE_RESPONSE", "UNSUBSCRIBE_RESPONSE"}

KindOf(op) ==
    CASE op \in {"read", "readback"} -> "READ"
      [] op = "write" -> "WRITE"
      [] op = "subscribe" -> "SUBSCRIBE"
      [] OTHER -> "RPC"

Requests == [kind : Kinds, addr : Addrs \cup {KeepAliveAddr}, seq : Nat,
             from : Tasks, id : Nat]

Frames == [type : ResponseTypes \cup {"NOTIFY"}, addr : Addrs \cup {KeepAliveAddr},
           seq : Nat, ok : BOOLEAN, from : Tasks \cup {None}, id : Nat]

ResponseTo(r, ok) ==
    [type |-> ResponseType(r.kind), addr |-> r.addr, seq |-> r.seq,
     ok |-> ok, from |-> r.from, id |-> r.id]

Notify(a) == [type |-> "NOTIFY", addr |-> a, seq |-> 0, ok |-> TRUE,
              from |-> None, id |-> 0]

TaskOps == {"none", "read", "readback", "rpc", "write", "subscribe", "ping"}
PCs == {"idle", "drain", "send", "await", "notify", "unsub", "cleanup"}

Idle == [pc |-> "idle", op |-> "none", addr |-> KeepAliveAddr, attempt |-> 0,
         drained |-> 0, seq |-> 0, id |-> 0]

TaskStates == [pc : PCs, op : TaskOps, addr : Addrs \cup {KeepAliveAddr},
               attempt : Nat, drained : Nat, seq : Nat, id : Nat]

Replies == [op : TaskOps, addr : Addrs, seq : Nat, id : Nat, frame : Frames]

\* The exchanges that compare type and sequence number, not the address alone.
Matched == {"rpc", "write", "subscribe"}

(***************************************************************************)
(* The frame at the head of the queue, as each reader's tests see it.      *)
(***************************************************************************)
\* Mutant: the matching by address alone that rpcCallWithArg had before.
AnswersByAddress(s, f) ==
    f.type # "NOTIFY" /\ (s.op # "subscribe" => f.addr = s.addr)

Answers(s, f) ==
    /\ f.type # "NOTIFY"                      \* parseReadResponseFrame
    /\ s.op # "subscribe" => f.addr = s.addr
    /\ s.op \in Matched =>
          f.type = ResponseType(KindOf(s.op)) /\ f.seq = s.seq

Pushed(s, f) == f.type = "NOTIFY" /\ f.addr = s.addr  \* parseNotifyMessage

Init ==
    /\ queue = <<>> /\ wire = {} /\ subs = {} /\ linkUp = TRUE
    /\ calls = 0 /\ pings = 0 /\ busy = FALSE
    /\ task = [t \in Tasks |-> Idle] /\ stuck = {}
    /\ got = [c \in Callers |-> None]
    /\ lastSub = [a \in Addrs |-> "none"]

\* Mutant: the free-running counter of an earlier version.
Unmasked(n) == n

\* nextSeq() and keepAliveSeq: only the low nibble of the count is sent.
Mask(n) == n % SeqMod

(***************************************************************************)
(* The callers' exchanges.                                                 *)
(***************************************************************************)
Begin(op, a) == [Idle EXCEPT !.pc = "drain", !.op = op, !.addr = a]

Goto(c, pc) == task' = [task EXCEPT ![c].pc = pc, ![c].drained = 0]

\* The finally block of an exchange; writeAndReadBack goes on to its readOne.
Leave(c) ==
    IF task[c].op = "write"
    THEN /\ task' = [task EXCEPT ![c] = Begin("readback", task[c].addr)]
         /\ busy' = TRUE
    ELSE /\ task' = [task EXCEPT ![c] = Idle]
         /\ busy' = FALSE

Start(c, op, a) ==
    /\ task[c].pc = "idle" /\ calls < MaxCalls
    /\ task' = [task EXCEPT ![c] = Begin(op, a)]
    /\ busy' = TRUE
    /\ got' = [got EXCEPT ![c] = None]
    /\ UNCHANGED <<queue, wire, subs, linkUp, calls, pings, lastSub>>

\* Mutant: drains until the queue is empty.
DrainAll(c) ==
    /\ task[c].pc \in {"drain", "cleanup"} /\ queue # <<>>
    /\ queue' = Tail(queue)
    /\ UNCHANGED <<wire, subs, linkUp, calls, pings, busy, task, got, lastSub>>

\* readNextFrame(1, 2) found a frame: one of at most four stale ones dropped.
DrainOne(c) ==
    /\ task[c].pc \in {"drain", "cleanup"}
    /\ task[c].drained < MaxDrain /\ queue # <<>>
    /\ queue' = Tail(queue)
    /\ task' = [task EXCEPT ![c].drained = @ + 1]
    /\ UNCHANGED <<wire, subs, linkUp, calls, pings, busy, got, lastSub>>

DrainDone(c) ==
    /\ task[c].pc \in {"drain", "cleanup"}
    /\ task[c].drained = MaxDrain \/ queue = <<>>
    /\ IF task[c].pc = "drain" THEN Goto(c, "send") /\ UNCHANGED busy ELSE Leave(c)
    /\ UNCHANGED <<queue, wire, subs, linkUp, calls, pings, got, lastSub>>

\* nextSeq() and doMcspWrite() of the request frame.
Send(c) ==
    /\ task[c].pc = "send" /\ linkUp
    /\ calls' = calls + 1
    /\ LET seq  == Mask(calls')
           kind == KindOf(task[c].op)
       IN /\ wire' = wire \cup {[kind |-> kind, addr |-> task[c].addr, seq |-> seq,
                                 from |-> c, id |-> calls']}
          /\ task' = [task EXCEPT ![c].pc = "await", ![c].seq = seq, ![c].id = calls']
          /\ lastSub' = IF kind = "SUBSCRIBE" THEN [lastSub EXCEPT ![task[c].addr] = kind]
                        ELSE lastSub
    /\ UNCHANGED <<queue, subs, linkUp, pings, busy, got>>

\* The reply the exchange was waiting for.
Accept(c) ==
    /\ task[c].pc = "await" /\ queue # <<>> /\ Answers(task[c], Head(queue))
    /\ queue' = Tail(queue)
    /\ got' = [got EXCEPT ![c] = [op |-> task[c].op, addr |-> task[c].addr,
                                  seq |-> task[c].seq, id |-> task[c].id,
                                  frame |-> Head(queue)]]
    /\ IF task[c].op = "subscribe"
       THEN Goto(c, IF Head(queue).ok THEN "notify" ELSE "unsub") /\ UNCHANGED busy
       ELSE Leave(c)
    /\ UNCHANGED <<wire, subs, linkUp, calls, pings, lastSub>>

\* Any other frame is read off the queue and dropped.
Discard(t) ==
    /\ task[t].pc = "await" /\ queue # <<>> /\ ~Answers(task[t], Head(queue))
    /\ queue' = Tail(queue)
    /\ UNCHANGED <<wire, subs, linkUp, calls, pings, busy, task, got, lastSub>>

\* Mutant: an unacknowledged SUBSCRIBE returns without the finally block.
TimeoutReturns(c) ==
    /\ task[c].pc = "await" /\ Leave(c)
    /\ UNCHANGED <<queue, wire, subs, linkUp, calls, pings, got, lastSub>>

\* The deadline of an attempt passes.
Timeout(c) ==
    /\ task[c].pc = "await"
    /\ IF task[c].op = "subscribe" THEN Goto(c, "unsub") /\ UNCHANGED busy
       ELSE IF task[c].attempt + 1 < MaxAttempts
       THEN /\ task' = [task EXCEPT ![c].pc = "drain", ![c].drained = 0, ![c].attempt = @ + 1]
            /\ UNCHANGED busy
       ELSE Leave(c)
    /\ UNCHANGED <<queue, wire, subs, linkUp, calls, pings, got, lastSub>>

\* subscribeOnce polls for the pushed value ...
AwaitNotify(c) ==
    /\ task[c].pc = "notify" /\ queue # <<>>
    /\ queue' = Tail(queue)
    /\ IF Pushed(task[c], Head(queue)) THEN Goto(c, "unsub") ELSE UNCHANGED task
    /\ UNCHANGED <<wire, subs, linkUp, calls, pings, busy, got, lastSub>>

\* ... until its own deadline.
NotifyTimeout(c) ==
    /\ task[c].pc = "notify"
    /\ Goto(c, "unsub")
    /\ UNCHANGED <<queue, wire, subs, linkUp, calls, pings, busy, got, lastSub>>

Unsubscribe(c) ==
    /\ task[c].pc = "unsub" /\ linkUp
    /\ calls' = calls + 1
    /\ wire' = wire \cup {[kind |-> "UNSUBSCRIBE", addr |-> task[c].addr,
                           seq |-> Mask(calls'), from |-> c, id |-> calls']}
    /\ lastSub' = [lastSub EXCEPT ![task[c].addr] = "UNSUBSCRIBE"]
    /\ Goto(c, "cleanup")
    /\ UNCHANGED <<queue, subs, linkUp, pings, busy, got>>

\* Mutant: the flag is cleared on the normal path only, not in a finally block.
ThrowKeepsFlag(c) ==
    /\ task[c].pc \notin {"idle", "unsub"}
    /\ task' = [task EXCEPT ![c] = Idle]
    /\ UNCHANGED <<queue, wire, subs, linkUp, calls, pings, busy, got, lastSub>>

\* A transport call throws, because the device is gone or for a reason of its
\* own (a write the bridge does not acknowledge): subscribeOnce still runs its
\* finally block.
Throw(c) ==
    /\ task[c].pc \notin {"idle", "unsub"}
    /\ calls' = IF task[c].pc = "send" THEN calls + 1 ELSE calls
    /\ IF task[c].op = "subscribe" /\ task[c].pc # "cleanup"
       THEN Goto(c, "unsub") /\ UNCHANGED busy
       ELSE Leave(c)
    /\ UNCHANGED <<queue, wire, subs, linkUp, pings, got, lastSub>>

\* The UNSUBSCRIBE cannot be written: "best-effort cleanup only".
UnsubscribeThrows(c) ==
    /\ task[c].pc = "unsub"
    /\ calls' = calls + 1
    /\ lastSub' = [lastSub EXCEPT ![task[c].addr] = "UNSUBSCRIBE"]
    /\ Leave(c)
    /\ UNCHANGED <<queue, wire, subs, linkUp, pings, got>>

(***************************************************************************)
(* sendKeepAlive: no ping is sent while transportBusy is set; the ping's   *)
(* own wait for its answer does not set it.                                *)
(***************************************************************************)
Ping(p) ==
    /\ task[p].pc = "idle" /\ ~busy /\ linkUp /\ pings < MaxPings
    /\ pings' = pings + 1
    /\ wire' = wire \cup {[kind |-> "RPC", addr |-> KeepAliveAddr,
                           seq |-> Mask(pings'), from |-> p, id |-> pings']}
    /\ task' = [task EXCEPT ![p] = [Idle EXCEPT !.pc = "await", !.op = "ping",
                                    !.seq = Mask(pings'), !.id = pings']]
    /\ UNCHANGED <<queue, subs, linkUp, calls, busy, got, lastSub>>

PingAnswered(p) ==
    /\ task[p].pc = "await" /\ queue # <<>> /\ Answers(task[p], Head(queue))
    /\ queue' = Tail(queue)
    /\ task' = [task EXCEPT ![p] = Idle]
    /\ UNCHANGED <<wire, subs, linkUp, calls, pings, busy, got, lastSub>>

\* 300 ms passed, or a transport call threw.
PingOver(p) ==
    /\ task[p].pc = "await"
    /\ task' = [task EXCEPT ![p] = Idle]
    /\ UNCHANGED <<queue, wire, subs, linkUp, calls, pings, busy, got, lastSub>>

(***************************************************************************)
(* The bike and the link (not under src/): answers late and out of order,  *)
(* loses requests and answers, pushes values of subscribed addresses.      *)
(***************************************************************************)
\* Mutant: any request subscribes its address.
ServedAny(r, ok) == subs' = IF ok THEN subs \cup {r.addr} ELSE subs

Served(r, ok) ==
    subs' = CASE r.kind = "SUBSCRIBE" /\ ok -> subs \cup {r.addr}
              [] r.kind = "UNSUBSCRIBE" /\ ok -> subs \ {r.addr}
              [] OTHER -> subs

BikeAnswers(r, ok) ==
    /\ linkUp
    /\ ok \/ r.kind \in Declines
    /\ wire' = wire \ {r}
    /\ queue' = Append(queue, ResponseTo(r, ok))
    /\ Served(r, ok)
    /\ UNCHANGED <<linkUp, calls, pings, busy, task, got, lastSub>>

\* The request is lost, or served and its answer lost.
Lost(r, served) ==
    /\ served => r.kind \in {"SUBSCRIBE", "UNSUBSCRIBE"}
    /\ wire' = wire \ {r}
    /\ Served(r, served)
    /\ UNCHANGED <<queue, linkUp, calls, pings, busy, task, got, lastSub>>

BikePushes(a) ==
    /\ linkUp /\ Len(queue) < MaxQueue
    /\ queue' = Append(queue, Notify(a))
    /\ UNCHANGED <<wire, subs, linkUp, calls, pings, busy, task, got, lastSub>>

LinkDrops ==
    /\ linkUp /\ linkUp' = FALSE
    /\ wire' = {}
    /\ UNCHANGED <<queue, subs, calls, pings, busy, task, got, lastSub>>

CallerStep(c) ==
    \/ DrainOne(c) \/ DrainDone(c) \/ Send(c) \/ Accept(c) \/ Discard(c)
    \/ Timeout(c) \/ AwaitNotify(c) \/ NotifyTimeout(c) \/ Unsubscribe(c)
    \/ Throw(c) \/ UnsubscribeThrows(c)

PingStep(p) == PingAnswered(p) \/ Discard(p) \/ PingOver(p)

BikeStep ==
    \/ \E r \in wire, ok \in BOOLEAN : BikeAnswers(r, ok) \/ Lost(r, ok)
    \/ \E a \in subs : BikePushes(a)

(***************************************************************************)
(* A deadline is tested between two awaited transfers, and "a single stuck *)
(* low-level USB transfer has no timeout of its own": its coroutine stays  *)
(* where it is, for good or until the transport is gone, when the browser  *)
(* rejects the transfer and the await throws.                              *)
(***************************************************************************)
Runs(t) == t \notin stuck /\ UNCHANGED stuck

Sticks(t) ==
    /\ task[t].pc # "idle" /\ linkUp /\ t \notin stuck
    /\ stuck' = stuck \cup {t}
    /\ UNCHANGED <<queue, wire, subs, linkUp, calls, pings, busy, task, got, lastSub>>

Rejected(t) ==
    /\ t \in stuck /\ ~linkUp
    /\ stuck' = stuck \ {t}
    /\ \/ t \in Callers /\ (Throw(t) \/ UnsubscribeThrows(t))
       \/ t \in Pings /\ PingOver(t)

Next ==
    \/ \E c \in Callers : Runs(c) /\ (CallerStep(c) \/ \E op \in Ops, a \in Addrs : Start(c, op, a))
    \/ \E p \in Pings : Runs(p) /\ (Ping(p) \/ PingStep(p))
    \/ \E t \in Tasks : Sticks(t) \/ Rejected(t)
    \/ (BikeStep \/ LinkDrops) /\ UNCHANGED stuck

Spec == Init /\ [][Next]_vars

\* A coroutine that can run does run, and Date.now() passes every deadline
\* however many frames keep arriving: no step waits for the bike.  Nothing is
\* assumed of a stuck transfer while the device is there; one that is gone or
\* closed rejects it.
FairSpec ==
    /\ Spec
    /\ \A c \in Callers : /\ WF_vars(Runs(c) /\ CallerStep(c))
                          /\ WF_vars(Runs(c) /\ Timeout(c))
                          /\ WF_vars(Runs(c) /\ NotifyTimeout(c))
                          /\ WF_vars(Rejected(c))

-----------------------------------------------------------------------------
VarsTyped ==
    /\ queue \in Seq(Frames) /\ wire \subseteq Requests
    /\ subs \subseteq Addrs /\ linkUp \in BOOLEAN
    /\ calls \in Nat /\ pings \in Nat /\ busy \in BOOLEAN
    /\ task \in [Tasks -> TaskStates]
    /\ got \in [Callers -> Replies \cup {None}]
    /\ lastSub \in [Addrs -> {"none", "SUBSCRIBE", "UNSUBSCRIBE"}]

TypeOK == VarsTyped /\ stuck \subseteq Tasks

(***************************************************************************)
(* An RPC, a write and a subscription never take the answer to another     *)
(* transmission for their own, however late answers come, whoever else     *)
(* polls the queue and however often they retry, unless the two            *)
(* transmissions are a whole period of the 4-bit sequence number apart.    *)
(* (rpcCallWithArg, writeAndReadBack and subscribeOnce match on the        *)
(* sequence number "before accepting it".)                                 *)
(***************************************************************************)
OwnOrPeriodApart(r) ==
    /\ r.frame.from \in Callers
    /\ \/ r.frame.id = r.id
       \/ r.frame.id + SeqMod <= r.id
       \/ r.id + SeqMod <= r.frame.id

AnswersOwnRequest ==
    \A c \in Callers :
        got[c] # None /\ got[c].op \in Matched => OwnOrPeriodApart(got[c])

(***************************************************************************)
(* Exchange implements Calls: the coroutines, retries, drains and time-outs *)
(* of one caller never change another caller's call or its answer, and a   *)
(* call answers only while it is open.                                     *)
(***************************************************************************)
Open == {c \in Callers : task[c].pc # "idle"}

OwnReplies == {r \in Replies : r.op \in Matched => OwnOrPeriodApart(r)}

C == INSTANCE Calls WITH open <- Open, reply <- got, Acceptable <- OwnReplies

ImplementsCalls == C!Spec

(***************************************************************************)
(* What a frame's type, address and sequence number say about its origin,  *)
(* whoever reads it: the strengthening that makes AnswersOwnRequest        *)
(* inductive.  A caller's request and its answer carry the count of        *)
(* nextSeq() calls modulo 16; only keep-alive frames bear KeepAliveAddr.   *)
(***************************************************************************)
SeqOf(r) == r.seq = r.id % SeqMod

RequestOrigin(r) ==
    /\ r.from \in Callers => r.addr \in Addrs /\ SeqOf(r)
    /\ r.from \in Pings => r.addr = KeepAliveAddr /\ r.kind = "RPC"

FrameOrigin(f) ==
    f.type # "NOTIFY" =>
        /\ f.from \in Callers => f.addr \in Addrs /\ SeqOf(f)
        /\ f.from \in Pings => f.addr = KeepAliveAddr /\ f.type = "RPC_RESPONSE"
        /\ f.from \in Tasks

CallerState(s) ==
    /\ s.pc # "idle" => s.addr \in Addrs /\ s.op \notin {"none", "ping"}
    /\ s.pc = "await" => SeqOf(s)

Provenance ==
    /\ \A r \in wire : RequestOrigin(r)
    /\ \A i \in 1..Len(queue) : FrameOrigin(queue[i])
    /\ \A c \in Callers : CallerState(task[c])

(***************************************************************************)
(* transportBusy is "Set for the duration of any function that polls       *)
(* transport.readNextFrame()".                                             *)
(***************************************************************************)
BusyWhilePolling == (\E c \in Callers : task[c].pc # "idle") => busy

(***************************************************************************)
(* The flag is never left set: once every exchange has returned, by        *)
(* whatever path, the keep-alive may ping again.                           *)
(***************************************************************************)
BusyIsReleased == busy => \E c \in Callers : task[c].pc # "idle"

(***************************************************************************)
(* subscribeOnce "always unsubscribes before returning", declined, timed   *)
(* out or thrown out of: an address whose last request was SUBSCRIBE       *)
(* belongs to a subscribeOnce that has still to attempt its UNSUBSCRIBE.   *)
(***************************************************************************)
UnsubscribesBeforeReturning ==
    \A a \in Addrs : lastSub[a] = "SUBSCRIBE" =>
        \E c \in Callers : task[c].op = "subscribe" /\ task[c].addr = a
                            /\ task[c].pc \in {"await", "notify", "unsub"}

(***************************************************************************)
(* Every exchange returns, even when the bike never answers, floods the    *)
(* queue with pushed values or drops off, unless a transfer of its own is  *)
(* stuck on a device that is still there; no exchange waits for the stuck  *)
(* one of another, and a stuck one returns once the device is gone.        *)
(***************************************************************************)
EveryExchangeReturns ==
    \A c \in Callers :
        (task[c].pc # "idle") ~> (task[c].pc = "idle" \/ (c \in stuck /\ linkUp))

(***************************************************************************)
(* Draining the queue before a read, a late frame "can't be mistaken for   *)
(* this response": what readOne accepts answers its own transmission.      *)
(***************************************************************************)
ReadTakesOwnAnswer ==
    \A c \in Callers :
        got[c] # None /\ got[c].op \in {"read", "readback"} => got[c].frame.id = got[c].id
=============================================================================
