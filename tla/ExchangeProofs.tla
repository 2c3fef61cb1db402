--------------------------- MODULE ExchangeProofs ---------------------------
(***************************************************************************)
(* Theorems about Exchange, for any set of callers, pings and addresses,   *)
(* any period of the sequence number and any number of attempts.           *)
(***************************************************************************)
EXTENDS Exchange, Integers, TLAPS

(* Two numbers equal modulo M are equal or at least M apart: what a        *)
(* matching 4-bit sequence number says of two nextSeq() counts.            *)
LEMMA SameResidue ==
    ASSUME NEW M \in Nat \ {0}, NEW a \in Nat, NEW b \in Nat, a % M = b % M
    PROVE  a = b \/ a + M <= b \/ b + M <= a
<1>1. /\ a = M * (a \div M) + (a % M) /\ a \div M \in Int
      /\ b = M * (b \div M) + (b % M) /\ b \div M \in Int
  OBVIOUS
<1> DEFINE p == a \div M
           q == b \div M
<1>2. /\ p \in Int /\ q \in Int /\ b - a = M * q - M * p
  BY <1>1
<1> HIDE DEF p, q
<1>3. M * q - M * p = M * (q - p)
  BY <1>2
<1>4. CASE q - p = 0
  BY <1>2, <1>3, <1>4
<1>5. CASE q - p >= 1
  <2>1. M * (q - p) >= M
    BY <1>2, <1>5
  <2> QED BY <1>2, <1>3, <2>1
<1>6. CASE q - p <= -1
  <2>1. M * (q - p) <= -M
    BY <1>2, <1>6
  <2> QED BY <1>2, <1>3, <2>1
<1> QED BY <1>2, <1>4, <1>5, <1>6

(* Small facts about the records the actions build.                        *)
LEMMA IdleState == Idle \in TaskStates /\ Idle.pc = "idle" /\ Idle.op = "none"
BY DEF Idle, TaskStates, PCs, TaskOps

LEMMA BeginState ==
    ASSUME NEW op \in {"read", "readback", "rpc", "write", "subscribe"}, NEW a \in Addrs
    PROVE  /\ Begin(op, a) \in TaskStates
           /\ Begin(op, a).pc = "drain" /\ Begin(op, a).op = op /\ Begin(op, a).addr = a
           /\ CallerState(Begin(op, a))
BY DEF Begin, Idle, TaskStates, PCs, TaskOps, CallerState

LEMMA ResponseFrame ==
    ASSUME NEW r \in Requests, NEW ok \in BOOLEAN
    PROVE  /\ ResponseTo(r, ok) \in Frames
           /\ RequestOrigin(r) => FrameOrigin(ResponseTo(r, ok))
BY DEF ResponseTo, ResponseType, Requests, Frames, ResponseTypes, Kinds, Tasks,
       RequestOrigin, FrameOrigin, SeqOf

LEMMA NotifyFrame ==
    ASSUME NEW a \in Addrs
    PROVE  Notify(a) \in Frames /\ FrameOrigin(Notify(a))
BY DEF Notify, Frames, FrameOrigin

LEMMA SeqIsNat == \A n \in Nat : n % SeqMod \in Nat
BY BoundsAssumption

-----------------------------------------------------------------------------
(* The inductive invariant.                                                *)
IInv == VarsTyped /\ Provenance /\ AnswersOwnRequest

LEMMA InitIInv == Init => IInv
<1> SUFFICES ASSUME Init PROVE IInv
  OBVIOUS
<1>1. VarsTyped
  <2>1. task \in [Tasks -> TaskStates]
    BY IdleState DEF Init
  <2>2. queue \in Seq(Frames)
    BY DEF Init
  <2>3. /\ got \in [Callers -> Replies \cup {None}]
        /\ lastSub \in [Addrs -> {"none", "SUBSCRIBE", "UNSUBSCRIBE"}]
    BY DEF Init
  <2> QED BY <2>1, <2>2, <2>3 DEF Init, VarsTyped
<1>2. Provenance
  <2>1. \A c \in Callers : CallerState(task[c])
    BY IdleState DEF Init, CallerState, Tasks, Idle
  <2> QED BY <2>1 DEF Init, Provenance
<1>3. AnswersOwnRequest
  BY DEF Init, AnswersOwnRequest
<1> QED BY <1>1, <1>2, <1>3 DEF IInv

(* Reading or appending a frame keeps the queue well formed.               *)
GoodQueue(q) == q \in Seq(Frames) /\ \A i \in 1..Len(q) : FrameOrigin(q[i])

LEMMA HeadTail ==
    ASSUME NEW q, GoodQueue(q), q # <<>>
    PROVE  GoodQueue(Tail(q)) /\ Head(q) \in Frames /\ FrameOrigin(Head(q))
BY DEF GoodQueue

LEMMA AppendFrame ==
    ASSUME NEW q, GoodQueue(q), NEW f \in Frames, FrameOrigin(f)
    PROVE  GoodQueue(Append(q, f))
BY DEF GoodQueue

LEMMA QueueOfIInv == IInv => GoodQueue(queue)
BY DEF IInv, VarsTyped, Provenance, GoodQueue

(* One coroutine moves to a well-formed state.                             *)
Moves(t, s) ==
    /\ task' = [task EXCEPT ![t] = s]
    /\ s \in TaskStates /\ (t \in Callers => CallerState(s))

LEMMA MoveTask ==
    ASSUME IInv, NEW t \in Tasks, NEW s, Moves(t, s)
    PROVE  task' \in [Tasks -> TaskStates] /\ \A c \in Callers : CallerState(task'[c])
BY DEF IInv, VarsTyped, Provenance, Moves, Tasks

LEMMA KeepTask ==
    ASSUME IInv, UNCHANGED task
    PROVE  task' \in [Tasks -> TaskStates] /\ \A c \in Callers : CallerState(task'[c])
BY DEF IInv, VarsTyped, Provenance

(* What each conjunct of the invariant needs of a step.                    *)
LEMMA Assemble ==
    ASSUME GoodQueue(queue'),
           wire' \subseteq Requests, \A r \in wire' : RequestOrigin(r),
           subs' \subseteq Addrs, linkUp' \in BOOLEAN, calls' \in Nat, pings' \in Nat,
           busy' \in BOOLEAN, lastSub' \in [Addrs -> {"none", "SUBSCRIBE", "UNSUBSCRIBE"}],
           task' \in [Tasks -> TaskStates], \A c \in Callers : CallerState(task'[c]),
           got' \in [Callers -> Replies \cup {None}], AnswersOwnRequest'
    PROVE  IInv'
BY DEF IInv, VarsTyped, Provenance, GoodQueue

LEMMA GotoMoves ==
    ASSUME IInv, NEW c \in Callers, task[c].pc # "idle",
           NEW pc \in {"drain", "send", "notify", "unsub", "cleanup"}, Goto(c, pc)
    PROVE  \E s : Moves(c, s)
<1> DEFINE s == [task[c] EXCEPT !.pc = pc, !.drained = 0]
<1>1. task[c] \in TaskStates /\ CallerState(task[c])
  BY DEF IInv, VarsTyped, Provenance, Tasks
<1>2. task' = [task EXCEPT ![c] = s]
  BY DEF Goto
<1>3. s \in TaskStates
  BY <1>1 DEF TaskStates, PCs
<1>4. CallerState(s)
  BY <1>1 DEF TaskStates, CallerState
<1> QED BY <1>2, <1>3, <1>4 DEF Moves

LEMMA LeaveMoves ==
    ASSUME IInv, NEW c \in Callers, task[c].pc # "idle", Leave(c)
    PROVE  (\E s : Moves(c, s)) /\ busy' \in BOOLEAN
<1>1. task[c] \in TaskStates /\ CallerState(task[c])
  BY DEF IInv, VarsTyped, Provenance, Tasks
<1>2. CASE task[c].op = "write"
  <2>1. task[c].addr \in Addrs
    BY <1>1 DEF CallerState
  <2> QED BY <1>2, <2>1, BeginState DEF Leave, Moves
<1>3. CASE task[c].op # "write"
  BY <1>3, IdleState DEF Leave, Moves, CallerState
<1> QED BY <1>2, <1>3

(* A reply that is accepted is well formed and, where the sequence number  *)
(* is compared, answers the transmission the caller waits on.              *)
LEMMA AcceptsOwnReply ==
    ASSUME IInv, NEW c \in Callers, Accept(c)
    PROVE  \E r \in OwnReplies : got' = [got EXCEPT ![c] = r] /\ r.op = task[c].op
<1> DEFINE f == Head(queue)
           reply == [op |-> task[c].op, addr |-> task[c].addr, seq |-> task[c].seq,
                     id |-> task[c].id, frame |-> f]
<1>0. task[c] \in TaskStates /\ CallerState(task[c])
  BY DEF IInv, VarsTyped, Provenance, Tasks
<1>1. f \in Frames /\ FrameOrigin(f)
  BY QueueOfIInv, HeadTail DEF Accept
<1>2. task[c].pc = "await" /\ Answers(task[c], f) /\ got' = [got EXCEPT ![c] = reply]
  BY DEF Accept
<1> HIDE DEF f
<1>3. /\ task[c].addr \in Addrs /\ task[c].addr # KeepAliveAddr
      /\ SeqOf(task[c]) /\ task[c].id \in Nat /\ task[c].seq \in Nat
      /\ task[c].op \in TaskOps
  BY <1>0, <1>2, AddrAssumption DEF CallerState, TaskStates
<1>4. reply \in Replies
  BY <1>1, <1>3 DEF Replies
<1>5. ASSUME task[c].op \in Matched PROVE OwnOrPeriodApart(reply)
  <2>1. f.type # "NOTIFY" /\ f.seq = task[c].seq
    BY <1>2, <1>5 DEF Answers
  <2>2. f.from \notin Pings
    BY <1>1, <1>2, <1>3, <1>5, <2>1 DEF FrameOrigin, Answers, Matched, ResponseType, KindOf
  <2>3. f.from \in Callers /\ SeqOf(f) /\ f.id \in Nat
    BY <1>1, <2>1, <2>2 DEF FrameOrigin, Tasks, Frames
  <2>4. f.id % SeqMod = task[c].id % SeqMod
    BY <1>3, <2>1, <2>3 DEF SeqOf
  <2>5. f.id = task[c].id \/ f.id + SeqMod <= task[c].id \/ task[c].id + SeqMod <= f.id
    BY <1>3, <2>3, <2>4, SameResidue, BoundsAssumption
  <2> QED BY <2>3, <2>5 DEF OwnOrPeriodApart
<1>6. reply.op = task[c].op
  OBVIOUS
<1> HIDE DEF reply
<1>7. reply \in OwnReplies
  BY <1>4, <1>5, <1>6 DEF OwnReplies
<1> QED BY <1>2, <1>6, <1>7

-----------------------------------------------------------------------------
(* A step of the exchanges, of the keep-alive, of the bike or of the link, *)
(* whatever becomes of the stuck transfers.                                *)
others == <<queue, wire, subs, linkUp, calls, pings, busy, task, got, lastSub>>

Acts ==
    \/ \E c \in Callers : CallerStep(c) \/ \E op \in Ops, a \in Addrs : Start(c, op, a)
    \/ \E p \in Pings : Ping(p) \/ PingStep(p)
    \/ BikeStep
    \/ LinkDrops
    \/ UNCHANGED others

LEMMA StepActs == [Next]_vars => Acts
<1> SUFFICES ASSUME [Next]_vars PROVE Acts
  OBVIOUS
<1>1. CASE \E t \in Tasks : Sticks(t) \/ Rejected(t)
  BY <1>1 DEF Sticks, Rejected, Acts, others, CallerStep, PingStep
<1>2. CASE UNCHANGED vars
  BY <1>2 DEF Acts, others, vars
<1> QED BY <1>1, <1>2 DEF Next, Runs, Acts

-----------------------------------------------------------------------------
LEMMA StepIInv == IInv /\ Acts => IInv'
<1> SUFFICES ASSUME IInv, Acts PROVE IInv'
  OBVIOUS
<1> USE QueueOfIInv
<1>0. /\ \A c \in Callers : c \in Tasks /\ task[c] \in TaskStates /\ CallerState(task[c])
      /\ \A p \in Pings : p \in Tasks /\ p \notin Callers
  BY CallersAssumption DEF IInv, VarsTyped, Provenance, Tasks
<1>t. VarsTyped /\ AnswersOwnRequest /\ \A r \in wire : RequestOrigin(r)
  BY DEF IInv, Provenance
<1>1. ASSUME NEW c \in Callers, NEW op \in Ops, NEW a \in Addrs, Start(c, op, a)
      PROVE  IInv'
  <2>1. Moves(c, Begin(op, a))
    BY <1>1, BeginState, OpsAssumption DEF Start, Moves
  <2>2. got' \in [Callers -> Replies \cup {None}] /\ AnswersOwnRequest'
    BY <1>1, <1>t DEF Start, VarsTyped, AnswersOwnRequest
  <2> QED BY <1>0, <1>1, <1>t, <2>1, <2>2, MoveTask, Assemble DEF Start, VarsTyped
<1>2. ASSUME NEW c \in Callers, DrainOne(c)
      PROVE  IInv'
  <2> DEFINE s == [task[c] EXCEPT !.drained = @ + 1]
  <2>5. task' = [task EXCEPT ![c] = s]
    BY <1>2 DEF DrainOne
  <2>6. s \in TaskStates
    BY <1>0 DEF TaskStates
  <2>7. CallerState(s)
    BY <1>0 DEF TaskStates, CallerState, SeqOf
  <2>1. Moves(c, s)
    BY <2>5, <2>6, <2>7 DEF Moves
  <2>2. GoodQueue(queue')
    BY <1>2, HeadTail DEF DrainOne
  <2>3. AnswersOwnRequest'
    BY <1>2, <1>t DEF DrainOne, AnswersOwnRequest
  <2> QED BY <1>0, <1>2, <1>t, <2>1, <2>2, <2>3, MoveTask, Assemble DEF DrainOne, VarsTyped
<1>3. ASSUME NEW c \in Callers, DrainDone(c)
      PROVE  IInv'
  <2>1. (\E s : Moves(c, s)) /\ busy' \in BOOLEAN
    BY <1>3, <1>t, GotoMoves, LeaveMoves DEF DrainDone, VarsTyped
  <2>3. AnswersOwnRequest'
    BY <1>3, <1>t DEF DrainDone, AnswersOwnRequest
  <2> QED BY <1>0, <1>3, <1>t, <2>1, <2>3, MoveTask, Assemble DEF DrainDone, VarsTyped
<1>4. ASSUME NEW c \in Callers, Send(c)
      PROVE  IInv'
  <2> DEFINE seq == Mask(calls')
             r == [kind |-> KindOf(task[c].op), addr |-> task[c].addr, seq |-> seq,
                   from |-> c, id |-> calls']
             s == [task[c] EXCEPT !.pc = "await", !.seq = seq, !.id = calls']
  <2>0. /\ calls' \in Nat /\ seq \in Nat /\ seq = calls' % SeqMod
        /\ task[c].addr \in Addrs /\ task[c].op \notin {"none", "ping"}
    BY <1>0, <1>4, <1>t, SeqIsNat DEF Mask, Send, VarsTyped, CallerState
  <2> HIDE DEF seq
  <2>1. r \in Requests /\ RequestOrigin(r)
    BY <1>0, <2>0, CallersAssumption DEF Requests, Kinds, KindOf, RequestOrigin, SeqOf
  <2>2. wire' = wire \cup {r} /\ task' = [task EXCEPT ![c] = s]
    BY <1>4 DEF Send, seq
  <2>3. s \in TaskStates
    BY <1>0, <2>0 DEF TaskStates, PCs
  <2>4. CallerState(s)
    BY <1>0, <2>0 DEF TaskStates, CallerState, SeqOf
  <2>5. Moves(c, s)
    BY <2>2, <2>3, <2>4 DEF Moves
  <2>6. lastSub' \in [Addrs -> {"none", "SUBSCRIBE", "UNSUBSCRIBE"}]
    BY <1>4, <1>t, <2>0 DEF Send, VarsTyped
  <2>7. AnswersOwnRequest'
    BY <1>4, <1>t DEF Send, AnswersOwnRequest
  <2>8. wire' \subseteq Requests /\ \A x \in wire' : RequestOrigin(x)
    BY <1>t, <2>1, <2>2 DEF VarsTyped
  <2> QED BY <1>0, <1>4, <1>t, <2>0, <2>5, <2>6, <2>7, <2>8, MoveTask, Assemble
          DEF Send, VarsTyped
<1>5. ASSUME NEW c \in Callers, Accept(c)
      PROVE  IInv'
  <2>1. GoodQueue(queue') /\ task[c].pc = "await"
    BY <1>5, HeadTail DEF Accept
  <2>2. PICK r \in OwnReplies : got' = [got EXCEPT ![c] = r] /\ r.op = task[c].op
    BY <1>5, AcceptsOwnReply
  <2>3. got' \in [Callers -> Replies \cup {None}] /\ AnswersOwnRequest'
    BY <1>t, <2>2 DEF VarsTyped, OwnReplies, AnswersOwnRequest
  <2>4. (\E s : Moves(c, s)) /\ busy' \in BOOLEAN
    BY <1>5, <1>t, <2>1, GotoMoves, LeaveMoves DEF Accept, VarsTyped
  <2> QED BY <1>0, <1>5, <1>t, <2>1, <2>3, <2>4, MoveTask, Assemble DEF Accept, VarsTyped
<1>6. ASSUME NEW t \in Tasks, Discard(t)
      PROVE  IInv'
  <2>1. GoodQueue(queue')
    BY <1>6, HeadTail DEF Discard
  <2>2. AnswersOwnRequest'
    BY <1>6, <1>t DEF Discard, AnswersOwnRequest
  <2> QED BY <1>6, <1>t, <2>1, <2>2, KeepTask, Assemble DEF Discard, VarsTyped
<1>7. ASSUME NEW c \in Callers, Timeout(c)
      PROVE  IInv'
  <2> DEFINE s == [task[c] EXCEPT !.pc = "drain", !.drained = 0, !.attempt = @ + 1]
  <2>2. /\ task[c].pc = "await"
        /\ \/ Goto(c, "unsub") /\ UNCHANGED busy
           \/ task' = [task EXCEPT ![c] = s] /\ UNCHANGED busy
           \/ Leave(c)
    BY <1>7 DEF Timeout
  <2>3. (\E x : Moves(c, x)) /\ busy' \in BOOLEAN
    <3>1. CASE Goto(c, "unsub") /\ UNCHANGED busy
      BY <1>t, <2>2, <3>1, GotoMoves DEF VarsTyped
    <3>2. CASE task' = [task EXCEPT ![c] = s] /\ UNCHANGED busy
      <4>1. task[c].attempt + 1 \in Nat /\ s = [task[c] EXCEPT !.pc = "drain", !.drained = 0,
                                                        !.attempt = task[c].attempt + 1]
        BY <1>0 DEF TaskStates
      <4> DEFINE n == task[c].attempt + 1
      <4> HIDE DEF n
      <4>2. s \in TaskStates
        BY <1>0, <4>1 DEF TaskStates, PCs, n
      <4>3. CallerState(s)
        BY <1>0, <2>2 DEF CallerState, TaskStates
      <4> QED BY <1>t, <3>2, <4>2, <4>3 DEF Moves, VarsTyped
    <3>3. CASE Leave(c)
      BY <2>2, <3>3, LeaveMoves
    <3> QED BY <2>2, <3>1, <3>2, <3>3
  <2>4. AnswersOwnRequest'
    BY <1>7, <1>t DEF Timeout, AnswersOwnRequest
  <2> QED BY <1>0, <1>7, <1>t, <2>3, <2>4, MoveTask, Assemble DEF Timeout, VarsTyped
<1>8. ASSUME NEW c \in Callers, AwaitNotify(c)
      PROVE  IInv'
  <2>1. GoodQueue(queue')
    BY <1>8, HeadTail DEF AwaitNotify
  <2>2. task' \in [Tasks -> TaskStates] /\ \A d \in Callers : CallerState(task'[d])
    BY <1>0, <1>8, GotoMoves, MoveTask, KeepTask DEF AwaitNotify
  <2>3. AnswersOwnRequest'
    BY <1>8, <1>t DEF AwaitNotify, AnswersOwnRequest
  <2> QED BY <1>8, <1>t, <2>1, <2>2, <2>3, Assemble DEF AwaitNotify, VarsTyped
<1>9. ASSUME NEW c \in Callers, NotifyTimeout(c)
      PROVE  IInv'
  <2>1. \E s : Moves(c, s)
    BY <1>9, GotoMoves DEF NotifyTimeout
  <2>2. AnswersOwnRequest'
    BY <1>9, <1>t DEF NotifyTimeout, AnswersOwnRequest
  <2> QED BY <1>0, <1>9, <1>t, <2>1, <2>2, MoveTask, Assemble DEF NotifyTimeout, VarsTyped
<1>10. ASSUME NEW c \in Callers, Unsubscribe(c)
       PROVE  IInv'
  <2> DEFINE seq == Mask(calls')
             r == [kind |-> "UNSUBSCRIBE", addr |-> task[c].addr, seq |-> seq,
                   from |-> c, id |-> calls']
  <2>0. calls' \in Nat /\ seq \in Nat /\ seq = calls' % SeqMod /\ task[c].addr \in Addrs
    BY <1>0, <1>10, <1>t, SeqIsNat DEF Mask, Unsubscribe, VarsTyped, CallerState
  <2> HIDE DEF seq
  <2>1. r \in Requests /\ RequestOrigin(r)
    BY <1>0, <2>0, CallersAssumption DEF Requests, Kinds, RequestOrigin, SeqOf
  <2>2. wire' = wire \cup {r}
    BY <1>10 DEF Unsubscribe, seq
  <2>3. wire' \subseteq Requests /\ \A x \in wire' : RequestOrigin(x)
    BY <1>t, <2>1, <2>2 DEF VarsTyped
  <2>4. \E s : Moves(c, s)
    BY <1>10, GotoMoves DEF Unsubscribe
  <2>5. lastSub' \in [Addrs -> {"none", "SUBSCRIBE", "UNSUBSCRIBE"}]
    BY <1>10, <1>t, <2>0 DEF Unsubscribe, VarsTyped
  <2>6. AnswersOwnRequest'
    BY <1>10, <1>t DEF Unsubscribe, AnswersOwnRequest
  <2> QED BY <1>0, <1>10, <1>t, <2>0, <2>3, <2>4, <2>5, <2>6, MoveTask, Assemble
          DEF Unsubscribe, VarsTyped
<1>11. ASSUME NEW c \in Callers, Throw(c)
       PROVE  IInv'
  <2>1. (\E s : Moves(c, s)) /\ busy' \in BOOLEAN
    BY <1>11, <1>t, GotoMoves, LeaveMoves DEF Throw, VarsTyped
  <2>2. AnswersOwnRequest'
    BY <1>11, <1>t DEF Throw, AnswersOwnRequest
  <2>3. calls' \in Nat
    BY <1>11, <1>t DEF Throw, VarsTyped
  <2> QED BY <1>0, <1>11, <1>t, <2>1, <2>2, <2>3, MoveTask, Assemble DEF Throw, VarsTyped
<1>18. ASSUME NEW c \in Callers, UnsubscribeThrows(c)
       PROVE  IInv'
  <2>1. (\E s : Moves(c, s)) /\ busy' \in BOOLEAN
    BY <1>18, LeaveMoves DEF UnsubscribeThrows
  <2>2. AnswersOwnRequest'
    BY <1>18, <1>t DEF UnsubscribeThrows, AnswersOwnRequest
  <2>3. calls' \in Nat /\ task[c].addr \in Addrs
    BY <1>0, <1>18, <1>t DEF UnsubscribeThrows, VarsTyped, CallerState
  <2>4. lastSub' \in [Addrs -> {"none", "SUBSCRIBE", "UNSUBSCRIBE"}]
    BY <1>18, <1>t, <2>3 DEF UnsubscribeThrows, VarsTyped
  <2> QED BY <1>0, <1>18, <1>t, <2>1, <2>2, <2>3, <2>4, MoveTask, Assemble DEF UnsubscribeThrows, VarsTyped
<1>12. ASSUME NEW p \in Pings, Ping(p)
       PROVE  IInv'
  <2> DEFINE seq == Mask(pings')
             r == [kind |-> "RPC", addr |-> KeepAliveAddr, seq |-> seq,
                   from |-> p, id |-> pings']
             s == [Idle EXCEPT !.pc = "await", !.op = "ping", !.seq = seq, !.id = pings']
  <2>0. pings' \in Nat /\ seq \in Nat
    BY <1>12, <1>t, SeqIsNat DEF Mask, Ping, VarsTyped
  <2>1. wire' = wire \cup {r} /\ task' = [task EXCEPT ![p] = s]
    BY <1>12 DEF Ping
  <2> HIDE DEF seq
  <2>2. r \in Requests /\ RequestOrigin(r)
    BY <1>0, <2>0 DEF Requests, Kinds, RequestOrigin
  <2>3. s \in TaskStates
    BY <2>0 DEF Idle, TaskStates, PCs, TaskOps
  <2>4. Moves(p, s)
    BY <1>0, <2>1, <2>3 DEF Moves
  <2>5. wire' \subseteq Requests /\ \A x \in wire' : RequestOrigin(x)
    BY <1>t, <2>1, <2>2 DEF VarsTyped
  <2>6. AnswersOwnRequest'
    BY <1>12, <1>t DEF Ping, AnswersOwnRequest
  <2> QED BY <1>0, <1>12, <1>t, <2>0, <2>4, <2>5, <2>6, MoveTask, Assemble DEF Ping, VarsTyped
<1>13. ASSUME NEW p \in Pings, PingAnswered(p) \/ PingOver(p)
       PROVE  IInv'
  <2>1. GoodQueue(queue')
    BY <1>13, HeadTail DEF PingAnswered, PingOver
  <2>2. Moves(p, Idle)
    BY <1>0, <1>13, IdleState DEF PingAnswered, PingOver, Moves
  <2>3. AnswersOwnRequest'
    BY <1>13, <1>t DEF PingAnswered, PingOver, AnswersOwnRequest
  <2> QED BY <1>0, <1>13, <1>t, <2>1, <2>2, <2>3, MoveTask, Assemble
          DEF PingAnswered, PingOver, VarsTyped
<1>14. ASSUME NEW r \in wire, NEW ok \in BOOLEAN, BikeAnswers(r, ok) \/ Lost(r, ok)
       PROVE  IInv'
  <2>1. r \in Requests /\ RequestOrigin(r)
    BY <1>t DEF VarsTyped
  <2>2. GoodQueue(queue')
    BY <1>14, <2>1, ResponseFrame, AppendFrame DEF BikeAnswers, Lost
  <2>3. wire' \subseteq Requests /\ \A x \in wire' : RequestOrigin(x)
    BY <1>14, <1>t DEF BikeAnswers, Lost, VarsTyped
  <2>4. subs' \subseteq Addrs
    BY <1>14, <1>t, <2>1, CallersAssumption
    DEF BikeAnswers, Lost, Served, VarsTyped, Requests, RequestOrigin, Tasks
  <2>5. AnswersOwnRequest'
    BY <1>14, <1>t DEF BikeAnswers, Lost, AnswersOwnRequest
  <2>6. UNCHANGED <<task, linkUp, calls, pings, busy, got, lastSub>>
    BY <1>14 DEF BikeAnswers, Lost
  <2> QED BY <1>t, <2>2, <2>3, <2>4, <2>5, <2>6, KeepTask, Assemble DEF VarsTyped
<1>15. ASSUME NEW a \in subs, BikePushes(a)
       PROVE  IInv'
  <2>1. GoodQueue(queue')
    BY <1>15, <1>t, NotifyFrame, AppendFrame DEF BikePushes, VarsTyped
  <2>2. AnswersOwnRequest'
    BY <1>15, <1>t DEF BikePushes, AnswersOwnRequest
  <2> QED BY <1>15, <1>t, <2>1, <2>2, KeepTask, Assemble DEF BikePushes, VarsTyped
<1>16. CASE LinkDrops
  <2>1. AnswersOwnRequest'
    BY <1>16, <1>t DEF LinkDrops, AnswersOwnRequest
  <2> QED BY <1>16, <1>t, <2>1, KeepTask, Assemble DEF LinkDrops, VarsTyped
<1>17. CASE UNCHANGED others
  <2>1. AnswersOwnRequest'
    BY <1>17, <1>t DEF others, AnswersOwnRequest
  <2> QED BY <1>17, <1>t, <2>1, KeepTask, Assemble DEF others, VarsTyped
<1> QED BY <1>0, <1>1, <1>2, <1>3, <1>4, <1>5, <1>6, <1>7, <1>8, <1>9, <1>10, <1>11, <1>12,
           <1>13, <1>14, <1>15, <1>16, <1>17, <1>18
        DEF Acts, CallerStep, PingStep, BikeStep

(* Every reachable state satisfies the inductive invariant.                *)
LEMMA Invariance == Spec => []IInv
BY InitIInv, StepIInv, StepActs, PTL DEF Spec

LEMMA Typed == Spec => []VarsTyped
<1>1. IInv => VarsTyped
  BY DEF IInv
<1> QED BY <1>1, Invariance, PTL

(* The variables keep their types whatever the number of callers, pings    *)
(* and frames.                                                             *)
THEOREM TypeCorrect == Spec => []TypeOK
<1>1. Init => stuck \subseteq Tasks
  BY DEF Init
<1>2. stuck \subseteq Tasks /\ [Next]_vars => (stuck \subseteq Tasks)'
  BY DEF Next, Runs, Sticks, Rejected, Tasks, vars
<1>3. VarsTyped /\ stuck \subseteq Tasks => TypeOK
  BY DEF TypeOK
<1> QED BY <1>1, <1>2, <1>3, Typed, PTL DEF Spec

(* The address and sequence number of a request or an answer tell whose it *)
(* is, keep-alives apart from callers, in the air, in the queue and in the *)
(* caller that waits, for any number of callers and pings.                 *)
THEOREM SequenceNumbersTell == Spec => []Provenance
<1>1. IInv => Provenance
  BY DEF IInv
<1> QED BY <1>1, Invariance, PTL

(* rpcCallWithArg, writeAndReadBack and subscribeOnce never take the       *)
(* answer to another transmission for their own, unless the two are a      *)
(* whole period of the sequence number apart: for every number of callers  *)
(* and pings, every period, however late the answers.                      *)
THEOREM NoForeignAnswer == Spec => []AnswersOwnRequest
<1>1. IInv => AnswersOwnRequest
  BY DEF IInv
<1> QED BY <1>1, Invariance, PTL

-----------------------------------------------------------------------------
(* How a step of a caller moves transportBusy: an exchange that returns    *)
(* clears it, one that starts sets it, one that goes on leaves it.         *)
FlagFollows(c) ==
    /\ \A d \in Callers \ {c} : task'[d] = task[d]
    /\ IF task'[c].pc = "idle" THEN busy' = FALSE
       ELSE busy' = TRUE \/ (busy' = busy /\ task[c].pc # "idle")

LEMMA CallerFlag ==
    ASSUME VarsTyped, NEW c \in Callers,
           CallerStep(c) \/ \E op \in Ops, a \in Addrs : Start(c, op, a)
    PROVE  FlagFollows(c)
<1> USE DEF FlagFollows
<1>0. /\ task \in [Tasks -> TaskStates] /\ c \in Tasks /\ task[c] \in TaskStates
      /\ \A d \in Callers : d \in Tasks
  BY DEF VarsTyped, Tasks
<1>1. CASE \E op \in Ops, a \in Addrs : Start(c, op, a)
  BY <1>0, <1>1 DEF Start, Begin, Idle
<1>2. CASE Leave(c)
  <2>1. CASE task[c].op = "write"
    BY <1>0, <1>2, <2>1 DEF Leave, Begin, Idle
  <2>2. CASE task[c].op # "write"
    BY <1>0, <1>2, <2>2 DEF Leave, Idle
  <2> QED BY <2>1, <2>2
<1>3. ASSUME NEW pc \in PCs \ {"idle"}, Goto(c, pc), UNCHANGED busy, task[c].pc # "idle"
      PROVE  FlagFollows(c)
  BY <1>0, <1>3 DEF Goto, TaskStates
<1>4. CASE DrainOne(c)
  <2>1. task'[c].pc = task[c].pc /\ task[c].pc # "idle"
    BY <1>0, <1>4 DEF DrainOne, TaskStates
  <2> QED BY <1>0, <1>4, <2>1 DEF DrainOne
<1>5. CASE DrainDone(c)
  BY <1>2, <1>3, <1>5 DEF DrainDone, PCs
<1>6. CASE Send(c)
  BY <1>0, <1>6 DEF Send, TaskStates
<1>7. CASE Accept(c)
  <2>1. /\ task[c].pc = "await"
        /\ \/ \E pc \in {"notify", "unsub"} : Goto(c, pc) /\ UNCHANGED busy
           \/ Leave(c)
    BY <1>7 DEF Accept
  <2> QED BY <1>2, <1>3, <2>1 DEF PCs
<1>8. CASE Discard(c)
  BY <1>8 DEF Discard
<1>9. CASE Timeout(c)
  <2>1. CASE task' = [task EXCEPT ![c].pc = "drain", ![c].drained = 0, ![c].attempt = @ + 1]
             /\ UNCHANGED busy
    BY <1>0, <1>9, <2>1 DEF TaskStates, Timeout
  <2> QED BY <1>2, <1>3, <1>9, <2>1 DEF Timeout, PCs
<1>10. CASE AwaitNotify(c)
  BY <1>3, <1>10 DEF AwaitNotify, PCs
<1>11. CASE NotifyTimeout(c)
  BY <1>3, <1>11 DEF NotifyTimeout, PCs
<1>12. CASE Unsubscribe(c)
  BY <1>3, <1>12 DEF Unsubscribe, PCs
<1>13. CASE Throw(c)
  BY <1>2, <1>3, <1>13 DEF Throw, PCs
<1>14. CASE UnsubscribeThrows(c)
  BY <1>2, <1>14 DEF UnsubscribeThrows
<1> QED BY <1>1, <1>4, <1>5, <1>6, <1>7, <1>8, <1>9, <1>10, <1>11, <1>12, <1>13, <1>14
        DEF CallerStep

(* No other step touches the flag or a caller's state.                     *)
LEMMA OthersKeepFlag ==
    ASSUME VarsTyped, Acts,
           ~ \E c \in Callers : CallerStep(c) \/ \E op \in Ops, a \in Addrs : Start(c, op, a)
    PROVE  busy' = busy /\ \A c \in Callers : task'[c] = task[c]
<1>0. task \in [Tasks -> TaskStates] /\ \A c \in Callers : c \in Tasks /\ c \notin Pings
  BY CallersAssumption DEF VarsTyped, Tasks
<1>1. ASSUME NEW p \in Pings, Ping(p) \/ PingStep(p)
      PROVE  busy' = busy /\ \A c \in Callers : task'[c] = task[c]
  BY <1>0, <1>1 DEF Ping, PingStep, PingAnswered, Discard, PingOver
<1>2. CASE BikeStep \/ LinkDrops \/ UNCHANGED others
  BY <1>2 DEF BikeStep, BikeAnswers, Lost, BikePushes, LinkDrops, others
<1> QED BY <1>1, <1>2 DEF Acts

(* transportBusy is never left set, by any path out of an exchange, however *)
(* many callers overlap: the keep-alive is never silenced for good.         *)
THEOREM FlagIsReleased == Spec => []BusyIsReleased
<1>1. Init => BusyIsReleased
  BY DEF Init, BusyIsReleased
<1>2. VarsTyped /\ BusyIsReleased /\ Acts => BusyIsReleased'
  <2> SUFFICES ASSUME VarsTyped, BusyIsReleased, Acts
               PROVE  BusyIsReleased'
    OBVIOUS
  <2>1. CASE \E c \in Callers : CallerStep(c) \/ \E op \in Ops, a \in Addrs : Start(c, op, a)
    BY <2>1, CallerFlag DEF FlagFollows, BusyIsReleased
  <2>2. CASE ~ \E c \in Callers : CallerStep(c) \/ \E op \in Ops, a \in Addrs : Start(c, op, a)
    BY <2>2, OthersKeepFlag DEF BusyIsReleased
  <2> QED BY <2>1, <2>2
<1> QED BY <1>1, <1>2, Typed, StepActs, PTL DEF Spec

(* With a single caller, transportBusy is set whenever that caller polls   *)
(* the queue.  The hypothesis is needed: with two callers the first one to *)
(* return clears the flag under the other.                                 *)
THEOREM SingleCallerHoldsFlag ==
    ASSUME \A c, d \in Callers : c = d
    PROVE  Spec => []BusyWhilePolling
<1>1. Init => BusyWhilePolling
  BY DEF Init, BusyWhilePolling, Idle, Tasks
<1>2. VarsTyped /\ BusyWhilePolling /\ Acts => BusyWhilePolling'
  <2> SUFFICES ASSUME VarsTyped, BusyWhilePolling, Acts
               PROVE  BusyWhilePolling'
    OBVIOUS
  <2>1. CASE \E c \in Callers : CallerStep(c) \/ \E op \in Ops, a \in Addrs : Start(c, op, a)
    BY <2>1, CallerFlag DEF FlagFollows, BusyWhilePolling
  <2>2. CASE ~ \E c \in Callers : CallerStep(c) \/ \E op \in Ops, a \in Addrs : Start(c, op, a)
    BY <2>2, OthersKeepFlag DEF BusyWhilePolling
  <2> QED BY <2>1, <2>2
<1> QED BY <1>1, <1>2, Typed, StepActs, PTL DEF Spec

-----------------------------------------------------------------------------
(* A subscribeOnce that has sent its SUBSCRIBE stays in the exchange until *)
(* it has attempted the UNSUBSCRIBE.                                       *)
Holds(c, a) == /\ task[c].op = "subscribe" /\ task[c].addr = a
               /\ task[c].pc \in {"await", "notify", "unsub"}

Unsubscribing(c) == Unsubscribe(c) \/ UnsubscribeThrows(c)

LEMMA HolderStays ==
    ASSUME VarsTyped, NEW c \in Callers, NEW a \in Addrs, Holds(c, a), CallerStep(c)
    PROVE  IF Unsubscribing(c) THEN lastSub'[a] = "UNSUBSCRIBE" ELSE Holds(c, a)'
<1>0. task \in [Tasks -> TaskStates] /\ c \in Tasks /\ task[c] \in TaskStates
  BY DEF VarsTyped, Tasks
<1>1. CASE Unsubscribing(c)
  BY <1>1 DEF Unsubscribing, Unsubscribe, UnsubscribeThrows, Holds, VarsTyped
<1>2. ASSUME NEW pc \in {"notify", "unsub"}, Goto(c, pc)
      PROVE  Holds(c, a)'
  BY <1>0, <1>2 DEF Goto, Holds, TaskStates
<1>3. ASSUME Accept(c) PROVE Holds(c, a)'
  BY <1>2, <1>3 DEF Accept, Holds
<1>4. ASSUME Discard(c) PROVE Holds(c, a)'
  BY <1>4 DEF Discard, Holds
<1>5. ASSUME Timeout(c) PROVE Holds(c, a)'
  BY <1>2, <1>5 DEF Timeout, Holds
<1>6. ASSUME AwaitNotify(c) PROVE Holds(c, a)'
  BY <1>2, <1>6 DEF AwaitNotify, Holds
<1>7. ASSUME NotifyTimeout(c) PROVE Holds(c, a)'
  BY <1>2, <1>7 DEF NotifyTimeout, Holds
<1>8. ASSUME Throw(c) PROVE Holds(c, a)'
  BY <1>2, <1>8 DEF Throw, Holds
<1>9. ~ DrainOne(c) /\ ~ DrainDone(c) /\ ~ Send(c)
  BY DEF Holds, DrainOne, DrainDone, Send
<1>10. ASSUME ~ Unsubscribing(c) PROVE Holds(c, a)'
  BY <1>3, <1>4, <1>5, <1>6, <1>7, <1>8, <1>9, <1>10 DEF CallerStep, Unsubscribing
<1> QED BY <1>1, <1>10

(* subscribeOnce "always unsubscribes before returning", for any number of *)
(* concurrent subscriptions and however they end.                          *)
THEOREM NoSubscriptionLeft == Spec => []UnsubscribesBeforeReturning
<1>1. Init => UnsubscribesBeforeReturning
  BY DEF Init, UnsubscribesBeforeReturning
<1>2. VarsTyped /\ UnsubscribesBeforeReturning /\ Acts => UnsubscribesBeforeReturning'
  <2> SUFFICES ASSUME VarsTyped, UnsubscribesBeforeReturning, Acts,
                      NEW a \in Addrs, lastSub'[a] = "SUBSCRIBE"
               PROVE  \E c \in Callers : Holds(c, a)'
    BY DEF UnsubscribesBeforeReturning, Holds
  <2>0. /\ task \in [Tasks -> TaskStates]
        /\ \A c \in Callers : c \in Tasks /\ c \notin Pings /\ task[c] \in TaskStates
    BY CallersAssumption DEF VarsTyped, Tasks
  <2>1. CASE \E d \in Callers : Send(d) /\ task[d].op = "subscribe" /\ task[d].addr = a
    BY <2>0, <2>1 DEF Send, Holds, TaskStates
  <2>2. CASE /\ ~ \E d \in Callers : Send(d) /\ task[d].op = "subscribe" /\ task[d].addr = a
             /\ \E d \in Callers : Send(d) \/ Unsubscribing(d)
    <3>1. PICK d \in Callers : Send(d) \/ Unsubscribing(d)
      BY <2>2
    <3>2. CallerStep(d)
      BY <3>1 DEF CallerStep, Unsubscribing
    <3>3. \A e \in Callers \ {d} : task'[e] = task[e]
      BY <3>2, CallerFlag DEF FlagFollows
    <3>4. lastSub[a] = "SUBSCRIBE"
      BY <2>0, <2>2, <3>1
      DEF Send, Unsubscribing, Unsubscribe, UnsubscribeThrows, KindOf, VarsTyped, TaskStates, TaskOps
    <3>5. PICK e \in Callers : Holds(e, a)
      BY <3>4 DEF UnsubscribesBeforeReturning, Holds
    <3>6. CASE e # d
      BY <3>3, <3>5, <3>6 DEF Holds
    <3>7. CASE e = d
      <4>1. ~ Send(e)
        BY <3>5 DEF Holds, Send
      <4>2. lastSub'[a] = "UNSUBSCRIBE"
        BY <3>1, <3>2, <3>5, <3>7, <4>1, HolderStays
      <4> QED BY <4>2
    <3> QED BY <3>6, <3>7
  <2>3. CASE ~ \E d \in Callers : Send(d) \/ Unsubscribing(d)
    <3>1. lastSub' = lastSub
      BY <2>3
      DEF Acts, CallerStep, Unsubscribing, Start, DrainOne, DrainDone, Accept, Discard, Timeout,
          AwaitNotify, NotifyTimeout, Throw, Ping, PingStep, PingAnswered,
          PingOver, BikeStep, BikeAnswers, Lost, BikePushes, LinkDrops, others
    <3>2. PICK e \in Callers : Holds(e, a)
      BY <3>1 DEF UnsubscribesBeforeReturning, Holds
    <3>3. CASE CallerStep(e)
      BY <2>3, <3>2, <3>3, HolderStays
    <3>4. CASE \E d \in Callers \ {e} : CallerStep(d) \/ \E op \in Ops, b \in Addrs : Start(d, op, b)
      <4>1. task'[e] = task[e]
        BY <3>4, CallerFlag DEF FlagFollows
      <4> QED BY <3>2, <4>1 DEF Holds
    <3>5. ASSUME NEW op \in Ops, NEW b \in Addrs PROVE ~ Start(e, op, b)
      BY <3>2 DEF Holds, Start
    <3>6. CASE ~ \E c \in Callers : CallerStep(c) \/ \E op \in Ops, b \in Addrs : Start(c, op, b)
      BY <3>2, <3>6, OthersKeepFlag DEF Holds
    <3> QED BY <3>3, <3>4, <3>5, <3>6
  <2> QED BY <2>1, <2>2, <2>3
<1> QED BY <1>1, <1>2, Typed, StepActs, PTL DEF Spec

-----------------------------------------------------------------------------
(* Every step of the exchanges is a step of Calls or leaves its state      *)
(* unchanged: a caller opens its own call, only an open call is answered,  *)
(* and the answer is acceptable, for any number of callers and retries.    *)
THEOREM Refinement == Spec => ImplementsCalls
<1>1. Init => C!Init
  BY DEF Init, C!Init, Open, Idle, Tasks
<1>2. IInv /\ Acts => [C!Next]_C!vars
  <2> SUFFICES ASSUME IInv, Acts
               PROVE  [C!Next]_C!vars
    OBVIOUS
  <2>0. /\ VarsTyped /\ task \in [Tasks -> TaskStates] /\ got \in [Callers -> Replies \cup {None}]
        /\ \A c \in Callers : c \in Tasks
    BY DEF IInv, VarsTyped, Tasks
  <2>1. ASSUME NEW c \in Callers, NEW op \in Ops, NEW a \in Addrs, Start(c, op, a)
        PROVE  C!Call(c)
    <3>1. \A d \in Callers : task'[d] = IF d = c THEN Begin(op, a) ELSE task[d]
      BY <2>0, <2>1 DEF Start
    <3>2. task[c].pc = "idle" /\ task'[c].pc # "idle"
      BY <2>1, <3>1, BeginState, OpsAssumption DEF Start
    <3>3. Open' = Open \cup {c} /\ c \notin Open
      BY <3>1, <3>2 DEF Open
    <3> QED BY <2>1, <3>3 DEF Start, C!Call
  <2>2. ASSUME NEW c \in Callers, CallerStep(c)
        PROVE  C!Answer(c) \/ C!Return(c) \/ UNCHANGED C!vars
    <3>1. c \in Open
      BY <2>2
      DEF Open, CallerStep, DrainOne, DrainDone, Send, Accept, Discard, Timeout, AwaitNotify,
          NotifyTimeout, Unsubscribe, Throw, UnsubscribeThrows
    <3>2. \A d \in Callers \ {c} : task'[d] = task[d]
      BY <2>0, <2>2, CallerFlag DEF FlagFollows
    <3>3. Open' = Open \/ Open' = Open \ {c}
      BY <3>1, <3>2 DEF Open
    <3>4. CASE Accept(c)
      <4>1. PICK r \in OwnReplies : got' = [got EXCEPT ![c] = r]
        BY <3>4, AcceptsOwnReply
      <4>2. got'[c] = r /\ got' = [got EXCEPT ![c] = got'[c]]
        BY <2>0, <4>1
      <4> QED BY <3>1, <3>3, <4>1, <4>2 DEF C!Answer
    <3>5. CASE ~ Accept(c)
      <4>1. UNCHANGED got
        BY <2>2, <3>5
        DEF CallerStep, DrainOne, DrainDone, Send, Discard, Timeout, AwaitNotify,
            NotifyTimeout, Unsubscribe, Throw, UnsubscribeThrows
      <4> QED BY <3>1, <3>3, <4>1 DEF C!Return, C!vars
    <3> QED BY <3>4, <3>5
  <2>3. CASE ~ \E c \in Callers : CallerStep(c) \/ \E op \in Ops, a \in Addrs : Start(c, op, a)
    <3>1. \A c \in Callers : task'[c] = task[c]
      BY <2>0, <2>3, OthersKeepFlag
    <3>2. UNCHANGED got
      BY <2>3 DEF Acts, Ping, PingStep, PingAnswered, Discard, PingOver, BikeStep, BikeAnswers,
                  Lost, BikePushes, LinkDrops, others
    <3> QED BY <3>1, <3>2 DEF Open, C!vars
  <2> QED BY <2>1, <2>2, <2>3 DEF C!Next
<1> QED BY <1>1, <1>2, Invariance, StepActs, PTL DEF Spec, ImplementsCalls, C!Spec
=============================================================================
