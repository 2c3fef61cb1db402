-------------------------------- MODULE Calls --------------------------------
(***************************************************************************)
(* What the code above the transport relies on when it awaits readOne,     *)
(* rpcCallWithArg, writeAndReadBack or subscribeOnce: a call is open from  *)
(* its start to its return, a new call starts without an answer, and only  *)
(* an open call gets one, which is an acceptable answer to that call.      *)
(* Exchange implements this specification.                                 *)
(***************************************************************************)
CONSTANTS Callers, Acceptable, None

VARIABLES open, reply

vars == <<open, reply>>

Init == open = {} /\ reply = [c \in Callers |-> None]

Call(c) ==
    /\ c \notin open /\ open' = open \cup {c}
    /\ reply' = [reply EXCEPT ![c] = None]

\* A write is answered, then its re-read: the call stays open in between.
Answer(c) ==
    /\ c \in open /\ open' \in {open, open \ {c}}
    /\ reply' = [reply EXCEPT ![c] = reply'[c]] /\ reply'[c] \in Acceptable

\* Timed out, thrown out of, or nothing left to wait for.
Return(c) == c \in open /\ open' = open \ {c} /\ UNCHANGED reply

Next == \E c \in Callers : Call(c) \/ Answer(c) \/ Return(c)

Spec == Init /\ [][Next]_vars
=============================================================================
