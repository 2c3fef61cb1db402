------------------------------- MODULE Channel -------------------------------
(***************************************************************************)
(* What the exchanges rely on when they await readNextFrame: a first-in    *)
(* first-out inbox, from which a read that overlaps no other read takes    *)
(* the oldest frame and returns it whole, or returns nothing.  Overlapping *)
(* reads may return any frame that arrived, more than once, or drop one.   *)
(* Bridge implements this specification.                                   *)
(***************************************************************************)
EXTENDS Naturals, Sequences

CONSTANTS Callers, Frames, None

VARIABLES
    inbox,      \* frames not yet taken, oldest first
    reading,    \* no | alone | crossed, per caller
    got         \* what the last read of a caller returned

vars == <<inbox, reading, got>>

Init == inbox = <<>> /\ reading = [c \in Callers |-> "no"] /\ got = [c \in Callers |-> None]

Arrive == \E f \in Frames : inbox' = Append(inbox, f) /\ UNCHANGED <<reading, got>>

Begin(c) ==
    LET others == {d \in Callers : reading[d] # "no"}
    IN /\ reading[c] = "no"
       /\ reading' = [d \in Callers |->
            IF d = c THEN IF others = {} THEN "alone" ELSE "crossed"
            ELSE IF d \in others THEN "crossed" ELSE reading[d]]
       /\ got' = [got EXCEPT ![c] = None] /\ UNCHANGED inbox

\* A transfer of its own was not taken: it may see what an overlapping one sees.
Taint(c) ==
    /\ reading[c] = "alone" /\ reading' = [reading EXCEPT ![c] = "crossed"]
    /\ UNCHANGED <<inbox, got>>

End(c) == reading[c] # "no" /\ reading' = [reading EXCEPT ![c] = "no"]

Drops == inbox' \in {inbox, IF inbox = <<>> THEN inbox ELSE Tail(inbox)}

Take(c) ==
    /\ End(c) /\ reading[c] = "alone" /\ inbox # <<>>
    /\ inbox' = Tail(inbox) /\ got' = [got EXCEPT ![c] = Head(inbox)]

TakeCrossed(c) ==
    /\ End(c) /\ reading[c] = "crossed" /\ Drops
    /\ \E f \in Frames : got' = [got EXCEPT ![c] = f]

Miss(c) == End(c) /\ UNCHANGED inbox /\ got' = [got EXCEPT ![c] = None]

\* The last transfer of a read is thrown out of: the frame may be gone.
Throw(c) == End(c) /\ Drops /\ got' = [got EXCEPT ![c] = None]

Next ==
    \/ Arrive
    \/ \E c \in Callers : Begin(c) \/ Taint(c) \/ Take(c) \/ TakeCrossed(c) \/ Miss(c) \/ Throw(c)

Spec == Init /\ [][Next]_vars
=============================================================================
