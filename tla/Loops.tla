-------------------------------- MODULE Loops --------------------------------
(***************************************************************************)
(* The loops of the decoders.  All of them walk over a buffer with an      *)
(* index: they read something where they stand, perhaps keep it, and go on *)
(* behind it, or stop.  One recursive function stands for all of them, so  *)
(* that what holds of every loop is proved once.                           *)
(***************************************************************************)
EXTENDS Integers, Sequences

\* subarray(i, i + n) and slice(i, i + n), which stop at the end.
Slice(s, i, n) == SubSeq(s, i, IF i + n > Len(s) THEN Len(s) ELSE i + n - 1)

\* What a loop finds where it stands, and where it goes on.  No loop goes back.
Finds(x, next) == [found |-> <<x>>, next |-> next]
Stops == [found |-> <<>>, next |-> 0]

\* What a loop collects from position i on, until it stops or leaves the buffer.
Walk(read, i) ==
    LET From[k \in Nat] == IF k \in DOMAIN read THEN read[k].found \o From[read[k].next] ELSE <<>>
    IN From[i]

\* The parts one after the other.
Flatten(parts) == Walk([k \in DOMAIN parts |-> [found |-> parts[k], next |-> k + 1]], 1)

\* The elements at the chosen positions.
Chosen(s, ks) == Flatten([k \in DOMAIN s |-> IF k \in ks THEN <<s[k]>> ELSE <<>>])

\* The sum of the terms from position i on.
Total(terms, i) ==
    LET From[k \in Nat] == IF k \in DOMAIN terms THEN terms[k] + From[k + 1] ELSE 0
    IN From[i]
=============================================================================
