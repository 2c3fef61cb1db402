------------------------------ MODULE UdamEdit ------------------------------
(***************************************************************************)
(* Changing and resetting one assist mode's settings (UDAM values):        *)
(* openAssistModeModal, setUdamValuesForMode, resetUdamValuesForMode and   *)
(* the reset button of renderAssistModeHistogram.  A save sends the whole  *)
(* record, merged from the last-read snapshot entry.udam and the edited    *)
(* fields.  An RPC is one step per attempt: the bike may miss the request, *)
(* its answer may be lost, the transport may throw, or a transfer may get  *)
(* stuck (Exchange models the frames).                                     *)
(***************************************************************************)
EXTENDS Integers, FiniteSets

CONSTANTS
    Editable,       \* fields with an input box
    Fixed,          \* fields that are only carried along
    Speed,          \* maximumBikeSpeed: shown in km/h with one decimal
    BikeValues,     \* records the bike may hold when it is first read
    Defaults,       \* the factory record RESET_UDAM_VALUES restores
    Typed,          \* raw values the user may type
    MaxAttempts,    \* 2 in the code
    MaxEdits,       \* bound: confirmed saves and resets
    None

Fields == Editable \cup Fixed

ASSUME FieldsAssumption == Speed \in Editable /\ Editable \cap Fixed = {}
ASSUME ValuesAssumption ==
    /\ BikeValues \subseteq [Fields -> Int] /\ Defaults \in [Fields -> Int] /\ Typed \subseteq Int
    /\ None \notin [Fields -> Int]
ASSUME AttemptsAssumption == MaxAttempts \in Nat \ {0} /\ MaxEdits \in Nat

VARIABLES
    bike,       \* the record the bike holds (external)
    udam,       \* entry.udam, the last record read
    modal,      \* the open settings popup
    confirm,    \* the open confirmation dialog
    set,        \* the setUdamValuesForMode call in progress
    reset,      \* the resetUdamValuesForMode call in progress
    rereads,    \* re-reads of the record still to be answered
    setState,   \* entry.setState
    resetState, \* entry.resetState
    edits,      \* confirmed saves and resets so far
    unsure,     \* history: an answer or re-read was lost, or calls overlapped, since the last read
    applied     \* history: what the last write did to the bike

vars == <<bike, udam, modal, confirm, set, reset, rereads, setState, resetState, edits, unsure, applied>>

States == {"none", "pending", "done", "failed"}
IdleCall == [pc |-> "idle", attempt |-> 0, done |-> FALSE]

UnderWay(call) == call.pc # "idle"

\* toDisplay and fromDisplay: toFixed(1) of the speed in km/h keeps a tenth.
Shown(f, raw) == IF f = Speed THEN ((raw + 5) \div 10) * 10 ELSE raw

Init ==
    /\ bike \in BikeValues /\ udam \in {bike, None}
    /\ modal = None /\ confirm = None
    /\ set = IdleCall /\ reset = IdleCall /\ rereads = 0
    /\ setState = "none" /\ resetState = "none"
    /\ edits = 0 /\ unsure = FALSE /\ applied = None

OpenModal ==
    /\ udam # None /\ modal = None /\ confirm = None
    /\ modal' = [original |-> udam, input |-> [f \in Editable |-> Shown(f, udam[f])],
                 typed |-> {}, canSave |-> FALSE]
    /\ UNCHANGED <<bike, udam, confirm, set, reset, rereads, setState, resetState, edits, unsure, applied>>

\* A cleared box (not a number) does not count as changed.
Differs(m) == {f \in Editable : m.input[f] \notin {None, m.original[f]}}

Type(f, v) ==
    /\ modal # None /\ confirm = None
    /\ LET m == [modal EXCEPT !.input[f] = v, !.typed = @ \cup {f}]
       IN modal' = [m EXCEPT !.canSave = Differs(m) # {} /\ setState # "pending"]
    /\ UNCHANGED <<bike, udam, confirm, set, reset, rereads, setState, resetState, edits, unsure, applied>>

\* Save changes: the changed fields are collected before the question is asked.
ClickSave ==
    /\ modal # None /\ confirm = None /\ modal.canSave
    /\ Differs(modal) # {}
    /\ confirm' = [ask |-> "set", typed |-> modal.typed,
                   opened |-> modal.original,
                   changes |-> [f \in Differs(modal) |-> modal.input[f]]]
    /\ UNCHANGED <<bike, udam, modal, set, reset, rereads, setState, resetState, edits, unsure, applied>>

\* The close and cancel buttons, the backdrop and Escape; Escape closes the
\* popup before the dialog on top of it.
CloseModal ==
    /\ modal # None /\ modal' = None
    /\ UNCHANGED <<bike, udam, confirm, set, reset, rereads, setState, resetState, edits, unsure, applied>>

ClickReset ==
    /\ modal = None /\ confirm = None
    /\ udam # None /\ resetState \notin {"pending", "done"}
    /\ confirm' = [ask |-> "reset", typed |-> {}, opened |-> None, changes |-> <<>>]
    /\ UNCHANGED <<bike, udam, modal, set, reset, rereads, setState, resetState, edits, unsure, applied>>

Decline ==
    /\ confirm # None /\ confirm' = None
    /\ UNCHANGED <<bike, udam, modal, set, reset, rereads, setState, resetState, edits, unsure, applied>>

(***************************************************************************)
(* setUdamValuesForMode: the record is merged when the dialog is answered. *)
(***************************************************************************)
\* Mutant: only the changed fields are sent.
OverlayMissing(record, changes) == [f \in Fields |-> IF f \in DOMAIN changes THEN changes[f] ELSE 0]

Overlay(record, changes) == [f \in Fields |-> IF f \in DOMAIN changes THEN changes[f] ELSE record[f]]

ConfirmSave ==
    /\ confirm # None /\ confirm.ask = "set" /\ edits < MaxEdits
    /\ modal' = None /\ confirm' = None
    /\ set' = [pc |-> "call", attempt |-> 0, done |-> FALSE,
               merged |-> Overlay(udam, confirm.changes), typed |-> confirm.typed,
               opened |-> confirm.opened]
    /\ setState' = "pending" /\ edits' = edits + 1
    /\ unsure' = (unsure \/ UnderWay(reset) \/ rereads > 0)
    /\ UNCHANGED <<bike, udam, reset, rereads, resetState, applied>>

ConfirmReset ==
    /\ confirm # None /\ confirm.ask = "reset" /\ edits < MaxEdits
    /\ confirm' = None
    /\ reset' = [pc |-> "call", attempt |-> 0, done |-> FALSE]
    /\ resetState' = "pending" /\ edits' = edits + 1
    /\ unsure' = (unsure \/ UnderWay(set) \/ rereads > 0)
    /\ UNCHANGED <<bike, udam, modal, set, rereads, setState, applied>>

\* The answers an attempt can get: the bike did it and says so, or refuses,
\* or nothing comes back, or the transport throws, whether or not it did it.
Outcomes == {[served |-> TRUE, answer |-> "true"], [served |-> FALSE, answer |-> "no"]}
            \cup [served : BOOLEAN, answer : {"lost", "threw"}]

\* Mutant: whatever the bike answers is success.
SettledByAnyAnswer(answer, attempt) ==
    CASE answer \in {"true", "no"} -> "done"
      [] answer = "lost" /\ attempt + 1 < MaxAttempts -> "pending"
      [] OTHER -> "failed"

\* entry.setState and entry.resetState after an answer: only `true` is success,
\* and an exception is not retried.
Settled(answer, attempt) ==
    CASE answer = "true" -> "done"
      [] answer \in {"no", "threw"} -> "failed"
      [] answer = "lost" /\ attempt + 1 < MaxAttempts -> "pending"
      [] OTHER -> "failed"

\* Mutant: a lost answer ends the call without settling its state.
NextCallDrops(call, o) ==
    [call EXCEPT !.done = @ \/ o.served, !.attempt = @ + 1, !.pc = "idle"]

NextCall(call, o) ==
    [call EXCEPT !.done = @ \/ o.served, !.attempt = @ + 1,
                 !.pc = IF Settled(o.answer, call.attempt) = "pending" THEN "call" ELSE "idle"]

\* Mutant: a re-read for every attempt.
AttemptedAlways(o, attempt) ==
    /\ rereads' = rereads + 1
    /\ unsure' = (unsure \/ o.answer \in {"lost", "threw"})

\* A successful call re-reads the record after its state has become "done".
Attempted(o, attempt) ==
    /\ rereads' = IF Settled(o.answer, attempt) = "done" THEN rereads + 1 ELSE rereads
    /\ unsure' = (unsure \/ o.answer \in {"lost", "threw"})

\* A stuck transfer has no timeout: the call ends only if the browser rejects
\* it, which throws.
MayEnd(call, o) == call.pc = "call" \/ (call.pc = "stuck" /\ o.answer = "threw")

SetSticks ==
    /\ set.pc = "call" /\ set' = [set EXCEPT !.pc = "stuck"]
    /\ UNCHANGED <<bike, udam, modal, confirm, reset, rereads, setState, resetState, edits, unsure, applied>>

ResetSticks ==
    /\ reset.pc = "call" /\ reset' = [reset EXCEPT !.pc = "stuck"]
    /\ UNCHANGED <<bike, udam, modal, confirm, set, rereads, setState, resetState, edits, unsure, applied>>

SetAttempt(o) ==
    /\ MayEnd(set, o)
    /\ bike' = IF o.served THEN set.merged ELSE bike
    /\ applied' = IF o.served
                  THEN [before |-> bike, after |-> set.merged, typed |-> set.typed,
                        opened |-> set.opened, sure |-> ~unsure]
                  ELSE applied
    /\ setState' = Settled(o.answer, set.attempt)
    /\ set' = NextCall(set, o)
    /\ Attempted(o, set.attempt)
    /\ UNCHANGED <<udam, modal, confirm, reset, resetState, edits>>

ResetAttempt(o) ==
    /\ MayEnd(reset, o)
    /\ bike' = IF o.served THEN Defaults ELSE bike
    /\ resetState' = Settled(o.answer, reset.attempt)
    /\ reset' = NextCall(reset, o)
    /\ Attempted(o, reset.attempt)
    /\ UNCHANGED <<udam, modal, confirm, set, setState, edits, applied>>

\* When the re-read fails the old record stays.
Reread(ok) ==
    /\ rereads > 0 /\ rereads' = rereads - 1
    /\ udam' = IF ok THEN bike ELSE udam
    /\ unsure' = IF ok THEN unsure /\ (UnderWay(set) \/ UnderWay(reset)) ELSE TRUE
    /\ UNCHANGED <<bike, modal, confirm, set, reset, setState, resetState, edits, applied>>

User ==
    \/ OpenModal \/ ClickSave \/ CloseModal \/ ClickReset \/ Decline
    \/ ConfirmSave \/ ConfirmReset
    \/ \E f \in Editable, v \in Typed \cup {None} : Type(f, v)

Calls ==
    \/ \E o \in Outcomes : SetAttempt(o) \/ ResetAttempt(o)
    \/ SetSticks \/ ResetSticks
    \/ \E ok \in BOOLEAN : Reread(ok)

Next == User \/ Calls

Spec == Init /\ [][Next]_vars

\* An RPC attempt ends by its 500 ms deadline, which is tested between two
\* transfers; nothing is assumed of one that is stuck.
FairSpec ==
    /\ Spec
    /\ WF_vars(set.pc = "call" /\ \E o \in Outcomes : SetAttempt(o))
    /\ WF_vars(reset.pc = "call" /\ \E o \in Outcomes : ResetAttempt(o))

-----------------------------------------------------------------------------
Records == [Fields -> Int]

TypeOK ==
    /\ bike \in Records /\ udam \in Records \cup {None}
    /\ setState \in States /\ resetState \in States
    /\ {set.pc, reset.pc} \subseteq {"idle", "call", "stuck"}
    /\ rereads \in 0..MaxEdits /\ edits \in 0..MaxEdits
    /\ unsure \in BOOLEAN

(***************************************************************************)
(* A save changes no field the user did not type into, but for the rounding *)
(* of the speed box: an untouched speed is sent back as the box showed it, *)
(* in tenths of a km/h of the record the popup was opened on.  Provided    *)
(* that since the last good read no answer was lost and no other call      *)
(* overlapped: else the snapshot the save is merged from is stale.         *)
(***************************************************************************)
Untyped == Fields \ applied.typed

RoundedSpeed(f) == f = Speed /\ applied.after[f] = Shown(f, applied.opened[f])

SaveTouchesOnlyTyped ==
    applied # None /\ applied.sure =>
        \A f \in Untyped : applied.after[f] = applied.before[f] \/ RoundedSpeed(f)

(***************************************************************************)
(* "Save" and "Reset" report success only if the bike did it during that   *)
(* call, whatever was lost on the way.                                     *)
(***************************************************************************)
DoneMeansServed ==
    /\ setState = "done" => set.done
    /\ resetState = "done" => reset.done

(***************************************************************************)
(* A pending save or reset is settled one way or the other, so its button  *)
(* comes back, unless a transfer of that very call is stuck.               *)
(***************************************************************************)
PendingSettles ==
    /\ (setState = "pending") ~> (setState # "pending" \/ set.pc = "stuck")
    /\ (resetState = "pending") ~> (resetState # "pending" \/ reset.pc = "stuck")

(***************************************************************************)
(* "this can never touch anything the user didn't explicitly set": what    *)
(* the comment on setUdamValuesForMode says of every save.                 *)
(***************************************************************************)
NeverTouchesUntyped ==
    applied # None => \A f \in Untyped : applied.after[f] = applied.before[f]
=============================================================================
