--------------------------- MODULE UdamEditProofs ---------------------------
(***************************************************************************)
(* Theorems about UdamEdit, for any fields, records of the bike, values    *)
(* the user may type and numbers of attempts and edits.                    *)
(***************************************************************************)
EXTENDS UdamEdit, TLAPS

(* The popup, the confirmation and the call of a save, typed.              *)
Inputs == [Editable -> Int \cup {None}]

Popups == [original : Records, input : Inputs, typed : SUBSET Editable, canSave : BOOLEAN]

(* A box the user has not typed into shows what it was filled with.        *)
Filled(m) == \A f \in Editable \ m.typed : m.input[f] = Shown(f, m.original[f])

ModalOK == modal # None => udam # None /\ modal \in Popups /\ Filled(modal)

ConfirmOK ==
    confirm # None =>
        /\ confirm.ask \in {"set", "reset"}
        /\ confirm.ask = "set" =>
             /\ udam # None
             /\ DOMAIN confirm.changes \subseteq Editable
             /\ \A f \in DOMAIN confirm.changes : confirm.changes[f] \in Int
             /\ confirm.typed \subseteq Editable /\ confirm.opened \in Records
             /\ \A f \in DOMAIN confirm.changes \ confirm.typed :
                    f = Speed /\ confirm.changes[f] = Shown(f, confirm.opened[f])

PCs == {"idle", "call", "stuck"}

Saves == [pc : PCs, attempt : Nat, done : BOOLEAN,
          merged : Records, typed : SUBSET Editable, opened : Records]
Resets == [pc : PCs, attempt : Nat, done : BOOLEAN]

CallOK == (set = IdleCall \/ set \in Saves) /\ reset \in Resets

(* Every call that may still ask for a re-read was confirmed once: what    *)
(* bounds the re-reads.                                                    *)
Asking(call) == IF UnderWay(call) THEN 1 ELSE 0
RereadsOK == rereads + Asking(set) + Asking(reset) <= edits

Shape == TypeOK /\ ModalOK /\ ConfirmOK /\ CallOK /\ RereadsOK

(* The snapshot entry.udam is the bike's record unless a re-read is due or *)
(* something was lost or overlapped since the last one.                    *)
SnapshotFresh == ~unsure /\ rereads = 0 => udam \in {bike, None}

(* A save merged from a fresh snapshot carries the bike's own value in     *)
(* every field the user did not type into, but for the rounded speed,      *)
(* until it is served: no other call may change the bike under it.         *)
MergedFresh ==
    UnderWay(set) /\ ~unsure =>
        /\ ~UnderWay(reset)
        /\ \A f \in Fields \ set.typed :
              \/ set.merged[f] = bike[f]
              \/ f = Speed /\ set.merged[f] = Shown(f, set.opened[f])

IInv == Shape /\ SnapshotFresh /\ MergedFresh /\ SaveTouchesOnlyTyped /\ DoneMeansServed

LEMMA ShownIsInt == \A f \in Editable, raw \in Int : Shown(f, raw) \in Int
BY DEF Shown

LEMMA OverlaidRecord ==
    ASSUME NEW record \in Records, NEW changes, DOMAIN changes \subseteq Editable,
           \A f \in DOMAIN changes : changes[f] \in Int
    PROVE  /\ Overlay(record, changes) \in Records
           /\ \A f \in Fields : Overlay(record, changes)[f]
                                 = IF f \in DOMAIN changes THEN changes[f] ELSE record[f]
BY DEF Overlay, Records

LEMMA InitIInv == Init => IInv
<1> SUFFICES ASSUME Init PROVE IInv
  OBVIOUS
<1>1. Shape
  <2>1. bike \in Records /\ udam \in Records \cup {None}
    BY ValuesAssumption DEF Init, Records
  <2>2. /\ set.pc = "idle" /\ reset.pc = "idle" /\ set.done = FALSE /\ reset.done = FALSE
        /\ ~UnderWay(set) /\ ~UnderWay(reset)
        /\ rereads = 0 /\ edits = 0 /\ unsure = FALSE
        /\ setState = "none" /\ resetState = "none" /\ modal = None /\ confirm = None
    BY DEF Init, IdleCall, UnderWay
  <2>5. rereads \in 0..MaxEdits /\ edits \in 0..MaxEdits
    BY <2>2, AttemptsAssumption
  <2>3. TypeOK
    BY <2>1, <2>2, <2>5 DEF TypeOK, States
  <2>4. ModalOK /\ ConfirmOK
    BY <2>2, Zenon DEF ModalOK, ConfirmOK
  <2>7. CallOK
    BY DEF Init, CallOK, Resets, IdleCall, PCs
  <2>6. RereadsOK
    BY <2>2 DEF RereadsOK, Asking
  <2> QED BY <2>3, <2>4, <2>6, <2>7 DEF Shape
<1>2. SnapshotFresh /\ MergedFresh /\ SaveTouchesOnlyTyped /\ DoneMeansServed
  BY DEF Init, SnapshotFresh, MergedFresh, SaveTouchesOnlyTyped, DoneMeansServed, IdleCall, UnderWay
<1> QED BY <1>1, <1>2 DEF IInv

(* The steps of the popup and the dialog leave the bike, the calls and     *)
(* their states alone.                                                     *)
LEMMA PopupStep ==
    ASSUME IInv, UNCHANGED <<bike, udam, set, reset, rereads, setState, resetState, edits, unsure, applied>>,
           ModalOK', ConfirmOK'
    PROVE  IInv'
BY DEF IInv, Shape, TypeOK, CallOK, RereadsOK, Asking, UnderWay, SnapshotFresh, MergedFresh,
       SaveTouchesOnlyTyped, Untyped, RoundedSpeed, DoneMeansServed

LEMMA OpenModalIInv == IInv /\ OpenModal => IInv'
<1> SUFFICES ASSUME IInv, OpenModal PROVE IInv'
  OBVIOUS
<1>1. udam \in Records
  BY DEF IInv, Shape, TypeOK, OpenModal
<1>2. [f \in Editable |-> Shown(f, udam[f])] \in Inputs
  BY <1>1, ShownIsInt DEF Inputs, Records, Fields
<1>3. ModalOK'
  <2> DEFINE m == [original |-> udam, input |-> [f \in Editable |-> Shown(f, udam[f])],
                   typed |-> {}, canSave |-> FALSE]
  <2>1. m \in Popups /\ Filled(m)
    BY <1>1, <1>2 DEF Popups, Filled
  <2> QED BY <2>1 DEF OpenModal, ModalOK
<1>4. ConfirmOK'
  BY DEF OpenModal, ConfirmOK
<1> QED BY <1>3, <1>4, PopupStep DEF OpenModal

LEMMA TypeIInv ==
    ASSUME IInv, NEW f \in Editable, NEW v \in Typed \cup {None}, Type(f, v)
    PROVE  IInv'
<1>1. modal \in Popups /\ udam # None /\ Filled(modal)
  BY DEF IInv, Shape, ModalOK, Type
<1>2. v \in Int \cup {None}
  BY ValuesAssumption
<1>3. ModalOK'
  <2>1. /\ modal' \in Popups /\ udam' # None
        /\ modal'.input = [modal.input EXCEPT ![f] = v] /\ modal'.original = modal.original
        /\ modal'.typed = modal.typed \cup {f}
    BY <1>1, <1>2 DEF Type, Popups, Inputs
  <2>2. Filled(modal')
    BY <1>1, <2>1 DEF Filled, Popups, Inputs
  <2> QED BY <2>1, <2>2 DEF ModalOK
<1>4. ConfirmOK'
  BY DEF Type, ConfirmOK
<1> QED BY <1>3, <1>4, PopupStep DEF Type

LEMMA ClickSaveIInv == IInv /\ ClickSave => IInv'
<1> SUFFICES ASSUME IInv, ClickSave PROVE IInv'
  OBVIOUS
<1>1. modal \in Popups /\ udam # None /\ Filled(modal)
  BY DEF IInv, Shape, ModalOK, ClickSave
<1>2. ModalOK'
  BY <1>1 DEF ClickSave, ModalOK
<1>3. \A f \in Differs(modal) : f \in Editable /\ modal.input[f] \in Int
  BY <1>1 DEF Differs, Popups, Inputs
<1>4. confirm'.changes = [f \in Differs(modal) |-> modal.input[f]]
  BY DEF ClickSave
<1>5. /\ confirm'.typed = modal.typed /\ confirm'.ask = "set"
      /\ confirm'.opened = modal.original
  BY DEF ClickSave
<1>7. \A f \in Differs(modal) \ modal.typed : f = Speed /\ modal.input[f] = Shown(f, modal.original[f])
  BY <1>1 DEF Differs, Filled, Shown
<1>6. ConfirmOK'
  BY <1>1, <1>3, <1>4, <1>5, <1>7 DEF ClickSave, ConfirmOK, Popups
<1> QED BY <1>2, <1>6, PopupStep DEF ClickSave

LEMMA OtherClicksIInv == IInv /\ (CloseModal \/ ClickReset \/ Decline) => IInv'
<1> SUFFICES ASSUME IInv, CloseModal \/ ClickReset \/ Decline PROVE IInv'
  OBVIOUS
<1>1. ModalOK'
  BY DEF IInv, Shape, ModalOK, Filled, CloseModal, ClickReset, Decline
<1>2. ConfirmOK'
  BY DEF IInv, Shape, ConfirmOK, CloseModal, ClickReset, Decline
<1> QED BY <1>1, <1>2, PopupStep DEF CloseModal, ClickReset, Decline

(* A confirmed edit leaves room for its re-read.                           *)
LEMMA EditCounted ==
    ASSUME IInv, edits < MaxEdits, edits' = edits + 1, rereads' = rereads,
           set' = set \/ reset' = reset
    PROVE  RereadsOK' /\ edits' \in 0..MaxEdits
<1>1. RereadsOK /\ rereads \in 0..MaxEdits /\ edits \in 0..MaxEdits
  BY DEF IInv, Shape, TypeOK
<1>2. \A call : Asking(call) \in {0, 1}
  BY DEF Asking
<1>3. RereadsOK'
  <2>1. Asking(set') <= Asking(set) + 1 /\ Asking(reset') <= Asking(reset) + 1
    BY <1>2
  <2>2. Asking(set') = Asking(set) \/ Asking(reset') = Asking(reset)
    OBVIOUS
  <2> QED BY <1>1, <1>2, <2>1, <2>2, AttemptsAssumption DEF RereadsOK
<1> QED BY <1>1, <1>3, AttemptsAssumption

(* A call that succeeds gives its place to the re-read.                    *)
LEMMA RereadCounted ==
    ASSUME IInv, UNCHANGED edits, rereads' \in Nat,
           rereads' + Asking(set') + Asking(reset') <= rereads + Asking(set) + Asking(reset)
    PROVE  RereadsOK' /\ rereads' \in 0..MaxEdits
<1>1. RereadsOK /\ rereads \in 0..MaxEdits /\ edits \in 0..MaxEdits
  BY DEF IInv, Shape, TypeOK
<1>2. \A call : Asking(call) \in {0, 1}
  BY DEF Asking
<1> QED BY <1>1, <1>2, AttemptsAssumption DEF RereadsOK

LEMMA ConfirmSaveIInv == IInv /\ ConfirmSave => IInv'
<1> SUFFICES ASSUME IInv, ConfirmSave PROVE IInv'
  OBVIOUS
<1> USE DEF IInv, Shape, ConfirmSave
<1>1. /\ udam \in Records /\ confirm.ask = "set" /\ confirm.typed \subseteq Editable
      /\ confirm.opened \in Records
      /\ \A f \in DOMAIN confirm.changes \ confirm.typed :
             f = Speed /\ confirm.changes[f] = Shown(f, confirm.opened[f])
  BY DEF TypeOK, ConfirmOK
<1>2. /\ Overlay(udam, confirm.changes) \in Records
      /\ \A f \in Fields : Overlay(udam, confirm.changes)[f]
                            = IF f \in DOMAIN confirm.changes THEN confirm.changes[f] ELSE udam[f]
  BY <1>1, OverlaidRecord DEF ConfirmOK
<1>3. /\ set' \in Saves /\ set'.pc = "call" /\ set'.merged = Overlay(udam, confirm.changes)
      /\ set'.typed = confirm.typed /\ set'.opened = confirm.opened
  BY <1>1, <1>2 DEF Saves, PCs
<1>4. RereadsOK' /\ edits' \in 0..MaxEdits
  BY EditCounted
<1>5. TypeOK'
  BY <1>3, <1>4 DEF TypeOK, States
<1>6. ModalOK' /\ ConfirmOK' /\ CallOK'
  BY <1>3 DEF ModalOK, ConfirmOK, CallOK
<1>7. SnapshotFresh'
  BY DEF SnapshotFresh
<1>8. MergedFresh'
  <2> SUFFICES ASSUME ~unsure' PROVE MergedFresh'
    BY DEF MergedFresh
  <2>1. ~unsure /\ ~UnderWay(reset) /\ ~(rereads > 0)
    BY Zenon
  <2>3. rereads = 0
    BY <2>1 DEF TypeOK
  <2>2. udam = bike
    BY <1>1, <2>1, <2>3 DEF SnapshotFresh, ConfirmOK
  <2>4. ~UnderWay(reset')
    BY <2>1
  <2> QED BY <1>1, <1>2, <1>3, <2>2, <2>4 DEF MergedFresh
<1>9. SaveTouchesOnlyTyped' /\ DoneMeansServed'
  BY DEF SaveTouchesOnlyTyped, Untyped, RoundedSpeed, DoneMeansServed
<1> QED BY <1>4, <1>5, <1>6, <1>7, <1>8, <1>9

LEMMA ConfirmResetIInv == IInv /\ ConfirmReset => IInv'
<1> SUFFICES ASSUME IInv, ConfirmReset PROVE IInv'
  OBVIOUS
<1> USE DEF IInv, Shape, ConfirmReset
<1>1. reset' \in Resets /\ reset'.pc = "call"
  BY DEF Resets, PCs
<1>2. RereadsOK' /\ edits' \in 0..MaxEdits
  BY EditCounted
<1>3. TypeOK'
  BY <1>1, <1>2 DEF TypeOK, States
<1>4. ModalOK' /\ ConfirmOK' /\ CallOK'
  BY <1>1 DEF ModalOK, ConfirmOK, CallOK
<1>5. SnapshotFresh' /\ MergedFresh'
  BY DEF SnapshotFresh, MergedFresh, UnderWay
<1>6. SaveTouchesOnlyTyped' /\ DoneMeansServed'
  BY DEF SaveTouchesOnlyTyped, Untyped, RoundedSpeed, DoneMeansServed
<1> QED BY <1>2, <1>3, <1>4, <1>5, <1>6

(* What an answer makes of a call and of its state.                        *)
LEMMA SettledCall ==
    ASSUME NEW o \in Outcomes, NEW attempt \in Nat
    PROVE  /\ Settled(o.answer, attempt) \in States
           /\ Settled(o.answer, attempt) = "done" => o.served
           /\ Settled(o.answer, attempt) = "pending" => o.answer = "lost"
           /\ o.served => o.answer \in {"lost", "threw"} \/ Settled(o.answer, attempt) = "done"
           /\ o.served \in BOOLEAN
<1>1. /\ Settled("true", attempt) = "done" /\ Settled("no", attempt) = "failed"
      /\ Settled("threw", attempt) = "failed"
      /\ Settled("lost", attempt) \in {"pending", "failed"}
  BY DEF Settled
<1>2. /\ o.answer \in {"true", "no", "lost", "threw"} /\ o.served \in BOOLEAN
      /\ o.answer = "true" => o.served
      /\ o.answer = "no" => ~o.served
  <2>1. \/ o.served = TRUE  /\ o.answer \in {"true", "lost", "threw"}
        \/ o.served = FALSE /\ o.answer \in {"no", "lost", "threw"}
    BY DEF Outcomes
  <2> QED BY <2>1
<1> QED BY <1>1, <1>2 DEF States

LEMMA SetAttemptIInv ==
    ASSUME IInv, NEW o \in Outcomes, SetAttempt(o)
    PROVE  IInv'
<1> USE DEF IInv, Shape
<1> DEFINE settled == Settled(o.answer, set.attempt)
<1>1. set \in Saves /\ UnderWay(set) /\ set.attempt \in Nat /\ set.merged \in Records
  BY DEF CallOK, IdleCall, SetAttempt, MayEnd, UnderWay, Saves
<1>2. /\ settled \in States /\ (settled = "done" => o.served) /\ o.served \in BOOLEAN
      /\ settled = "pending" => o.answer = "lost"
      /\ o.served => o.answer \in {"lost", "threw"} \/ settled = "done"
  BY <1>1, SettledCall
<1>3. /\ set' \in Saves /\ set'.merged = set.merged /\ set'.typed = set.typed
      /\ set'.opened = set.opened /\ (o.served => set'.done)
      /\ set'.pc = IF settled = "pending" THEN "call" ELSE "idle"
  <2>1. set' = [set EXCEPT !.done = set.done \/ o.served, !.attempt = set.attempt + 1,
                           !.pc = IF settled = "pending" THEN "call" ELSE "idle"]
    BY DEF SetAttempt, NextCall
  <2> HIDE DEF settled
  <2>2. (set.done \/ o.served) \in BOOLEAN /\ set.attempt + 1 \in Nat
    BY <1>1
  <2>3. set' \in Saves
    BY <1>1, <2>1, <2>2 DEF Saves, PCs
  <2>4. set'.done = (set.done \/ o.served)
    BY <1>1, <2>1 DEF Saves
  <2>5. o.served => set'.done
    BY <2>4, Zenon
  <2> QED BY <1>1, <2>1, <2>3, <2>5 DEF Saves
<1>4. /\ rereads' = IF settled = "done" THEN rereads + 1 ELSE rereads
      /\ unsure' = (unsure \/ o.answer \in {"lost", "threw"}) /\ setState' = settled
  BY DEF SetAttempt, Attempted
<1> HIDE DEF settled
<1>5. RereadsOK' /\ rereads' \in 0..MaxEdits
  <2>1. rereads \in Nat /\ edits' = edits /\ Asking(reset') = Asking(reset) /\ Asking(set) = 1
    BY <1>1 DEF TypeOK, SetAttempt, Asking
  <2>2. rereads' + Asking(set') <= rereads + Asking(set) /\ rereads' \in Nat
    BY <1>3, <1>4, <2>1 DEF Asking, UnderWay
  <2>3. Asking(reset) \in {0, 1} /\ Asking(set') \in {0, 1}
    BY DEF Asking
  <2> QED BY <2>1, <2>2, <2>3, RereadCounted
<1>6. TypeOK'
  <2>1. bike' \in Records
    BY <1>1 DEF SetAttempt, TypeOK
  <2>2. unsure' \in BOOLEAN
    BY <1>4
  <2> QED BY <1>2, <1>3, <1>4, <1>5, <2>1, <2>2 DEF TypeOK, SetAttempt, Saves
<1>7. ModalOK' /\ ConfirmOK' /\ CallOK'
  BY <1>3 DEF ModalOK, ConfirmOK, CallOK, SetAttempt
<1>8. SnapshotFresh'
  BY <1>2, <1>4 DEF SnapshotFresh, SetAttempt, TypeOK
<1>9. MergedFresh'
  BY <1>2, <1>3, <1>4 DEF MergedFresh, UnderWay
<1>10. SaveTouchesOnlyTyped'
  <2>1. CASE ~o.served
    BY <2>1 DEF SaveTouchesOnlyTyped, Untyped, RoundedSpeed, SetAttempt
  <2>2. CASE o.served
    <3>1. applied' = [before |-> bike, after |-> set.merged, typed |-> set.typed,
                      opened |-> set.opened, sure |-> ~unsure]
      BY <2>2 DEF SetAttempt
    <3> QED BY <1>1, <3>1 DEF MergedFresh, SaveTouchesOnlyTyped, Untyped, RoundedSpeed
  <2> QED BY <2>1, <2>2
<1>11. DoneMeansServed'
  BY <1>2, <1>3, <1>4 DEF DoneMeansServed, SetAttempt
<1> QED BY <1>5, <1>6, <1>7, <1>8, <1>9, <1>10, <1>11

LEMMA ResetAttemptIInv ==
    ASSUME IInv, NEW o \in Outcomes, ResetAttempt(o)
    PROVE  IInv'
<1> USE DEF IInv, Shape
<1> DEFINE settled == Settled(o.answer, reset.attempt)
<1>1. reset \in Resets /\ UnderWay(reset) /\ reset.attempt \in Nat
  BY DEF CallOK, ResetAttempt, MayEnd, UnderWay, Resets
<1>2. /\ settled \in States /\ (settled = "done" => o.served) /\ o.served \in BOOLEAN
      /\ settled = "pending" => o.answer = "lost"
      /\ o.served => o.answer \in {"lost", "threw"} \/ settled = "done"
  BY <1>1, SettledCall
<1>3. /\ reset' \in Resets /\ (o.served => reset'.done)
      /\ reset'.pc = IF settled = "pending" THEN "call" ELSE "idle"
  <2>1. reset' = [reset EXCEPT !.done = reset.done \/ o.served, !.attempt = reset.attempt + 1,
                               !.pc = IF settled = "pending" THEN "call" ELSE "idle"]
    BY DEF ResetAttempt, NextCall
  <2> HIDE DEF settled
  <2>2. (reset.done \/ o.served) \in BOOLEAN /\ reset.attempt + 1 \in Nat
    BY <1>1
  <2>3. reset' \in Resets
    BY <1>1, <2>1, <2>2 DEF Resets, PCs
  <2>4. reset'.done = (reset.done \/ o.served)
    BY <1>1, <2>1 DEF Resets
  <2>5. o.served => reset'.done
    BY <2>4, Zenon
  <2> QED BY <1>1, <2>1, <2>3, <2>5 DEF Resets
<1>4. /\ rereads' = IF settled = "done" THEN rereads + 1 ELSE rereads
      /\ unsure' = (unsure \/ o.answer \in {"lost", "threw"}) /\ resetState' = settled
  BY DEF ResetAttempt, Attempted
<1> HIDE DEF settled
<1>5. RereadsOK' /\ rereads' \in 0..MaxEdits
  <2>1. rereads \in Nat /\ edits' = edits /\ Asking(set') = Asking(set) /\ Asking(reset) = 1
    BY <1>1 DEF TypeOK, ResetAttempt, Asking
  <2>2. rereads' + Asking(reset') <= rereads + Asking(reset) /\ rereads' \in Nat
    BY <1>3, <1>4, <2>1 DEF Asking, UnderWay
  <2>3. Asking(set) \in {0, 1} /\ Asking(reset') \in {0, 1}
    BY DEF Asking
  <2> QED BY <2>1, <2>2, <2>3, RereadCounted
<1>6. TypeOK'
  <2>1. bike' \in Records
    BY ValuesAssumption DEF ResetAttempt, TypeOK, Records
  <2>2. unsure' \in BOOLEAN
    BY <1>4
  <2> QED BY <1>2, <1>3, <1>4, <1>5, <2>1, <2>2 DEF TypeOK, ResetAttempt, Resets
<1>7. ModalOK' /\ ConfirmOK' /\ CallOK'
  BY <1>3 DEF ModalOK, ConfirmOK, CallOK, ResetAttempt
<1>8. SnapshotFresh'
  BY <1>2, <1>4 DEF SnapshotFresh, ResetAttempt, TypeOK
<1>9. MergedFresh'
  BY <1>1, <1>4 DEF MergedFresh, ResetAttempt
<1>10. SaveTouchesOnlyTyped'
  BY DEF SaveTouchesOnlyTyped, Untyped, RoundedSpeed, ResetAttempt
<1>11. DoneMeansServed'
  BY <1>2, <1>3, <1>4 DEF DoneMeansServed, ResetAttempt
<1> QED BY <1>5, <1>6, <1>7, <1>8, <1>9, <1>10, <1>11

LEMMA RereadIInv ==
    ASSUME IInv, NEW ok \in BOOLEAN, Reread(ok)
    PROVE  IInv'
<1> USE DEF IInv, Shape
<1>1. RereadsOK' /\ rereads' \in 0..MaxEdits
  <2>1. /\ rereads \in Nat /\ rereads > 0 /\ rereads' = rereads - 1 /\ edits' = edits
        /\ Asking(set') = Asking(set) /\ Asking(reset') = Asking(reset)
    BY DEF Reread, TypeOK
  <2>2. Asking(set) \in {0, 1} /\ Asking(reset) \in {0, 1}
    BY DEF Asking
  <2> QED BY <2>1, <2>2, RereadCounted
<1>2. bike \in Records /\ bike' = bike /\ udam' \in {bike, udam}
  BY DEF TypeOK, Reread
<1>3. unsure' = IF ok THEN unsure /\ (UnderWay(set) \/ UnderWay(reset)) ELSE TRUE
  BY DEF Reread
<1>4. TypeOK'
  <2>1. unsure' \in BOOLEAN
    BY <1>3
  <2> QED BY <1>1, <1>2, <2>1 DEF TypeOK, Reread
<1>5. udam # None => udam' # None
  BY <1>2, ValuesAssumption DEF Records
<1>6. ModalOK' /\ ConfirmOK' /\ CallOK'
  BY <1>5 DEF ModalOK, ConfirmOK, CallOK, Reread
<1>7. SnapshotFresh'
  BY <1>3 DEF SnapshotFresh, Reread
<1>8. MergedFresh'
  BY <1>3 DEF MergedFresh, Reread
<1>9. SaveTouchesOnlyTyped' /\ DoneMeansServed'
  BY DEF SaveTouchesOnlyTyped, Untyped, RoundedSpeed, DoneMeansServed, Reread
<1> QED BY <1>1, <1>4, <1>6, <1>7, <1>8, <1>9

(* A transfer that gets stuck leaves its call under way.                   *)
LEMMA SticksIInv == IInv /\ (SetSticks \/ ResetSticks) => IInv'
<1> SUFFICES ASSUME IInv, SetSticks \/ ResetSticks PROVE IInv'
  OBVIOUS
<1> USE DEF IInv, Shape
<1>1. /\ set' = set \/ (set \in Saves /\ set' = [set EXCEPT !.pc = "stuck"] /\ UnderWay(set))
      /\ reset' = reset \/ (reset' = [reset EXCEPT !.pc = "stuck"] /\ UnderWay(reset))
      /\ UNCHANGED <<bike, udam, modal, confirm, rereads, setState, resetState, edits, unsure, applied>>
  BY DEF SetSticks, ResetSticks, CallOK, IdleCall, UnderWay
<1>2. /\ CallOK' /\ UnderWay(set)' = UnderWay(set) /\ UnderWay(reset)' = UnderWay(reset)
      /\ set'.done = set.done /\ reset'.done = reset.done
      /\ UnderWay(set) => /\ set'.merged = set.merged /\ set'.typed = set.typed
                          /\ set'.opened = set.opened
  BY <1>1 DEF CallOK, Saves, Resets, PCs, UnderWay
<1>3. TypeOK'
  BY <1>1, <1>2 DEF TypeOK, CallOK, Saves, Resets, PCs, IdleCall
<1>4. ModalOK' /\ ConfirmOK'
  BY <1>1 DEF ModalOK, Filled, ConfirmOK
<1>5. RereadsOK'
  BY <1>1, <1>2 DEF RereadsOK, Asking
<1>6. SnapshotFresh' /\ SaveTouchesOnlyTyped' /\ DoneMeansServed'
  BY <1>1, <1>2 DEF SnapshotFresh, SaveTouchesOnlyTyped, Untyped, RoundedSpeed, DoneMeansServed
<1>7. MergedFresh'
  BY <1>1, <1>2 DEF MergedFresh
<1> QED BY <1>2, <1>3, <1>4, <1>5, <1>6, <1>7

LEMMA StepIInv == IInv /\ [Next]_vars => IInv'
<1> SUFFICES ASSUME IInv, [Next]_vars PROVE IInv'
  OBVIOUS
<1>1. CASE User
  BY <1>1, OpenModalIInv, ClickSaveIInv, OtherClicksIInv, ConfirmSaveIInv, ConfirmResetIInv, TypeIInv DEF User
<1>2. CASE Calls
  BY <1>2, SetAttemptIInv, ResetAttemptIInv, RereadIInv, SticksIInv DEF Calls
<1>3. CASE UNCHANGED vars
  <2>1. ModalOK' /\ ConfirmOK'
    BY <1>3 DEF IInv, Shape, ModalOK, Filled, ConfirmOK, vars
  <2> QED BY <1>3, <2>1, PopupStep DEF vars
<1> QED BY <1>1, <1>2, <1>3 DEF Next

LEMMA Invariance == Spec => []IInv
BY InitIInv, StepIInv, PTL DEF Spec

(* The records of the bike and of the page, the states of the two calls    *)
(* and the number of re-reads keep their types, whatever is lost.          *)
THEOREM TypeCorrect == Spec => []TypeOK
<1>1. IInv => TypeOK
  BY DEF IInv, Shape
<1> QED BY <1>1, Invariance, PTL

(* setUdamValuesForMode changes no field the user did not type into, but   *)
(* for the rounding of the speed box, for every record the bike may hold,  *)
(* any number of fields and whatever was typed, as long as no answer was   *)
(* lost and no call overlapped since the last read.                        *)
THEOREM SaveSparesTheRest == Spec => []SaveTouchesOnlyTyped
<1>1. IInv => SaveTouchesOnlyTyped
  BY DEF IInv
<1> QED BY <1>1, Invariance, PTL

(* "Save" and "Reset" report success only if the bike served that call,    *)
(* for any number of attempts and whatever of them was lost.               *)
THEOREM SuccessIsServed == Spec => []DoneMeansServed
<1>1. IInv => DoneMeansServed
  BY DEF IInv
<1> QED BY <1>1, Invariance, PTL

=============================================================================
