----------------------------- MODULE PageProofs -----------------------------
(***************************************************************************)
(* Theorems about Page, for any registry, any number of components to scan *)
(* and of issues they count, and any number of sessions and reports.       *)
(***************************************************************************)
EXTENDS Page, SweepProofs

allVars == <<vars, pageVars>>

(* The steps that leave the sweeps where they are.                         *)
Asides ==
    \/ PickerCancelled \/ OpenFile \/ NotLoaded \/ StartScan \/ StartLab
    \/ ScanStep \/ LabStep \/ Sticking \/ UNCHANGED allVars

LEMMA PageSteps ==
    [PageNext]_allVars =>
        \/ SweepGoesOn
        \/ (Drops \/ Clicks) /\ UNCHANGED sweeps
        \/ Awaiting /\ (Connect \/ ReadAgain \/ Loaded) /\ UNCHANGED sweeps
        \/ Awaiting /\ Picked
        \/ Awaiting /\ \E k \in DOMAIN asleep : Resume(k)
        \/ Asides /\ UNCHANGED sweeps
<1>1. ScanRuns \/ ScanRejected => ScanStep
  BY DEF ScanRuns, ScanRejected, ScanStep
<1>2. LabRuns \/ LabRejected => LabStep
  BY DEF LabRuns, LabRejected, LabStep
<1>3. UNCHANGED allVars => UNCHANGED sweeps
  BY DEF allVars, pageVars
<1> QED BY <1>1, <1>2, <1>3 DEF PageNext, Dialogs, Asides

LEMMA AsideSteps == Asides => Idles
<1>1. PickerCancelled \/ OpenFile \/ NotLoaded \/ StartScan \/ StartLab \/ Sticking => Idles
  BY DEF PickerCancelled, OpenFile, NotLoaded, StartScan, StartLab, Sticking, Hang, Idles
<1>2. ScanStep \/ LabStep => Idles
  BY DEF ScanStep, CountAnswered, CountFailed, IssueRead, ListBroken, ScanThrows,
         LabStep, LabAnswered, CallThrows, LabDone, Idles
<1>3. UNCHANGED allVars => Idles
  BY DEF allVars, vars, globals, locals, Idles
<1> QED BY <1>1, <1>2, <1>3 DEF Asides

-----------------------------------------------------------------------------
(* What the steps of the sweep and the disconnects leave of the globals: a *)
(* transport is made by Picked alone, an idle page has none, and a sweep   *)
(* that declares itself loaded returns.                                    *)
Shrinks ==
    /\ transport' => transport
    /\ sweepFullyLoaded' => sweepFullyLoaded \/ (pc = "finish" /\ pc' = "returned")
    /\ pc = "returned" => pc' = "returned"
    /\ phase' = "idle" => (phase = "idle" /\ transport' = transport) \/ transport' = FALSE

LEMMA DisconnectShrinks ==
    ASSUME HandleDisconnect \/ GoIdle
    PROVE  /\ transport' => transport
           /\ phase' = "idle" => (phase = "idle" /\ transport' = transport) \/ transport' = FALSE
<1>1. CASE GoIdle
  BY <1>1 DEF GoIdle
<1>2. CASE HandleDisconnect
  <2>1. CASE phase = "idle"
    BY <1>2, <2>1 DEF HandleDisconnect, globals
  <2>2. CASE phase = "connected"
    BY <1>2, <2>2 DEF HandleDisconnect
  <2>3. CASE phase \notin {"idle", "connected"}
    <3>1. GoIdle
      BY <1>2, <2>3 DEF HandleDisconnect
    <3> QED BY <1>1, <3>1
  <2> QED BY <2>1, <2>2, <2>3
<1> QED BY <1>1, <1>2

LEMMA SweepShrinks == SweepStep => Shrinks /\ pc # "returned"
<1> SUFFICES ASSUME SweepStep PROVE Shrinks /\ pc # "returned"
  OBVIOUS
<1> USE DEF Shrinks
<1>1. CASE OpenFails \/ ReadFindsBikeGone
  <2>1. /\ HandleDisconnect \/ GoIdle
        /\ pc \in {"opening", "reading"} /\ pc' = "returned" /\ UNCHANGED sweepFullyLoaded
    BY <1>1 DEF OpenFails, ReadFindsBikeGone
  <2>2. /\ transport' => transport
        /\ phase' = "idle" => (phase = "idle" /\ transport' = transport) \/ transport' = FALSE
    BY <2>1, DisconnectShrinks
  <2> QED BY <2>1, <2>2
<1>2. ASSUME NEW outcome \in Outcomes, EndRead(outcome) PROVE Shrinks /\ pc # "returned"
  <2>1. pc = "reading" /\ UNCHANGED <<transport, sweepFullyLoaded>> /\ phase' \in {phase, "connected"}
    BY <1>2 DEF EndRead
  <2> QED BY <2>1
<1>3. CASE AfterLoop
  <2>1. pc = "end" /\ UNCHANGED <<transport, sweepFullyLoaded>> /\ phase' \in {phase, "connected"}
    BY <1>3 DEF AfterLoop
  <2> QED BY <2>1
<1>4. CASE Finish
  BY <1>4 DEF Finish, globals
<1>5. CASE Opened \/ WarmUpThrows \/ (\E answer \in BOOLEAN : WarmUp(answer))
           \/ StopReading \/ Skip \/ StartRead \/ ModeStatsRead \/ Slept \/ LoopDone
  <2>1. pc # "returned" /\ UNCHANGED <<phase, transport, sweepFullyLoaded>>
    BY <1>5 DEF Opened, WarmUpThrows, WarmUp, StopReading, Skip, StartRead, ModeStatsRead, Slept, LoopDone,
                MoreToRead, globals
  <2> QED BY <2>1
<1> QED BY <1>1, <1>2, <1>3, <1>4, <1>5 DEF SweepStep

LEMMA ButtonsShrink == Cancel \/ ClickDisconnect \/ BikeDisconnects => Shrinks /\ pc' = pc /\ UNCHANGED sweepFullyLoaded
<1>1. Cancel => Shrinks /\ pc' = pc /\ UNCHANGED sweepFullyLoaded
  BY DEF Cancel, Shrinks
<1>2. ClickDisconnect \/ BikeDisconnects => Shrinks /\ pc' = pc /\ UNCHANGED sweepFullyLoaded
  <2> SUFFICES ASSUME ClickDisconnect \/ BikeDisconnects
               PROVE  Shrinks /\ pc' = pc /\ UNCHANGED sweepFullyLoaded
    OBVIOUS
  <2>1. pc' = pc /\ sweepFullyLoaded' = sweepFullyLoaded /\ (HandleDisconnect \/ GoIdle)
    BY DEF ClickDisconnect, BikeDisconnects
  <2> QED BY <2>1, DisconnectShrinks, Zenon DEF Shrinks
<1> QED BY <1>1, <1>2

-----------------------------------------------------------------------------
(* A loaded page that still has its connection has no sweep under way, but *)
(* for the one known case: why no experiment and no scan starts next to a  *)
(* sweep.                                                                  *)
Busy == scan.pc # "none" \/ lab # "none"

Alone == AllReturned \/ overlap = "unlocked"

AloneOnLine ==
    /\ sweepFullyLoaded /\ transport => Alone
    /\ Busy /\ transport => Alone

LEMMA InitAlone == PageInit => AloneOnLine
BY DEF PageInit, AloneOnLine

LEMMA KeepAlone ==
    ASSUME AloneOnLine, UNCHANGED <<scan, lab, pc, sweeps, sweepFullyLoaded>>, transport' => transport
    PROVE  AloneOnLine'
<1>1. Busy' = Busy /\ Alone' = Alone
  BY DEF Busy, Alone, AllReturned, OthersReturned, sweeps
<1> QED BY <1>1 DEF AloneOnLine

LEMMA SweepAlone == AloneOnLine /\ SweepGoesOn => AloneOnLine'
<1> SUFFICES ASSUME AloneOnLine, SweepGoesOn PROVE AloneOnLine'
  OBVIOUS
<1>1. Shrinks /\ pc # "returned" /\ UNCHANGED <<scan, lab, asleep>>
  BY SweepShrinks DEF SweepGoesOn, diagnostics, writeLab
<1>2. overlap' = IF pc = "finish" /\ ~OthersReturned THEN "unlocked" ELSE overlap
  BY DEF SweepGoesOn
<1>3. (sweepFullyLoaded \/ Busy) /\ transport => overlap' = "unlocked"
  BY <1>1, <1>2, Zenon DEF AloneOnLine, Alone, AllReturned
<1>4. pc = "finish" /\ pc' = "returned" => Alone'
  <2>1. OthersReturned' = OthersReturned
    BY <1>1 DEF OthersReturned
  <2> QED BY <1>2, <2>1 DEF Alone, AllReturned
<1> QED BY <1>1, <1>3, <1>4 DEF AloneOnLine, Busy, Shrinks, Alone

LEMMA StepAlone == AloneOnLine /\ [PageNext]_allVars => AloneOnLine'
<1> SUFFICES ASSUME AloneOnLine, [PageNext]_allVars PROVE AloneOnLine'
  OBVIOUS
<1>1. CASE SweepGoesOn
  BY <1>1, SweepAlone
<1>2. CASE (Drops \/ Clicks) /\ UNCHANGED sweeps
  BY <1>2, ButtonsShrink, KeepAlone DEF Drops, Clicks, diagnostics, writeLab, Shrinks
<1>3. CASE (Connect \/ ReadAgain) /\ UNCHANGED sweeps
  <2>1. UNCHANGED <<pc, sweepFullyLoaded, scan, lab>> /\ (transport' = transport \/ transport' = FALSE)
    BY <1>3 DEF Connect, ReadAgain, OpenPicker, Forget, writeLab
  <2>2. transport' => transport
    BY <2>1, Zenon
  <2> QED BY <1>3, <2>1, <2>2, KeepAlone
<1>4. CASE Loaded
  <2>1. transport' = FALSE
    BY <1>4 DEF Loaded
  <2> QED BY <2>1 DEF AloneOnLine
<1>5. CASE Picked
  <2>1. sweepFullyLoaded' = FALSE /\ scan' = scan /\ lab' = lab /\ scan.pc = "none" /\ lab = "none"
    BY <1>5 DEF Picked, NoExchange, diagnostics, writeLab
  <2> QED BY <2>1 DEF AloneOnLine, Busy
<1>6. ASSUME NEW k \in DOMAIN asleep, Resume(k) PROVE AloneOnLine'
  <2>1. ~AllReturned
    BY <1>6 DEF Resume, AllReturned, OthersReturned
  <2>2. UNCHANGED <<scan, lab, overlap, transport, sweepFullyLoaded>>
    BY <1>6 DEF Resume, globals, diagnostics, writeLab
  <2> QED BY <2>1, <2>2 DEF AloneOnLine, Alone, Busy
<1>7. CASE Asides /\ UNCHANGED sweeps
  <2>1. UNCHANGED <<pc, transport, sweepFullyLoaded>>
    BY <1>7, AsideSteps DEF Idles, globals
  <2>2. CASE UNCHANGED <<scan, lab>>
    BY <1>7, <2>1, <2>2, KeepAlone
  <2>3. CASE sweepFullyLoaded /\ transport
    <3>1. Alone' = Alone
      BY <1>7, <2>1 DEF Alone, AllReturned, OthersReturned, sweeps
    <3> QED BY <2>1, <2>3, <3>1 DEF AloneOnLine
  <2>4. CASE Busy
    <3>1. Alone' = Alone
      BY <1>7, <2>1 DEF Alone, AllReturned, OthersReturned, sweeps
    <3> QED BY <2>1, <2>4, <3>1 DEF AloneOnLine
  <2>5. UNCHANGED <<scan, lab>> \/ (sweepFullyLoaded /\ transport) \/ Busy
    <3>1. StartScan \/ StartLab => sweepFullyLoaded /\ transport
      BY DEF StartScan, StartLab
    <3>2. ScanStep \/ LabStep => Busy
      BY DEF ScanStep, CountAnswered, CountFailed, IssueRead, ListBroken, ScanThrows,
             LabStep, LabAnswered, CallThrows, LabDone, Busy
    <3>3. PickerCancelled \/ OpenFile \/ NotLoaded \/ Sticking \/ UNCHANGED allVars => UNCHANGED <<scan, lab>>
      BY DEF PickerCancelled, OpenFile, NotLoaded, Sticking, Hang, allVars, pageVars, diagnostics, writeLab
    <3> QED BY <1>7, <3>1, <3>2, <3>3 DEF Asides
  <2> QED BY <2>2, <2>3, <2>4, <2>5
<1> QED BY <1>1, <1>2, <1>3, <1>4, <1>5, <1>6, <1>7, PageSteps

(* No experiment and no scan shares a connection with a sweep, in any      *)
(* number of sessions, whatever drops, is cancelled or loaded between and  *)
(* whichever await of an earlier sweep settles late: only once a sweep has *)
(* ended beside another can it be otherwise.                               *)
THEOREM NothingSharesTheSweep == PageSpec => []ExperimentsWait
<1>1. AloneOnLine => ExperimentsWait
  BY DEF AloneOnLine, Alone, Busy, ExperimentsWait
<1>2. PageInit /\ [][PageNext]_allVars => []AloneOnLine
  BY InitAlone, StepAlone, PTL
<1> QED BY <1>1, <1>2, PTL DEF PageSpec, allVars

-----------------------------------------------------------------------------
(* The diagnostics scan and the reports it leaves.                         *)
PartSet == {Parts[i] : i \in DOMAIN Parts}
AnyReport == [status : {"ok", "failed"}, count : Nat, issues : Nat, lost : BOOLEAN, session : Nat]
Scans == [pc : {"none", "count", "read"}, part : Nat, n : Nat, count : Nat, session : Nat, threw : BOOLEAN]

ScanTyped ==
    /\ session \in Nat /\ scan \in Scans /\ scan.session <= session
    /\ scan.pc # "none" => scan.part \in 1..Len(Parts)
    /\ found \in [PartSet -> AnyReport \cup {None}]
    /\ phase = "idle" => ~transport

Scanning == scan.pc # "none" /\ scan.session = session
LeftBehind == scan.pc # "none" /\ scan.session # session

(* A scan the page has moved on from has no transport and has recorded     *)
(* nothing of the new session yet: its next exchange throws.               *)
OldScans == LeftBehind => ~transport /\ found = Unscanned

Stale(p) == found[p] # None /\ found[p].session # session

OldReports ==
    /\ Scanning => \A p \in PartSet : ~Stale(p)
    /\ scan.pc = "none" => \E q \in PartSet : \A p \in PartSet : Stale(p) => p = q

Complete(p) ==
    /\ found[p] # None
    /\ found[p].status = "ok" /\ ~found[p].lost => found[p].issues = found[p].count

(* The parts before the current one are reported, and of the current one   *)
(* the issues read so far, unless an answer was lost.                      *)
Reported ==
    /\ Scanning => /\ diagnosticsState = "scanning"
                   /\ \A i \in 1..Len(Parts) : i < scan.part => Complete(Parts[i])
    /\ Scanning /\ scan.pc = "read" =>
         /\ Current # None /\ Current.status = "ok" /\ Current.count = scan.count
         /\ scan.n < scan.count /\ (~Current.lost => Current.issues = scan.n)
    /\ diagnosticsState = "done" /\ scan.session = session => \A p \in PartSet : Complete(p)

ScanInv == ScanTyped /\ OldScans /\ OldReports /\ Reported

LEMMA PartsTyped ==
    /\ Len(Parts) \in Nat /\ Len(Parts) > 0 /\ DOMAIN Parts = 1..Len(Parts)
    /\ \A i \in 1..Len(Parts) : Parts[i] \in PartSet
    /\ \A p \in PartSet : \E i \in 1..Len(Parts) : p = Parts[i]
    /\ \A i, j \in 1..Len(Parts) : Parts[i] = Parts[j] => i = j
    /\ Unscanned = [p \in PartSet |-> None] /\ None \notin AnyReport
BY PageAssumption DEF PartSet, Unscanned, AnyReport

LEMMA InitScan == PageInit => ScanInv
<1> SUFFICES ASSUME PageInit PROVE ScanInv
  OBVIOUS
<1>1. scan \in Scans /\ scan.pc = "none" /\ scan.session = 0 /\ session = 0 /\ diagnosticsState = "none"
  BY DEF PageInit, NoScan, Scans
<1>2. found = [p \in PartSet |-> None] /\ Parts[1] \in PartSet
  <2>1. found = Unscanned
    BY DEF PageInit
  <2> QED BY <2>1, PartsTyped
<1>3. ScanTyped
  <2>1. found \in [PartSet -> AnyReport \cup {None}]
    BY <1>2
  <2>2. transport = FALSE
    BY DEF PageInit
  <2> QED BY <1>1, <2>1, <2>2 DEF ScanTyped
<1>4. OldScans /\ OldReports /\ Reported
  BY <1>1, <1>2 DEF OldScans, OldReports, Reported, Scanning, LeftBehind, Stale
<1> QED BY <1>3, <1>4 DEF ScanInv

(* Steps that leave the scan alone, in the same session.                   *)
LEMMA KeepScan ==
    ASSUME ScanInv, UNCHANGED <<scan, found, diagnosticsState, session>>,
           phase' = "idle" => ~transport', scan.pc # "none" /\ transport' => transport
    PROVE  ScanInv'
<1>1. ScanTyped'
  BY DEF ScanInv, ScanTyped
<1>2. OldScans'
  BY DEF ScanInv, OldScans, LeftBehind
<1>3. OldReports'
  BY DEF ScanInv, OldReports, Scanning, Stale
<1>4. Reported'
  BY DEF ScanInv, Reported, Scanning, Complete, Current
<1> QED BY <1>1, <1>2, <1>3, <1>4 DEF ScanInv

(* The page moves on to another session.                                   *)
LEMMA LeaveScan ==
    ASSUME ScanInv, session' = session + 1, Forget, ~transport'
    PROVE  ScanInv'
<1>1. /\ diagnosticsState' = "none" /\ scan' = scan /\ found' = [p \in PartSet |-> None]
      /\ session \in Nat /\ scan \in Scans /\ scan.session <= session
  BY PartsTyped DEF Forget, ScanInv, ScanTyped
<1>2. scan'.session # session' /\ Parts[1] \in PartSet
  BY <1>1, PartsTyped DEF Scans
<1>3. ScanTyped'
  BY <1>1 DEF ScanInv, ScanTyped, Scans
<1>4. OldScans' /\ OldReports' /\ Reported'
  BY <1>1, <1>2, PartsTyped DEF OldScans, OldReports, Reported, Scanning, LeftBehind, Stale
<1> QED BY <1>3, <1>4 DEF ScanInv

LEMMA StartScanInv == ScanInv /\ StartScan => ScanInv'
<1> SUFFICES ASSUME ScanInv, StartScan PROVE ScanInv'
  OBVIOUS
<1>1. /\ scan' \in Scans /\ scan'.pc = "count" /\ scan'.part = 1 /\ scan'.session = session
      /\ diagnosticsState' = "scanning" /\ session' = session /\ session \in Nat
      /\ UNCHANGED <<phase, transport>> /\ transport /\ phase = "connected"
  BY DEF StartScan, NoScan, Scans, ScanInv, ScanTyped, globals
<1>2. found' = [p \in PartSet |-> None]
  BY PartsTyped DEF StartScan
<1>3. ScanTyped'
  BY <1>1, <1>2, PartsTyped DEF ScanTyped
<1>4. OldScans' /\ OldReports'
  BY <1>1, <1>2 DEF OldScans, OldReports, LeftBehind, Scanning, Stale
<1>5. Reported'
  BY <1>1 DEF Reported, Scanning
<1> QED BY <1>3, <1>4, <1>5 DEF ScanInv

(* How a step of the scan goes on: with the next part or the next issue,   *)
(* or not at all.                                                          *)
Ended == scan' = [scan EXCEPT !.pc = "none"] \/ scan' = [scan EXCEPT !.pc = "none", !.threw = TRUE]

LEMMA NextPartStep ==
    ASSUME ScanTyped, scan.pc # "none", NextPart
    PROVE  \/ /\ scan' = [scan EXCEPT !.pc = "count", !.part = @ + 1, !.n = 0] /\ transport
              /\ scan.part + 1 \in 1..Len(Parts) /\ UNCHANGED diagnosticsState
           \/ Ended /\ UNCHANGED diagnosticsState /\ ~transport
           \/ Ended /\ diagnosticsState' = "done" /\ scan.part = Len(Parts)
<1>1. scan.part \in 1..Len(Parts) /\ Len(Parts) \in Nat
  BY PartsTyped DEF ScanTyped
<1>2. CASE scan.part < Len(Parts)
  <2>1. CASE transport
    BY <1>1, <1>2, <2>1 DEF NextPart, Exchange
  <2>2. CASE ~transport
    BY <1>1, <1>2, <2>2 DEF NextPart, Exchange, Ended
  <2> QED BY <2>1, <2>2
<1>3. CASE ~(scan.part < Len(Parts))
  BY <1>1, <1>3 DEF NextPart, Ended
<1> QED BY <1>2, <1>3

(* A scan the page has moved on from ends with its step.                   *)
LEMMA OldScanStep ==
    ASSUME ScanInv, LeftBehind, ScanStep
    PROVE  ScanInv'
<1> USE DEF ScanInv
<1>1. /\ scan \in Scans /\ scan.pc # "none" /\ scan.session # session /\ ~transport
      /\ found = [q \in PartSet |-> None] /\ scan.part \in 1..Len(Parts)
  BY PartsTyped DEF LeftBehind, OldScans, ScanTyped
<1> PICK p \in PartSet : p = Parts[scan.part]
  BY <1>1, PartsTyped
<1>2. NextPart => Ended
  BY <1>1, NextPartStep
<1>3. \A s : Exchange(s) => Ended
  BY <1>1 DEF Exchange, Ended
<1> DEFINE Over == /\ Ended /\ session' = session /\ UNCHANGED <<phase, transport>>
                   /\ found' = found \/ \E r \in AnyReport : found' = [found EXCEPT ![p] = r]
<1>4. Over
  <2>1. \A count \in Nat : Report("ok", count) \in AnyReport /\ Report("failed", 0) \in AnyReport
    BY <1>1 DEF Report, AnyReport, Scans
  <2>2. ASSUME NEW count \in 0..MaxIssues, CountAnswered(count) PROVE Over
    <3>1. found' = [found EXCEPT ![p] = Report("ok", count)] /\ Report("ok", count) \in AnyReport
      BY <2>1, <2>2, PageAssumption DEF CountAnswered
    <3>2. Ended
      BY <1>2, <1>3, <2>2 DEF CountAnswered
    <3> QED BY <2>2, <3>1, <3>2 DEF CountAnswered, globals
  <2>3. CASE CountFailed
    <3>1. found' = [found EXCEPT ![p] = Report("failed", 0)] /\ Report("failed", 0) \in AnyReport
      BY <2>1, <2>3 DEF CountFailed
    <3> QED BY <1>2, <2>3, <3>1 DEF CountFailed, globals
  <2>4. \A r : Amend(r) => found' = found
    <3>1. [found EXCEPT ![p] = None] = found
      BY <1>1
    <3> QED BY <1>1, <3>1 DEF Amend
  <2>5. ASSUME NEW issue \in BOOLEAN, IssueRead(issue) PROVE Over
    <3>1. found' = found
      BY <2>4, <2>5 DEF IssueRead
    <3>2. Ended
      BY <1>2, <1>3, <2>5 DEF IssueRead
    <3> QED BY <2>5, <3>1, <3>2 DEF IssueRead, globals
  <2>6. CASE ListBroken
    <3>1. found' = found
      BY <2>4, <2>6 DEF ListBroken
    <3> QED BY <1>2, <2>6, <3>1 DEF ListBroken, globals
  <2>7. CASE ScanThrows
    BY <2>7 DEF ScanThrows, Ended, globals
  <2> QED BY <2>2, <2>3, <2>5, <2>6, <2>7 DEF ScanStep
<1>5. scan' \in Scans /\ scan'.pc = "none" /\ scan'.session = scan.session
  BY <1>1, <1>4 DEF Ended, Scans
<1>6. found' \in [PartSet -> AnyReport \cup {None}] /\ \A q \in PartSet \ {p} : found'[q] = None
  BY <1>1, <1>4
<1>7. ScanTyped'
  BY <1>4, <1>5, <1>6 DEF ScanTyped
<1>8. OldScans' /\ OldReports'
  BY <1>5, <1>6 DEF OldScans, OldReports, LeftBehind, Scanning, Stale
<1>9. Reported'
  BY <1>1, <1>4, <1>5 DEF Reported, Scanning
<1> QED BY <1>7, <1>8, <1>9

(* A scan of the current session records a report of its part.             *)
Reports1(p, r) ==
    /\ p = Parts[scan.part] /\ r \in AnyReport /\ r.session = session
    /\ found' = [found EXCEPT ![p] = r]
    /\ UNCHANGED <<session, phase, transport>>

LEMMA ReportedPart ==
    ASSUME ScanInv, Scanning, NEW p, NEW r, Reports1(p, r)
    PROVE  /\ p \in PartSet /\ found'[p] = r /\ scan.part \in 1..Len(Parts) /\ Len(Parts) \in Nat
           /\ scan \in Scans /\ scan.pc # "none" /\ scan.session = session /\ diagnosticsState = "scanning"
           /\ found' \in [PartSet -> AnyReport \cup {None}]
           /\ \A q \in PartSet : ~Stale(q)'
           /\ \A i \in 1..Len(Parts) : i < scan.part => Complete(Parts[i])'
           /\ phase' = "idle" => ~transport'
<1> USE DEF ScanInv
<1>1. /\ scan.part \in 1..Len(Parts) /\ Len(Parts) \in Nat /\ scan \in Scans /\ scan.pc # "none"
      /\ scan.session = session /\ diagnosticsState = "scanning" /\ (phase' = "idle" => ~transport')
      /\ found \in [PartSet -> AnyReport \cup {None}]
  BY PartsTyped DEF Reports1, ScanTyped, Reported, Scanning
<1>2. p \in PartSet /\ found'[p] = r /\ found' \in [PartSet -> AnyReport \cup {None}]
      /\ \A q \in PartSet \ {p} : found'[q] = found[q]
  BY <1>1, PartsTyped DEF Reports1
<1>3. \A q \in PartSet : ~Stale(q)'
  BY <1>2 DEF Reports1, OldReports, Stale
<1>4. ASSUME NEW i \in 1..Len(Parts), i < scan.part PROVE Complete(Parts[i])'
  <2>1. Parts[i] \in PartSet \ {p} /\ Complete(Parts[i])
    BY <1>1, <1>4, PartsTyped DEF Reports1, Reported
  <2> QED BY <1>2, <2>1 DEF Complete
<1>5. scan \in Scans /\ scan.pc # "none" /\ scan.session = session /\ diagnosticsState = "scanning"
  BY <1>1
<1> QED BY <1>1, <1>2, <1>3, <1>4, <1>5, Zenon

(* ... and ends because the exchange throws,                               *)
LEMMA ReportThenEnd ==
    ASSUME ScanInv, Scanning, NEW p, NEW r, Reports1(p, r), Ended, UNCHANGED diagnosticsState
    PROVE  ScanInv'
<1>1. scan' \in Scans /\ scan'.pc = "none" /\ scan'.session = scan.session /\ session' = session
  BY ReportedPart DEF Ended, Scans, Reports1
<1>2. ScanTyped'
  BY <1>1, ReportedPart DEF ScanTyped, ScanInv
<1>3. OldScans' /\ OldReports'
  BY <1>1, ReportedPart DEF OldScans, OldReports, LeftBehind, Scanning
<1>4. Reported'
  BY <1>1, ReportedPart DEF Reported, Scanning
<1> QED BY <1>2, <1>3, <1>4 DEF ScanInv

(* ... or goes on with the next part, or is done,                          *)
LEMMA ReportThenNext ==
    ASSUME ScanInv, Scanning, NEW p, NEW r, Reports1(p, r), NextPart,
           r.status = "ok" /\ ~r.lost => r.issues = r.count
    PROVE  ScanInv'
<1>1. Complete(p)'
  BY ReportedPart, PartsTyped DEF Complete, Reports1
<1>2. CASE Ended /\ UNCHANGED diagnosticsState
  BY <1>2, ReportThenEnd
<1>3. CASE Ended /\ diagnosticsState' = "done" /\ scan.part = Len(Parts)
  <2>1. scan' \in Scans /\ scan'.pc = "none" /\ scan'.session = scan.session /\ session' = session
    BY <1>3, ReportedPart DEF Ended, Scans, Reports1
  <2>2. ScanTyped'
    BY <2>1, ReportedPart DEF ScanTyped, ScanInv
  <2>3. OldScans' /\ OldReports'
    BY <2>1, ReportedPart DEF OldScans, OldReports, LeftBehind, Scanning
  <2>4. ASSUME NEW i \in 1..Len(Parts) PROVE Complete(Parts[i])'
    <3>1. CASE i = scan.part
      BY <1>1, <3>1 DEF Reports1
    <3>2. CASE i < scan.part
      BY <3>2, ReportedPart
    <3> QED BY <1>3, <3>1, <3>2
  <2>5. ASSUME NEW q \in PartSet PROVE Complete(q)'
    <3>1. PICK i \in 1..Len(Parts) : q = Parts[i]
      BY PartsTyped
    <3> QED BY <2>4, <3>1
  <2>6. Reported'
    BY <2>1, <2>5 DEF Reported, Scanning
  <2> QED BY <2>2, <2>3, <2>6 DEF ScanInv
<1>4. CASE /\ scan' = [scan EXCEPT !.pc = "count", !.part = @ + 1, !.n = 0] /\ transport
           /\ scan.part + 1 \in 1..Len(Parts) /\ UNCHANGED diagnosticsState
  <2>1. /\ scan' \in Scans /\ scan'.pc = "count" /\ scan'.session = scan.session /\ session' = session
        /\ scan'.part = scan.part + 1
    <3>1. scan.part + 1 \in Nat
      BY <1>4, PartsTyped
    <3>2. scan \in Scans
      BY ReportedPart
    <3>3. session' = session
      BY DEF Reports1
    <3> QED BY <1>4, <3>1, <3>2, <3>3 DEF Scans
  <2>2. ScanTyped'
    BY <1>4, <2>1, ReportedPart DEF ScanTyped, ScanInv
  <2>3. OldScans' /\ OldReports'
    BY <2>1, ReportedPart DEF OldScans, OldReports, LeftBehind, Scanning
  <2>4. ASSUME NEW i \in 1..Len(Parts), i < scan'.part PROVE Complete(Parts[i])'
    <3>1. CASE i = scan.part
      BY <1>1, <3>1 DEF Reports1
    <3>2. CASE i < scan.part
      BY <3>2, ReportedPart
    <3>3. scan.part \in Nat
      BY ReportedPart DEF Scans
    <3> QED BY <2>1, <2>4, <3>1, <3>2, <3>3
  <2>5. diagnosticsState' = "scanning"
    BY <1>4, ReportedPart
  <2>6. Reported'
    BY <2>1, <2>4, <2>5 DEF Reported, Scanning
  <2> QED BY <2>2, <2>3, <2>6 DEF ScanInv
<1>5. ScanTyped /\ scan.pc # "none"
  BY DEF ScanInv, Scanning
<1> QED BY <1>2, <1>3, <1>4, <1>5, NextPartStep

(* ... or with the next issue of the same part.                            *)
LEMMA ReportThenRead ==
    ASSUME ScanInv, Scanning, NEW p, NEW r, Reports1(p, r), UNCHANGED diagnosticsState,
           scan' \in Scans, scan'.pc = "read", scan'.part = scan.part, scan'.session = scan.session,
           r.status = "ok", r.count = scan'.count, scan'.n < scan'.count, ~r.lost => r.issues = scan'.n
    PROVE  ScanInv'
<1>1. ScanTyped'
  BY ReportedPart DEF ScanTyped, ScanInv, Reports1
<1>2. OldScans' /\ OldReports'
  BY ReportedPart DEF OldScans, OldReports, LeftBehind, Scanning, Reports1
<1>3. found'[Parts[scan'.part]] = r /\ r # None
  BY ReportedPart, PartsTyped DEF Reports1
<1>4. Reported'
  BY <1>3, ReportedPart DEF Reported, Scanning, Reports1, Current
<1> QED BY <1>1, <1>2, <1>4 DEF ScanInv

(* ... or the exchange that would have read it throws.                     *)
LEMMA ReportThenTry ==
    ASSUME ScanInv, Scanning, NEW p, NEW r, Reports1(p, r), UNCHANGED diagnosticsState,
           NEW s \in Scans, Exchange(s), s.pc = "read", s.part = scan.part, s.session = scan.session,
           r.status = "ok", r.count = s.count, s.n < s.count, ~r.lost => r.issues = s.n
    PROVE  ScanInv'
<1>1. CASE transport
  <2>1. scan' = s
    BY <1>1 DEF Exchange
  <2> QED BY <2>1, ReportThenRead
<1>2. CASE ~transport
  <2>1. Ended
    BY <1>2 DEF Exchange, Ended
  <2> QED BY <2>1, ReportThenEnd
<1> QED BY <1>1, <1>2

(* An answer of a list that is read amends the report of its component.    *)
LEMMA AmendReports ==
    ASSUME ScanInv, Scanning, scan.pc = "read", NEW r \in AnyReport, r.session = session,
           Amend(r), UNCHANGED globals, UNCHANGED session
    PROVE  Reports1(Parts[scan.part], r)
<1>1. Current # None
  BY DEF ScanInv, Reported
<1>2. found' = [found EXCEPT ![Parts[scan.part]] = r]
  BY <1>1 DEF Amend, Current
<1> QED BY <1>2 DEF Reports1, globals

LEMMA CurrentScanStep ==
    ASSUME ScanInv, Scanning, ScanStep
    PROVE  ScanInv'
<1> DEFINE P == Parts[scan.part]
<1>1. /\ scan \in Scans /\ scan.pc # "none" /\ scan.session = session /\ session \in Nat
      /\ P \in PartSet /\ found \in [PartSet -> AnyReport \cup {None}]
  BY PartsTyped DEF ScanInv, ScanTyped, Scanning
<1>2. \A count \in Nat : Report("ok", count) \in AnyReport /\ Report("failed", 0) \in AnyReport
  BY <1>1 DEF Report, AnyReport
<1>3. ASSUME NEW count \in 0..MaxIssues, CountAnswered(count) PROVE ScanInv'
  <2> DEFINE r == Report("ok", count)
  <2>0. count \in Nat
    BY PageAssumption
  <2>1. r \in AnyReport /\ r.session = session /\ r.status = "ok" /\ r.count = count /\ r.issues = 0 /\ ~r.lost
    BY <1>1, <1>2, <2>0 DEF Report
  <2>2. Reports1(P, r)
    BY <1>3, <2>1 DEF CountAnswered, Reports1, globals
  <2>3. CASE count = 0
    <3>1. NextPart
      BY <1>3, <2>3 DEF CountAnswered
    <3> HIDE DEF r, P
    <3> QED BY <2>1, <2>2, <2>3, <3>1, ReportThenNext
  <2>4. CASE count # 0
    <3> DEFINE s == [scan EXCEPT !.pc = "read", !.n = 0, !.count = count]
    <3>1. Exchange(s) /\ UNCHANGED diagnosticsState
      BY <1>3, <2>4 DEF CountAnswered
    <3>2. /\ s \in Scans /\ s.pc = "read" /\ s.part = scan.part /\ s.session = scan.session
          /\ s.count = count /\ s.n = 0
      BY <1>1, <2>0 DEF Scans
    <3>3. s.n < s.count /\ r.issues = s.n /\ r.count = s.count
      BY <2>0, <2>1, <2>4, <3>2
    <3> HIDE DEF r, s, P
    <3> QED BY <2>1, <2>2, <3>1, <3>2, <3>3, ReportThenTry
  <2> QED BY <2>3, <2>4
<1>4. CASE CountFailed
  <2> DEFINE r == Report("failed", 0)
  <2>1. r \in AnyReport /\ r.session = session /\ r.status = "failed"
    BY <1>1, <1>2 DEF Report
  <2>2. Reports1(P, r) /\ NextPart
    BY <1>4, <2>1 DEF CountFailed, Reports1, globals
  <2>3. r.status # "ok"
    BY <2>1
  <2> HIDE DEF r, P
  <2> QED BY <2>2, <2>3, ReportThenNext
<1>5. scan.pc = "read" => /\ Current \in AnyReport /\ Current.session = session /\ Current.status = "ok"
                          /\ Current.count = scan.count /\ scan.n < scan.count
                          /\ (~Current.lost => Current.issues = scan.n)
  <2> SUFFICES ASSUME scan.pc = "read"
               PROVE  /\ Current \in AnyReport /\ Current.session = session /\ Current.status = "ok"
                      /\ Current.count = scan.count /\ scan.n < scan.count
                      /\ (~Current.lost => Current.issues = scan.n)
    OBVIOUS
  <2>1. /\ Current # None /\ Current.status = "ok" /\ Current.count = scan.count /\ scan.n < scan.count
        /\ (~Current.lost => Current.issues = scan.n)
    BY DEF ScanInv, Reported, Scanning
  <2>2. Current = found[P] /\ Current \in AnyReport
    BY <1>1, <2>1 DEF Current
  <2>3. ~Stale(P)
    BY <1>1 DEF ScanInv, OldReports, Scanning
  <2>4. Current.session = session
    BY <2>1, <2>2, <2>3 DEF Stale
  <2> QED BY <2>1, <2>2, <2>4
<1>6. scan.pc = "read" =>
        /\ [Current EXCEPT !.issues = @ + 1] \in AnyReport /\ [Current EXCEPT !.lost = TRUE] \in AnyReport
  <2>1. \A r \in AnyReport : [r EXCEPT !.issues = @ + 1] \in AnyReport
    BY DEF AnyReport
  <2>2. \A r \in AnyReport : [r EXCEPT !.lost = TRUE] \in AnyReport
    BY DEF AnyReport
  <2> QED BY <1>5, <2>1, <2>2
<1>7. ASSUME NEW issue \in BOOLEAN, IssueRead(issue) PROVE ScanInv'
  <2> DEFINE r == IF issue THEN [Current EXCEPT !.issues = @ + 1] ELSE [Current EXCEPT !.lost = TRUE]
  <2>1. scan.pc = "read" /\ Amend(r) /\ UNCHANGED globals /\ UNCHANGED session
    BY <1>7 DEF IssueRead
  <2>2. r \in AnyReport
    BY <1>6, <2>1
  <2>3. r.session = session /\ r.status = "ok" /\ r.count = scan.count
    BY <1>5, <2>1 DEF AnyReport
  <2>4. ~r.lost => r.issues = scan.n + 1
    <3>1. CASE issue
      BY <1>5, <2>1, <3>1 DEF AnyReport
    <3>2. CASE ~issue
      BY <1>5, <2>1, <3>2 DEF AnyReport
    <3> QED BY <3>1, <3>2
  <2>5. Reports1(P, r)
    <3> HIDE DEF r
    <3> QED BY <2>1, <2>2, <2>3, AmendReports
  <2>6. CASE AllRead
    <3>1. NextPart
      BY <1>7, <2>6 DEF IssueRead
    <3>2. scan.n + 1 = scan.count
      BY <1>1, <1>5, <2>1, <2>6 DEF AllRead, Scans
    <3>3. r.status = "ok" /\ ~r.lost => r.issues = r.count
      BY <2>3, <2>4, <3>2
    <3> HIDE DEF r, P
    <3> QED BY <2>5, <3>1, <3>3, ReportThenNext
  <2>7. CASE ~AllRead
    <3> DEFINE s == [scan EXCEPT !.n = @ + 1]
    <3>1. Exchange(s) /\ UNCHANGED diagnosticsState
      BY <1>7, <2>7 DEF IssueRead
    <3>2. /\ s \in Scans /\ s.pc = "read" /\ s.part = scan.part /\ s.session = scan.session
          /\ s.count = scan.count /\ s.n = scan.n + 1
      BY <1>1, <2>1 DEF Scans
    <3>3. s.n < s.count
      BY <1>1, <2>7, <3>2 DEF AllRead, Scans
    <3>4. r.count = s.count /\ (~r.lost => r.issues = s.n)
      BY <2>3, <2>4, <3>2
    <3> HIDE DEF r, s, P
    <3> QED BY <2>3, <2>5, <3>1, <3>2, <3>3, <3>4, ReportThenTry
  <2> QED BY <2>6, <2>7
<1>8. CASE ListBroken
  <2> DEFINE r == [Current EXCEPT !.lost = TRUE]
  <2>1. scan.pc = "read" /\ Amend(r) /\ NextPart /\ UNCHANGED globals /\ UNCHANGED session
    BY <1>8 DEF ListBroken
  <2>2. r \in AnyReport /\ r.session = session /\ r.lost
    BY <1>5, <1>6, <2>1 DEF AnyReport
  <2>3. Reports1(P, r)
    <3> HIDE DEF r
    <3> QED BY <2>1, <2>2, AmendReports
  <2> HIDE DEF r, P
  <2> QED BY <2>1, <2>2, <2>3, ReportThenNext
<1>9. CASE ScanThrows
  <2>1. /\ scan' \in Scans /\ scan'.pc = "none" /\ scan'.session = scan.session
        /\ UNCHANGED <<found, diagnosticsState, session, phase, transport>>
    BY <1>1, <1>9 DEF ScanThrows, Scans, globals
  <2>2. ScanTyped'
    BY <2>1 DEF ScanTyped, ScanInv
  <2>3. OldScans' /\ OldReports'
    BY <1>1, <2>1 DEF OldScans, OldReports, LeftBehind, Scanning, Stale, ScanInv
  <2>4. Reported'
    BY <1>1, <2>1 DEF Reported, Scanning, ScanInv
  <2> QED BY <2>2, <2>3, <2>4 DEF ScanInv
<1> QED BY <1>3, <1>4, <1>7, <1>8, <1>9 DEF ScanStep

LEMMA StepScan == ScanInv /\ [PageNext]_allVars => ScanInv'
<1> SUFFICES ASSUME ScanInv, [PageNext]_allVars PROVE ScanInv'
  OBVIOUS
<1>0. phase = "idle" => ~transport
  BY DEF ScanInv, ScanTyped
<1>1. CASE SweepGoesOn \/ Drops \/ Clicks
  <2>1. Shrinks
    BY <1>1, SweepShrinks, ButtonsShrink DEF SweepGoesOn, Drops, Clicks
  <2>2. UNCHANGED <<scan, found, diagnosticsState, session>>
    BY <1>1 DEF SweepGoesOn, Drops, Clicks, diagnostics
  <2>3. transport' => transport
    BY <2>1 DEF Shrinks
  <2>4. phase' = "idle" => ~transport'
    BY <1>0, <2>1 DEF Shrinks
  <2> QED BY <2>2, <2>3, <2>4, KeepScan
<1>2. CASE Connect \/ ReadAgain
  <2>1. session' = session + 1 /\ Forget
    BY <1>2 DEF Connect, ReadAgain, OpenPicker
  <2>2. ~transport'
    BY <1>0, <1>2 DEF Connect, ReadAgain
  <2> QED BY <2>1, <2>2, LeaveScan
<1>3. CASE Loaded
  <2>1. session' = session + 1 /\ Forget /\ ~transport'
    BY <1>3 DEF Loaded
  <2> QED BY <2>1, LeaveScan
<1>4. CASE Picked
  <2>1. UNCHANGED <<scan, found, diagnosticsState, session>> /\ scan.pc = "none" /\ phase' = "connecting"
    BY <1>4 DEF Picked, NoExchange, diagnostics
  <2> QED BY <2>1, KeepScan
<1>5. CASE StartScan
  BY <1>5, StartScanInv
<1>6. CASE ScanStep
  <2>1. scan.pc # "none"
    BY <1>6 DEF ScanStep, CountAnswered, CountFailed, IssueRead, ListBroken, ScanThrows
  <2> QED BY <1>6, <2>1, OldScanStep, CurrentScanStep DEF LeftBehind, Scanning
<1>7. ASSUME NEW k \in DOMAIN asleep, Resume(k) PROVE ScanInv'
  <2>1. UNCHANGED <<scan, found, diagnosticsState, session, phase, transport>>
    BY <1>7 DEF Resume, globals, diagnostics
  <2> QED BY <1>0, <2>1, KeepScan
<1>8. CASE PickerCancelled \/ OpenFile \/ NotLoaded \/ StartLab \/ LabStep \/ Sticking \/ UNCHANGED allVars
  <2>1. UNCHANGED <<scan, found, diagnosticsState, session>>
    BY <1>8 DEF PickerCancelled, OpenFile, NotLoaded, StartLab, LabStep, LabAnswered, CallThrows, LabDone,
                Sticking, Hang, allVars, pageVars, diagnostics
  <2>2. UNCHANGED <<phase, transport>>
    BY <1>8, AsideSteps DEF Asides, Idles, globals
  <2> QED BY <1>0, <2>1, <2>2, KeepScan
<1> QED BY <1>1, <1>2, <1>3, <1>4, <1>5, <1>6, <1>7, <1>8, PageSteps DEF Asides

LEMMA ScanInvariant == PageSpec => []ScanInv
BY InitScan, StepScan, PTL DEF PageSpec, allVars

(* A scan that is done has a report of every component of its session,     *)
(* with every issue counted unless an answer was lost, however many        *)
(* components there are and however many issues they count.                *)
THEOREM ScanIsComplete == PageSpec => []ScanReportsAll
<1>1. ScanInv => ScanReportsAll
  <2> SUFFICES ASSUME ScanInv, diagnosticsState = "done", scan.session = session, NEW p \in DOMAIN found
               PROVE  Complete(p)
    BY DEF ScanReportsAll, Complete
  <2>1. p \in PartSet
    BY DEF ScanInv, ScanTyped
  <2> QED BY <2>1 DEF ScanInv, Reported
<1> QED BY <1>1, ScanInvariant, PTL

(* However many scans the page has moved on from, one report at most is    *)
(* left of them.                                                           *)
THEOREM LeftoverIsOne == PageSpec => []OneStaleReport
<1>1. ScanInv => OneStaleReport
  <2> SUFFICES ASSUME ScanInv PROVE OneStaleReport
    OBVIOUS
  <2> DEFINE S == {p \in DOMAIN found : found[p] # None /\ found[p].session # session}
  <2>1. DOMAIN found = PartSet /\ Parts[1] \in PartSet
    BY PartsTyped DEF ScanInv, ScanTyped
  <2>2. \E q : S \subseteq {q}
    <3>1. CASE Scanning
      BY <2>1, <3>1 DEF ScanInv, OldReports, Stale
    <3>2. CASE LeftBehind
      <4>1. \A p \in PartSet : found[p] = None
        BY <3>2, PartsTyped DEF ScanInv, OldScans
      <4> QED BY <2>1, <4>1
    <3>3. CASE scan.pc = "none"
      BY <2>1, <3>3 DEF ScanInv, OldReports, Stale
    <3> QED BY <3>1, <3>2, <3>3 DEF Scanning, LeftBehind
  <2>3. PICK q : S \subseteq {q}
    BY <2>2
  <2>4. IsFiniteSet({q}) /\ Cardinality({q}) = 1
    BY FS_Singleton
  <2>5. Cardinality(S) <= 1
    <3> HIDE DEF S
    <3> QED BY <2>3, <2>4, FS_Subset
  <2> QED BY <2>5 DEF OneStaleReport
<1> QED BY <1>1, ScanInvariant, PTL

-----------------------------------------------------------------------------
(* The status line.                                                        *)
Unexcused == ~excused /\ dialog # "picker"

LabelInv ==
    /\ phase \in {"idle", "connecting", "connected"}
    /\ phase = "idle" => label = "not connected"
    /\ dialog = "picker" => phase # "connecting" /\ ~loadedFromFile
    /\ loadedFromFile /\ ~excused => AllReturned /\ shown = "file"
    /\ Unexcused => label = Label
    /\ Unexcused /\ phase = "connected" /\ ~disconnectedAfterRead => transport

(* A step of the sweep, a click or a drop shows the dashboard over the     *)
(* transport as it was, or marks it as disconnected.                       *)
Shows ==
    /\ phase' \in {phase, "idle", "connected"}
    /\ phase' = "connected" /\ ~disconnectedAfterRead' =>
         /\ transport' = transport
         /\ phase = "connected" => ~disconnectedAfterRead

LEMMA DisconnectShows == HandleDisconnect \/ GoIdle => Shows /\ (phase' = "connected" => phase = "connected")
<1>1. GoIdle => phase' = "idle"
  BY DEF GoIdle
<1>2. CASE phase = "idle"
  BY <1>1, <1>2 DEF HandleDisconnect, globals, Shows
<1>3. CASE phase = "connected"
  BY <1>1, <1>3 DEF HandleDisconnect, Shows
<1>4. CASE phase \notin {"idle", "connected"}
  BY <1>1, <1>4 DEF HandleDisconnect, Shows
<1> QED BY <1>2, <1>3, <1>4

LEMMA SweepShows == SweepStep => Shows
<1> SUFFICES ASSUME SweepStep PROVE Shows
  OBVIOUS
<1>1. CASE OpenFails \/ ReadFindsBikeGone
  BY <1>1, DisconnectShows DEF OpenFails, ReadFindsBikeGone
<1>2. ASSUME NEW outcome \in Outcomes, EndRead(outcome) PROVE Shows
  <2>1. UNCHANGED <<transport, disconnectedAfterRead>> /\ phase' \in {phase, "connected"}
    BY <1>2 DEF EndRead
  <2> QED BY <2>1 DEF Shows
<1>3. CASE AfterLoop
  <2>1. UNCHANGED <<transport, disconnectedAfterRead>> /\ phase' \in {phase, "connected"}
    BY <1>3 DEF AfterLoop
  <2> QED BY <2>1 DEF Shows
<1>4. CASE Opened \/ WarmUpThrows \/ (\E answer \in BOOLEAN : WarmUp(answer)) \/ Finish
           \/ StopReading \/ Skip \/ StartRead \/ ModeStatsRead \/ Slept \/ LoopDone
  <2>1. UNCHANGED <<phase, transport, disconnectedAfterRead>>
    BY <1>4 DEF Opened, WarmUpThrows, WarmUp, StopReading, Skip, StartRead, ModeStatsRead, Slept, LoopDone,
                Finish, MoreToRead, globals
  <2> QED BY <2>1 DEF Shows
<1> QED BY <1>1, <1>2, <1>3, <1>4 DEF SweepStep

LEMMA ButtonsShow ==
    Cancel \/ ClickDisconnect \/ BikeDisconnects => Shows /\ (phase' = "connected" => phase = "connected")
<1>1. Cancel => Shows /\ (phase' = "connected" => phase = "connected")
  BY DEF Cancel, Shows
<1> QED BY <1>1, DisconnectShows DEF ClickDisconnect, BikeDisconnects

LEMMA InitLabel == PageInit => LabelInv
BY DEF PageInit, LabelInv, Label

LEMMA RedrawnLabel ==
    ASSUME LabelInv, Shows, Redraws, UNCHANGED <<dialog, loadedFromFile>>, excused => excused',
           phase' = "connected" => phase = "connected" \/ transport \/ excused',
           loadedFromFile => UNCHANGED <<pc, asleep, shown>>
    PROVE  LabelInv'
<1>1. phase' = "idle" => label' = "not connected"
  <2>1. phase' = "idle" => Label' = "not connected"
    BY DEF Label
  <2> QED BY <2>1 DEF Redraws, LabelInv
<1>2. dialog' = "picker" => phase' # "connecting" /\ ~loadedFromFile'
  BY DEF LabelInv, Shows
<1>3. loadedFromFile' /\ ~excused' => AllReturned' /\ shown' = "file"
  BY DEF LabelInv, AllReturned, OthersReturned
<1>4. Unexcused' => label' = Label'
  <2>1. CASE <<phase, disconnectedAfterRead>>' # <<phase, disconnectedAfterRead>>
    BY <2>1 DEF Redraws
  <2>2. CASE <<phase, disconnectedAfterRead>>' = <<phase, disconnectedAfterRead>>
    <3>1. label' = label /\ Label' = Label
      BY <2>2 DEF Redraws, Label
    <3> QED BY <3>1 DEF LabelInv, Unexcused
  <2> QED BY <2>1, <2>2
<1>5. Unexcused' /\ phase' = "connected" /\ ~disconnectedAfterRead' => transport'
  <2> SUFFICES ASSUME Unexcused', phase' = "connected", ~disconnectedAfterRead' PROVE transport'
    OBVIOUS
  <2>1. transport' = transport /\ Unexcused
    BY DEF Shows, Unexcused
  <2>2. CASE phase = "connected"
    <3>1. ~disconnectedAfterRead
      BY <2>2 DEF Shows
    <3>2. transport
      BY <2>1, <2>2, <3>1 DEF LabelInv
    <3> QED BY <2>1, <3>2
  <2>3. CASE phase # "connected"
    <3>1. transport
      BY <2>3 DEF Unexcused
    <3> QED BY <2>1, <3>1
  <2> QED BY <2>2, <2>3
<1>6. phase' \in {"idle", "connecting", "connected"}
  BY DEF LabelInv, Shows
<1> QED BY <1>1, <1>2, <1>3, <1>4, <1>5, <1>6 DEF LabelInv

LEMMA StepLabel == LabelInv /\ [PageNext]_allVars => LabelInv'
<1> SUFFICES ASSUME LabelInv, [PageNext]_allVars PROVE LabelInv'
  OBVIOUS
<1>1. CASE SweepGoesOn
  <2>1. Shows /\ Redraws /\ UNCHANGED <<dialog, loadedFromFile>> /\ pc # "returned"
    BY <1>1, SweepShows, SweepShrinks DEF SweepGoesOn
  <2>2. excused' = (excused \/ (phase' = "connected" /\ phase # "connected" /\ ~transport))
    BY <1>1 DEF SweepGoesOn
  <2>3. CASE loadedFromFile
    <3>1. excused /\ excused' /\ dialog # "picker"
      BY <2>1, <2>2, <2>3 DEF LabelInv, AllReturned
    <3>2. phase' = "idle" => label' = "not connected"
      <4>1. phase' = "idle" => Label' = "not connected"
        BY DEF Label
      <4> QED BY <2>1, <4>1 DEF Redraws, LabelInv
    <3>3. phase' \in {"idle", "connecting", "connected"}
      BY <2>1 DEF LabelInv, Shows
    <3> QED BY <2>1, <3>1, <3>2, <3>3 DEF LabelInv, Unexcused
  <2>4. CASE ~loadedFromFile
    BY <2>1, <2>2, <2>4, RedrawnLabel
  <2> QED BY <2>3, <2>4
<1>2. CASE (Drops \/ Clicks) /\ UNCHANGED sweeps
  <2>1. Shows /\ (phase' = "connected" => phase = "connected") /\ pc' = pc
    BY <1>2, ButtonsShow, ButtonsShrink DEF Drops, Clicks
  <2>2. Redraws /\ UNCHANGED <<dialog, loadedFromFile, shown, excused>>
    BY <1>2 DEF Drops, Clicks
  <2> QED BY <1>2, <2>1, <2>2, RedrawnLabel DEF sweeps
<1>3. CASE Connect \/ ReadAgain
  <2>1. /\ dialog' = "picker" /\ ~loadedFromFile' /\ UNCHANGED <<phase, label>>
        /\ phase \in {"idle", "connected"}
    BY <1>3 DEF Connect, ReadAgain, OpenPicker
  <2> QED BY <2>1 DEF LabelInv, Unexcused
<1>4. CASE Picked
  <2>1. label' = Label' /\ phase' = "connecting" /\ dialog' = "none" /\ ~loadedFromFile'
    BY <1>4 DEF Picked, LabelInv
  <2> QED BY <2>1 DEF LabelInv
<1>5. CASE Loaded /\ UNCHANGED sweeps
  <2>1. /\ label' = Label' /\ phase' = "connected" /\ dialog' = "none" /\ disconnectedAfterRead' = TRUE
        /\ shown' = "file" /\ pc' = pc /\ excused' = ~AllReturned
    BY <1>5 DEF Loaded
  <2>2. AllReturned' = AllReturned
    BY <1>5, <2>1 DEF AllReturned, OthersReturned, sweeps
  <2> QED BY <2>1, <2>2 DEF LabelInv
<1>6. ASSUME NEW k \in DOMAIN asleep, Resume(k) PROVE LabelInv'
  <2>1. UNCHANGED <<phase, label, loadedFromFile, disconnectedAfterRead, shown, excused, transport, dialog>>
    BY <1>6 DEF Resume, globals, display
  <2>2. loadedFromFile => excused
    BY <1>6 DEF LabelInv, Resume, AllReturned, OthersReturned
  <2> QED BY <2>1, <2>2 DEF LabelInv, Unexcused, Label
<1>7. CASE Asides /\ UNCHANGED sweeps
  <2>1. UNCHANGED <<phase, disconnectedAfterRead, transport>> /\ AllReturned' = AllReturned
    BY <1>7, AsideSteps DEF Idles, globals, AllReturned, OthersReturned, sweeps
  <2>2. CASE PickerCancelled
    <3>1. /\ dialog = "picker" /\ UNCHANGED <<label, loadedFromFile, shown>>
          /\ excused' = (excused \/ phase = "connected") /\ dialog' = "none"
      BY <2>2 DEF PickerCancelled
    <3>2. phase = "idle" \/ phase = "connected"
      BY <3>1 DEF LabelInv
    <3>3. ~excused' => label' = "not connected" /\ Label' = "not connected" /\ phase' # "connected"
      BY <2>1, <3>1, <3>2 DEF LabelInv, Label
    <3> QED BY <2>1, <3>1, <3>3 DEF LabelInv, Unexcused
  <2>3. CASE ~PickerCancelled
    <3>1. UNCHANGED display /\ (dialog = "picker" <=> dialog' = "picker")
      <4>1. CASE ScanStep
        BY <4>1 DEF ScanStep, CountAnswered, CountFailed, IssueRead, ListBroken, ScanThrows
      <4>2. CASE LabStep
        BY <4>2 DEF LabStep, LabAnswered, CallThrows, LabDone
      <4>3. CASE OpenFile \/ NotLoaded \/ StartScan \/ StartLab \/ Sticking
        BY <4>3 DEF OpenFile, NotLoaded, StartScan, StartLab, Sticking, Hang
      <4>4. CASE UNCHANGED allVars
        BY <4>4 DEF allVars, pageVars
      <4> QED BY <1>7, <2>3, <4>1, <4>2, <4>3, <4>4 DEF Asides
    <3>2. UNCHANGED <<label, loadedFromFile, shown, excused>>
      BY <3>1 DEF display
    <3>3. Label' = Label
      BY <2>1, <3>2 DEF Label
    <3> QED BY <2>1, <3>1, <3>2, <3>3 DEF LabelInv, Unexcused
  <2> QED BY <2>2, <2>3
<1> QED BY <1>1, <1>2, <1>3, <1>4, <1>5, <1>6, <1>7, PageSteps

(* The status line tells the truth, the three known exceptions apart, in   *)
(* any number of sessions and loaded reports.                              *)
THEOREM StatusLineIsTrue == PageSpec => []LabelIsTrue
<1>1. LabelInv => LabelIsTrue
  <2> SUFFICES ASSUME LabelInv, Unexcused
               PROVE  /\ label = "connected" => transport
                      /\ label = "loaded from file" => shown = "file"
    BY DEF LabelIsTrue, Unexcused
  <2>1. label = Label /\ ~excused
    BY DEF LabelInv, Unexcused
  <2>2. ASSUME label = "connected" PROVE transport
    <3>1. phase = "connected" /\ ~disconnectedAfterRead
      BY <2>1, <2>2 DEF Label
    <3> QED BY <3>1 DEF LabelInv
  <2>3. ASSUME label = "loaded from file" PROVE shown = "file"
    <3>1. loadedFromFile
      BY <2>1, <2>3 DEF Label
    <3> QED BY <2>1, <3>1 DEF LabelInv
  <2> QED BY <2>2, <2>3
<1>2. PageInit /\ [][PageNext]_allVars => []LabelInv
  BY InitLabel, StepLabel, PTL
<1> QED BY <1>1, <1>2, PTL DEF PageSpec, allVars

-----------------------------------------------------------------------------
(* What is proved of one sweep holds of every sweep of the page, the one   *)
(* that runs and those that await beside it: the page starts a sweep       *)
(* afresh, and what it does beside one leaves the sweep where it awaits.   *)
Places == {"opening", "warmup", "loop", "reading", "modeStats", "sleep", "end", "finish", "returned"}

FrameSet == [pc : Places, warm : 0..WarmUps, stats : [Components -> [ok : Nat, fails : Nat]],
             results : Seq(Statuses), revealed : BOOLEAN, aborted : BOOLEAN, modeStats : Nat, late : Nat]

FrameIndices(f, c, statuses) == {i \in DOMAIN f.results : Entries[i].component = c /\ f.results[i] \in statuses}
FrameAbsent(f, c) == c \notin Core /\ f.stats[c].ok = 0 /\ f.stats[c].fails >= AbsentAfter

FrameSkipsJustly(f) ==
    \A c \in Components : \A i \in FrameIndices(f, c, {"skipped"}) :
        /\ c \notin Core
        /\ FrameIndices(f, c, {"ok"}) = {}
        /\ Cardinality({j \in FrameIndices(f, c, {"timeout", "noRoute"}) : j < i}) >= AbsentAfter

FrameTally(f) ==
    /\ Len(f.results) <= N /\ (f.pc \in {"opening", "warmup"} => f.warm < WarmUps)
    /\ \A c \in Components : /\ f.stats[c].ok = 0 => FrameIndices(f, c, {"ok"}) = {}
                             /\ f.stats[c].fails = Cardinality(FrameIndices(f, c, Failures))
    /\ \A i \in DOMAIN f.results : f.results[i] = "skipped" =>
         /\ FrameAbsent(f, Entries[i].component)
         /\ Cardinality({j \in FrameIndices(f, Entries[i].component, Failures) : j < i}) >= AbsentAfter
    /\ f.pc = "reading" => Len(f.results) < N /\ ~FrameAbsent(f, Entries[Len(f.results) + 1].component)

Asleep ==
    /\ asleep \in Seq(FrameSet)
    /\ \A k \in DOMAIN asleep : FrameTally(asleep[k]) /\ FrameSkipsJustly(asleep[k])

\* No other sweep was under way when the device was picked.
Lone == overlap = "none" => OthersReturned /\ LateOnce /\ Progress

Beside ==
    /\ UNCHANGED <<pc, warm, stats, results, revealed, aborted, modeStats, late>>
    /\ GlobalsTyped' /\ sweepFullyLoaded' \in BOOLEAN /\ (transport' => transport)
    /\ pc \notin {"loop", "end"} \/ transport' = transport

SweepInv == Tally /\ Asleep /\ Lone

LEMMA TallyTyped ==
    ASSUME Tally
    PROVE  /\ GlobalsTyped /\ Shape /\ sweepFullyLoaded \in BOOLEAN /\ revealed \in BOOLEAN /\ aborted \in BOOLEAN
           /\ warm \in 0..WarmUps /\ modeStats \in Nat /\ late \in Nat
           /\ (pc \in {"opening", "warmup"} => warm < WarmUps) /\ pc \in Places
           /\ stats \in [Components -> [ok : Nat, fails : Nat]] /\ results \in Seq(Statuses) /\ Len(results) <= N
BY DEF Tally, Shape, VarsTyped, GlobalsTyped, Places, Statuses, N

(* A sweep that is left at an await, or has returned, is kept as it was.   *)
LEMMA FrameKeeps == Tally => Frame \in FrameSet /\ FrameTally(Frame) /\ FrameSkipsJustly(Frame)
<1> SUFFICES ASSUME Tally PROVE Frame \in FrameSet /\ FrameTally(Frame) /\ FrameSkipsJustly(Frame)
  OBVIOUS
<1>1. /\ Frame.pc = pc /\ Frame.warm = warm /\ Frame.stats = stats /\ Frame.results = results
      /\ Frame \in FrameSet
  BY TallyTyped DEF Frame, FrameSet
<1>2. \A c, S : FrameIndices(Frame, c, S) = Indices(c, S)
  BY <1>1 DEF FrameIndices, Indices
<1>3. \A c : FrameAbsent(Frame, c) <=> Absent(c)
  BY <1>1 DEF FrameAbsent, Absent
<1>4. FrameSkipsJustly(Frame)
  BY <1>2, TallyJustifies DEF FrameSkipsJustly, SkippedGaveNothing
<1>5. FrameTally(Frame)
  <2>1. Len(results) <= N /\ (pc \in {"opening", "warmup"} => warm < WarmUps)
    BY TallyTyped
  <2>2. \A c \in Components : /\ stats[c].ok = 0 => FrameIndices(Frame, c, {"ok"}) = {}
                              /\ stats[c].fails = Cardinality(FrameIndices(Frame, c, Failures))
    BY <1>2 DEF Tally, Tallied
  <2>3. \A i \in DOMAIN results : results[i] = "skipped" =>
          /\ FrameAbsent(Frame, Entries[i].component)
          /\ Cardinality({j \in FrameIndices(Frame, Entries[i].component, Failures) : j < i}) >= AbsentAfter
    BY <1>2, <1>3 DEF Tally, SkipsJustified, FailsBefore
  <2>4. pc = "reading" => Len(results) < N /\ ~FrameAbsent(Frame, Entries[Len(results) + 1].component)
    BY <1>3 DEF Tally, ReadsPresent, Read, Entry
  <2> QED BY <1>1, <2>1, <2>2, <2>3, <2>4 DEF FrameTally
<1> QED BY <1>1, <1>4, <1>5

LEMMA SavedKeeps == Tally => Saved \in FrameSet /\ FrameTally(Saved) /\ FrameSkipsJustly(Saved)
<1> SUFFICES ASSUME Tally PROVE Saved \in FrameSet /\ FrameTally(Saved) /\ FrameSkipsJustly(Saved)
  OBVIOUS
<1>1. CASE pc = "returned"
  <2>1. /\ Saved.pc = "returned" /\ Saved.warm = 0 /\ Saved.stats = NoStats /\ Saved.results = <<>>
        /\ Saved.revealed = FALSE /\ Saved.aborted = FALSE /\ Saved.modeStats = 0 /\ Saved.late = 0
        /\ Saved = [pc |-> "returned", warm |-> 0, stats |-> NoStats, results |-> <<>>,
                    revealed |-> FALSE, aborted |-> FALSE, modeStats |-> 0, late |-> 0]
    BY <1>1 DEF Saved, Begun
  <2>2. NoStats \in [Components -> [ok : Nat, fails : Nat]] /\ 0 \in 0..WarmUps /\ <<>> \in Seq(Statuses)
    BY LimitsAssumption DEF NoStats
  <2>3. Saved \in FrameSet
    BY <2>1, <2>2 DEF FrameSet, Places
  <2>4. \A c, S : FrameIndices(Saved, c, S) = {}
    BY <2>1 DEF FrameIndices
  <2>5. \A c \in Components : NoStats[c].fails = 0
    BY DEF NoStats
  <2>6. Len(Saved.results) = 0 /\ DOMAIN Saved.results = {}
    BY <2>1
  <2>7. \A c \in Components : NoStats[c].fails = Cardinality(FrameIndices(Saved, c, Failures))
    BY <2>4, <2>5, FS_EmptySet
  <2>8. FrameTally(Saved)
    <3>1. Len(Saved.results) <= N /\ Saved.pc \notin {"opening", "warmup", "reading"}
      BY <2>1, <2>6, EntriesTyped
    <3>2. \A c \in Components : /\ Saved.stats[c].ok = 0 => FrameIndices(Saved, c, {"ok"}) = {}
                                /\ Saved.stats[c].fails = Cardinality(FrameIndices(Saved, c, Failures))
      BY <2>1, <2>4, <2>7
    <3> QED BY <2>6, <3>1, <3>2 DEF FrameTally
  <2>9. FrameSkipsJustly(Saved)
    BY <2>4 DEF FrameSkipsJustly
  <2> QED BY <2>3, <2>8, <2>9
<1>2. CASE pc # "returned"
  BY <1>2, FrameKeeps DEF Saved
<1> QED BY <1>1, <1>2

(* ... and is what it was when its await settles.                          *)
LEMMA EnterTally ==
    ASSUME NEW f \in FrameSet, FrameTally(f), Enter(f), GlobalsTyped', sweepFullyLoaded' \in BOOLEAN
    PROVE  Tally'
<1>1. /\ pc' = f.pc /\ warm' = f.warm /\ stats' = f.stats /\ results' = f.results /\ revealed' = f.revealed
      /\ aborted' = f.aborted /\ modeStats' = f.modeStats /\ late' = f.late
  BY DEF Enter
<1>2. \A c, S : Indices(c, S)' = FrameIndices(f, c, S)
  BY <1>1 DEF FrameIndices, Indices
<1>3. \A c : Absent(c)' <=> FrameAbsent(f, c)
  BY <1>1 DEF FrameAbsent, Absent
<1>4. Shape'
  <2>1. /\ f.pc \in Places /\ f.warm \in 0..WarmUps /\ f.stats \in [Components -> [ok : Nat, fails : Nat]]
        /\ f.results \in Seq(Statuses) /\ f.revealed \in BOOLEAN /\ f.aborted \in BOOLEAN
        /\ f.modeStats \in Nat /\ f.late \in Nat
    BY DEF FrameSet
  <2>2. Len(f.results) <= N /\ (f.pc \in {"opening", "warmup"} => f.warm < WarmUps)
    BY DEF FrameTally
  <2>3. VarsTyped'
    BY <1>1, <2>1, <2>2 DEF VarsTyped, GlobalsTyped, Places, Statuses, N
  <2> QED BY <1>1, <2>1, <2>2, <2>3 DEF Shape
<1>5. Tallied'
  BY <1>1, <1>2 DEF FrameTally, Tallied
<1>6. SkipsJustified'
  <2>1. \A c, i : FailsBefore(c, i)' = {j \in FrameIndices(f, c, Failures) : j < i}
    BY <1>2 DEF FailsBefore
  <2> QED BY <1>1, <1>3, <2>1 DEF FrameTally, SkipsJustified
<1>7. ReadsPresent'
  BY <1>1, <1>3 DEF FrameTally, ReadsPresent, Read, Entry
<1> QED BY <1>4, <1>5, <1>6, <1>7 DEF Tally

LEMMA BesideTally == Tally /\ Beside => Tally'
<1> SUFFICES ASSUME Tally, Beside PROVE Tally'
  OBVIOUS
<1>1. /\ revealed' \in BOOLEAN /\ aborted' \in BOOLEAN /\ warm' \in 0..WarmUps /\ modeStats' \in Nat
      /\ (pc' \in {"opening", "warmup"} => warm' < WarmUps)
  BY TallyTyped DEF Beside
<1> QED BY <1>1, SilentStep DEF Beside

(* The steps of the page that are not the sweep's.                         *)
LEMMA BesideSteps ==
    ASSUME Tally, Awaiting /\ (Connect \/ ReadAgain \/ Loaded)
    PROVE  Beside
<1>1. GlobalsTyped /\ sweepFullyLoaded \in BOOLEAN
  BY TallyTyped
<1>2. CASE Awaiting /\ (Connect \/ ReadAgain)
  <2>1. /\ UNCHANGED <<pc, locals, sweepFullyLoaded, phase, abortRequested>>
        /\ disconnectedAfterRead' = FALSE /\ (transport' = transport \/ transport' = FALSE)
    BY <1>2 DEF Connect, ReadAgain, OpenPicker
  <2>2. GlobalsTyped' /\ (transport' => transport)
    <3>1. transport' => transport
      BY <2>1, Zenon
    <3>2. transport' \in BOOLEAN /\ disconnectedAfterRead' \in BOOLEAN
      BY <1>1, <2>1, Zenon DEF GlobalsTyped
    <3> QED BY <1>1, <2>1, <3>1, <3>2 DEF GlobalsTyped
  <2>3. pc \notin {"loop", "end"}
    BY <1>2 DEF Awaiting
  <2> QED BY <1>1, <2>1, <2>2, <2>3 DEF Beside, locals
<1>3. CASE Awaiting /\ Loaded
  <2>1. /\ UNCHANGED <<pc, locals, abortRequested>> /\ sweepFullyLoaded' = TRUE /\ phase' = "connected"
        /\ disconnectedAfterRead' = TRUE /\ transport' = FALSE
    BY <1>3 DEF Loaded
  <2> QED BY <1>1, <1>3, <2>1 DEF Awaiting, Beside, GlobalsTyped, locals
<1> QED BY <1>2, <1>3

LEMMA PickedFresh == Tally /\ Picked => Fresh'
<1> SUFFICES ASSUME Tally, Picked PROVE Fresh'
  OBVIOUS
<1>1. disconnectedAfterRead' \in BOOLEAN
  <2>1. disconnectedAfterRead \in BOOLEAN
    BY TallyTyped DEF GlobalsTyped
  <2> QED BY <2>1 DEF Picked
<1>2. GlobalsTyped' /\ sweepFullyLoaded' = FALSE
  BY <1>1 DEF Picked, GlobalsTyped
<1>3. /\ pc' = "opening" /\ warm' = 0 /\ stats' = NoStats /\ results' = <<>> /\ revealed' = FALSE
      /\ aborted' = FALSE /\ modeStats' = 0 /\ late' = 0
  BY DEF Picked, Enter, Begun
<1> QED BY <1>2, <1>3 DEF Fresh, NoStats

LEMMA PageTallyStep == Tally /\ Asleep /\ [PageNext]_allVars => Tally'
<1>1. ASSUME Tally, SweepGoesOn PROVE Tally'
  BY <1>1, SweepTally DEF SweepGoesOn
<1>2. ASSUME Tally, Drops \/ Clicks \/ Asides PROVE Tally'
  BY <1>2, ClickTally, AsideSteps DEF Drops, Clicks
<1>3. ASSUME Tally, Awaiting /\ (Connect \/ ReadAgain \/ Loaded) PROVE Tally'
  BY <1>3, BesideSteps, BesideTally
<1>4. Tally /\ Picked => Tally'
  <2>1. Fresh' => Tally'
    BY FreshTally, PTL
  <2> QED BY <2>1, PickedFresh
<1>5. ASSUME Tally, Asleep, NEW k \in DOMAIN asleep, Resume(k) PROVE Tally'
  <2>1. asleep[k] \in FrameSet /\ FrameTally(asleep[k]) /\ Enter(asleep[k])
    BY <1>5 DEF Asleep, Resume
  <2>2. GlobalsTyped' /\ sweepFullyLoaded' \in BOOLEAN
    BY <1>5, TallyTyped DEF Resume, globals, GlobalsTyped
  <2> QED BY <2>1, <2>2, EnterTally
<1> QED BY <1>1, <1>2, <1>3, <1>4, <1>5, PageSteps

LEMMA PageAsleepStep == Tally /\ Asleep /\ [PageNext]_allVars => Asleep'
<1> SUFFICES ASSUME Tally, Asleep, [PageNext]_allVars PROVE Asleep'
  OBVIOUS
<1>1. CASE asleep' = asleep
  BY <1>1 DEF Asleep
<1>2. CASE Picked
  <2>1. asleep' = Append(asleep, Saved)
    BY <1>2 DEF Picked
  <2>2. asleep' \in Seq(FrameSet) /\ DOMAIN asleep' = DOMAIN asleep \cup {Len(asleep) + 1}
        /\ asleep'[Len(asleep) + 1] = Saved /\ \A k \in DOMAIN asleep : asleep'[k] = asleep[k]
    BY <2>1, SavedKeeps DEF Asleep
  <2> QED BY <2>2, SavedKeeps DEF Asleep
<1>3. ASSUME NEW k \in DOMAIN asleep, Resume(k) PROVE Asleep'
  <2>1. asleep' = [asleep EXCEPT ![k] = Saved]
    BY <1>3 DEF Resume
  <2>2. asleep' \in Seq(FrameSet) /\ DOMAIN asleep' = DOMAIN asleep
        /\ asleep'[k] = Saved /\ \A j \in DOMAIN asleep \ {k} : asleep'[j] = asleep[j]
    BY <1>3, <2>1, SavedKeeps DEF Asleep
  <2> QED BY <2>2, SavedKeeps DEF Asleep
<1>4. SweepGoesOn \/ UNCHANGED sweeps => asleep' = asleep
  BY DEF SweepGoesOn, sweeps
<1> QED BY <1>1, <1>2, <1>3, <1>4, PageSteps

(* A step that leaves the sweeps where they await, or runs the only one.   *)
LEMMA LoneGoesOn ==
    ASSUME Lone, OthersReturned' <=> OthersReturned, overlap' = "none" => overlap = "none",
           LateOnce /\ Progress => (LateOnce /\ Progress)'
    PROVE  Lone'
BY DEF Lone

LEMMA PageLoneStep == Tally /\ Lone /\ [PageNext]_allVars => Lone'
<1>0. ASSUME Fresh' PROVE LateOnce' /\ Progress'
  <2>1. Fresh' => Progress'
    BY FreshProgress, PTL
  <2> QED BY <1>0, <2>1 DEF Fresh, LateOnce
<1> SUFFICES ASSUME Tally, Lone, [PageNext]_allVars PROVE Lone'
  OBVIOUS
<1>1. CASE SweepGoesOn
  <2>1. OthersReturned' <=> OthersReturned
    BY <1>1 DEF SweepGoesOn, OthersReturned
  <2>2. overlap' = "none" => overlap = "none"
    BY <1>1 DEF SweepGoesOn
  <2>3. LateOnce /\ Progress => (LateOnce /\ Progress)'
    BY <1>1, StepLate, SweepProgress DEF SweepGoesOn, Acts
  <2> QED BY <2>1, <2>2, <2>3, LoneGoesOn
<1>2. CASE (Drops \/ Clicks \/ Asides) /\ UNCHANGED sweeps
  <2>1. (OthersReturned' <=> OthersReturned) /\ overlap' = overlap
    BY <1>2 DEF OthersReturned, sweeps
  <2>2. Cancel \/ ClickDisconnect \/ BikeDisconnects \/ Idles
    BY <1>2, AsideSteps DEF Drops, Clicks
  <2>3. LateOnce /\ Progress => (LateOnce /\ Progress)'
    BY <2>2, StepLate, ClickProgress DEF Acts
  <2> QED BY <2>1, <2>3, LoneGoesOn
<1>3. CASE Awaiting /\ (Connect \/ ReadAgain \/ Loaded) /\ UNCHANGED sweeps
  <2>1. (OthersReturned' <=> OthersReturned) /\ overlap' = overlap
    BY <1>3 DEF OthersReturned, sweeps
  <2>2. Beside
    BY <1>3, BesideSteps
  <2>3. Progress => Progress'
    BY <2>2, KeepProgress DEF Beside
  <2>4. LateOnce => LateOnce'
    BY <2>2, Zenon DEF Beside, LateOnce
  <2> QED BY <2>1, <2>3, <2>4, LoneGoesOn
<1>4. CASE Picked
  <2>1. LateOnce' /\ Progress'
    BY <1>0, <1>4, PickedFresh
  <2>2. ASSUME overlap' = "none" PROVE OthersReturned'
    <3>1. AllReturned /\ asleep' = Append(asleep, Saved) /\ Saved.pc = "returned"
      BY <1>4, <2>2 DEF Picked, AllReturned, Saved, Begun
    <3> QED BY <3>1 DEF AllReturned, OthersReturned
  <2> QED BY <2>1, <2>2 DEF Lone
<1>5. ASSUME NEW k \in DOMAIN asleep, Resume(k) PROVE Lone'
  BY <1>5 DEF Resume, Lone, OthersReturned
<1> QED BY <1>1, <1>2, <1>3, <1>4, <1>5, PageSteps

LEMMA PageSweepStep == SweepInv /\ [PageNext]_allVars => SweepInv'
BY PageTallyStep, PageAsleepStep, PageLoneStep DEF SweepInv

LEMMA PageSweepHolds == PageSpec => []SweepInv
<1>1. PageInit => SweepInv
  <2> SUFFICES ASSUME PageInit PROVE SweepInv
    OBVIOUS
  <2>1. Fresh
    BY DEF PageInit, Fresh, GlobalsTyped
  <2>2. Tally /\ Progress /\ LateOnce
    BY <2>1, FreshTally, FreshProgress DEF Fresh, LateOnce
  <2>3. asleep = <<>>
    BY DEF PageInit
  <2>4. Asleep /\ OthersReturned
    BY <2>3 DEF Asleep, OthersReturned
  <2> QED BY <2>2, <2>4 DEF SweepInv, Lone
<1> QED BY <1>1, PageSweepStep, PTL DEF PageSpec, allVars

(* In every session, whatever was clicked, picked or loaded before it and  *)
(* whichever sweeps are still under way: the skip of none of them hides a  *)
(* component that gave a value, and a sweep that is alone records one      *)
(* result at most without a transport.                                     *)
THEOREM EverySessionSkipsJustly ==
    PageSpec => [](/\ SkippedGaveNothing
                   /\ \A k \in DOMAIN asleep : FrameSkipsJustly(asleep[k])
                   /\ overlap = "none" => OneLateResult)
<1>1. SweepInv => /\ SkippedGaveNothing
                  /\ \A k \in DOMAIN asleep : FrameSkipsJustly(asleep[k])
                  /\ overlap = "none" => OneLateResult
  BY TallyJustifies DEF SweepInv, Asleep, Lone, LateOnce, OneLateResult
<1> QED BY <1>1, PageSweepHolds, PTL

(* What a live connection stands for, unless a sweep was under way when    *)
(* its device was picked: a page that shows a dashboard over it has read   *)
(* all of it, and a page that offers the experiments has read every        *)
(* address and the per-mode statistics, once; Cancel apart.                *)
WholeOnLine ==
    overlap = "none" /\ transport =>
        /\ phase = "connected" => aborted \/ Read >= PriorityCount
        /\ sweepFullyLoaded => pc = "returned" /\ (aborted \/ (Read = N /\ modeStats = 1))

\* The sweep stands where it stood, on the same line or on none.
SameLine ==
    /\ UNCHANGED <<pc, results, aborted, modeStats>> /\ (overlap' = "none" => overlap = "none")
    /\ transport' => transport /\ (phase' = "connected" => phase = "connected")
                     /\ (sweepFullyLoaded' => sweepFullyLoaded)

LEMMA KeepWhole == WholeOnLine /\ SameLine => WholeOnLine'
BY DEF WholeOnLine, SameLine, Read

LEMMA SweepWhole == SweepInv /\ WholeOnLine /\ SweepGoesOn => WholeOnLine'
<1> SUFFICES ASSUME SweepInv, WholeOnLine, SweepGoesOn, overlap' = "none", transport'
             PROVE  /\ phase' = "connected" => aborted' \/ Read' >= PriorityCount
                    /\ sweepFullyLoaded' => pc' = "returned" /\ (aborted' \/ (Read' = N /\ modeStats' = 1))
  BY DEF WholeOnLine, N
<1>1. overlap = "none" /\ SweepStep
  BY DEF SweepGoesOn
<1>2. Tally /\ Progress /\ transport
  BY <1>1, SweepShrinks DEF SweepInv, Lone, Shrinks
<1>3. ~sweepFullyLoaded
  BY <1>1, <1>2, SweepShrinks DEF WholeOnLine
<1>4. phase' = "connected" => aborted' \/ Read' >= PriorityCount
  <2>0. Read \in Nat /\ Read' \in Nat /\ PriorityCount \in Nat
    <3>1. Tally'
      BY <1>1, <1>2, SweepTally
    <3> QED BY <1>2, <3>1, PriorityFirst DEF Tally, Shape, VarsTyped, Read
  <2>1. /\ Read' >= Read /\ (aborted => aborted')
        /\ phase' = "connected" => phase = "connected" \/ aborted' \/ Read' >= PriorityCount
    BY <1>1, <1>2, SweepUnlocks
  <2>2. phase = "connected" => aborted \/ Read >= PriorityCount
    BY <1>1, <1>2 DEF WholeOnLine
  <2> QED BY <2>0, <2>1, <2>2
<1>5. sweepFullyLoaded' => pc' = "returned" /\ (aborted' \/ (Read' = N /\ modeStats' = 1))
  BY <1>1, <1>2, <1>3, SweepUnlocks
<1> QED BY <1>4, <1>5

LEMMA StepWhole == SweepInv /\ WholeOnLine /\ [PageNext]_allVars => WholeOnLine'
<1> SUFFICES ASSUME SweepInv, WholeOnLine, [PageNext]_allVars PROVE WholeOnLine'
  OBVIOUS
<1>0. Tally
  BY DEF SweepInv
<1>1. CASE SweepGoesOn
  BY <1>1, SweepWhole
<1>2. CASE (Drops \/ Clicks) /\ UNCHANGED sweeps
  <2>1. Cancel \/ ClickDisconnect \/ BikeDisconnects
    BY <1>2 DEF Drops, Clicks
  <2>2. SameLine
    BY <1>0, <1>2, <2>1, ClicksLock, ButtonsShrink DEF Shrinks, SameLine, sweeps
  <2> QED BY <2>2, KeepWhole
<1>3. CASE (Connect \/ ReadAgain) /\ UNCHANGED sweeps
  <2>1. /\ UNCHANGED <<pc, results, aborted, modeStats, sweepFullyLoaded, phase>> /\ (transport' => transport)
    <3>1. UNCHANGED <<pc, sweepFullyLoaded, locals, phase>> /\ (transport' = transport \/ transport' = FALSE)
      BY <1>3 DEF Connect, ReadAgain, OpenPicker
    <3>2. transport' => transport
      BY <3>1, Zenon
    <3> QED BY <3>1, <3>2 DEF locals
  <2> QED BY <1>3, <2>1, KeepWhole DEF SameLine, sweeps
<1>4. CASE Picked
  <2>1. phase' = "connecting" /\ sweepFullyLoaded' = FALSE
    BY <1>4 DEF Picked
  <2> QED BY <2>1 DEF WholeOnLine
<1>5. CASE Loaded
  <2>1. transport' = FALSE
    BY <1>5 DEF Loaded
  <2> QED BY <2>1 DEF WholeOnLine
<1>6. ASSUME NEW k \in DOMAIN asleep, Resume(k) PROVE WholeOnLine'
  <2>1. overlap' = overlap /\ overlap # "none"
    BY <1>6 DEF Resume, SweepInv, Lone, OthersReturned
  <2> QED BY <2>1 DEF WholeOnLine
<1>7. CASE Asides /\ UNCHANGED sweeps
  BY <1>7, AsideSteps, KeepWhole DEF SameLine, Idles, globals, locals, sweeps
<1> QED BY <1>1, <1>2, <1>3, <1>4, <1>5, <1>6, <1>7, PageSteps

LEMMA WholeHolds == PageSpec => []WholeOnLine
<1>1. PageInit => WholeOnLine
  BY DEF PageInit, WholeOnLine
<1> QED BY <1>1, PageSweepHolds, StepWhole, PTL DEF PageSpec, allVars

(* In every session whose device was picked with no sweep under way: a     *)
(* live connection with a dashboard has a result for each of its           *)
(* addresses, a scan or an experiment starts only behind a sweep that read *)
(* every address and the per-mode statistics once, and neither shares the  *)
(* connection with a sweep; Cancel apart.                                  *)
THEOREM ExperimentsFollowASweep ==
    PageSpec => [](overlap = "none" /\ transport =>
                       /\ DashboardIsComplete /\ LoadedMeansRead
                       /\ sweepFullyLoaded => AllReturned)
<1>1. SweepInv /\ WholeOnLine => (overlap = "none" /\ transport =>
                       /\ DashboardIsComplete /\ LoadedMeansRead
                       /\ sweepFullyLoaded => AllReturned)
  <2> SUFFICES ASSUME SweepInv, WholeOnLine, overlap = "none", transport
               PROVE  DashboardIsComplete /\ LoadedMeansRead /\ (sweepFullyLoaded => AllReturned)
    OBVIOUS
  <2>1. LoadedMeansRead /\ (sweepFullyLoaded => AllReturned)
    BY DEF WholeOnLine, LoadedMeansRead, Read, N, SweepInv, Lone, AllReturned
  <2>2. ASSUME phase = "connected", ~aborted, NEW i \in DOMAIN Entries, Entries[i].priority
        PROVE  i \in DOMAIN results
    <3>1. Read >= PriorityCount /\ Read \in Nat /\ DOMAIN results = 1..Read
      BY <2>2 DEF WholeOnLine, SweepInv, Tally, Shape, VarsTyped, Read
    <3> QED BY <2>2, <3>1, EntriesTyped, PriorityFirst
  <2> QED BY <2>1, <2>2 DEF DashboardIsComplete
<1> QED BY <1>1, PageSweepHolds, WholeHolds, PTL

-----------------------------------------------------------------------------
(* Types.  Sessions are counted up to their bound, a scan up to the issues *)
(* its component reports, and the part it reads has as many as it read.    *)
Labels == {"not connected", "reading", "connected", "disconnected", "loaded from file"}

PageTyped ==
    /\ dialog \in {"none", "picker", "file"} /\ shown \in {"none", "sweep", "file"}
    /\ label \in Labels
    /\ loadedFromFile \in BOOLEAN /\ excused \in BOOLEAN
    /\ session \in 0..MaxSessions /\ (dialog = "file" => session < MaxSessions)
    /\ writeLabState \in {"idle", "pending", "done", "failed"}
    /\ lab \in {"none", "writing", "calling", "rereading"}

SweepsTyped ==
    /\ stuck \in BOOLEAN /\ hung \subseteq {"scan", "lab"} /\ overlap \in {"none", "elder", "unlocked"}
    /\ Len(asleep) <= session /\ (dialog = "picker" => Len(asleep) < session)

Sound(r) == r \in Reports /\ r.issues <= r.count

ScanCounts ==
    /\ diagnosticsState \in {"none", "scanning", "done"}
    /\ scan.part \in 0..Len(Parts) /\ scan.n \in 0..MaxIssues /\ scan.count \in 0..MaxIssues
    /\ scan.pc = "read" => scan.n < scan.count
    /\ \A p \in PartSet : found[p] = None \/ Sound(found[p])
    /\ Scanning /\ scan.pc = "read" => Current.issues <= scan.n

LabelOK == Label \in Labels

LEMMA LabelTyped == GlobalsTyped => LabelOK
<1> SUFFICES ASSUME GlobalsTyped PROVE Label \in Labels
  BY DEF LabelOK
<1>1. CASE phase = "connected" /\ disconnectedAfterRead
  BY <1>1 DEF Label, Labels
<1>2. CASE phase = "connected" /\ ~disconnectedAfterRead
  BY <1>2 DEF Label, Labels
<1>3. CASE phase # "connected"
  BY <1>3 DEF Label, Labels
<1> QED BY <1>1, <1>2, <1>3

LEMMA SweepTyped == SweepInv => LabelOK
<1>1. SweepInv => GlobalsTyped
  BY TallyTyped DEF SweepInv
<1> QED BY <1>1, LabelTyped

LEMMA StepTyped == SweepInv' /\ PageTyped /\ [PageNext]_allVars => PageTyped'
<1>a. SweepInv' => LabelOK'
  BY SweepTyped, PTL
<1> SUFFICES ASSUME SweepInv', PageTyped, [PageNext]_allVars PROVE PageTyped'
  OBVIOUS
<1>0. /\ label \in Labels /\ Label' \in Labels
      /\ session < MaxSessions => session + 1 \in 0..MaxSessions
  <2>1. Label' \in Labels
    BY <1>a DEF LabelOK
  <2> QED BY <2>1, PageAssumption DEF PageTyped
<1>1. CASE SweepGoesOn
  <2>1. shown' \in {"none", "sweep", "file"}
    <3>1. Publishes \subseteq {shown, "sweep"}
      BY DEF Publishes
    <3> QED BY <1>1, <3>1 DEF SweepGoesOn, PageTyped
  <2>2. excused' \in BOOLEAN
    BY <1>1 DEF SweepGoesOn
  <2>3. label' \in {label, Label'}
    BY <1>1 DEF SweepGoesOn, Redraws
  <2>4. UNCHANGED <<dialog, loadedFromFile, session, writeLabState, lab>>
    BY <1>1 DEF SweepGoesOn, writeLab
  <2> QED BY <1>0, <2>1, <2>2, <2>3, <2>4 DEF PageTyped
<1>2. CASE Drops \/ Clicks
  <2>1. label' \in {label, Label'}
    BY <1>2 DEF Drops, Clicks, Redraws
  <2>2. UNCHANGED <<dialog, shown, loadedFromFile, excused, session, writeLabState, lab>>
    BY <1>2 DEF Drops, Clicks, writeLab
  <2>3. label' \in Labels
    BY <1>0, <2>1
  <2> QED BY <2>2, <2>3 DEF PageTyped
<1>3. CASE Connect \/ ReadAgain
  <2>1. /\ session < MaxSessions /\ session' = session + 1 /\ dialog' = "picker" /\ loadedFromFile' = FALSE
        /\ UNCHANGED <<shown, label, excused, writeLabState, lab>>
    BY <1>3 DEF Connect, ReadAgain, OpenPicker, Forget, writeLab
  <2>2. session' \in 0..MaxSessions
    BY <1>0, <2>1
  <2> QED BY <2>1, <2>2 DEF PageTyped
<1>4. CASE Picked
  <2>1. /\ label' = Label' /\ dialog' = "none" /\ excused' = FALSE
        /\ UNCHANGED <<shown, loadedFromFile, session, writeLabState, lab>>
    BY <1>4 DEF Picked, writeLab
  <2> QED BY <1>0, <2>1 DEF PageTyped
<1>5. CASE Loaded
  <2>1. /\ dialog = "file" /\ dialog' = "none" /\ session' = session + 1 /\ label' = Label'
        /\ shown' = "file" /\ loadedFromFile' = TRUE /\ excused' \in BOOLEAN
        /\ UNCHANGED <<writeLabState, lab>>
    BY <1>5 DEF Loaded, Forget, writeLab
  <2>2. session' \in 0..MaxSessions
    BY <1>0, <2>1 DEF PageTyped
  <2> QED BY <1>0, <2>1, <2>2 DEF PageTyped
<1>6. ASSUME NEW k \in DOMAIN asleep, Resume(k) PROVE PageTyped'
  <2>1. UNCHANGED <<dialog, shown, loadedFromFile, label, excused, session, writeLabState, lab>>
    BY <1>6 DEF Resume, display, writeLab
  <2> QED BY <2>1 DEF PageTyped
<1>7. CASE PickerCancelled
  <2>1. excused' \in BOOLEAN /\ dialog' = "none" /\ UNCHANGED <<shown, loadedFromFile, label, session, writeLabState, lab>>
    BY <1>7 DEF PickerCancelled, writeLab
  <2> QED BY <2>1 DEF PageTyped
<1>8. CASE OpenFile \/ NotLoaded
  <2>1. /\ dialog' \in {"none", "file"} /\ (dialog' = "file" => session < MaxSessions)
        /\ UNCHANGED <<shown, loadedFromFile, label, excused, session, writeLabState, lab>>
    BY <1>8 DEF OpenFile, NotLoaded, display, writeLab
  <2> QED BY <2>1 DEF PageTyped
<1>9. CASE StartScan \/ ScanStep \/ Sticking \/ UNCHANGED allVars
  <2>1. UNCHANGED <<dialog, shown, loadedFromFile, label, excused, session, writeLabState, lab>>
    BY <1>9 DEF StartScan, ScanStep, CountAnswered, CountFailed, IssueRead, ListBroken, ScanThrows,
                Sticking, Hang, allVars, pageVars, display, writeLab
  <2> QED BY <2>1 DEF PageTyped
<1>10. CASE StartLab \/ LabStep
  <2>1. /\ UNCHANGED <<dialog, shown, loadedFromFile, label, excused, session>>
        /\ writeLabState' \in {"idle", "pending", "done", "failed"}
        /\ lab' \in {"none", "writing", "calling", "rereading"}
    BY <1>10 DEF StartLab, LabStep, LabAnswered, CallThrows, LabDone, display, PageTyped
  <2> QED BY <2>1 DEF PageTyped
<1> QED BY <1>1, <1>2, <1>3, <1>4, <1>5, <1>6, <1>7, <1>8, <1>9, <1>10, PageSteps DEF Asides

(* No more sweeps are kept than sessions were picked.                      *)
LEMMA StepSweepsTyped == SweepInv /\ PageTyped /\ SweepsTyped /\ [PageNext]_allVars => SweepsTyped'
<1> SUFFICES ASSUME SweepInv, PageTyped, SweepsTyped, [PageNext]_allVars PROVE SweepsTyped'
  OBVIOUS
<1>0. Len(asleep) \in Nat /\ session \in Nat /\ asleep \in Seq(FrameSet)
  BY PageAssumption DEF SweepInv, Asleep, PageTyped
<1>1. stuck' \in BOOLEAN /\ hung' \subseteq {"scan", "lab"}
  <2>1. UNCHANGED <<stuck, hung>> \/ hung' \in {hung \cup {"scan"}, hung \cup {"lab"}, hung \ {"scan"}, hung \ {"lab"}}
    BY DEF PageNext, ScanRuns, LabRuns, Sticking, Hang, ScanRejected, LabRejected, allVars, vars, pageVars
  <2>2. stuck' = stuck
    BY DEF PageNext, allVars, vars
  <2> QED BY <2>1, <2>2 DEF SweepsTyped
<1>2. CASE SweepGoesOn
  <2>1. UNCHANGED <<dialog, session, asleep>> /\ overlap' \in {overlap, "unlocked"}
    BY <1>2 DEF SweepGoesOn
  <2> QED BY <1>1, <2>1 DEF SweepsTyped
<1>3. CASE (Connect \/ ReadAgain) /\ UNCHANGED sweeps
  <2>1. dialog' = "picker" /\ session' = session + 1 /\ UNCHANGED <<asleep, overlap>>
    BY <1>3 DEF Connect, ReadAgain, OpenPicker, sweeps
  <2> QED BY <1>0, <1>1, <2>1 DEF SweepsTyped
<1>4. CASE Loaded /\ UNCHANGED sweeps
  <2>1. dialog' = "none" /\ session' = session + 1 /\ UNCHANGED <<asleep, overlap>>
    BY <1>4 DEF Loaded, sweeps
  <2> QED BY <1>0, <1>1, <2>1 DEF SweepsTyped
<1>5. CASE Picked
  <2>1. /\ dialog = "picker" /\ dialog' = "none" /\ session' = session
        /\ asleep' = Append(asleep, Saved) /\ overlap' \in {"none", "elder"}
    BY <1>5 DEF Picked
  <2>2. Len(asleep') = Len(asleep) + 1
    BY <1>0, <2>1
  <2> QED BY <1>0, <1>1, <2>1, <2>2 DEF SweepsTyped
<1>6. ASSUME NEW k \in DOMAIN asleep, Resume(k) PROVE SweepsTyped'
  <2>1. asleep' = [asleep EXCEPT ![k] = Saved] /\ UNCHANGED <<dialog, session, overlap>>
    BY <1>6 DEF Resume
  <2>2. Saved \in FrameSet
    BY SavedKeeps DEF SweepInv
  <2>3. Len(asleep') = Len(asleep)
    BY <1>0, <2>1, <2>2
  <2> QED BY <1>1, <2>1, <2>3 DEF SweepsTyped
<1>7. CASE (Drops \/ Clicks \/ Asides) /\ UNCHANGED sweeps
  <2>1. session' = session /\ (dialog' = "picker" => dialog = "picker") /\ UNCHANGED <<asleep, overlap>>
    <3>1. Drops \/ Clicks \/ PickerCancelled \/ OpenFile \/ NotLoaded \/ StartScan \/ StartLab \/ Sticking
          => session' = session /\ (dialog' = "picker" => dialog = "picker")
      BY DEF Drops, Clicks, PickerCancelled, OpenFile, NotLoaded, StartScan, StartLab, Sticking, Hang
    <3>2. ScanStep \/ LabStep \/ UNCHANGED allVars => session' = session /\ dialog' = dialog
      BY DEF ScanStep, CountAnswered, CountFailed, IssueRead, ListBroken, ScanThrows,
             LabStep, LabAnswered, CallThrows, LabDone, allVars, pageVars
    <3> QED BY <1>7, <3>1, <3>2 DEF Asides, sweeps
  <2> QED BY <1>1, <2>1 DEF SweepsTyped
<1> QED BY <1>2, <1>3, <1>4, <1>5, <1>6, <1>7, PageSteps

(* The counters of a scan that goes on with another part, or ends.         *)
Counters ==
    /\ diagnosticsState \in {"none", "scanning", "done"}
    /\ scan.part \in 0..Len(Parts) /\ scan.n \in 0..MaxIssues /\ scan.count \in 0..MaxIssues

SoundReports == \A p \in PartSet : found[p] = None \/ Sound(found[p])

LEMMA CountsParts ==
    ScanCounts <=> /\ Counters /\ SoundReports
                   /\ scan.pc = "read" => scan.n < scan.count
                   /\ Scanning /\ scan.pc = "read" => Current.issues <= scan.n
BY DEF ScanCounts, Counters, SoundReports

LEMMA EndedCounts ==
    ASSUME Counters, scan \in Scans, Ended, diagnosticsState' \in {diagnosticsState, "done"}
    PROVE  Counters' /\ scan'.pc = "none"
BY DEF Counters, Ended, Scans

LEMMA NextPartCounts ==
    ASSUME Counters, ScanTyped, scan.pc # "none", NextPart
    PROVE  Counters' /\ scan'.pc # "read"
<1>1. scan \in Scans
  BY DEF ScanTyped
<1>2. CASE Ended /\ diagnosticsState' \in {diagnosticsState, "done"}
  BY <1>1, <1>2, EndedCounts
<1>3. CASE /\ scan' = [scan EXCEPT !.pc = "count", !.part = @ + 1, !.n = 0]
           /\ scan.part + 1 \in 1..Len(Parts) /\ UNCHANGED diagnosticsState
  <2>1. scan'.pc = "count" /\ scan'.part = scan.part + 1 /\ scan'.n = 0 /\ scan'.count = scan.count
    BY <1>1, <1>3 DEF Scans
  <2>2. scan'.part \in 0..Len(Parts) /\ scan'.n \in 0..MaxIssues
    BY <1>3, <2>1, PageAssumption
  <2> QED BY <1>3, <2>1, <2>2 DEF Counters
<1> QED BY <1>2, <1>3, NextPartStep

LEMMA ExchangeCounts ==
    ASSUME Counters, scan \in Scans, NEW s \in Scans, Exchange(s), UNCHANGED diagnosticsState,
           s.part = scan.part, s.n \in 0..MaxIssues, s.count \in 0..MaxIssues
    PROVE  Counters' /\ (scan'.pc = "none" \/ scan' = s)
<1>1. CASE transport
  <2>1. scan' = s
    BY <1>1 DEF Exchange
  <2> QED BY <2>1 DEF Counters
<1>2. CASE ~transport
  <2>1. Ended
    BY <1>2 DEF Exchange, Ended
  <2> QED BY <2>1, EndedCounts
<1> QED BY <1>1, <1>2

LEMMA SoundUpdate ==
    ASSUME SoundReports, ScanTyped, NEW p \in PartSet, NEW r, found' = [found EXCEPT ![p] = r], r = None \/ Sound(r)
    PROVE  SoundReports' /\ found'[p] = r
BY DEF SoundReports, ScanTyped

LEMMA ScanStepCounts ==
    ASSUME ScanInv, ScanCounts, PageTyped, ScanStep
    PROVE  ScanCounts'
<1> DEFINE P == Parts[scan.part]
<1>1. /\ scan \in Scans /\ scan.pc # "none" /\ scan.part \in 1..Len(Parts) /\ P \in PartSet /\ ScanTyped
      /\ found \in [PartSet -> AnyReport \cup {None}] /\ scan.session \in Sessions
      /\ Counters /\ SoundReports /\ MaxIssues \in Nat
  <2>1. scan.pc # "none"
    BY DEF ScanStep, CountAnswered, CountFailed, IssueRead, ListBroken, ScanThrows
  <2>2. scan \in Scans /\ scan.session <= session /\ session \in 0..MaxSessions
    BY DEF ScanInv, ScanTyped, PageTyped
  <2>3. scan.session \in Sessions
    BY <2>2, PageAssumption DEF Sessions, Scans
  <2> QED BY <2>1, <2>2, <2>3, PartsTyped, CountsParts, PageAssumption DEF ScanInv, ScanTyped
<1>2. ASSUME NEW count \in 0..MaxIssues PROVE Sound(Report("ok", count)) /\ Sound(Report("failed", count))
  BY <1>1, PageAssumption DEF Report, Sound, Reports
<1>3. ASSUME NEW count \in 0..MaxIssues, CountAnswered(count) PROVE ScanCounts'
  <2> DEFINE r == Report("ok", count)
  <2>1. SoundReports' /\ found'[P] = r /\ r.issues = 0
    <3>1. found' = [found EXCEPT ![P] = r] /\ Sound(r)
      BY <1>2, <1>3 DEF CountAnswered
    <3>2. r.issues = 0
      BY DEF Report
    <3> HIDE DEF r
    <3> QED BY <1>1, <3>1, <3>2, SoundUpdate
  <2>2. CASE count = 0
    <3>1. Counters' /\ scan'.pc # "read"
      BY <1>1, <1>3, <2>2, NextPartCounts DEF CountAnswered
    <3> QED BY <2>1, <3>1, CountsParts DEF ScanCounts, Counters, SoundReports
  <2>3. CASE count # 0
    <3> DEFINE s == [scan EXCEPT !.pc = "read", !.n = 0, !.count = count]
    <3>0. count \in Nat /\ 0 < count
      BY <1>1, <2>3
    <3>1. s \in Scans /\ s.part = scan.part /\ s.n = 0 /\ s.count = count /\ Exchange(s) /\ UNCHANGED diagnosticsState
      <4>1. Exchange(s) /\ UNCHANGED diagnosticsState
        BY <1>3, <2>3 DEF CountAnswered
      <4>2. s \in Scans /\ s.part = scan.part /\ s.n = 0 /\ s.count = count
        BY <1>1, <3>0 DEF Scans
      <4> QED BY <4>1, <4>2
    <3>2. Counters' /\ (scan'.pc = "none" \/ scan' = s)
      <4>1. s.n \in 0..MaxIssues /\ s.count \in 0..MaxIssues
        BY <1>1, <3>1
      <4> HIDE DEF s
      <4> QED BY <1>1, <3>1, <4>1, ExchangeCounts
    <3>3. scan'.pc = "read" => scan'.n < scan'.count
      BY <3>0, <3>1, <3>2
    <3>4. scan'.pc = "read" => Current'.issues <= scan'.n
      <4>1. scan'.pc = "read" => scan'.part = scan.part /\ scan'.n = 0
        BY <3>1, <3>2
      <4> QED BY <2>1, <4>1 DEF Current
    <3> QED BY <2>1, <3>2, <3>3, <3>4 DEF ScanCounts, Counters, SoundReports
  <2> QED BY <2>2, <2>3
<1>4. CASE CountFailed
  <2> DEFINE r == Report("failed", 0)
  <2>1. SoundReports'
    <3>1. found' = [found EXCEPT ![P] = r] /\ Sound(r)
      BY <1>1, <1>2, <1>4 DEF CountFailed
    <3> HIDE DEF r
    <3> QED BY <1>1, <3>1, SoundUpdate
  <2>2. Counters' /\ scan'.pc # "read"
    BY <1>1, <1>4, NextPartCounts DEF CountFailed
  <2> QED BY <2>1, <2>2 DEF ScanCounts, Counters, SoundReports
<1>5. scan.pc = "read" /\ Current # None =>
        /\ Current \in Reports /\ Current.count = scan.count /\ Current.issues <= scan.n /\ scan.n < scan.count
  <2> SUFFICES ASSUME scan.pc = "read", Current # None
               PROVE  /\ Current \in Reports /\ Current.count = scan.count
                      /\ Current.issues <= scan.n /\ scan.n < scan.count
    OBVIOUS
  <2>1. Scanning
    BY <1>1, PartsTyped DEF ScanInv, OldScans, LeftBehind, Scanning, Current
  <2>2. Current.count = scan.count
    BY <2>1 DEF ScanInv, Reported
  <2>3. Current \in Reports
    BY <1>1 DEF SoundReports, Sound, Current
  <2> QED BY <2>1, <2>2, <2>3 DEF ScanCounts
<1>6. ASSUME scan.pc = "read", NEW r, Amend(r), Current # None => Sound(r)
      PROVE  SoundReports' /\ (Current # None => found'[P] = r)
  <2>1. CASE Current = None
    <3>1. found' = [found EXCEPT ![P] = None]
      BY <1>6, <2>1 DEF Amend, Current
    <3> QED BY <1>1, <2>1, <3>1, SoundUpdate
  <2>2. CASE Current # None
    <3>1. found' = [found EXCEPT ![P] = r]
      BY <1>6, <2>2 DEF Amend, Current
    <3> QED BY <1>1, <1>6, <2>2, <3>1, SoundUpdate
  <2> QED BY <2>1, <2>2
<1>7. ASSUME scan.pc = "read", Current # None
      PROVE  /\ Sound([Current EXCEPT !.lost = TRUE])
             /\ [Current EXCEPT !.lost = TRUE].issues = Current.issues
             /\ Sound([Current EXCEPT !.issues = @ + 1])
             /\ [Current EXCEPT !.issues = @ + 1].issues = Current.issues + 1
  <2>1. /\ Current.issues \in Nat /\ scan.n \in Nat /\ scan.count \in 0..MaxIssues /\ Current.count = scan.count
        /\ Current \in Reports /\ Current.issues + 1 <= scan.count /\ Current.issues <= scan.count
    BY <1>1, <1>5, <1>7 DEF Counters, Reports
  <2>2. Current.issues + 1 \in 0..MaxIssues
    BY <1>1, <2>1
  <2> QED BY <2>1, <2>2 DEF Sound, Reports
<1>8. ASSUME NEW issue \in BOOLEAN, IssueRead(issue) PROVE ScanCounts'
  <2> DEFINE r == IF issue THEN [Current EXCEPT !.issues = @ + 1] ELSE [Current EXCEPT !.lost = TRUE]
  <2>1. scan.pc = "read" /\ Amend(r) /\ scan.n < scan.count /\ scan.n \in Nat /\ scan.count \in 0..MaxIssues
    BY <1>1, <1>8 DEF IssueRead, ScanCounts, Counters
  <2>2. Current # None => Sound(r) /\ r.issues <= scan.n + 1
    BY <1>1, <1>5, <1>7, <2>1 DEF Reports
  <2>3. SoundReports' /\ (Current # None => found'[P] = r)
    <3> HIDE DEF r
    <3> QED BY <1>6, <2>1, <2>2
  <2>4. CASE AllRead
    <3>1. Counters' /\ scan'.pc # "read"
      BY <1>1, <1>8, <2>4, NextPartCounts DEF IssueRead
    <3> QED BY <2>3, <3>1 DEF ScanCounts, Counters, SoundReports
  <2>5. CASE ~AllRead
    <3> DEFINE s == [scan EXCEPT !.n = @ + 1]
    <3>1. /\ s \in Scans /\ s.part = scan.part /\ s.count = scan.count /\ s.n = scan.n + 1
          /\ s.session = scan.session
      BY <1>1, <2>1 DEF Scans
    <3>2. s.n < s.count /\ s.n \in 0..MaxIssues /\ s.count \in 0..MaxIssues
      BY <1>1, <2>1, <2>5, <3>1 DEF AllRead
    <3>3. Exchange(s) /\ UNCHANGED <<diagnosticsState, session>>
      BY <1>8, <2>5 DEF IssueRead
    <3> HIDE DEF s
    <3>4. Counters' /\ (scan'.pc = "none" \/ scan' = s)
      BY <1>1, <3>1, <3>2, <3>3, ExchangeCounts
    <3>5. Scanning' /\ scan'.pc = "read" => Current'.issues <= scan'.n
      <4> SUFFICES ASSUME Scanning', scan'.pc = "read" PROVE Current'.issues <= scan'.n
        OBVIOUS
      <4>1. scan' = s /\ scan.session = session
        BY <3>1, <3>3, <3>4 DEF Scanning
      <4>2. Current # None
        BY <2>1, <4>1 DEF ScanInv, Reported, Scanning
      <4> QED BY <2>2, <2>3, <3>1, <4>1, <4>2 DEF Current
    <3> QED BY <2>3, <3>2, <3>4, <3>5 DEF ScanCounts, Counters, SoundReports
  <2> QED BY <2>4, <2>5
<1>9. CASE ListBroken
  <2> DEFINE r == [Current EXCEPT !.lost = TRUE]
  <2>1. scan.pc = "read" /\ Amend(r) /\ NextPart
    BY <1>9 DEF ListBroken
  <2>2. SoundReports'
    <3>1. Current # None => Sound(r)
      BY <1>7, <2>1
    <3> HIDE DEF r
    <3> QED BY <1>6, <2>1, <3>1
  <2>3. Counters' /\ scan'.pc # "read"
    BY <1>1, <2>1, NextPartCounts
  <2> QED BY <2>2, <2>3 DEF ScanCounts, Counters, SoundReports
<1>10. CASE ScanThrows
  <2>1. Ended /\ UNCHANGED <<diagnosticsState, found>>
    BY <1>10 DEF ScanThrows, Ended
  <2>2. Counters' /\ scan'.pc = "none"
    BY <1>1, <2>1, EndedCounts
  <2>3. SoundReports'
    BY <1>1, <2>1 DEF SoundReports
  <2> QED BY <2>2, <2>3 DEF ScanCounts, Counters, SoundReports
<1> QED BY <1>3, <1>4, <1>8, <1>9, <1>10 DEF ScanStep

LEMMA StepCounts == ScanInv /\ PageTyped /\ ScanCounts /\ [PageNext]_allVars => ScanCounts'
<1> SUFFICES ASSUME ScanInv, PageTyped, ScanCounts, [PageNext]_allVars PROVE ScanCounts'
  OBVIOUS
<1>0. scan \in Scans /\ scan.session <= session /\ session \in Nat
  BY DEF ScanInv, ScanTyped
<1>1. CASE ScanStep
  BY <1>1, ScanStepCounts
<1>2. CASE Connect \/ ReadAgain \/ Loaded
  <2>1. diagnosticsState' = "none" /\ scan' = scan /\ found' = [p \in PartSet |-> None] /\ session' = session + 1
    BY <1>2, PartsTyped DEF Connect, ReadAgain, Loaded, OpenPicker, Forget
  <2>2. ~Scanning'
    BY <1>0, <2>1 DEF Scanning, Scans
  <2> QED BY <2>1, <2>2 DEF ScanCounts
<1>3. CASE StartScan
  <2>1. /\ scan'.pc = "count" /\ scan'.part = 1 /\ scan'.n = 0 /\ scan'.count = 0
        /\ diagnosticsState' = "scanning" /\ found' = [p \in PartSet |-> None]
    BY <1>3, PartsTyped DEF StartScan, NoScan
  <2>2. 1 \in 0..Len(Parts) /\ 0 \in 0..MaxIssues
    BY PartsTyped, PageAssumption
  <2> QED BY <2>1, <2>2 DEF ScanCounts
<1>4. CASE \/ SweepGoesOn \/ Drops \/ Clicks \/ PickerCancelled \/ Picked \/ OpenFile \/ NotLoaded
           \/ StartLab \/ LabStep \/ Sticking \/ UNCHANGED allVars \/ \E k \in DOMAIN asleep : Resume(k)
  <2>1. UNCHANGED <<scan, found, diagnosticsState, session>>
    BY <1>4 DEF SweepGoesOn, Drops, Clicks, PickerCancelled, Picked, OpenFile, NotLoaded, StartLab, Resume,
                LabStep, LabAnswered, CallThrows, LabDone, Sticking, Hang, allVars, pageVars, diagnostics
  <2> QED BY <2>1 DEF ScanCounts, Sound, Scanning, Current
<1> QED BY <1>1, <1>2, <1>3, <1>4, PageSteps DEF Asides

(* The variables of the page keep their types, for any number of sessions, *)
(* components and issues: a component never shows more issues than it      *)
(* counts.                                                                 *)
THEOREM PageTypeCorrect == PageSpec => []PageTypeOK
<1>1. PageInit => PageTyped /\ ScanCounts /\ SweepsTyped
  <2> SUFFICES ASSUME PageInit PROVE PageTyped /\ ScanCounts /\ SweepsTyped
    OBVIOUS
  <2>1. PageTyped
    <3>1. /\ dialog = "none" /\ shown = "none" /\ loadedFromFile = FALSE /\ label = "not connected" /\ excused = FALSE
          /\ writeLabState = "idle" /\ lab = "none" /\ session = 0
      BY DEF PageInit
    <3>2. 0 \in 0..MaxSessions
      BY PageAssumption
    <3> QED BY <3>1, <3>2 DEF PageTyped, Labels
  <2>2. /\ scan.pc = "none" /\ scan.part = 0 /\ scan.n = 0 /\ scan.count = 0
        /\ diagnosticsState = "none" /\ found = [p \in PartSet |-> None]
    BY PartsTyped DEF PageInit, NoScan
  <2>3. SweepsTyped
    <3>1. /\ stuck = FALSE /\ asleep = <<>> /\ overlap = "none" /\ hung = {}
          /\ dialog = "none" /\ session = 0
      BY DEF PageInit
    <3>2. Len(asleep) <= session
      BY <3>1
    <3> QED BY <3>1, <3>2 DEF SweepsTyped
  <2> QED BY <2>1, <2>2, <2>3, PartsTyped, PageAssumption DEF ScanCounts
<1>2. /\ SweepInv /\ SweepInv' /\ ScanInv /\ PageTyped /\ ScanCounts /\ SweepsTyped /\ [PageNext]_allVars
      => (PageTyped /\ ScanCounts /\ SweepsTyped)'
  BY StepTyped, StepCounts, StepSweepsTyped
<1>3. SweepInv /\ ScanInv /\ PageTyped /\ ScanCounts /\ SweepsTyped => PageTypeOK
  <2> SUFFICES ASSUME SweepInv, ScanInv, PageTyped, ScanCounts, SweepsTyped PROVE PageTypeOK
    OBVIOUS
  <2>1. TypeOK
    BY DEF SweepInv, Tally, Shape, SweepsTyped, TypeOK
  <2>2. session \in Sessions
    BY PageAssumption DEF PageTyped, Sessions
  <2>3. scan.pc \in {"none", "count", "read"} /\ scan.threw \in BOOLEAN /\ DOMAIN found = PartSet
    BY DEF ScanInv, ScanTyped, Scans
  <2>4. asleep \in Seq({asleep[k] : k \in DOMAIN asleep})
    BY DEF SweepInv, Asleep
  <2> QED BY <2>1, <2>2, <2>3, <2>4 DEF PageTyped, ScanCounts, SweepsTyped, Sound, PageTypeOK, Labels
<1> QED BY <1>1, <1>2, <1>3, PageSweepHolds, ScanInvariant, PTL DEF PageSpec, allVars
=============================================================================
