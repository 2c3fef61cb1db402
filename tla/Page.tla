--------------------------------- MODULE Page ---------------------------------
(***************************************************************************)
(* The page around a sweep (web/app.js): the pickers of Connect and Read   *)
(* again, a report loaded from a file, the status line, the diagnostics    *)
(* scan and the Write Lab.  Each of these is a coroutine or a click that   *)
(* finds the globals as the others left them: Page adds them to Sweep,     *)
(* whose Entries may be read in several sessions here.                     *)
(*                                                                         *)
(* A picker or file dialog blocks the clicks, not the coroutines: a sweep  *)
(* of an earlier session, which may be opening a BLE device or waiting for *)
(* its bike for seconds after that bike is gone, goes on beside the sweep  *)
(* of the device picked next, on the globals and the transport of that.    *)
(***************************************************************************)
EXTENDS Sweep

CONSTANTS
    Parts,          \* DIAGNOSTICS_COMPONENTS, in scan order
    Answers,        \* bound: the outcomes a read may have in several sessions
    MaxIssues,      \* bound: issues a component counts
    MaxSessions,    \* bound: sessions picked and reports loaded
    None

ASSUME PageAssumption ==
    /\ Parts \in Seq({Parts[i] : i \in DOMAIN Parts}) /\ Len(Parts) > 0
    /\ \A i, j \in DOMAIN Parts : Parts[i] = Parts[j] => i = j
    /\ Answers \subseteq Outcomes /\ MaxIssues \in Nat /\ MaxSessions \in Nat
    /\ None \notin [status : {"ok", "failed"}, count : Nat, issues : Nat, lost : BOOLEAN, session : Nat]

VARIABLES
    dialog,         \* none | picker | file
    shown,          \* lastResults: none | sweep | file
    loadedFromFile,
    label,          \* the status line renderPhase drew last
    diagnosticsState,       \* none | scanning | done
    found,          \* diagnosticsResultsByComponent
    scan,           \* attemptDiagnosticsScan
    writeLabState,  \* idle | pending | done | failed
    lab,            \* attemptWriteLab, attemptRpcLab: the await they are at
    session,        \* history: pickers and reports so far
    excused,        \* history: a known way for the page to tell an untruth was taken
    asleep,         \* the sweeps that await beside the one in Sweep's variables
    overlap,        \* history: none | elder, a sweep was under way when the device was
                    \* picked | unlocked, a sweep ended before another
    hung            \* the coroutines, scan or lab, whose awaited transfer is stuck

diagnostics == <<diagnosticsState, found, scan>>
writeLab == <<writeLabState, lab>>
display == <<shown, loadedFromFile, label, excused>>
sweeps == <<asleep, overlap>>
pageVars == <<dialog, display, diagnostics, writeLab, session, sweeps, hung>>

Unscanned == [p \in {Parts[i] : i \in DOMAIN Parts} |-> None]
NoScan == [pc |-> "none", part |-> 0, n |-> 0, count |-> 0, session |-> 0, threw |-> FALSE]

\* What a runSweep keeps of its own while it awaits.
Frame == [pc |-> pc, warm |-> warm, stats |-> stats, results |-> results,
          revealed |-> revealed, aborted |-> aborted, modeStats |-> modeStats, late |-> late]

Enter(frame) ==
    /\ pc' = frame.pc /\ warm' = frame.warm /\ stats' = frame.stats /\ results' = frame.results
    /\ revealed' = frame.revealed /\ aborted' = frame.aborted
    /\ modeStats' = frame.modeStats /\ late' = frame.late

Begun == [pc |-> "opening", warm |-> 0, stats |-> NoStats, results |-> <<>>,
          revealed |-> FALSE, aborted |-> FALSE, modeStats |-> 0, late |-> 0]

\* A sweep that has returned keeps nothing.
Saved == IF pc = "returned" THEN [Begun EXCEPT !.pc = "returned"] ELSE Frame

OthersReturned == \A k \in DOMAIN asleep : asleep[k].pc = "returned"

AllReturned == pc = "returned" /\ OthersReturned

PageInit ==
    /\ pc = "returned" /\ phase = "idle" /\ transport = FALSE
    /\ abortRequested = FALSE /\ disconnectedAfterRead = FALSE /\ sweepFullyLoaded = FALSE
    /\ warm = 0 /\ stats = NoStats /\ results = <<>> /\ revealed = FALSE /\ aborted = FALSE
    /\ modeStats = 0 /\ late = 0 /\ stuck = FALSE
    /\ asleep = <<>> /\ overlap = "none" /\ hung = {}
    /\ dialog = "none" /\ shown = "none" /\ loadedFromFile = FALSE /\ label = "not connected" /\ excused = FALSE
    /\ diagnosticsState = "none" /\ found = Unscanned /\ scan = NoScan
    /\ writeLabState = "idle" /\ lab = "none" /\ session = 0

(***************************************************************************)
(* renderPhase.                                                            *)
(***************************************************************************)
Label ==
    CASE phase = "connected" /\ disconnectedAfterRead ->
            IF loadedFromFile THEN "loaded from file" ELSE "disconnected"
      [] phase = "connected" /\ ~disconnectedAfterRead -> "connected"
      [] phase = "connecting" -> "reading"
      [] OTHER -> "not connected"

\* It is called wherever the phase changes or a connected bike drops off.
Redraws ==
    label' = IF <<phase, disconnectedAfterRead>>' # <<phase, disconnectedAfterRead>>
             THEN Label' ELSE label

(***************************************************************************)
(* A sweep: of the current session, or of one whose page has moved on.     *)
(***************************************************************************)
\* lastResults = results: at the reveal, at every tenth and the last address
\* read behind it, after the per-mode statistics, and at the end.
Publishes ==
    CASE pc = "reading" /\ revealed' # revealed -> {"sweep"}
      [] pc = "reading" /\ revealed -> {shown, "sweep"}
      [] pc \in {"modeStats", "end", "finish"} -> {"sweep"}
      [] OTHER -> {shown}

SweepGoesOn ==
    /\ SweepStep /\ (pc = "reading" => {results'[i] : i \in DOMAIN results'} \subseteq Answers \cup {"skipped"})
    /\ shown' \in Publishes
    /\ overlap' = IF pc = "finish" /\ ~OthersReturned THEN "unlocked" ELSE overlap
    /\ UNCHANGED asleep
    /\ excused' = (excused \/ (phase' = "connected" /\ phase # "connected" /\ ~transport))
    /\ UNCHANGED <<dialog, loadedFromFile, diagnostics, writeLab, session>>
    /\ Redraws

\* The await of another sweep is the next to settle.
Resume(k) ==
    /\ asleep[k].pc # "returned"
    /\ Enter(asleep[k]) /\ asleep' = [asleep EXCEPT ![k] = Saved]
    /\ UNCHANGED <<globals, sweepFullyLoaded, dialog, display, diagnostics, writeLab, session, overlap>>

\* Mutant: a dropped bike is not noted.
DropUnnoted ==
    /\ Awaiting /\ phase # "idle"
    /\ IF phase = "connected" THEN transport' = FALSE /\ UNCHANGED <<phase, abortRequested, disconnectedAfterRead>>
       ELSE GoIdle
    /\ UNCHANGED <<pc, sweepFullyLoaded, locals, dialog, shown, loadedFromFile, excused, diagnostics, writeLab, session>>
    /\ Redraws

Drops ==
    /\ BikeDisconnects
    /\ UNCHANGED <<dialog, shown, loadedFromFile, excused, diagnostics, writeLab, session>>
    /\ Redraws

Clicks ==
    /\ dialog = "none"
    /\ Cancel \/ ClickDisconnect
    /\ UNCHANGED <<dialog, shown, loadedFromFile, excused, diagnostics, writeLab, session>>
    /\ Redraws

(***************************************************************************)
(* runSweep up to the picker, from either button.                          *)
(***************************************************************************)
Forget ==
    /\ diagnosticsState' = "none" /\ found' = Unscanned /\ UNCHANGED <<scan, writeLab>>

OpenPicker ==
    /\ dialog = "none" /\ session < MaxSessions
    /\ dialog' = "picker" /\ session' = session + 1
    /\ disconnectedAfterRead' = FALSE /\ loadedFromFile' = FALSE /\ Forget
    /\ UNCHANGED <<pc, phase, abortRequested, sweepFullyLoaded, locals, shown, label, excused>>

Connect == phase = "idle" /\ OpenPicker /\ UNCHANGED transport

ReadAgain == phase = "connected" /\ OpenPicker /\ transport' = FALSE

\* "user cancelled the picker": what ReadAgain took away is not put back.
PickerCancelled ==
    /\ dialog = "picker" /\ dialog' = "none"
    /\ excused' = (excused \/ phase = "connected")
    /\ UNCHANGED <<pc, globals, sweepFullyLoaded, locals, shown, loadedFromFile, label, diagnostics, writeLab, session>>

\* The transport is null from before the picker is opened until it is answered.
\* An exchange of the scan or the Write Lab asks it for the next frame every few
\* milliseconds and throws, so neither is left; open and waitForBikeReady ask
\* nothing of the global, so a sweep may be.
NoExchange == scan.pc = "none" /\ lab = "none"

\* Mutant: the flag of the former session stays up.
PickedStillLoaded ==
    /\ dialog = "picker" /\ NoExchange /\ dialog' = "none"
    /\ phase' = "connecting" /\ transport' = TRUE /\ abortRequested' = FALSE
    /\ Enter(Begun) /\ asleep' = Append(asleep, Saved)
    /\ overlap' = IF AllReturned THEN "none" ELSE "elder"
    /\ excused' = FALSE
    /\ UNCHANGED <<disconnectedAfterRead, sweepFullyLoaded, shown, loadedFromFile, diagnostics, writeLab, session>>
    /\ label' = Label'

Picked ==
    /\ dialog = "picker" /\ NoExchange /\ dialog' = "none"
    /\ phase' = "connecting" /\ transport' = TRUE
    /\ abortRequested' = FALSE /\ sweepFullyLoaded' = FALSE
    /\ Enter(Begun) /\ asleep' = Append(asleep, Saved)
    /\ overlap' = IF AllReturned THEN "none" ELSE "elder"
    /\ excused' = FALSE
    /\ UNCHANGED <<disconnectedAfterRead, shown, loadedFromFile, diagnostics, writeLab, session>>
    /\ label' = Label'

(***************************************************************************)
(* A report from a file: the link is on the start screen.                  *)
(***************************************************************************)
OpenFile ==
    /\ dialog = "none" /\ phase = "idle" /\ session < MaxSessions /\ dialog' = "file"
    /\ UNCHANGED <<pc, globals, sweepFullyLoaded, locals, display, diagnostics, writeLab, session>>

\* No file, not a report, or declined by the user for its version.
NotLoaded ==
    /\ dialog = "file" /\ dialog' = "none"
    /\ UNCHANGED <<pc, globals, sweepFullyLoaded, locals, display, diagnostics, writeLab, session>>

\* The file is shown whatever runs behind the dialog: a sweep whose read was
\* in flight when the session was closed may publish its results over it.
Loaded ==
    /\ dialog = "file" /\ dialog' = "none" /\ session' = session + 1
    /\ shown' = "file" /\ loadedFromFile' = TRUE /\ Forget
    /\ transport' = FALSE /\ phase' = "connected" /\ disconnectedAfterRead' = TRUE
    /\ sweepFullyLoaded' = TRUE /\ excused' = ~AllReturned
    /\ UNCHANGED <<pc, abortRequested, locals>>
    /\ label' = Label'

(***************************************************************************)
(* The diagnostics scan.  An exchange takes two steps, its start and its   *)
(* end; without a transport none starts, it throws.                        *)
(***************************************************************************)
StartScan ==
    /\ phase = "connected" /\ dialog = "none" /\ scan.pc = "none"
    /\ diagnosticsState # "scanning" /\ sweepFullyLoaded /\ transport
    /\ diagnosticsState' = "scanning" /\ found' = Unscanned
    /\ scan' = [NoScan EXCEPT !.pc = "count", !.part = 1, !.session = session]
    /\ UNCHANGED <<pc, globals, sweepFullyLoaded, locals, dialog, display, writeLab, session>>

\* Mutant: the scan does not notice that its transport is gone.
ExchangeBlind(next) == scan' = next

Exchange(next) ==
    scan' = IF transport THEN next ELSE [scan EXCEPT !.pc = "none", !.threw = TRUE]

\* Mutant: the last component is left out.
NextPartButLast ==
    IF scan.part + 1 < Len(Parts)
    THEN /\ Exchange([scan EXCEPT !.pc = "count", !.part = @ + 1, !.n = 0])
         /\ UNCHANGED diagnosticsState
    ELSE scan' = [scan EXCEPT !.pc = "none"] /\ diagnosticsState' = "done"

NextPart ==
    IF scan.part < Len(Parts)
    THEN /\ Exchange([scan EXCEPT !.pc = "count", !.part = @ + 1, !.n = 0])
         /\ UNCHANGED diagnosticsState
    ELSE scan' = [scan EXCEPT !.pc = "none"] /\ diagnosticsState' = "done"

Report(status, count) == [status |-> status, count |-> count, issues |-> 0, lost |-> FALSE, session |-> scan.session]

\* The answer to GET_ISSUE_COUNT.
CountAnswered(count) ==
    /\ scan.pc = "count" /\ found' = [found EXCEPT ![Parts[scan.part]] = Report("ok", count)]
    /\ IF count = 0 THEN NextPart
       ELSE Exchange([scan EXCEPT !.pc = "read", !.n = 0, !.count = count]) /\ UNCHANGED diagnosticsState
    /\ UNCHANGED <<pc, globals, sweepFullyLoaded, locals, dialog, display, writeLab, session>>

\* None, or one that is declined.
CountFailed ==
    /\ scan.pc = "count" /\ NextPart
    /\ found' = [found EXCEPT ![Parts[scan.part]] = Report("failed", 0)]
    /\ UNCHANGED <<pc, globals, sweepFullyLoaded, locals, dialog, display, writeLab, session>>

\* The entry of the part is gone when the page has moved on.
Amend(r) == found' = [found EXCEPT ![Parts[scan.part]] = IF @ = None THEN @ ELSE r]

Current == found[Parts[scan.part]]

\* Mutant: one issue more is read than was counted.
AllAndOne == scan.n >= scan.count

AllRead == scan.n + 1 >= scan.count

\* The answer to READ_ISSUE_BY_NUMBER, with an issue or with another return value.
IssueRead(issue) ==
    /\ scan.pc = "read"
    /\ Amend(IF issue THEN [Current EXCEPT !.issues = @ + 1] ELSE [Current EXCEPT !.lost = TRUE])
    /\ IF AllRead THEN NextPart
       ELSE Exchange([scan EXCEPT !.n = @ + 1]) /\ UNCHANGED diagnosticsState
    /\ UNCHANGED <<pc, globals, sweepFullyLoaded, locals, dialog, display, writeLab, session>>

\* Mutant: the component is counted again.
ListStartedOver ==
    /\ scan.pc = "read" /\ Amend([Current EXCEPT !.lost = TRUE])
    /\ Exchange([scan EXCEPT !.pc = "count"]) /\ UNCHANGED diagnosticsState
    /\ UNCHANGED <<pc, globals, sweepFullyLoaded, locals, dialog, display, writeLab, session>>

\* No answer, a decline, or DOES_NOT_EXIST: the rest of the list is left out.
ListBroken ==
    /\ scan.pc = "read" /\ Amend([Current EXCEPT !.lost = TRUE]) /\ NextPart
    /\ UNCHANGED <<pc, globals, sweepFullyLoaded, locals, dialog, display, writeLab, session>>

\* No try block: the state stays "scanning".
ScanThrows ==
    /\ scan.pc # "none" /\ scan' = [scan EXCEPT !.pc = "none", !.threw = TRUE]
    /\ UNCHANGED <<pc, globals, sweepFullyLoaded, locals, dialog, display, diagnosticsState, found, writeLab, session>>

ScanStep ==
    \/ \E count \in 0..MaxIssues : CountAnswered(count)
    \/ \E issue \in BOOLEAN : IssueRead(issue)
    \/ CountFailed \/ ListBroken \/ ScanThrows

(***************************************************************************)
(* The Write Lab: a write with its re-read, which catches what it meets,   *)
(* or a call, which does not.                                              *)
(***************************************************************************)
StartLab ==
    /\ phase = "connected" /\ dialog = "none" /\ lab = "none"
    /\ writeLabState # "pending" /\ sweepFullyLoaded /\ transport
    /\ writeLabState' = "pending" /\ lab' \in {"writing", "calling"}
    /\ UNCHANGED <<pc, globals, sweepFullyLoaded, locals, dialog, display, diagnostics, session>>

\* Mutant: a write that failed is left to the next click.
LabAnsweredOnly ==
    /\ lab \in {"writing", "calling"}
    /\ writeLabState' \in {"done", "pending"} /\ lab' = "rereading"
    /\ UNCHANGED <<pc, globals, sweepFullyLoaded, locals, dialog, display, diagnostics, session>>

LabAnswered ==
    /\ lab \in {"writing", "calling"}
    /\ writeLabState' \in {"done", "failed"} /\ lab' = "rereading"
    /\ UNCHANGED <<pc, globals, sweepFullyLoaded, locals, dialog, display, diagnostics, session>>

\* Nothing resets the state: it is "pending" for the rest of the page.
CallThrows ==
    /\ lab = "calling" /\ lab' = "none"
    /\ UNCHANGED <<pc, globals, sweepFullyLoaded, locals, dialog, display, diagnostics, writeLabState, session>>

LabDone ==
    /\ lab = "rereading" /\ lab' = "none"
    /\ UNCHANGED <<pc, globals, sweepFullyLoaded, locals, dialog, display, diagnostics, writeLabState, session>>

LabStep == LabAnswered \/ CallThrows \/ LabDone

(***************************************************************************)
(* A transfer of either may be stuck, with nothing that ends its wait; the *)
(* browser rejects it when the device is gone.  The write and the re-reads *)
(* catch that, the scan and the call do not.                               *)
(***************************************************************************)
ScanRuns == "scan" \notin hung /\ ScanStep /\ UNCHANGED hung

LabRuns == "lab" \notin hung /\ LabStep /\ UNCHANGED hung

Hang(coroutine) ==
    /\ transport /\ coroutine \notin hung /\ hung' = hung \cup {coroutine}
    /\ UNCHANGED <<pc, globals, sweepFullyLoaded, locals, dialog, display, diagnostics, writeLab, session>>

Sticking == (scan.pc # "none" /\ Hang("scan")) \/ (lab # "none" /\ Hang("lab"))

ScanRejected == "scan" \in hung /\ ~transport /\ ScanThrows /\ hung' = hung \ {"scan"}

LabRejected ==
    /\ "lab" \in hung /\ ~transport /\ hung' = hung \ {"lab"}
    /\ \/ lab = "writing" /\ LabAnswered
       \/ CallThrows \/ LabDone

Dialogs ==
    \/ Connect \/ ReadAgain \/ PickerCancelled
    \/ OpenFile \/ NotLoaded \/ Loaded

\* None of them comes between two awaits of the sweep that runs.
PageNext ==
    /\ \/ SweepGoesOn /\ UNCHANGED hung
       \/ Awaiting /\ Picked /\ UNCHANGED hung
       \/ Awaiting /\ (\E k \in DOMAIN asleep : Resume(k)) /\ UNCHANGED hung
       \/ (Drops \/ Clicks) /\ UNCHANGED <<sweeps, hung>>
       \/ Awaiting /\ (Dialogs \/ StartScan \/ StartLab) /\ UNCHANGED <<sweeps, hung>>
       \/ Awaiting /\ (ScanRuns \/ LabRuns \/ Sticking \/ ScanRejected \/ LabRejected) /\ UNCHANGED sweeps
    /\ UNCHANGED stuck

PageSpec == PageInit /\ [][PageNext]_<<vars, pageVars>>

\* The awaits of the scan and the Write Lab settle but for a stuck one, of which
\* nothing is assumed while the device is there.  Of the awaits of a sweep
\* nothing is assumed at all, only that it does not stop between two.
PageFairSpec ==
    /\ PageSpec /\ WF_<<vars, pageVars>>(~Awaiting /\ SweepGoesOn /\ UNCHANGED <<hung, stuck>>)
    /\ WF_<<vars, pageVars>>(Awaiting /\ (ScanRuns \/ ScanRejected) /\ UNCHANGED <<sweeps, stuck>>)
    /\ WF_<<vars, pageVars>>(Awaiting /\ (LabRuns \/ LabRejected) /\ UNCHANGED <<sweeps, stuck>>)

-----------------------------------------------------------------------------
Sessions == 0..(MaxSessions + 1)
Reports == [status : {"ok", "failed"}, count : 0..MaxIssues, issues : 0..MaxIssues,
            lost : BOOLEAN, session : Sessions]

PageTypeOK ==
    /\ TypeOK /\ hung \subseteq {"scan", "lab"} /\ overlap \in {"none", "elder", "unlocked"}
    /\ asleep \in Seq({asleep[k] : k \in DOMAIN asleep}) /\ Len(asleep) <= session
    /\ dialog \in {"none", "picker", "file"} /\ shown \in {"none", "sweep", "file"}
    /\ label \in {"not connected", "reading", "connected", "disconnected", "loaded from file"}
    /\ loadedFromFile \in BOOLEAN /\ excused \in BOOLEAN /\ session \in Sessions
    /\ diagnosticsState \in {"none", "scanning", "done"}
    /\ \A p \in DOMAIN found :
         found[p] = None \/ (found[p] \in Reports /\ found[p].issues <= found[p].count)
    /\ scan.pc \in {"none", "count", "read"} /\ scan.part \in 0..Len(Parts)
    /\ scan.n \in 0..MaxIssues /\ scan.count \in 0..MaxIssues /\ scan.threw \in BOOLEAN
    /\ writeLabState \in {"idle", "pending", "done", "failed"}
    /\ lab \in {"none", "writing", "calling", "rereading"}

(***************************************************************************)
(* The status line tells the truth: it says connected only while there is  *)
(* a connection, and names a file only over the results of one.  The three *)
(* known exceptions: Read again closes the connection before its picker    *)
(* and does not take that back when it is cancelled; a priority batch that *)
(* ends after the bike was lost is shown as connected; and a sweep that    *)
(* was still under way publishes over a loaded file.                       *)
(***************************************************************************)
LabelIsTrue ==
    \/ excused \/ dialog = "picker"
    \/ /\ label = "connected" => transport
       /\ label = "loaded from file" => shown = "file"

(***************************************************************************)
(* "Write-experiment buttons stay disabled the whole time" from the start  *)
(* of a sweep to its end: no experiment and no scan shares a connection    *)
(* with a sweep.  It is not so when the device was picked while an earlier *)
(* sweep had not returned: the first of the two to end unlocks them.       *)
(***************************************************************************)
ExperimentsWait ==
    (scan.pc # "none" \/ lab # "none") /\ transport => AllReturned \/ overlap = "unlocked"

(***************************************************************************)
(* A scan that the page has moved on from leaves at most one result under  *)
(* the session that follows.                                               *)
(***************************************************************************)
OneStaleReport ==
    Cardinality({p \in DOMAIN found : found[p] # None /\ found[p].session # session}) <= 1

(***************************************************************************)
(* A scan that is done has a report of every component, and a list that no *)
(* answer was lost of has as many issues as the component counts.          *)
(***************************************************************************)
ScanReportsAll ==
    diagnosticsState = "done" /\ scan.session = session =>
        \A p \in DOMAIN found :
            /\ found[p] # None
            /\ found[p].status = "ok" /\ ~found[p].lost => found[p].issues = found[p].count

(***************************************************************************)
(* The scan button comes back, unless an exchange of the scan threw or its *)
(* transfer is stuck on a device that is still there.                      *)
(***************************************************************************)
ScanEnds ==
    (diagnosticsState = "scanning") ~>
        (diagnosticsState # "scanning" \/ scan.threw \/ ("scan" \in hung /\ transport))

(***************************************************************************)
(* A write of the Write Lab shows an outcome, bike or no bike, unless its  *)
(* transfer is stuck on a device that is still there.                      *)
(***************************************************************************)
WriteSettles ==
    (lab = "writing") ~>
        ((lab = "none" /\ writeLabState # "pending") \/ ("lab" \in hung /\ transport))
=============================================================================
