-------------------------------- MODULE Sweep --------------------------------
(***************************************************************************)
(* One full read of the bike: runSweep of web/app.js from the moment the   *)
(* picker returned a device, with the Cancel and Disconnect buttons and    *)
(* the disconnect event.  Events come only while the sweep awaits: the     *)
(* steps between two awaits (pc "loop", "end", "finish") are not           *)
(* interrupted.  A read is two steps, its start and its outcome; Exchange  *)
(* models what happens in between.                                         *)
(***************************************************************************)
EXTENDS Integers, Sequences, FiniteSets

CONSTANTS
    Entries,        \* the readable addresses in read order, priority ones first:
                    \* records [component, priority]
    Core,           \* CORE_COMPONENTS, exempt from the absent-component skip
    AbsentAfter,    \* failures that mark a component absent: 3 in the code
    WarmUps,        \* warm-up reads: 8 in the code
    Throws          \* the awaits at which a transport call may throw

Components == {Entries[i].component : i \in DOMAIN Entries}

ASSUME EntriesAssumption ==
    /\ Entries \in Seq({Entries[i] : i \in DOMAIN Entries})
    /\ \A i \in DOMAIN Entries : Entries[i].priority \in BOOLEAN
    /\ \A i, j \in DOMAIN Entries : i < j /\ Entries[j].priority => Entries[i].priority
ASSUME LimitsAssumption == AbsentAfter \in Nat /\ WarmUps \in Nat \ {0}
ASSUME ThrowsAssumption == Throws \subseteq {"warmup", "reading"}

PriorityCount == Cardinality({i \in DOMAIN Entries : Entries[i].priority})

\* Of the registry: behind the priority batch, or at its end, and before the
\* last address of all, there is one that is always read, or that is skipped
\* only if the last one is skipped too.
ASSUME RegistryAssumption ==
    \E i \in DOMAIN Entries :
        /\ PriorityCount <= i /\ i < Len(Entries)
        /\ Entries[i].component \in Core \cup {Entries[Len(Entries)].component}

VARIABLES
    pc,             \* where runSweep is
    phase,          \* idle | connecting | connected
    transport,      \* TRUE while `transport` is not null
    abortRequested,
    disconnectedAfterRead,
    sweepFullyLoaded,
    warm,           \* warm-up reads done
    stats,          \* compStats: values read and failures per component
    results,        \* the statuses of the entries read so far
    revealed,       \* the dashboard is shown, the rest is read behind it
    aborted,        \* the loop was left by Cancel
    modeStats,      \* times readAllAssistModeStats was called
    late,           \* history: results recorded after the transport was lost
    stuck           \* the awaited transfer neither returns nor throws

vars == <<pc, phase, transport, abortRequested, disconnectedAfterRead, sweepFullyLoaded,
          warm, stats, results, revealed, aborted, modeStats, late, stuck>>

globals == <<phase, transport, abortRequested, disconnectedAfterRead>>
locals == <<warm, stats, results, revealed, aborted, modeStats, late>>

Outcomes == {"ok", "timeout", "noRoute", "declined", "error"}

NoStats == [c \in Components |-> [ok |-> 0, fails |-> 0]]

Init ==
    /\ pc = "opening" /\ phase = "connecting" /\ transport = TRUE
    /\ abortRequested = FALSE /\ disconnectedAfterRead = FALSE /\ sweepFullyLoaded = FALSE
    /\ warm = 0 /\ stats = NoStats
    /\ results = <<>> /\ revealed = FALSE /\ aborted = FALSE
    /\ modeStats = 0 /\ late = 0 /\ stuck = FALSE

GoIdle ==
    /\ phase' = "idle" /\ transport' = FALSE
    /\ abortRequested' = FALSE /\ disconnectedAfterRead' = FALSE

\* Only a connected session keeps its dashboard.
HandleDisconnect ==
    CASE phase = "idle" -> UNCHANGED globals
      [] phase = "connected" -> /\ transport' = FALSE /\ disconnectedAfterRead' = TRUE
                                /\ UNCHANGED <<phase, abortRequested>>
      [] OTHER -> GoIdle

Opened ==
    /\ pc = "opening" /\ pc' = "warmup"
    /\ UNCHANGED <<globals, sweepFullyLoaded, locals>>

OpenFails ==
    /\ pc = "opening" /\ pc' = "returned" /\ GoIdle
    /\ UNCHANGED <<sweepFullyLoaded, locals>>

\* Up to eight reads until one answers.
WarmUp(answer) ==
    /\ pc = "warmup"
    /\ warm' = warm + 1
    /\ pc' = IF answer \/ warm' = WarmUps THEN "loop" ELSE "warmup"
    /\ UNCHANGED <<globals, sweepFullyLoaded, stats, results, revealed, aborted, modeStats, late>>

\* No try block around the warm-up: runSweep rejects where it stands.
WarmUpThrows ==
    /\ pc = "warmup"
    /\ "warmup" \in Throws \/ ~transport
    /\ pc' = "returned"
    /\ UNCHANGED <<globals, sweepFullyLoaded, locals>>

Entry == Entries[Len(results) + 1]

\* Mutant: one value read does not prove the component present.
AbsentByFailures(c) == c \notin Core /\ stats[c].fails >= AbsentAfter

Absent(c) == c \notin Core /\ stats[c].ok = 0 /\ stats[c].fails >= AbsentAfter

\* Mutant: only a disconnect that kept the dashboard ends the sweep.
GoneWithDashboard == disconnectedAfterRead

Gone == ~transport

MoreToRead == pc = "loop" /\ Len(results) < Len(Entries)

\* The two tests at the head of the loop.
StopReading ==
    /\ MoreToRead
    /\ \/ Gone /\ pc' = "returned" /\ UNCHANGED aborted
       \/ ~Gone /\ abortRequested /\ pc' = "end" /\ aborted' = TRUE
    /\ UNCHANGED <<globals, sweepFullyLoaded, warm, stats, results, revealed, modeStats, late>>

\* `continue`: neither the reveal nor the 10 ms pause is reached.
Skip ==
    /\ MoreToRead /\ ~Gone /\ ~abortRequested /\ Absent(Entry.component)
    /\ results' = Append(results, "skipped")
    /\ late' = IF transport THEN late ELSE late + 1
    /\ UNCHANGED <<pc, globals, sweepFullyLoaded, warm, stats, revealed, aborted, modeStats>>

StartRead ==
    /\ MoreToRead /\ ~Gone /\ ~abortRequested /\ ~Absent(Entry.component)
    /\ pc' = "reading"
    /\ UNCHANGED <<globals, sweepFullyLoaded, locals>>

Counted(s, outcome) ==
    CASE outcome = "ok" -> [s EXCEPT !.ok = @ + 1]
      [] outcome \in {"timeout", "noRoute"} -> [s EXCEPT !.fails = @ + 1]
      [] OTHER -> s

\* Mutant: the dashboard is shown one address early.
RevealsEarly(n) == ~revealed /\ n + 1 >= PriorityCount

Reveals(n) == ~revealed /\ n >= PriorityCount

EndRead(outcome) ==
    /\ pc = "reading"
    /\ stats' = [stats EXCEPT ![Entry.component] = Counted(@, outcome)]
    /\ results' = Append(results, outcome)
    /\ late' = IF transport THEN late ELSE late + 1
    /\ IF Reveals(Len(results'))
       THEN /\ revealed' = TRUE /\ phase' = "connected"
            /\ IF transport THEN pc' = "modeStats" /\ modeStats' = modeStats + 1
               ELSE pc' = "sleep" /\ UNCHANGED modeStats
       ELSE pc' = "sleep" /\ UNCHANGED <<revealed, phase, modeStats>>
    /\ UNCHANGED <<transport, abortRequested, disconnectedAfterRead, sweepFullyLoaded, warm, aborted>>

\* The read throws an error that names a disconnect.
ReadFindsBikeGone ==
    /\ pc = "reading" /\ "reading" \in Throws
    /\ pc' = "returned" /\ HandleDisconnect
    /\ UNCHANGED <<sweepFullyLoaded, locals>>

\* readAllAssistModeStats and the 10 ms pause end, whatever they met.
ModeStatsRead ==
    /\ pc = "modeStats" /\ pc' = IF revealed THEN "sleep" ELSE "finish"
    /\ UNCHANGED <<globals, sweepFullyLoaded, locals>>

Slept ==
    /\ pc = "sleep" /\ pc' = "loop"
    /\ UNCHANGED <<globals, sweepFullyLoaded, locals>>

LoopDone ==
    /\ pc = "loop" /\ Len(results) = Len(Entries) /\ pc' = "end"
    /\ UNCHANGED <<globals, sweepFullyLoaded, locals>>

\* Mutant: per-mode statistics are only read at the reveal.
AfterLoopNoFallback ==
    /\ pc = "end" /\ pc' = "finish"
    /\ phase' = "connected"
    /\ UNCHANGED <<transport, abortRequested, disconnectedAfterRead, sweepFullyLoaded, locals>>

\* Mutant: nothing is revealed after the loop.
AfterLoopHidden ==
    /\ pc = "end" /\ pc' = "finish"
    /\ UNCHANGED <<globals, sweepFullyLoaded, locals>>

\* The code after the loop: reveal what there is, fall back to reading the
\* per-mode statistics here, and declare the sweep loaded.
AfterLoop ==
    /\ pc = "end"
    /\ phase' = IF revealed THEN phase ELSE "connected"
    /\ IF ~revealed /\ ~aborted /\ transport
       THEN pc' = "modeStats" /\ modeStats' = modeStats + 1
       ELSE pc' = "finish" /\ UNCHANGED modeStats
    /\ UNCHANGED <<transport, abortRequested, disconnectedAfterRead, sweepFullyLoaded,
                   warm, stats, results, revealed, aborted, late>>

Finish ==
    /\ pc = "finish" /\ pc' = "returned"
    /\ sweepFullyLoaded' = TRUE
    /\ UNCHANGED <<globals, locals>>

(***************************************************************************)
(* The user and the disconnect event, whenever the sweep awaits.           *)
(***************************************************************************)
Awaiting == pc \in {"opening", "warmup", "reading", "modeStats", "sleep", "returned"}

Cancel ==
    /\ Awaiting /\ phase = "connecting" /\ abortRequested' = TRUE
    /\ UNCHANGED <<pc, phase, transport, disconnectedAfterRead, sweepFullyLoaded, locals>>

\* The button is hidden once the bike has dropped off (renderPhase).
DisconnectShown == phase = "connected" /\ ~disconnectedAfterRead

ClickDisconnect ==
    /\ Awaiting /\ DisconnectShown /\ GoIdle
    /\ UNCHANGED <<pc, sweepFullyLoaded, locals>>

BikeDisconnects ==
    /\ Awaiting /\ phase # "idle" /\ HandleDisconnect
    /\ UNCHANGED <<pc, sweepFullyLoaded, locals>>

SweepStep ==
    \/ Opened \/ OpenFails
    \/ \E answer \in BOOLEAN : WarmUp(answer)
    \/ WarmUpThrows
    \/ StopReading \/ Skip \/ StartRead
    \/ \E outcome \in Outcomes : EndRead(outcome)
    \/ ReadFindsBikeGone \/ ModeStatsRead \/ Slept \/ LoopDone \/ AfterLoop \/ Finish

(***************************************************************************)
(* "A single stuck low-level USB transfer has no timeout of its own", and  *)
(* no button ends its wait: Cancel is noticed at the next loop head.  The  *)
(* browser rejects it when the device is gone, and the await throws.       *)
(***************************************************************************)
Runs == ~stuck /\ SweepStep /\ UNCHANGED stuck

Sticks ==
    /\ ~stuck /\ transport /\ pc \in {"opening", "warmup", "reading", "modeStats"}
    /\ stuck' = TRUE
    /\ UNCHANGED <<pc, globals, sweepFullyLoaded, locals>>

Rejected ==
    /\ stuck /\ ~transport /\ stuck' = FALSE
    /\ OpenFails \/ WarmUpThrows \/ EndRead("error") \/ ReadFindsBikeGone \/ ModeStatsRead

Next ==
    \/ Runs \/ Sticks \/ Rejected
    \/ (Cancel \/ ClickDisconnect \/ BikeDisconnects) /\ UNCHANGED stuck

Spec == Init /\ [][Next]_vars

\* Every await of the sweep settles but a stuck one, of which nothing is
\* assumed as long as the device is there.
FairSpec == Spec /\ WF_vars(Runs) /\ WF_vars(Rejected)

-----------------------------------------------------------------------------
VarsTyped ==
    /\ pc \in {"opening", "warmup", "loop", "reading", "modeStats", "sleep", "end", "finish", "returned"}
    /\ phase \in {"idle", "connecting", "connected"}
    /\ transport \in BOOLEAN /\ abortRequested \in BOOLEAN /\ disconnectedAfterRead \in BOOLEAN
    /\ sweepFullyLoaded \in BOOLEAN /\ revealed \in BOOLEAN /\ aborted \in BOOLEAN
    /\ warm \in 0..WarmUps /\ modeStats \in Nat /\ late \in Nat
    /\ \A c \in Components : stats[c].ok \in Nat /\ stats[c].fails \in Nat
    /\ results \in Seq(Outcomes \cup {"skipped"}) /\ Len(results) <= Len(Entries)

TypeOK == VarsTyped /\ stuck \in BOOLEAN

Indices(c, statuses) ==
    {i \in DOMAIN results : Entries[i].component = c /\ results[i] \in statuses}

(***************************************************************************)
(* The absent-component skip never hides a component that gave a value,    *)
(* whenever it gave it, nor a core component, and it takes at least three  *)
(* timeouts or missing routes.                                             *)
(***************************************************************************)
SkippedGaveNothing ==
    \A c \in Components : \A i \in Indices(c, {"skipped"}) :
        /\ c \notin Core
        /\ Indices(c, {"ok"}) = {}
        /\ Cardinality({j \in Indices(c, {"timeout", "noRoute"}) : j < i}) >= AbsentAfter

(***************************************************************************)
(* The dashboard appears only when every address it shows has a result, or *)
(* Cancel asked for what there is.                                         *)
(***************************************************************************)
DashboardIsComplete ==
    phase = "connected" => aborted \/ \A i \in DOMAIN Entries : Entries[i].priority => i \in DOMAIN results

(***************************************************************************)
(* A sweep that was not cancelled unlocks the write experiments only after *)
(* every address has a result and the per-mode statistics were read, once, *)
(* whichever of the two places reads them.                                 *)
(***************************************************************************)
LoadedMeansRead ==
    sweepFullyLoaded /\ ~aborted => Len(results) = Len(Entries) /\ modeStats = 1

(***************************************************************************)
(* A sweep whose transport is gone records the read that was in flight and *)
(* nothing after it: the loop head is where "disconnected mid-sweep" is    *)
(* noticed, whichever of the two kinds of disconnect it was.               *)
(***************************************************************************)
OneLateResult == late <= 1

(***************************************************************************)
(* The connecting screen does not stay up "with no way forward", unless a  *)
(* transfer is stuck on a device that is still there: then the user has to *)
(* unplug it (behind the warm-up the screen says "try reconnecting").      *)
(***************************************************************************)
ConnectingEnds == (phase = "connecting") ~> (phase # "connecting" \/ (stuck /\ transport))
=============================================================================
