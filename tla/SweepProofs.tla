---------------------------- MODULE SweepProofs ----------------------------
(***************************************************************************)
(* Theorems about Sweep, for any registry that meets its assumptions, any  *)
(* set of core components and any number of failures that make one absent. *)
(***************************************************************************)
EXTENDS Sweep, FiniteSetTheorems, TLAPS

N == Len(Entries)
Read == Len(results)
Failures == {"timeout", "noRoute"}
Statuses == Outcomes \cup {"skipped"}

(* The statistics of a component count its results so far.                 *)
FailsBefore(c, i) == {j \in Indices(c, Failures) : j < i}

Tallied ==
    \A c \in Components :
        /\ stats[c].ok = 0 => Indices(c, {"ok"}) = {}
        /\ stats[c].fails = Cardinality(Indices(c, Failures))

(* A component that was skipped once stays absent, because nothing of it   *)
(* is read any more.                                                       *)
SkipsJustified ==
    \A i \in DOMAIN results : results[i] = "skipped" =>
        /\ Absent(Entries[i].component)
        /\ Cardinality(FailsBefore(Entries[i].component, i)) >= AbsentAfter

ReadsPresent == pc = "reading" => Read < N /\ ~Absent(Entry.component)

Shape ==
    /\ VarsTyped /\ stats \in [Components -> [ok : Nat, fails : Nat]]
    /\ pc \in {"opening", "warmup"} => warm < WarmUps

Tally == Shape /\ Tallied /\ SkipsJustified /\ ReadsPresent

(* A read is started with a transport, so only the first result after its  *)
(* loss is late.                                                           *)
LateOnce == (transport => late = 0) /\ (pc = "reading" => late = 0) /\ late \in {0, 1}

(* The steps that leave the sweep where it is, but for a stuck transfer.   *)
Idles == UNCHANGED <<pc, globals, sweepFullyLoaded, locals>>

Acts == SweepStep \/ Cancel \/ ClickDisconnect \/ BikeDisconnects \/ Idles

LEMMA StepActs == [Next]_vars => Acts
<1> SUFFICES ASSUME [Next]_vars PROVE Acts
  OBVIOUS
<1>1. CASE UNCHANGED vars
  BY <1>1 DEF vars, Acts, Idles, globals, locals
<1>2. CASE Rejected
  <2>1. "error" \in Outcomes
    BY DEF Outcomes
  <2> QED BY <1>2, <2>1 DEF Rejected, Acts, SweepStep
<1>3. CASE Sticks
  BY <1>3 DEF Sticks, Acts, Idles
<1> QED BY <1>1, <1>2, <1>3 DEF Next, Runs, Acts

-----------------------------------------------------------------------------
LEMMA EntriesTyped == N \in Nat /\ DOMAIN Entries = 1..N /\ \A i \in 1..N : Entries[i].component \in Components
BY EntriesAssumption DEF N, Components

(* The priority addresses are the first PriorityCount ones.                *)
LEMMA PriorityFirst ==
    /\ PriorityCount \in Nat /\ PriorityCount <= N
    /\ \A i \in 1..N : Entries[i].priority => i <= PriorityCount
<1> DEFINE P == {i \in DOMAIN Entries : Entries[i].priority}
<1>1. IsFiniteSet(1..N) /\ Cardinality(1..N) = N /\ P \in SUBSET (1..N)
  <2>1. IsFiniteSet(1..N) /\ Cardinality(1..N) = N
    BY EntriesTyped, FS_Interval
  <2> QED BY <2>1, EntriesTyped
<1>2. IsFiniteSet(P) /\ Cardinality(P) <= N /\ Cardinality(P) \in Nat
  BY <1>1, FS_Subset, FS_CardinalityType
<1>3. ASSUME NEW i \in 1..N, Entries[i].priority
      PROVE  i <= Cardinality(P)
  <2>1. \A j \in 1..i : Entries[j].priority
    BY <1>3, EntriesTyped, EntriesAssumption
  <2>2. 1..i \in SUBSET P
    BY <2>1, EntriesTyped
  <2>3. Cardinality(1..i) = i
    BY FS_Interval
  <2>4. i <= Cardinality(P)
    BY <1>2, <2>2, <2>3, FS_Subset
  <2> QED BY <2>4
<1> QED BY <1>2, <1>3 DEF PriorityCount

(* Recording one more result.                                              *)
Records(o) == results' = Append(results, o)

LEMMA RecordedResult ==
    ASSUME Shape, Read < N, NEW o \in Statuses, Records(o)
    PROVE  /\ results' \in Seq(Statuses) /\ Len(results') = Read + 1 /\ Len(results') <= N
           /\ DOMAIN results' = 1..(Read + 1) /\ DOMAIN results = 1..Read /\ Read \in Nat
           /\ \A i \in 1..Read : results'[i] = results[i]
           /\ results'[Read + 1] = o
BY EntriesTyped DEF Shape, VarsTyped, Records, Read, N, Statuses, Outcomes

LEMMA RecordedIndices ==
    ASSUME Shape, Read < N, NEW o \in Statuses, Records(o), NEW c, NEW S
    PROVE  /\ Indices(c, S)' = IF o \in S /\ Entry.component = c
                               THEN Indices(c, S) \cup {Read + 1} ELSE Indices(c, S)
           /\ Read + 1 \notin Indices(c, S)
           /\ IsFiniteSet(Indices(c, S)) /\ Cardinality(Indices(c, S)) \in Nat
<1>1. /\ DOMAIN results' = 1..(Read + 1) /\ DOMAIN results = 1..Read /\ Read \in Nat
      /\ \A i \in 1..Read : results'[i] = results[i]
      /\ results'[Read + 1] = o
  BY RecordedResult
<1>2. Indices(c, S) \in SUBSET (1..Read)
  BY <1>1 DEF Indices
<1>3. IsFiniteSet(Indices(c, S)) /\ Cardinality(Indices(c, S)) \in Nat
  <2>1. IsFiniteSet(1..Read)
    BY <1>1, FS_Interval
  <2>2. IsFiniteSet(Indices(c, S))
    BY <1>2, <2>1, FS_Subset
  <2> QED BY <2>2, FS_CardinalityType
<1>4. Indices(c, S)' = {i \in 1..(Read + 1) : Entries[i].component = c /\ results'[i] \in S}
  BY <1>1 DEF Indices
<1>5. Indices(c, S) = {i \in 1..Read : Entries[i].component = c /\ results[i] \in S}
  BY <1>1 DEF Indices
<1>6. Entry = Entries[Read + 1]
  BY DEF Entry, Read
<1> QED BY <1>1, <1>2, <1>3, <1>4, <1>5, <1>6

GlobalsTyped ==
    /\ phase \in {"idle", "connecting", "connected"}
    /\ transport \in BOOLEAN /\ abortRequested \in BOOLEAN /\ disconnectedAfterRead \in BOOLEAN

(* A sweep that has read nothing yet.                                      *)
Fresh ==
    /\ pc \in {"opening", "returned"} /\ GlobalsTyped /\ sweepFullyLoaded \in BOOLEAN
    /\ warm = 0 /\ stats = NoStats /\ results = <<>> /\ revealed = FALSE /\ aborted = FALSE
    /\ modeStats = 0 /\ late = 0

LEMMA FreshTally == Fresh => Tally
<1> SUFFICES ASSUME Fresh PROVE Tally
  OBVIOUS
<1>1. Shape
  <2>1. stats \in [Components -> [ok : Nat, fails : Nat]]
    BY DEF Fresh, NoStats
  <2>2. results \in Seq(Outcomes \cup {"skipped"}) /\ Len(results) <= Len(Entries)
    BY EntriesTyped DEF Fresh, N
  <2>3. warm \in 0..WarmUps /\ modeStats \in Nat /\ late \in Nat
    BY LimitsAssumption DEF Fresh
  <2>4. /\ transport \in BOOLEAN /\ abortRequested \in BOOLEAN /\ disconnectedAfterRead \in BOOLEAN
        /\ sweepFullyLoaded \in BOOLEAN /\ revealed \in BOOLEAN /\ aborted \in BOOLEAN
    BY DEF Fresh, GlobalsTyped
  <2>5. warm < WarmUps
    BY LimitsAssumption DEF Fresh
  <2> QED BY <2>1, <2>2, <2>3, <2>4, <2>5 DEF Fresh, GlobalsTyped, Shape, VarsTyped
<1>2. \A c, S : Indices(c, S) = {}
  BY DEF Fresh, Indices
<1>3. Tallied
  BY <1>2, FS_EmptySet DEF Fresh, Tallied, NoStats
<1>4. SkipsJustified /\ ReadsPresent
  BY DEF Fresh, SkipsJustified, ReadsPresent
<1> QED BY <1>1, <1>3, <1>4 DEF Tally

LEMMA InitTally == Init => Tally
BY FreshTally DEF Init, Fresh, GlobalsTyped

(* A step that records nothing.                                            *)
LEMMA KeepTally ==
    ASSUME Tally, UNCHANGED <<stats, results>>
    PROVE  Tallied' /\ SkipsJustified'
<1>1. \A c, S : Indices(c, S)' = Indices(c, S)
  BY DEF Indices
<1>2. \A c : Absent(c)' = Absent(c)
  BY DEF Absent
<1>3. \A c, i : FailsBefore(c, i)' = FailsBefore(c, i)
  BY <1>1 DEF FailsBefore
<1>4. Tallied'
  BY <1>1 DEF Tally, Tallied
<1> QED BY <1>2, <1>3, <1>4 DEF Tally, SkipsJustified

(* Recording a result keeps what was said of the earlier ones.             *)
LEMMA KeepFailsBefore ==
    ASSUME Shape, Read < N, NEW o \in Statuses, Records(o), NEW i \in 1..(Read + 1), NEW c
    PROVE  FailsBefore(c, i)' = FailsBefore(c, i)
<1>1. Read + 1 \notin {j \in Indices(c, Failures)' : j < i}
  BY RecordedResult
<1>2. \A j : j \in Indices(c, Failures)' /\ j # Read + 1 <=> j \in Indices(c, Failures)
  BY RecordedIndices
<1> QED BY <1>1, <1>2 DEF FailsBefore

LEMMA SkipTally == Tally /\ Skip => Tally'
<1> SUFFICES ASSUME Tally, Skip PROVE Tally'
  OBVIOUS
<1>1. /\ Shape /\ Read < N /\ Records("skipped") /\ "skipped" \in Statuses
      /\ UNCHANGED <<pc, stats, transport>> /\ transport = TRUE /\ pc = "loop"
      /\ Absent(Entry.component)
  <2>1. Shape /\ transport = TRUE
    BY DEF Tally, Skip, Gone, Shape, VarsTyped
  <2> QED BY <2>1 DEF Skip, MoreToRead, Records, Read, N, Statuses, globals
<1>2. /\ results' \in Seq(Statuses) /\ Len(results') <= N /\ DOMAIN results' = 1..(Read + 1)
      /\ DOMAIN results = 1..Read /\ Read \in Nat /\ \A i \in 1..Read : results'[i] = results[i]
      /\ results'[Read + 1] = "skipped"
  BY <1>1, RecordedResult
<1>3. \A c : Indices(c, Failures)' = Indices(c, Failures) /\ Indices(c, {"ok"})' = Indices(c, {"ok"})
  BY <1>1, RecordedIndices DEF Failures
<1>4. \A c : Absent(c)' = Absent(c)
  BY <1>1 DEF Absent
<1>5. Tallied'
  BY <1>1, <1>3 DEF Tally, Tallied
<1>6. Entry = Entries[Read + 1] /\ Entry.component \in Components
  BY <1>1, <1>2, EntriesTyped DEF Entry, Read
<1>7. SkipsJustified'
  <2>1. ASSUME NEW i \in 1..(Read + 1), results'[i] = "skipped"
        PROVE  /\ Absent(Entries[i].component)'
               /\ Cardinality(FailsBefore(Entries[i].component, i)') >= AbsentAfter
    <3>1. FailsBefore(Entries[i].component, i)' = FailsBefore(Entries[i].component, i)
      BY <1>1, KeepFailsBefore
    <3>2. CASE i \in 1..Read
      BY <1>2, <1>4, <2>1, <3>1, <3>2 DEF Tally, SkipsJustified
    <3>3. CASE i = Read + 1
      <4>1. FailsBefore(Entry.component, i) = Indices(Entry.component, Failures)
        BY <1>2, <3>3 DEF FailsBefore, Indices
      <4>2. stats[Entry.component].fails >= AbsentAfter
        BY <1>1 DEF Absent
      <4> QED BY <1>1, <1>4, <1>6, <3>1, <3>3, <4>1, <4>2 DEF Tally, Tallied
    <3> QED BY <1>2, <3>2, <3>3
  <2> QED BY <1>2, <2>1 DEF SkipsJustified
<1>8. Shape' /\ ReadsPresent'
  <2>1. late' = late
    BY <1>1 DEF Skip
  <2>2. ReadsPresent'
    BY <1>1, <2>1 DEF Tally, ReadsPresent
  <2>3. Shape'
    BY <1>1, <1>2, <2>1 DEF Shape, VarsTyped, Skip, Statuses, globals, N
  <2> QED BY <2>2, <2>3
<1> QED BY <1>5, <1>7, <1>8 DEF Tally

(* What EndRead does, whether or not it shows the dashboard.               *)
LEMMA EndReadFacts ==
    ASSUME Tally, NEW outcome \in Outcomes, EndRead(outcome)
    PROVE  /\ Shape /\ Read < N /\ Records(outcome) /\ outcome \in Statuses /\ pc = "reading"
           /\ stats' = [stats EXCEPT ![Entry.component] = Counted(@, outcome)]
           /\ late' = IF transport THEN late ELSE late + 1
           /\ ~Absent(Entry.component) /\ Entry = Entries[Read + 1] /\ Entry.component \in Components
           /\ UNCHANGED <<transport, abortRequested, disconnectedAfterRead, sweepFullyLoaded, warm, aborted>>
           /\ IF Reveals(Len(results'))
              THEN /\ revealed' = TRUE /\ phase' = "connected"
                   /\ IF transport THEN pc' = "modeStats" /\ modeStats' = modeStats + 1
                      ELSE pc' = "sleep" /\ UNCHANGED modeStats
              ELSE pc' = "sleep" /\ UNCHANGED <<revealed, phase, modeStats>>
<1>1. Shape /\ Read < N /\ ~Absent(Entry.component) /\ pc = "reading"
  BY DEF Tally, ReadsPresent, EndRead
<1>2. Entry = Entries[Read + 1] /\ Entry.component \in Components
  <2>1. Read \in Nat
    BY <1>1 DEF Shape, VarsTyped, Read
  <2> QED BY <1>1, <2>1, EntriesTyped DEF Entry, Read
<1> QED BY <1>1, <1>2 DEF EndRead, Records, Statuses

LEMMA EndReadTally ==
    ASSUME Tally, NEW outcome \in Outcomes, EndRead(outcome)
    PROVE  Tally'
<1>1. /\ Shape /\ Read < N /\ Records(outcome) /\ outcome \in Statuses /\ pc = "reading"
      /\ stats' = [stats EXCEPT ![Entry.component] = Counted(@, outcome)]
      /\ late' = IF transport THEN late ELSE late + 1
      /\ ~Absent(Entry.component) /\ Entry = Entries[Read + 1] /\ Entry.component \in Components
      /\ transport' = transport
  BY EndReadFacts
<1>2. /\ results' \in Seq(Statuses) /\ Len(results') <= N /\ DOMAIN results' = 1..(Read + 1)
      /\ DOMAIN results = 1..Read /\ Read \in Nat /\ \A i \in 1..Read : results'[i] = results[i]
      /\ results'[Read + 1] = outcome /\ Len(results') = Read + 1
  BY <1>1, RecordedResult
<1>3. pc' \in {"modeStats", "sleep"} /\ modeStats' \in Nat /\ revealed' \in BOOLEAN
      /\ phase' \in {"idle", "connecting", "connected"}
  <2>1. modeStats \in Nat /\ revealed \in BOOLEAN /\ phase \in {"idle", "connecting", "connected"}
    BY <1>1 DEF Shape, VarsTyped
  <2>2. CASE Reveals(Len(results'))
    <3>1. revealed' = TRUE /\ phase' = "connected"
      BY EndReadFacts, <2>2
    <3>2. pc' \in {"modeStats", "sleep"} /\ modeStats' \in {modeStats, modeStats + 1}
      BY EndReadFacts, <2>2
    <3> QED BY <2>1, <3>1, <3>2
  <2>3. CASE ~Reveals(Len(results'))
    BY EndReadFacts, <2>1, <2>3
  <2> QED BY <2>2, <2>3
<1> PICK e \in Components : e = Entry.component
  BY <1>1
<1>4. /\ stats' \in [Components -> [ok : Nat, fails : Nat]]
      /\ \A c \in Components \ {e} : stats'[c] = stats[c]
      /\ stats'[e] = Counted(stats[e], outcome)
      /\ stats[e] \in [ok : Nat, fails : Nat]
  <2>1. stats[e] \in [ok : Nat, fails : Nat]
    BY <1>1 DEF Shape
  <2>2. Counted(stats[e], outcome) \in [ok : Nat, fails : Nat]
    BY <2>1 DEF Counted
  <2> QED BY <1>1, <2>1, <2>2 DEF Shape
<1>5. Tallied'
  <2>1. ASSUME NEW c \in Components \ {e}
        PROVE  Indices(c, Failures)' = Indices(c, Failures) /\ Indices(c, {"ok"})' = Indices(c, {"ok"})
    BY <1>1, RecordedIndices
  <2>2. ASSUME NEW S, outcome \notin S
        PROVE  Indices(e, S)' = Indices(e, S)
    BY <1>1, <2>2, RecordedIndices
  <2>3. outcome \in Failures => Cardinality(Indices(e, Failures)')
                                = Cardinality(Indices(e, Failures)) + 1
    <3> SUFFICES ASSUME outcome \in Failures
                 PROVE  Cardinality(Indices(e, Failures)')
                        = Cardinality(Indices(e, Failures)) + 1
      OBVIOUS
    <3>1. /\ Indices(e, Failures)' = Indices(e, Failures) \cup {Read + 1}
          /\ Read + 1 \notin Indices(e, Failures)
          /\ IsFiniteSet(Indices(e, Failures))
      BY <1>1, RecordedIndices
    <3> QED BY <3>1, FS_AddElement
  <2>4. /\ outcome = "ok" => stats'[e].ok # 0
                             /\ stats'[e].fails = stats[e].fails
        /\ outcome \in Failures => stats'[e].ok = stats[e].ok
                             /\ stats'[e].fails = stats[e].fails + 1
        /\ outcome \notin Failures \cup {"ok"} => stats'[e] = stats[e]
    BY <1>4 DEF Counted, Failures
  <2>5. "ok" \notin Failures
    BY DEF Failures
  <2>6. stats'[e].fails = Cardinality(Indices(e, Failures)')
    <3>1. CASE outcome \in Failures
      BY <1>1, <2>3, <2>4, <3>1 DEF Tally, Tallied
    <3>2. CASE outcome \notin Failures
      BY <1>1, <2>2, <2>4, <3>2 DEF Tally, Tallied
    <3> QED BY <3>1, <3>2
  <2>7. stats'[e].ok = 0 => Indices(e, {"ok"})' = {}
    <3>1. CASE outcome = "ok"
      BY <2>4, <3>1
    <3>2. CASE outcome # "ok"
      BY <1>1, <2>2, <2>4, <3>2 DEF Tally, Tallied
    <3> QED BY <3>1, <3>2
  <2>8. \A c \in Components \ {e} :
            /\ stats'[c].ok = 0 => Indices(c, {"ok"})' = {}
            /\ stats'[c].fails = Cardinality(Indices(c, Failures)')
    BY <1>4, <2>1 DEF Tally, Tallied
  <2> QED BY <2>6, <2>7, <2>8, Zenon DEF Tallied
<1>6. SkipsJustified'
  <2>1. ASSUME NEW i \in 1..(Read + 1), results'[i] = "skipped"
        PROVE  /\ Absent(Entries[i].component)'
               /\ Cardinality(FailsBefore(Entries[i].component, i)') >= AbsentAfter
    <3>1. i \in 1..Read /\ results[i] = "skipped"
      BY <1>2, <2>1 DEF Outcomes
    <3>2. Absent(Entries[i].component) /\ Cardinality(FailsBefore(Entries[i].component, i)) >= AbsentAfter
      BY <1>2, <3>1 DEF Tally, SkipsJustified
    <3>3. Entries[i].component \in Components \ {Entry.component}
      <4>1. Read + 1 <= N
        BY <1>1, <1>2, EntriesTyped
      <4> QED BY <1>1, <1>2, <3>1, <3>2, <4>1, EntriesTyped
    <3>4. Absent(Entries[i].component)'
      BY <1>4, <3>2, <3>3 DEF Absent
    <3> QED BY <1>1, <3>2, <3>4, KeepFailsBefore
  <2> QED BY <1>2, <2>1 DEF SkipsJustified
<1>7. Shape' /\ ReadsPresent'
  <2>1. late' \in Nat
    BY <1>1 DEF Shape, VarsTyped
  <2>2. ReadsPresent'
    BY <1>3 DEF ReadsPresent
  <2> QED BY <1>1, <1>2, <1>3, <1>4, <2>1, <2>2, EndReadFacts DEF Shape, VarsTyped, Statuses, N
<1> QED BY <1>5, <1>6, <1>7 DEF Tally

(* A disconnect, of either kind, never makes a transport.                  *)
LEMMA DisconnectStep ==
    ASSUME Shape, HandleDisconnect \/ GoIdle
    PROVE  GlobalsTyped' /\ (transport' => transport)
<1>1. GlobalsTyped
  BY DEF Shape, VarsTyped, GlobalsTyped
<1>2. CASE GoIdle
  BY <1>2 DEF GoIdle, GlobalsTyped
<1>3. CASE HandleDisconnect
  <2>1. CASE phase = "idle"
    <3>1. UNCHANGED globals
      BY <1>3, <2>1 DEF HandleDisconnect
    <3> QED BY <1>1, <3>1 DEF GlobalsTyped, globals
  <2>2. CASE phase = "connected"
    <3>1. transport' = FALSE /\ disconnectedAfterRead' = TRUE /\ UNCHANGED <<phase, abortRequested>>
      BY <1>3, <2>2 DEF HandleDisconnect
    <3> QED BY <1>1, <3>1 DEF GlobalsTyped
  <2>3. CASE phase \notin {"idle", "connected"}
    <3>1. GoIdle
      BY <1>3, <2>3 DEF HandleDisconnect
    <3> QED BY <1>2, <3>1
  <2> QED BY <2>1, <2>2, <2>3
<1> QED BY <1>2, <1>3

(* The steps that neither record a result nor start a read.                *)
LEMMA SilentStep ==
    ASSUME Tally, UNCHANGED <<stats, results, late>>, GlobalsTyped',
           pc' \in {"warmup", "loop", "sleep", "modeStats", "end", "finish", "returned"} \/ pc' = pc,
           sweepFullyLoaded' \in BOOLEAN, revealed' \in BOOLEAN, aborted' \in BOOLEAN,
           warm' \in 0..WarmUps, pc' \in {"opening", "warmup"} => warm' < WarmUps,
           modeStats' \in Nat
    PROVE  Tally'
<1>1. Tallied' /\ SkipsJustified'
  BY KeepTally
<1>2. Shape'
  BY DEF Tally, Shape, VarsTyped, GlobalsTyped
<1>3. ReadsPresent'
  BY DEF Tally, ReadsPresent, Absent, Entry, Read
<1> QED BY <1>1, <1>2, <1>3 DEF Tally

LEMMA OpeningTally == Tally /\ (Opened \/ OpenFails \/ WarmUpThrows \/ \E answer \in BOOLEAN : WarmUp(answer)) => Tally'
<1> SUFFICES ASSUME Tally PROVE Opened \/ OpenFails \/ WarmUpThrows \/ (\E answer \in BOOLEAN : WarmUp(answer)) => Tally'
  OBVIOUS
<1>1. Shape /\ GlobalsTyped
  BY DEF Tally, Shape, VarsTyped, GlobalsTyped
<1>2. CASE Opened
  BY <1>1, <1>2, SilentStep DEF Opened, globals, locals, GlobalsTyped, Shape, VarsTyped
<1>3. CASE OpenFails
  BY <1>1, <1>3, SilentStep, DisconnectStep DEF OpenFails, locals, Shape, VarsTyped
<1>4. CASE WarmUpThrows
  BY <1>1, <1>4, SilentStep DEF WarmUpThrows, globals, locals, GlobalsTyped, Shape, VarsTyped
<1>5. ASSUME NEW answer \in BOOLEAN, WarmUp(answer) PROVE Tally'
  <2>1. /\ warm \in Nat /\ warm < WarmUps /\ warm' = warm + 1
        /\ pc' = "loop" \/ (pc' = "warmup" /\ warm' # WarmUps)
    BY <1>1, <1>5 DEF WarmUp, Shape, VarsTyped
  <2>2. warm' \in 0..WarmUps /\ (pc' \in {"opening", "warmup"} => warm' < WarmUps)
    BY <2>1, LimitsAssumption
  <2> QED BY <1>1, <1>5, <2>1, <2>2, SilentStep DEF WarmUp, globals, GlobalsTyped, Shape, VarsTyped
<1> QED BY <1>2, <1>3, <1>4, <1>5

LEMMA LoopTally == Tally /\ (StopReading \/ StartRead \/ LoopDone \/ ReadFindsBikeGone) => Tally'
<1> SUFFICES ASSUME Tally PROVE StopReading \/ StartRead \/ LoopDone \/ ReadFindsBikeGone => Tally'
  OBVIOUS
<1>1. Shape /\ GlobalsTyped
  BY DEF Tally, Shape, VarsTyped, GlobalsTyped
<1>2. CASE StopReading
  <2>1. aborted' \in BOOLEAN /\ pc' \in {"returned", "end"}
    BY <1>1, <1>2 DEF StopReading, Shape, VarsTyped
  <2> QED BY <1>1, <1>2, <2>1, SilentStep DEF StopReading, globals, GlobalsTyped, Shape, VarsTyped
<1>3. CASE StartRead
  <2>1. /\ UNCHANGED <<stats, results, late, globals, sweepFullyLoaded, warm, revealed, aborted, modeStats>>
        /\ pc' = "reading" /\ Read < N /\ ~Absent(Entry.component) /\ transport
    BY <1>3 DEF StartRead, MoreToRead, Gone, locals, Read, N
  <2>2. Tallied' /\ SkipsJustified'
    BY <2>1, KeepTally
  <2>3. Shape'
    BY <1>1, <2>1 DEF Shape, VarsTyped, globals
  <2>4. ReadsPresent'
    BY <2>1 DEF ReadsPresent, Absent, Entry, Read
  <2> QED BY <2>2, <2>3, <2>4 DEF Tally
<1>4. CASE LoopDone
  BY <1>1, <1>4, SilentStep DEF LoopDone, globals, locals, GlobalsTyped, Shape, VarsTyped
<1>5. CASE ReadFindsBikeGone
  BY <1>1, <1>5, SilentStep, DisconnectStep DEF ReadFindsBikeGone, locals, Shape, VarsTyped
<1> QED BY <1>2, <1>3, <1>4, <1>5

LEMMA EndingTally == Tally /\ (ModeStatsRead \/ Slept \/ AfterLoop \/ Finish) => Tally'
<1> SUFFICES ASSUME Tally PROVE ModeStatsRead \/ Slept \/ AfterLoop \/ Finish => Tally'
  OBVIOUS
<1>1. Shape /\ GlobalsTyped
  BY DEF Tally, Shape, VarsTyped, GlobalsTyped
<1>2. CASE ModeStatsRead
  BY <1>1, <1>2, SilentStep DEF ModeStatsRead, globals, locals, GlobalsTyped, Shape, VarsTyped
<1>3. CASE Slept
  BY <1>1, <1>3, SilentStep DEF Slept, globals, locals, GlobalsTyped, Shape, VarsTyped
<1>4. CASE AfterLoop
  <2>1. pc' \in {"modeStats", "finish"} /\ modeStats' \in {modeStats, modeStats + 1}
    BY <1>4 DEF AfterLoop
  <2>2. phase' \in {"idle", "connecting", "connected"}
    BY <1>1, <1>4 DEF AfterLoop, GlobalsTyped
  <2> QED BY <1>1, <1>4, <2>1, <2>2, SilentStep DEF AfterLoop, GlobalsTyped, Shape, VarsTyped
<1>5. CASE Finish
  BY <1>1, <1>5, SilentStep DEF Finish, globals, locals, GlobalsTyped, Shape, VarsTyped
<1> QED BY <1>2, <1>3, <1>4, <1>5

LEMMA ClickTally == Tally /\ (Cancel \/ ClickDisconnect \/ BikeDisconnects \/ Idles) => Tally'
<1> SUFFICES ASSUME Tally PROVE Cancel \/ ClickDisconnect \/ BikeDisconnects \/ Idles => Tally'
  OBVIOUS
<1>1. Shape /\ GlobalsTyped
  BY DEF Tally, Shape, VarsTyped, GlobalsTyped
<1>2. CASE Cancel
  BY <1>1, <1>2, SilentStep DEF Cancel, locals, GlobalsTyped, Shape, VarsTyped
<1>3. CASE ClickDisconnect
  BY <1>1, <1>3, SilentStep, DisconnectStep DEF ClickDisconnect, locals, Shape, VarsTyped
<1>4. CASE BikeDisconnects
  BY <1>1, <1>4, SilentStep, DisconnectStep DEF BikeDisconnects, locals, Shape, VarsTyped
<1>5. CASE Idles
  BY <1>1, <1>5, SilentStep DEF Idles, globals, locals, GlobalsTyped, Shape, VarsTyped
<1> QED BY <1>2, <1>3, <1>4, <1>5

LEMMA TallyJustifies == Tally => SkippedGaveNothing
<1> SUFFICES ASSUME Tally, NEW c \in Components, NEW i \in Indices(c, {"skipped"})
             PROVE  /\ c \notin Core /\ Indices(c, {"ok"}) = {}
                    /\ Cardinality({j \in Indices(c, {"timeout", "noRoute"}) : j < i}) >= AbsentAfter
  BY DEF SkippedGaveNothing
<1>1. i \in DOMAIN results /\ results[i] = "skipped" /\ Entries[i].component = c
  BY DEF Indices
<1>2. Absent(c) /\ Cardinality(FailsBefore(c, i)) >= AbsentAfter
  BY <1>1 DEF Tally, SkipsJustified
<1>3. c \notin Core /\ stats[c].ok = 0
  BY <1>2 DEF Absent
<1>4. Indices(c, {"ok"}) = {}
  BY <1>3 DEF Tally, Tallied
<1> QED BY <1>2, <1>3, <1>4 DEF FailsBefore, Failures

LEMMA SweepTally == Tally /\ SweepStep => Tally'
BY OpeningTally, LoopTally, SkipTally, EndReadTally, EndingTally DEF SweepStep

LEMMA StepTally == Tally /\ [Next]_vars => Tally'
BY SweepTally, ClickTally, StepActs DEF Acts

LEMMA TallyHolds == Spec => []Tally
BY InitTally, StepTally, PTL DEF Spec

-----------------------------------------------------------------------------
(* No step of a sweep, no click and no disconnect makes a transport.       *)
LEMMA TransportNeverMade == Tally /\ Acts => (transport' => transport)
<1> SUFFICES ASSUME Tally, Acts PROVE transport' => transport
  OBVIOUS
<1>1. Shape
  BY DEF Tally
<1>2. CASE OpenFails \/ ReadFindsBikeGone \/ ClickDisconnect \/ BikeDisconnects
  BY <1>1, <1>2, DisconnectStep DEF OpenFails, ReadFindsBikeGone, ClickDisconnect, BikeDisconnects
<1>3. CASE ~(OpenFails \/ ReadFindsBikeGone \/ ClickDisconnect \/ BikeDisconnects)
  <2>1. transport' = transport
    BY <1>3 DEF Acts, SweepStep, Cancel, Idles, Opened, WarmUp, WarmUpThrows, StopReading, Skip,
                StartRead, EndRead, ModeStatsRead, Slept, LoopDone, AfterLoop, Finish, globals
  <2> QED BY <2>1
<1> QED BY <1>2, <1>3

LEMMA StepLate == Tally /\ LateOnce /\ Acts => LateOnce'
<1> SUFFICES ASSUME Tally, LateOnce, Acts PROVE LateOnce'
  OBVIOUS
<1>1. transport' => transport
  BY TransportNeverMade
<1>2. CASE Skip
  <2>1. UNCHANGED <<pc, transport, late>>
    BY <1>2 DEF Skip, Gone, globals
  <2> QED BY <2>1 DEF LateOnce
<1>3. ASSUME NEW outcome \in Outcomes, EndRead(outcome) PROVE LateOnce'
  <2>1. pc = "reading" /\ transport' = transport /\ late' = (IF transport THEN late ELSE late + 1)
    BY <1>3 DEF EndRead
  <2>2. pc' \in {"modeStats", "sleep"}
    BY <1>3 DEF EndRead
  <2> QED BY <2>1, <2>2 DEF LateOnce
<1>4. CASE StartRead
  <2>1. transport /\ late' = late /\ transport' = transport
    BY <1>4 DEF StartRead, Gone, globals, locals
  <2> QED BY <2>1 DEF LateOnce
<1>5. CASE ~Skip /\ ~StartRead /\ ~ \E outcome \in Outcomes : EndRead(outcome)
  <2>1. late' = late /\ (pc' = pc \/ pc' # "reading")
    BY <1>5 DEF Acts, SweepStep, Cancel, ClickDisconnect, BikeDisconnects, Idles, Opened, OpenFails, WarmUp,
                WarmUpThrows, StopReading, ReadFindsBikeGone, ModeStatsRead, Slept, LoopDone, AfterLoop,
                Finish, locals
  <2> QED BY <1>1, <2>1 DEF LateOnce
<1> QED BY <1>2, <1>3, <1>4, <1>5

-----------------------------------------------------------------------------
(* When the dashboard is shown.                                            *)
ShownInTime ==
    /\ revealed => Read >= PriorityCount
    /\ pc \in {"end", "finish"} => aborted \/ Read = N

(* A sweep that has not shown the dashboard at its last priority address   *)
(* has skipped every address since.                                        *)
HiddenBySkips ==
    ~revealed => \A i \in 1..Read : i >= PriorityCount => results[i] = "skipped"

(* Where the per-mode statistics are read: at the reveal, unless it comes  *)
(* after the transport was lost, which ends the sweep at its next address, *)
(* or after the loop.                                                      *)
StatsOnce ==
    /\ ~revealed /\ pc \in {"opening", "warmup", "loop", "reading", "sleep", "end"} => modeStats = 0
    /\ revealed => \/ modeStats = 1
                   \/ ~transport /\ Read < N /\ modeStats = 0 /\ pc \in {"sleep", "loop", "returned"}
    /\ pc = "modeStats" => modeStats = 1 /\ (~revealed => Read = N)
    /\ pc = "finish" => aborted \/ modeStats = 1

NotYetShown ==
    /\ pc \in {"opening", "warmup"} => Read = 0 /\ ~revealed
    /\ pc = "sleep" /\ ~revealed => Read < PriorityCount
    /\ pc \in {"loop", "end"} /\ ~revealed /\ Read = N => transport \/ aborted

Progress == ShownInTime /\ HiddenBySkips /\ StatsOnce /\ NotYetShown

(* What the dashboard and the experiments rely on.                         *)
ShownWhole == phase = "connected" => aborted \/ Read >= PriorityCount
LoadedWhole == sweepFullyLoaded => pc = "returned" /\ (aborted \/ (Read = N /\ modeStats = 1))

LEMMA SomeEntry == N \in Nat /\ 0 < N
BY EntriesTyped, RegistryAssumption DEF N

(* The read that shows the dashboard is not the last one of the sweep.     *)
LEMMA RevealBeforeLast ==
    ASSUME Tally, HiddenBySkips, pc = "reading", ~revealed, Read + 1 >= PriorityCount
    PROVE  Read + 1 < N
<1>1. Read \in Nat /\ Read < N /\ ~Absent(Entry.component) /\ Entry = Entries[Read + 1] /\ DOMAIN results = 1..Read
  BY DEF Tally, ReadsPresent, Shape, VarsTyped, Read, Entry
<1>2. PICK i \in 1..N : /\ PriorityCount <= i /\ i < N
                        /\ Entries[i].component \in Core \cup {Entries[N].component}
  BY RegistryAssumption, EntriesTyped DEF N
<1>3. ASSUME Read + 1 = N PROVE FALSE
  <2>1. i \in DOMAIN results /\ results[i] = "skipped"
    BY <1>1, <1>2, <1>3, PriorityFirst DEF HiddenBySkips
  <2>2. Absent(Entries[i].component)
    BY <2>1 DEF Tally, SkipsJustified
  <2>3. Entries[i].component = Entry.component
    BY <1>1, <1>2, <1>3, <2>2 DEF Absent
  <2> QED BY <1>1, <2>2, <2>3
<1> QED BY <1>1, <1>3, EntriesTyped

LEMMA FreshProgress == Fresh => Progress
<1> SUFFICES ASSUME Fresh PROVE Progress
  OBVIOUS
<1>1. Read = 0 /\ N # 0
  BY SomeEntry DEF Fresh, Read
<1>2. ShownInTime /\ HiddenBySkips
  BY <1>1 DEF Fresh, ShownInTime, HiddenBySkips
<1>3. StatsOnce /\ NotYetShown
  BY <1>1 DEF Fresh, StatsOnce, NotYetShown
<1> QED BY <1>2, <1>3 DEF Progress

LEMMA SkipProgress == Tally /\ Progress /\ Skip => Progress'
<1> SUFFICES ASSUME Tally, Progress, Skip PROVE Progress'
  OBVIOUS
<1>1. /\ pc = "loop" /\ Records("skipped") /\ Read < N /\ Shape /\ "skipped" \in Statuses /\ transport
      /\ UNCHANGED <<pc, transport, revealed, aborted, modeStats>>
  BY DEF Skip, MoreToRead, Gone, Records, Read, N, Tally, Statuses, globals
<1>2. /\ Read' = Read + 1 /\ Read \in Nat /\ results'[Read + 1] = "skipped"
      /\ \A i \in 1..Read : results'[i] = results[i]
  BY <1>1, RecordedResult DEF Read
<1>3. ShownInTime'
  BY <1>1, <1>2, PriorityFirst, EntriesTyped DEF Progress, ShownInTime
<1>4. HiddenBySkips'
  BY <1>1, <1>2 DEF Progress, HiddenBySkips
<1>5. StatsOnce'
  BY <1>1, <1>2 DEF Progress, StatsOnce
<1>6. NotYetShown'
  BY <1>1, <1>2 DEF Progress, NotYetShown
<1> QED BY <1>3, <1>4, <1>5, <1>6 DEF Progress

LEMMA EndReadProgress ==
    ASSUME Tally, Progress, NEW outcome \in Outcomes, EndRead(outcome)
    PROVE  Progress'
<1>1. /\ Shape /\ Read < N /\ Records(outcome) /\ outcome \in Statuses /\ pc = "reading"
      /\ UNCHANGED <<transport, aborted>>
  BY EndReadFacts
<1>2. /\ Read' = Read + 1 /\ Read \in Nat /\ Len(results') = Read + 1
      /\ \A i \in 1..Read : results'[i] = results[i]
  BY <1>1, RecordedResult DEF Read
<1>3. CASE Reveals(Len(results'))
  <2>1. ~revealed /\ Read + 1 >= PriorityCount
    BY <1>2, <1>3 DEF Reveals
  <2>2. Read + 1 < N
    BY <1>1, <2>1, RevealBeforeLast DEF Progress
  <2>3. modeStats = 0
    BY <1>1, <2>1 DEF Progress, StatsOnce
  <2>4. revealed' = TRUE /\ phase' = "connected"
    BY <1>3, EndReadFacts
  <2>5. \/ pc' = "modeStats" /\ modeStats' = 1
        \/ pc' = "sleep" /\ ~transport /\ modeStats' = 0
    <3>1. IF transport THEN pc' = "modeStats" /\ modeStats' = modeStats + 1
          ELSE pc' = "sleep" /\ modeStats' = modeStats
      BY <1>3, EndReadFacts
    <3>2. CASE transport
      BY <2>3, <3>1, <3>2
    <3>3. CASE ~transport
      BY <2>3, <3>1, <3>3
    <3> QED BY <3>2, <3>3
  <2>6. ShownInTime'
    BY <1>2, <2>1, <2>5 DEF ShownInTime
  <2>7. HiddenBySkips' /\ NotYetShown'
    BY <2>4, <2>5 DEF HiddenBySkips, NotYetShown
  <2>8. StatsOnce'
    BY <1>1, <1>2, <2>2, <2>4, <2>5 DEF StatsOnce
  <2> QED BY <2>6, <2>7, <2>8 DEF Progress
<1>4. CASE ~Reveals(Len(results'))
  <2>1. revealed \/ Read + 1 < PriorityCount
    BY <1>2, <1>4, PriorityFirst DEF Reveals
  <2>2. pc' = "sleep" /\ UNCHANGED <<revealed, phase, modeStats>>
    BY <1>4, EndReadFacts
  <2>3. ShownInTime'
    BY <1>1, <1>2, <2>2, PriorityFirst DEF Progress, ShownInTime
  <2>4. HiddenBySkips'
    BY <1>2, <2>1, <2>2, PriorityFirst DEF HiddenBySkips
  <2>5. StatsOnce'
    BY <1>1, <2>2 DEF Progress, StatsOnce
  <2>6. NotYetShown'
    BY <1>1, <1>2, <2>1, <2>2 DEF NotYetShown
  <2> QED BY <2>3, <2>4, <2>5, <2>6 DEF Progress
<1> QED BY <1>3, <1>4

LEMMA OpeningProgress ==
    Tally /\ Progress /\ (Opened \/ OpenFails \/ WarmUpThrows \/ \E answer \in BOOLEAN : WarmUp(answer)) => Progress'
<1> SUFFICES ASSUME Tally, Progress, Opened \/ OpenFails \/ WarmUpThrows \/ \E answer \in BOOLEAN : WarmUp(answer)
             PROVE  Progress'
  OBVIOUS
<1>1. /\ pc \in {"opening", "warmup"} /\ pc' \in {"warmup", "loop", "returned"}
      /\ UNCHANGED <<results, revealed, aborted, modeStats>>
  BY DEF Opened, OpenFails, WarmUpThrows, WarmUp, locals
<1>2. Read' = Read /\ Read = 0 /\ ~revealed /\ modeStats = 0 /\ 0 < N
  BY <1>1, SomeEntry DEF Read, Progress, NotYetShown, StatsOnce
<1>3. ShownInTime'
  BY <1>1, <1>2 DEF Progress, ShownInTime
<1>4. HiddenBySkips'
  BY <1>1, <1>2 DEF HiddenBySkips
<1>5. StatsOnce' /\ NotYetShown'
  BY <1>1, <1>2 DEF StatsOnce, NotYetShown
<1> QED BY <1>3, <1>4, <1>5 DEF Progress

(* The loop head and the two pauses.                                       *)
LEMMA LoopProgress ==
    Tally /\ Progress /\ (StopReading \/ StartRead \/ LoopDone \/ ReadFindsBikeGone \/ Slept \/ ModeStatsRead) => Progress'
<1> SUFFICES ASSUME Tally, Progress,
                    StopReading \/ StartRead \/ LoopDone \/ ReadFindsBikeGone \/ Slept \/ ModeStatsRead
             PROVE  Progress'
  OBVIOUS
<1> USE DEF Progress
<1>1. UNCHANGED <<results, revealed, modeStats>> /\ pc \in {"loop", "reading", "sleep", "modeStats"}
  BY DEF StopReading, StartRead, LoopDone, ReadFindsBikeGone, Slept, ModeStatsRead, MoreToRead, locals
<1>2. Read' = Read
  BY <1>1 DEF Read
<1>3. HiddenBySkips'
  BY <1>1, <1>2 DEF HiddenBySkips
<1>4. CASE StopReading
  <2>1. \/ ~transport /\ pc' = "returned" /\ aborted' = aborted
        \/ transport /\ pc' = "end" /\ aborted' = TRUE
    BY <1>4 DEF StopReading, Gone
  <2>2. pc = "loop" /\ Read < N /\ transport' = transport
    BY <1>4 DEF StopReading, MoreToRead, Read, N, globals
  <2>3. ShownInTime'
    BY <1>1, <1>2, <2>1 DEF ShownInTime
  <2>4. StatsOnce' /\ NotYetShown'
    BY <1>1, <1>2, <2>1, <2>2 DEF StatsOnce, NotYetShown
  <2> QED BY <1>3, <2>3, <2>4
<1>5. CASE StartRead
  <2>1. pc = "loop" /\ pc' = "reading" /\ transport /\ UNCHANGED <<transport, aborted>>
    BY <1>5 DEF StartRead, MoreToRead, Gone, globals, locals
  <2>2. ShownInTime'
    BY <1>1, <1>2, <2>1 DEF ShownInTime
  <2>3. StatsOnce' /\ NotYetShown'
    BY <1>1, <1>2, <2>1 DEF StatsOnce, NotYetShown
  <2> QED BY <1>3, <2>2, <2>3
<1>6. CASE LoopDone
  <2>1. pc = "loop" /\ pc' = "end" /\ Read = N /\ UNCHANGED <<transport, aborted>>
    BY <1>6 DEF LoopDone, globals, locals, Read, N
  <2>2. ShownInTime'
    BY <1>1, <1>2, <2>1 DEF ShownInTime
  <2>3. StatsOnce' /\ NotYetShown'
    BY <1>1, <1>2, <2>1, SomeEntry DEF StatsOnce, NotYetShown
  <2> QED BY <1>3, <2>2, <2>3
<1>7. CASE ReadFindsBikeGone
  <2>1. pc = "reading" /\ pc' = "returned" /\ aborted' = aborted
    BY <1>7 DEF ReadFindsBikeGone, locals
  <2>2. ShownInTime'
    BY <1>1, <1>2, <2>1 DEF ShownInTime
  <2>3. StatsOnce' /\ NotYetShown'
    BY <1>1, <1>2, <2>1 DEF StatsOnce, NotYetShown
  <2> QED BY <1>3, <2>2, <2>3
<1>8. CASE Slept
  <2>1. pc = "sleep" /\ pc' = "loop" /\ UNCHANGED <<transport, aborted>>
    BY <1>8 DEF Slept, globals, locals
  <2>2. ShownInTime'
    BY <1>1, <1>2, <2>1 DEF ShownInTime
  <2>3. StatsOnce'
    BY <1>1, <1>2, <2>1 DEF StatsOnce
  <2>4. NotYetShown'
    BY <1>1, <1>2, <2>1, PriorityFirst, SomeEntry DEF NotYetShown
  <2> QED BY <1>3, <2>2, <2>3, <2>4
<1>9. CASE ModeStatsRead
  <2>1. pc = "modeStats" /\ pc' = (IF revealed THEN "sleep" ELSE "finish") /\ UNCHANGED <<transport, aborted>>
    BY <1>9 DEF ModeStatsRead, globals, locals
  <2>2. ShownInTime'
    BY <1>1, <1>2, <2>1 DEF ShownInTime, StatsOnce
  <2>3. StatsOnce' /\ NotYetShown'
    BY <1>1, <1>2, <2>1 DEF StatsOnce, NotYetShown
  <2> QED BY <1>3, <2>2, <2>3
<1> QED BY <1>4, <1>5, <1>6, <1>7, <1>8, <1>9

LEMMA EndProgress == Tally /\ Progress /\ (AfterLoop \/ Finish) => Progress'
<1> SUFFICES ASSUME Tally, Progress, AfterLoop \/ Finish PROVE Progress'
  OBVIOUS
<1> USE DEF Progress
<1>1. UNCHANGED <<results, revealed, aborted, transport>> /\ pc \in {"end", "finish"} /\ Read' = Read
  BY DEF AfterLoop, Finish, globals, locals, Read
<1>2. aborted \/ Read = N
  BY <1>1 DEF ShownInTime
<1>3. HiddenBySkips' /\ (aborted \/ Read >= PriorityCount)
  BY <1>1, <1>2, PriorityFirst, SomeEntry DEF HiddenBySkips
<1>4. CASE AfterLoop
  <2>1. pc = "end"
    BY <1>4 DEF AfterLoop
  <2>2. ShownInTime'
    BY <1>1, <1>2, <1>3 DEF ShownInTime
  <2>3. CASE ~revealed /\ ~aborted
    <3>1. transport /\ modeStats = 0 /\ Read = N
      BY <1>2, <2>1, <2>3 DEF NotYetShown, StatsOnce
    <3>2. pc' = "modeStats" /\ modeStats' = 1
      BY <1>4, <2>3, <3>1 DEF AfterLoop
    <3>3. StatsOnce' /\ NotYetShown'
      BY <1>1, <2>1, <2>3, <3>1, <3>2 DEF StatsOnce, NotYetShown
    <3> QED BY <1>3, <2>2, <3>3
  <2>4. CASE revealed \/ aborted
    <3>1. pc' = "finish" /\ modeStats' = modeStats
      BY <1>4, <2>4 DEF AfterLoop
    <3>2. revealed => modeStats = 1
      BY <2>1 DEF StatsOnce
    <3>3. StatsOnce' /\ NotYetShown'
      BY <1>1, <2>1, <2>4, <3>1, <3>2 DEF StatsOnce, NotYetShown
    <3> QED BY <1>3, <2>2, <3>3
  <2> QED BY <2>3, <2>4
<1>5. CASE Finish
  <2>1. pc = "finish" /\ pc' = "returned" /\ modeStats' = modeStats
    BY <1>5 DEF Finish, globals, locals
  <2>2. ShownInTime'
    BY <1>1, <2>1 DEF ShownInTime
  <2>3. StatsOnce' /\ NotYetShown'
    BY <1>1, <1>2, <2>1 DEF StatsOnce, NotYetShown
  <2> QED BY <1>3, <2>2, <2>3
<1> QED BY <1>4, <1>5

(* A step that leaves the sweep where it awaits.                           *)
LEMMA KeepProgress ==
    ASSUME Progress, UNCHANGED <<pc, results, revealed, aborted, modeStats>>, transport' => transport,
           pc \in {"loop", "end"} => transport' = transport
    PROVE  Progress'
<1> USE DEF Progress
<1>1. Read' = Read
  BY DEF Read
<1>2. ShownInTime' /\ HiddenBySkips'
  BY <1>1 DEF ShownInTime, HiddenBySkips
<1>3. StatsOnce'
  BY <1>1 DEF StatsOnce
<1>4. NotYetShown'
  BY <1>1 DEF NotYetShown
<1> QED BY <1>2, <1>3, <1>4

LEMMA ClickProgress ==
    Tally /\ Progress /\ (Cancel \/ ClickDisconnect \/ BikeDisconnects \/ Idles) => Progress'
<1> SUFFICES ASSUME Tally, Progress, Cancel \/ ClickDisconnect \/ BikeDisconnects \/ Idles
             PROVE  Progress'
  OBVIOUS
<1>1. /\ UNCHANGED <<pc, results, revealed, aborted, modeStats>>
      /\ pc \notin {"loop", "end"} \/ transport' = transport
  BY DEF Cancel, ClickDisconnect, BikeDisconnects, Awaiting, Idles, globals, locals
<1>2. Shape /\ GlobalsTyped
  BY DEF Tally, Shape, VarsTyped, GlobalsTyped
<1>3. transport' => transport
  BY TransportNeverMade DEF Acts
<1> QED BY <1>1, <1>3, KeepProgress

LEMMA SweepProgress == Tally /\ Progress /\ SweepStep => Progress'
BY OpeningProgress, LoopProgress, SkipProgress, EndReadProgress, EndProgress DEF SweepStep

LEMMA StepProgress == Tally /\ Progress /\ [Next]_vars => Progress'
BY SweepProgress, ClickProgress, StepActs DEF Acts

LEMMA ProgressHolds == Spec => []Progress
<1>1. Init => Progress
  BY FreshProgress DEF Init, Fresh, GlobalsTyped
<1> QED BY <1>1, StepProgress, TallyHolds, PTL DEF Spec

(* The dashboard is shown at the reveal or behind the loop, and the        *)
(* experiments are unlocked at the end.                                    *)
LEMMA SweepUnlocks ==
    Tally /\ Progress /\ SweepStep =>
        /\ Read' >= Read /\ (aborted => aborted') /\ pc # "returned"
        /\ phase' = "connected" => phase = "connected" \/ aborted' \/ Read' >= PriorityCount
        /\ sweepFullyLoaded' => \/ sweepFullyLoaded
                                \/ pc' = "returned" /\ (aborted' \/ (Read' = N /\ modeStats' = 1))
<1> SUFFICES ASSUME Tally, Progress, SweepStep
             PROVE  /\ Read' >= Read /\ (aborted => aborted') /\ pc # "returned"
                    /\ phase' = "connected" => phase = "connected" \/ aborted' \/ Read' >= PriorityCount
                    /\ sweepFullyLoaded' =>
                          \/ sweepFullyLoaded
                          \/ pc' = "returned" /\ (aborted' \/ (Read' = N /\ modeStats' = 1))
  OBVIOUS
<1>0. Read \in Nat /\ GlobalsTyped
  BY DEF Tally, Shape, VarsTyped, Read, GlobalsTyped
<1>1. CASE OpenFails \/ ReadFindsBikeGone
  <2>1. UNCHANGED <<sweepFullyLoaded, results, aborted>> /\ pc # "returned" /\ (GoIdle \/ HandleDisconnect)
    BY <1>1 DEF OpenFails, ReadFindsBikeGone, locals
  <2>2. phase' = "connected" => phase = "connected"
    BY <1>0, <2>1 DEF GoIdle, HandleDisconnect, globals
  <2> QED BY <1>0, <2>1, <2>2 DEF Read
<1>2. ASSUME NEW outcome \in Outcomes, EndRead(outcome) PROVE Read' = Read + 1 /\ (revealed' => Read' >= PriorityCount)
  <2>1. Read' = Read + 1
    BY <1>2, EndReadFacts, RecordedResult DEF Read
  <2> QED BY <1>2, <2>1, SweepProgress DEF Progress, ShownInTime
<1>3. ASSUME NEW outcome \in Outcomes, EndRead(outcome)
      PROVE  /\ UNCHANGED <<aborted, sweepFullyLoaded>> /\ pc # "returned"
             /\ phase' = phase \/ revealed'
  <2>1. UNCHANGED <<aborted, sweepFullyLoaded>> /\ pc = "reading"
    BY <1>3, EndReadFacts
  <2> QED BY <1>3, <2>1, EndReadFacts
<1>4. CASE AfterLoop
  <2>1. UNCHANGED <<results, aborted, sweepFullyLoaded>> /\ pc = "end"
    BY <1>4 DEF AfterLoop
  <2>2. aborted \/ Read >= PriorityCount
    BY <2>1, PriorityFirst, SomeEntry DEF Progress, ShownInTime
  <2> QED BY <1>0, <2>1, <2>2 DEF Read
<1>5. CASE Finish
  <2>1. UNCHANGED <<results, aborted, phase, modeStats>> /\ pc = "finish" /\ pc' = "returned"
    BY <1>5 DEF Finish, globals, locals
  <2>2. aborted \/ (Read = N /\ modeStats = 1)
    BY <2>1 DEF Progress, ShownInTime, StatsOnce
  <2> QED BY <1>0, <2>1, <2>2 DEF Read
<1>6. CASE Skip
  <2>1. Read' = Read + 1
    <3>1. Shape /\ Read < N /\ Records("skipped") /\ "skipped" \in Statuses
      BY <1>6 DEF Skip, Tally, MoreToRead, Records, Read, N, Statuses
    <3> QED BY <3>1, RecordedResult DEF Read
  <2> QED BY <1>0, <1>6, <2>1 DEF Skip, MoreToRead, globals
<1>7. CASE Opened \/ WarmUpThrows \/ (\E answer \in BOOLEAN : WarmUp(answer))
           \/ StopReading \/ StartRead \/ ModeStatsRead \/ Slept \/ LoopDone
  <2>1. /\ UNCHANGED <<phase, sweepFullyLoaded, results>> /\ pc # "returned"
        /\ aborted' = aborted \/ aborted' = TRUE
    BY <1>7 DEF Opened, WarmUpThrows, WarmUp, StopReading, StartRead, ModeStatsRead, Slept, LoopDone,
                MoreToRead, globals, locals
  <2> QED BY <1>0, <2>1 DEF Read
<1> QED BY <1>0, <1>1, <1>2, <1>3, <1>4, <1>5, <1>6, <1>7 DEF SweepStep

LEMMA ClicksLock ==
    Tally /\ (Cancel \/ ClickDisconnect \/ BikeDisconnects \/ Idles) =>
        /\ UNCHANGED <<results, aborted, sweepFullyLoaded, pc, modeStats>>
        /\ phase' = "connected" => phase = "connected"
<1> SUFFICES ASSUME Tally, Cancel \/ ClickDisconnect \/ BikeDisconnects \/ Idles
             PROVE  /\ UNCHANGED <<results, aborted, sweepFullyLoaded, pc, modeStats>>
                    /\ phase' = "connected" => phase = "connected"
  OBVIOUS
<1>1. GlobalsTyped
  BY DEF Tally, Shape, VarsTyped, GlobalsTyped
<1> QED BY <1>1 DEF Cancel, ClickDisconnect, BikeDisconnects, HandleDisconnect, GoIdle, GlobalsTyped,
                    globals, locals, Idles

LEMMA UnlocksHold == Spec => [](ShownWhole /\ LoadedWhole)
<1>1. Init => ShownWhole /\ LoadedWhole
  BY DEF Init, ShownWhole, LoadedWhole
<1>2. ShownWhole /\ LoadedWhole /\ Tally /\ Tally' /\ Progress /\ [Next]_vars => (ShownWhole /\ LoadedWhole)'
  <2> SUFFICES ASSUME ShownWhole, LoadedWhole, Tally, Tally', Progress, [Next]_vars
               PROVE  (ShownWhole /\ LoadedWhole)'
    OBVIOUS
  <2>0. Read \in Nat /\ Read' \in Nat /\ PriorityCount \in Nat
    BY PriorityFirst DEF Tally, Shape, VarsTyped, Read
  <2>1. CASE SweepStep
    BY <2>0, <2>1, SweepUnlocks DEF ShownWhole, LoadedWhole
  <2>2. CASE Cancel \/ ClickDisconnect \/ BikeDisconnects \/ Idles
    <3>1. Read' = Read
      BY <2>2, ClicksLock DEF Read
    <3> QED BY <2>2, <3>1, ClicksLock DEF ShownWhole, LoadedWhole
  <2> QED BY <2>1, <2>2, StepActs DEF Acts
<1> QED BY <1>1, <1>2, TallyHolds, ProgressHolds, PTL DEF Spec

-----------------------------------------------------------------------------
(* The variables of the sweep keep their types, for any registry.          *)
THEOREM TypeCorrect == Spec => []TypeOK
<1>1. Init => stuck \in BOOLEAN
  BY DEF Init
<1>2. stuck \in BOOLEAN /\ [Next]_vars => (stuck \in BOOLEAN)'
  BY DEF Next, Runs, Sticks, Rejected, vars
<1>3. Tally /\ stuck \in BOOLEAN => TypeOK
  BY DEF Tally, Shape, TypeOK
<1> QED BY <1>1, <1>2, <1>3, TallyHolds, PTL DEF Spec

(* The absent-component skip hides no core component and none that gave a  *)
(* value, before or after, and takes AbsentAfter failures, in whatever     *)
(* order the registry lists its addresses.                                 *)
THEOREM SkipsAreJustified == Spec => []SkippedGaveNothing
<1>1. Tally => SkippedGaveNothing
  BY TallyJustifies
<1> QED BY <1>1, TallyHolds, PTL

(* At most one result is recorded after the transport was lost, however    *)
(* many addresses are left to read.                                        *)
THEOREM LossIsNoticed == Spec => []OneLateResult
<1>1. Init => LateOnce
  BY DEF Init, LateOnce
<1>2. Tally /\ LateOnce /\ [Next]_vars => LateOnce'
  BY StepLate, StepActs
<1>3. LateOnce => OneLateResult
  BY DEF LateOnce, OneLateResult
<1> QED BY <1>1, <1>2, <1>3, TallyHolds, PTL DEF Spec

(* The dashboard has a result for each of its addresses, however long the  *)
(* priority batch and wherever the skip, Cancel or a disconnect falls.     *)
THEOREM DashboardHasItsValues == Spec => []DashboardIsComplete
<1>1. Tally /\ ShownWhole => DashboardIsComplete
  <2> SUFFICES ASSUME Tally, ShownWhole, phase = "connected", ~aborted,
                      NEW i \in DOMAIN Entries, Entries[i].priority
               PROVE  i \in DOMAIN results
    BY DEF DashboardIsComplete
  <2>1. Read >= PriorityCount /\ Read \in Nat /\ DOMAIN results = 1..Read
    BY DEF ShownWhole, Tally, Shape, VarsTyped, Read
  <2> QED BY <2>1, EntriesTyped, PriorityFirst
<1> QED BY <1>1, TallyHolds, UnlocksHold, PTL

(* The write experiments are unlocked by a complete sweep, after exactly   *)
(* one read of the per-mode statistics, for every registry that meets      *)
(* RegistryAssumption: without it a transport lost during the very last    *)
(* read of all would leave the statistics unread.                          *)
THEOREM UnlockedByCompleteSweep == Spec => []LoadedMeansRead
<1>1. LoadedWhole => LoadedMeansRead
  BY DEF LoadedWhole, LoadedMeansRead, Read, N
<1> QED BY <1>1, UnlocksHold, PTL

=============================================================================
