# Verification of the Bosch eBike reader

TLA+ models, TLC model checks and TLAPS proofs for the browser tool that reads (and, in a few
places, writes) a Bosch Smart System eBike over WebUSB and Web Bluetooth, and for the command-line
dumper that shares its protocol. All paths below are relative to the repository (`src/...` here is
the checkout, so `src/web/app.js` is `web/app.js` of the repository).

1. [The system](#1-the-system)
2. [The modules and the code they model](#2-the-modules-and-the-code-they-model)
3. [What is checked](#3-what-is-checked)
4. [What is proved](#4-what-is-proved)
5. [Where the code and its documentation disagree](#5-where-the-code-and-its-documentation-disagree)
6. [What is not modelled](#6-what-is-not-modelled)
7. [Plan](#7-plan)
8. [Running it](#8-running-it)

## 1. The system

One web page, one JavaScript thread, no server. The user connects a bike over a USB cable, over
the Bluetooth service the official app uses ("full read"), or over the official live-data
service. The page then reads some hundreds of data points one after the other, shows a dashboard
when the important ones are there, goes on reading behind it, and offers a few actions: change or
reset the settings of an assist mode, a write experiment ("Write Lab"), a diagnostics scan, a
live subscription, export of a report. A report saved before can be loaded instead.

Everything is asynchronous: every `await` is a point where a click handler, a timer, a
notification or the `disconnect` event can run and change the globals the awaiting function will
read next. There is no lock; one boolean (`transportBusy`) keeps the keep-alive timer out.

| Component | Code | State it keeps | Operations | Interacts with |
|---|---|---|---|---|
| Exchanges | `web/app.js:398-748` | `seqCounter`, `keepAliveSeq`, `transportBusy`, the transport's frame queue | `readOne`, `rpcCallWithArg`, `writeAndReadBack`, `subscribeOnce`, `sendKeepAlive` | a transport (`doMcspWrite`, `readNextFrame`), the codecs, all callers below |
| Sweep | `web/app.js:2411-2653` | `phase`, `transport`, `abortRequested`, `disconnectedAfterRead`, `sweepFullyLoaded`, per-component statistics, `results` | `runSweep`, `goIdle`, `handleDisconnect`, Cancel, Disconnect | Exchanges, per-mode statistics, transports |
| Page around the sweep | `web/app.js:150-395, 1238-1720, 2267-2425` | the pickers, the status line, `lastResults`, `loadedFromFile`, `diagnosticsState`, `writeLabState` | Connect, Read again, load a report, `attemptDiagnosticsScan`, `attemptWriteLab`, `attemptRpcLab` | Sweep, Exchanges |
| Bluetooth sessions | `web/app.js:352-395, 2411-2448, 2675-2720`, `web/transport-webble-mcsp.js:139-206, 314-361`, `web/transport-webble.js:90-190` | the same globals, the GATT link, its listeners, one coroutine per session | `connectBle`, `runSweep('ble-mcsp')`, `open`, `connect`, `_handshake`, `waitForBikeReady`, `readOnce`, `subscribe`, Connect, Read again | browser GATT, Sweep |
| USB transports | `web/transport-webusb.js`, `node/transport-node-usb.js` | the bridge's registers: announced length, state of the transfer, pending frame | `open` with `init`, `doMcspWrite`, `readNextFrame`, `close` | Exchanges, the device |
| Assist-mode settings | `web/app.js:840-925, 2080-2190` | `entry.udam`, `entry.udamLimits`, `entry.setState`, `entry.resetState`, the popup and its confirmation | `openAssistModeModal`, `setUdamValuesForMode`, `resetUdamValuesForMode` | Exchanges, the bike's stored settings |
| Per-mode statistics | `web/app.js:702-838` | `assistModeStats` | `readAllAssistModeStats`: the list of modes, their names, colours, statistics, settings | Sweep, Exchanges, settings |
| Frames | `src/protocol.js:81-146, 264-308`, `web/transport-webble-mcsp.js:97-127, 208-306, 363-381` | `readQueue`, `startupStage` | build and parse frames, segments, host address rewriting, the reply to the bike's own requests | Exchanges, both message-bus transports |
| Payload codecs | `src/protocol.js:198-803`, `src/messageTypes.js`, `web/transport-webble.js:23-88` | none | varints, field loops, settings, statistics, lists, issues, clock, live data, one typed decoder per kind of data point, certificates, the guess for points without a type | Exchanges, settings, report, dashboard |
| Report export and load | `web/app.js:2267-2405` | `lastResults`, the loaded file | export, load | replaces the session state |
| Address registry | `src/address-registry.generated.js` | none: a table | | the sweep, the typed decoders, the Write Lab |
| Node command line | `node/cli.js` | none between runs | sequential dump with a keep-alive | its own USB transport |
| Dashboard, dialogs, theme | `web/app.js`, `index.html` | DOM | rendering | every state above |
| Registry tools | `tools/`, `githooks/` | none at run time | generate the registry | |

What makes each part hard, and so what the properties are for:

- **Exchanges.** Answers come late, twice (after a retry), out of order or not at all; all callers
  share one queue, one 4-bit sequence counter and one flag; the keep-alive reads the same queue.
  Correct means: an exchange never takes somebody else's answer, always returns, and leaves the
  flag and the subscriptions as it found them.
- **Sweep.** The globals change under it at every `await`. Correct means: the dashboard appears
  with what it promises, a lost bike is noticed, the connecting screen ends, a component that is
  there is not skipped.
- **Page.** Pickers, file dialogs, a scan and an experiment go on while the session they belong to
  is closed and another one is opened. Correct means: the status line is true, a scan reports
  what it scanned, nothing else talks to the bike during a sweep, buttons come back.
- **Bluetooth sessions.** A session outlives the screen it was started from (there is no
  cancellation of `open()`), listeners are never removed, and old sessions act on the globals of
  new ones. Correct means: "connected" is true, and "connecting" ends.
- **USB bridge.** A write is three or more transfers and a read is three or more, each an `await`;
  a browser resolves a stalled transfer, and the code does not look at the status. Correct means:
  what `Exchange` takes for granted, i.e. whole frames out, and frames in, in order and once.
- **Settings.** A save is a read-modify-write over a lossy link. Correct means: nothing the user
  did not type changes, and "done" is not shown for a write that did not happen.
- **Frames and codecs.** Two encodings of the same flag byte, two host addresses, several messages
  per notification, omitted proto3 defaults, 32-bit shifts, lists of modes with and without an
  entry for "off". Correct means: each side reads what the other meant, on each transport, and an
  entry still shows it after the report was saved and loaded.

`PROJECT.json` lists the hazards of this kind at the line where they bite, each with the
properties that cover it or the reason why none does.

## 2. The modules and the code they model

```
Calls    <-(implements)-  Exchange  <-  ExchangeProofs
Channel  <-(implements)-  Bridge    <-  BridgeProofs
                          UdamEdit  <-  UdamEditProofs
                             Sweep  <-  SweepProofs
                Sweep  <-  Page, SweepProofs  <-  PageProofs
                        BleSession  <-  BleSessionProofs
Loops  <-  Frames;   Loops  <-  Codec;   Codec, Registry  <-  Typed  <-  Proto3
                   Proto3, Frames  <-  Wire
                   Proto3, Frames  <-  FramesProofs
                Wire, FramesProofs  <-  WireProofs
```

Each of `Exchange`, `Bridge`, `UdamEdit`, `Sweep`, `Page`, `BleSession` and `Wire` has an `MC...`
module that gives its constants small values. `PROJECT.json` maps every definition that stands for
code to its lines; definitions marked external stand for the bike or the browser as the code uses
them. Operators preceded by a comment `Mutant:` are wrong versions of the definition they precede,
kept to show that the properties notice them; no specification uses them.

### Exchange, Calls

`Exchange` has one coroutine per caller (the sweep, a click handler) and per keep-alive callback.
Its state is `task[t]`, a record with the program counter `pc` (the `await` it is at), the
operation, the address, the attempt and the sequence number it waits for.

| Variable | Code |
|---|---|
| `queue` | `readQueue` of the transport, what `readNextFrame` shifts from |
| `wire`, `subs` | requests the bike has not answered, addresses it pushes (external) |
| `calls`, `pings` | how often `nextSeq()` was called, and the keep-alive's counter: `seqCounter` and `keepAliveSeq` are their low four bits |
| `busy` | `transportBusy` |
| `stuck` | the coroutines whose awaited USB transfer neither returns nor throws |
| `got`, `lastSub` | history: last accepted reply of a caller, last (un)subscription attempted per address |

| Action | Code (`web/app.js`) |
|---|---|
| `Start`, `DrainOne`, `DrainDone` | entry, `transportBusy = true`, the pre-drain of up to four frames |
| `Send`, `Accept`, `Discard`, `Timeout` | `doMcspWrite`, the polling loop and its tests, the deadline and the retry |
| `AwaitNotify`, `NotifyTimeout`, `Unsubscribe`, `UnsubscribeThrows` | the second half and the `finally` of `subscribeOnce` |
| `Leave`, `Throw` | the `finally` blocks; a write goes on with its read-back |
| `Ping`, `PingAnswered`, `PingOver` | `sendKeepAlive` |
| `Sticks`, `Rejected`, the guard `Runs` | an awaited transfer of `web/transport-webusb.js` gets stuck: no deadline is tested meanwhile and nothing cancels it (`web/app.js:168-172`, `2498-2507`); the browser rejects it once the device is gone |
| `BikeAnswers`, `Lost`, `BikePushes`, `LinkDrops` | the bike and the link (external) |

The tests of the readers are kept as they are and differ: `readOne` and the keep-alive compare the
address only, `rpcCallWithArg` and `writeAndReadBack` the type, address and sequence number,
`subscribeOnce` the type and sequence number (operator `Answers`). Payloads are left to `Wire`,
transfers to `Bridge`. A frame carries two history fields, `from` and `id`: who sent the request
it answers, and the `nextSeq()` count at that time. No guard reads them.

`Calls` is the abstract specification: what a function that awaits an exchange may rely on. A
call is open or not; it starts with no answer, only an open call is answered, and only with an
acceptable answer. `Exchange` implements it with `open <- Open`, `reply <- got` and
`Acceptable <- OwnReplies`. A step of `Exchange` is a `Call`, `Answer` or `Return` of one caller,
or a stutter.

### Bridge, Channel

Both USB transports over the registers of the bridge, one transfer per step. `stage` is how far
`open()` is: `configure` (the control transfers of `init`), then per handshake frame `greet` (a
write) and `drain` (up to four reads); the transport of Node has no `init` and starts `open`, on a
bridge that somebody else configured or nobody did. `call[c]` is the call a caller awaits: a write
goes `announce` (the length), `bulk`, `ack` (the polls of register 0x47), a read goes `poll`,
`fetch`, `confirm`. `Stalls` and `FetchStalls` are a browser that resolves a stalled transfer
(`unconfirmed` is a read whose confirmation was stalled); `Throw` is a transfer that rejects, with
or without having reached the bridge. The bridge itself (`size`, `out`, `pending`, `inbox`,
`Forward`, `Arrive`) is external, as the comments of the two transports describe it.

`clean` is a history field of a call: no call of the same direction overlapped it and none of its
transfers was stalled. The code does not enforce this; all that is promised is promised to clean
calls. A sweep beside a keep-alive, or two click handlers, can make calls that are not.

`Channel` is what `Exchange` takes for granted when it treats `readNextFrame` as one step: a
first-in first-out inbox. A read that is `alone` takes the oldest frame or none; a `crossed` one
may return any frame that arrived, or drop one. `Bridge` implements it. The atomic `readNextFrame`
of `Exchange` is therefore justified for callers that do not overlap on the USB transport; on
Bluetooth it is a plain array shift.

### UdamEdit

The settings popup of one assist mode, its confirmation dialog, a save and a reset that may
overlap, their retries, and the re-read after a success. An RPC attempt is one step with one of
six outcomes (done and confirmed; refused; the answer lost or the transport throwing, each with the
request done or not), which is what `Exchange` leaves of it, unless it gets stuck (`SetSticks`,
`ResetSticks`): then it ends only by a throw (`MayEnd`). `udam` is the snapshot `entry.udam`, `bike` the record in the bike;
`Overlay` is the merge at `web/app.js:897-899`; `Shown` is the rounding of the speed box.
`unsure` and `applied` are history.

### Sweep

`runSweep` after the picker, one step per section between two awaits. `pc = "loop"`, `"end"` and
`"finish"` are sections the code runs without an `await`, so no event may come in between
(`Awaiting` guards the events). The reads are `StartRead` and `EndRead(outcome)`, because events
do come in between. `results`, `stats` and `revealed` are the local variables of the function,
`late` is history. `stuck` says that the transfer the sweep awaits is stuck: nothing of the sweep
goes on (`Runs`), no button ends the wait, and the browser ends it once the device is gone
(`Rejected`).

### Page

`Page` extends `Sweep` by what the user can do around it: the picker of Connect and Read again
(`OpenPicker`, `Picked`, `PickerCancelled`; everything up to the picker is done when it opens), the
file dialog of a report (`OpenFile`, `Loaded`, `NotLoaded`), the status line (`Label`, redrawn as
`renderPhase` is called), the diagnostics scan (`StartScan`, then per component a count and so many
issues: `CountAnswered`, `IssueRead`, `ListBroken`, `ScanThrows`) and the Write Lab (`StartLab`,
`LabAnswered`, `CallThrows`, `LabDone`). The coroutines run on while a dialog is open and after
the session they belong to was closed.

So does a sweep. Over Bluetooth, `open()` with its backoff and `waitForBikeReady` take seconds and
are not ended by a disconnect; a bike that drops off and a device that is picked meanwhile start a
second `runSweep` beside the first, which then resumes on the globals of the second, its transport
included. `Picked` therefore asks nothing of the former sweep: it keeps what that holds of its own
(`Frame`: the place in the code and the local variables) in `asleep` and begins a new one. One sweep
at a time is in the variables of `Sweep`; whenever it awaits, `Resume(k)` exchanges it for the k-th
one asleep, which goes on from there on the globals as they are. The model lets a sweep outlive a
picker at any await, which is more than the code does: a read or a pause finds the transport null.
`overlap` is history: `elder` when
a sweep was under way as the device was picked, `unlocked` when a sweep ended before another.

`hung` has the coroutines, scan or experiment, whose awaited transfer is stuck (`Hang`): they do not
run until the device is gone and the browser rejects the transfer (`ScanRejected`, `LabRejected`). A
sweep may stand still for good as it is, so its stuck transfers need no state here. `shown` is what `lastResults` holds. Every entry of `found`
carries the session it was scanned in, and `excused` is set where a known exception to the truth
of the status line is taken; both are history.

### BleSession

Sessions over the life of the page: each click on Connect or Read again starts a coroutine
`flow[f]`, of kind `live` (`connectBle`) or `mcsp` (`runSweep('ble-mcsp')`), which runs to its own
end whatever the page does. `transport` holds the session whose transport object the global
refers to; `flow[f].via` the one on which `readOnce` or `subscribe` was called, because the code
reads the global again after each `await`. `link` is the set of sessions whose GATT connection is
up (the browser keeps one device; `gatt.disconnect()` of any session ends them all), and
`listening` says that some session has added its `gattserverdisconnected` listener.
Each failing attempt disconnects before it backs off (`AttemptFails`), and the event is delivered
to the listeners at once (`LinkGoesDown`). The sweep is reduced to how it ends.

### Loops, Frames, Codec, Registry, Typed, Proto3, Wire

All but `Wire` are pure operators. `Loops` has the shape that the loops of the decoders share
(`Walk`): read something where the index stands, perhaps keep it, go on behind it or stop. It is a
recursive function, so that what holds of all loops is proved once. `Frames` builds and parses
frames and segments and rewrites addresses; `Codec` has the payload encoders and decoders of the
settings, statistics, mode lists, issues, clock and live data. Bytes are numbers 0 to 255, payloads
are sequences. The decoders return `None` where the code returns `null`. `VarintInWord` is the loop
with `|=` and `<<`, which works modulo the word, `VarintExact` the one with `Math.pow`, `VarintLow`
the one with `BigInt` and `asIntN`. `Fields` is the loop each decoder of `protocol.js` writes out
for itself, `ParseFields` the one of `messageTypes.js`, whose tags are varints.

`Registry` is the table of `address-registry.generated.js`: of every row the address, how its
value is encoded (`shape`) and whether the sweep may read it. `Typed` is `decodeTyped` for every
kind that occurs in the table, with its defaults, the certificate parser (`DecodeCvc`), the guess
for points without a type (`DecodeValue`), what an entry shows (`DisplayAt`), the way of an entry
through a report and back (`Reformat`), and the arguments of the Write Lab (`LabArgument`).
`Proto3` is the other side, external: how a device that follows the proto3 rules encodes a value
of each shape (`Encoded`), the values worth telling apart (`Meanings`), and what the tool is to
make of them (`Meant`).

`Wire` closes the loop. The tool encodes a request, the transport carries it, an external bike
decodes it, holds the settings and the points, and answers; answers, pushes and requests of the
bike's own may share a notification; the tool separates them, parses and decodes. A behaviour is
either a conversation about the settings and the modes (`row = None`) or about one row of the
registry: its point is read, perhaps after the Write Lab wrote to it (`LabWrites`), and the report
of it is saved and loaded (`Reopens`). `modeTable` is what the page makes of the lists of modes,
names and colours. `meant`, `asked`, `told`, `stageSaid` and `understood` say what was meant, and
the properties compare. The third transport, `live`, carries `LiveData` messages only.

## 3. What is checked

Twelve runs. Eight of them pass. The other four ask whether a claim of the documentation or of a
comment holds in every case and find one in which it does not (section 5).

| Run | Question | Properties |
|---|---|---|
| `exchange` | One caller reads, calls, writes and subscribes while a keep-alive is in flight | `TypeOK`, `Provenance`, `AnswersOwnRequest`, `UnsubscribesBeforeReturning` |
| `exchange_two` | Two overlapping callers on the same address | `BusyIsReleased`, `ImplementsCalls`, `EveryExchangeReturns` |
| `bridge` | An exchange and a keep-alive on one USB device, transfer by transfer, from either host | `TypeOK`, `WholeFrames`, `SuccessMeansForwarded`, `ImplementsChannel`, `CallsEnd`, `OpenEnds` |
| `udam` | Two confirmed saves or resets, overlapping and lossy | `TypeOK`, `SaveTouchesOnlyTyped`, `DoneMeansServed`, `PendingSettles` |
| `sweep` | A sweep with any outcome per read and any event at every await | `SkippedGaveNothing`, `DashboardIsComplete`, `LoadedMeansRead`, `OneLateResult`, `ConnectingEnds` |
| `page` | Two sessions or loaded reports, with a scan, an experiment and a former sweep running on behind the dialogs | `PageTypeOK`, `LabelIsTrue`, `ExperimentsWait`, `OneStaleReport`, `ScanReportsAll`, `ScanEnds`, `WriteSettles` |
| `ble` | Three Bluetooth sessions of either kind | `TypeOK`, `LiveStatusIsTrue`, `ConnectingEnds` |
| `wire` | Byte for byte, three messages in every order, and every typed row of the registry | `TypeOK`, `RequestArrives`, `SaveChangesOneField`, `ReadAsMeant`, `EntryShowsPoint`, `ModesLineUp`, `BikeIsAnswered`, `LiveIsLastTold` |
| `exchange_stale`, `udam_stale`, `sweep_stuck`, `ble_retry` | violations, section 5 | one each |

The properties in words, with the code behaviour they are about, are the comments that precede
them in the modules. Each property of a passing run has a mutant in `PROJECT.json`: a plausible
slip in one definition that TLC must find under the same configuration. `TypeOK` of `Sweep` is
part of `PageTypeOK`, which `page` checks.

### Bounds, and why they are enough

| Bound | Value | Code | Why |
|---|---|---|---|
| `SeqMod` | 3 | 16 | A counter that wraps after two further requests shows the wrap with few requests; the theorems hold for every period |
| `MaxAttempts` (exchange, settings) | 2 | 2 | As in the code |
| `MaxDrain` (exchange) | 1 | 4 | One frame drained and one left behind are the two cases |
| `MaxCalls`, `MaxPings`, `MaxQueue` | 2, 1, 2 (1, -, 1 with two callers) | none | `MaxCalls` stops new exchanges only: the ones under way retry and unsubscribe beyond it, so that up to four numbers are used with one caller and the sequence number wraps |
| `ConfigSteps`, `Handshakes` (bridge) | 2, 1 | 6, 9 | Every step is like the next; one that is not the last, and the last |
| `MaxDrain`, `MaxTries`, `MaxPolls` (bridge) | 2, 2, 2 | 4, 10, 1 to 5 | A first, a last; the theorems hold for every value |
| `MaxWrites`, `MaxArrivals` | 2, 2 | none | Two writes or reads are what can overlap or follow each other, one per caller or both of one |
| `MaxEdits` | 2 | none | The second edit is the one that meets the stale snapshot of the first |
| fields, values | two editable and one carried field | three and five | One edited, one editable but not edited, one never editable |
| `Entries` (sweep) | one core address, three of another component within the priority batch, one after it | about 500 | With `AbsentAfter` = 2 the skip can begin inside the batch, at its end and behind it |
| `AbsentAfter`, `WarmUps` | 2, 2 (page: 1, 1) | 3, 8 | Counters compared with a constant; 2 is the least with a middle. `page` asks about sessions, not about the counters |
| `Entries`, `Parts`, `MaxIssues` (page) | one address before the reveal and one behind it, two components, two issues | about 500, 7, none | A component that is not the last and the last, an issue that is not the last and the last |
| `MaxSessions` (page) | 2 | none | What a session leaves to its successor, a sweep that has not returned included; the theorems hold for every number |
| `Answers` (page) | a value | five outcomes | `page` asks what sweeps do to each other, not what they record, and a read may still throw; `sweep` has all outcomes, and the theorems hold for every set |
| `MaxAttempts` (BleSession) | 2 | 4 | A first attempt, a retry, a last attempt |
| `MaxSessions` (BleSession) | 3 | none | A listener of a first session, a session that is still backing off, and a third that meets both |
| `Word` | 16 | 32 | TLC's integers have 31 bits; the decoders see varints of one, two and three groups, with the last group cut by the word as in the code |
| `Numbers` | 0 and 40000 | | The proto3 default, and a number that needs all three groups |
| `Meanings` | per kind of data point | | The default, a value that is not, and what a kind treats apart: negative and text numbers, an unknown enum number, lists of none, one and two, certificates with short and long lengths |
| `MaxMessages` | 3; 1 for a row, 2 for the rows of `LabAddresses` | none | Read a record, save it, and one push or request of the bike in between or in the same notification; read a row, or write it and read it. `LabAddresses` has a row of each kind. Four messages were tried as well (about a million states, no error) |

No symmetry is used: the configurations with liveness must not, and the others are small enough.

`CHECK_DEADLOCK FALSE` is in every configuration because every one of these systems may stop:
an exchange when its bound of calls is reached and all have returned, a bridge when it is closed
or its bounds are reached, a sweep when `runSweep` has returned and the page is idle, a popup when
no edit is left, a page when no session is left, the wire when all messages are read.

### Fairness, and why the code justifies it

What no specification assumes is that an awaited USB transfer settles. The page's own comments say
that it may not: "a single stuck low-level USB transfer has no timeout of its own"
(`web/app.js:168-172`), and the watchdog of the sweep can only say so (2498-2507). A deadline is
tested between two transfers, never during one. So a transfer may get stuck at any await, and stays
so as long as the device is there. What is assumed of the browser is that it rejects the transfers
of a device that is unplugged or closed.

- `Exchange!FairSpec`: a coroutine that is not stuck runs (the event loop resumes every settled
  promise), and its deadline passes, however many frames arrive: the loops test `Date.now()`
  against a deadline before each `readNextFrame`, and `readNextFrame` has a bounded number of
  polls. A stuck one is rejected when the link is down. Nothing is assumed of the bike.
- `Bridge!FairSpec`: a transfer the bridge can serve settles, a frame it holds is forwarded, and
  what awaits a closed device is rejected. Nothing is assumed of the bike, nor of a bulk transfer
  for which the bridge has no frame: that one never ends. `Bridge` is about the order of transfers
  that do settle.
- `UdamEdit!FairSpec`: an attempt that is not stuck ends, by the 500 ms deadline of
  `rpcCallWithArg` (`EveryExchangeReturns` of `Exchange`). Nothing is assumed of the user, the
  re-read or a stuck attempt.
- `Sweep!FairSpec`: the awaits of the sweep settle, for the same reason, unless one is stuck; opening,
  warm-up and mode statistics are bounded loops of exchanges. A stuck one is rejected when the
  transport is gone.
- `Page!PageFairSpec`: the same for the exchanges of the scan and of the experiment. Of a sweep it is
  assumed only that it does not stop between two awaits, as one thread runs it; each of its awaits
  may last for good. Nothing is assumed of the user: a dialog may stay open.
- `BleSession!FairSpec`: the GATT promises a session awaits settle one way or the other, and
  timers fire. This is an assumption about the browser: the code has no time-out of its own around
  `gatt.connect()`. The device picker is not included, since it waits for the user.

### What the passing runs show, and their limits

- `AnswersOwnRequest` holds "or a whole period of the sequence number apart": sixteen
  transmissions later a late answer would match, and nothing in the code prevents that.
- `BusyWhilePolling` (proved, for one caller) is false with two, by design of a boolean: the first
  exchange to end clears the flag while the second still polls. What two callers still have is
  `BusyIsReleased` (the flag is not left set), `ImplementsCalls` and `EveryExchangeReturns`.
- The properties of `Bridge` are about clean calls. Overlapping writes may send a frame under the
  length of another, or take the acknowledgement of another for their own; of two overlapping
  reads, both may return the same frame, or one may wait for good.
- `SuccessMeansForwarded` is for a configured bridge: one that is not acknowledges writes it never
  forwards (the comment of `init`), which is what Node may meet.
- `EveryExchangeReturns`, `PendingSettles`, `ConnectingEnds`, `ScanEnds` and `WriteSettles` except
  the caller whose own transfer is stuck on a device that is there: it does hang until the device is
  unplugged. What they show is that nothing else hangs: a stuck sweep holds no exchange of a click
  handler, a stuck save no reset, and all of them end once the device is gone.
- `SaveTouchesOnlyTyped` excepts a snapshot made stale by a lost answer or an overlapping call, and
  lets the speed that was not typed be rounded to what its box showed, nothing else: one decimal
  of a record with hundredths.
- `ExperimentsWait` excepts a page on which two sweeps have overlapped and one of them has ended
  (section 5): nothing else unlocks experiments or scan while a sweep has not returned.
- `LabelIsTrue` excepts three ways in which the status line is known to be wrong (section 5,
  `excused`), and a picker that is open over the page.
- `ScanReportsAll` is about a list of which no answer was lost; the page does not show which.
- `ScanEnds` also excepts a scan that threw: the state stays "scanning" then, until the next session.
  `WriteSettles` is about writes for the same reason: an RPC that throws leaves "Sending…".
- `LiveStatusIsTrue` is for a page that used live sessions only and one at a time. With two
  overlapping live sessions, each calls the transport of the other through the global, and the
  first to fail sets `transport` to null below the one that succeeded; over USB or the full read
  the dashboard stays up by design after the bike has gone.
- `ConnectingEnds` of `BleSession` excepts a warm-up that throws (`pc = "threw"`), which is the
  finding of `sweep_stuck`.
- `ReadAsMeant` says nothing of the value in an answer to SUBSCRIBE, which has none.
- `EntryShowsPoint` takes what a kind cannot tell apart as the same: an explicit 0 and an omitted
  one where the decoder has a default. Values beyond 32 bits are in section 5.
- `ModesLineUp` excepts a list that was declined: the modes keep empty names then.

## 4. What is proved

For every value of the constants that meets the `ASSUME`s of the module, checked by `tlapm`:

| Module | Theorem | Statement | Run that checks it small |
|---|---|---|---|
| `ExchangeProofs` | `TypeCorrect` | `Spec => []TypeOK` | `exchange` |
| | `SequenceNumbersTell` | `Spec => []Provenance` | `exchange` |
| | `NoForeignAnswer` | `Spec => []AnswersOwnRequest` | `exchange` |
| | `FlagIsReleased` | `Spec => []BusyIsReleased` | `exchange_two` |
| | `SingleCallerHoldsFlag` | with one caller, `Spec => []BusyWhilePolling` | |
| | `NoSubscriptionLeft` | `Spec => []UnsubscribesBeforeReturning` | `exchange` |
| | `Refinement` | `Spec => ImplementsCalls` | `exchange_two` |
| `BridgeProofs` | `TypeCorrect` | `Spec => []TypeOK` | `bridge` |
| | `OwnLengthAnnounced` | `Spec => []WholeFrames` | `bridge` |
| | `OwnFrameAcknowledged` | `Spec => []SuccessMeansForwarded` | `bridge` |
| | `ReadsInOrder` | `Spec => ImplementsChannel` | `bridge` |
| `UdamEditProofs` | `TypeCorrect` | `Spec => []TypeOK` | `udam` |
| | `SaveSparesTheRest` | `Spec => []SaveTouchesOnlyTyped` | `udam` |
| | `SuccessIsServed` | `Spec => []DoneMeansServed` | `udam` |
| `SweepProofs` | `TypeCorrect` | `Spec => []TypeOK` | |
| | `SkipsAreJustified` | `Spec => []SkippedGaveNothing` | `sweep` |
| | `LossIsNoticed` | `Spec => []OneLateResult` | `sweep` |
| | `DashboardHasItsValues` | `Spec => []DashboardIsComplete` | `sweep` |
| | `UnlockedByCompleteSweep` | `Spec => []LoadedMeansRead` | `sweep` |
| `PageProofs` | `NothingSharesTheSweep` | `PageSpec => []ExperimentsWait` | `page` |
| | `ScanIsComplete` | `PageSpec => []ScanReportsAll` | `page` |
| | `LeftoverIsOne` | `PageSpec => []OneStaleReport` | `page` |
| | `StatusLineIsTrue` | `PageSpec => []LabelIsTrue` | `page` |
| `BleSessionProofs` | `TypeCorrect` | `Spec => []TypeOK` | `ble` |
| | `ConnectedMeansConnected` | `Spec => []LiveStatusIsTrue` | `ble` |
| `PageProofs` | `PageTypeCorrect` | `PageSpec => []PageTypeOK` | `page` |
| | `EverySessionSkipsJustly` | `PageSpec => []` of `SkippedGaveNothing` for every sweep under way, and of `OneLateResult` when the device was picked with none under way | |
| | `ExperimentsFollowASweep` | `PageSpec => []` of `DashboardIsComplete`, `LoadedMeansRead` and `sweepFullyLoaded => AllReturned` while there is a transport that was picked with no sweep under way | |
| `FramesProofs` | `BluetoothReadsAsUsb` | a body sent to the Bluetooth address, rebuilt, is the frame of the same body over USB | |
| | `RequestGoesOutAsBuilt` | the Bluetooth request is the USB request with another source | |
| | `SegmentTellsLength` | the header of a segment tells channel, end and length, up to 4095 bytes | |
| | `ResponseOrPush` | no frame is parsed as both a response and a push | |
| | `SegmentsComeBack` | `DecodeSegments` of any bodies joined in one notification is those bodies | |
| | `ExactReadsVarint` | `VarintExact` reads every number as `Varint` wrote it, wherever it stands | |
| | `WordReadsVarint` | `VarintInWord` does, for every number that fits the word | |
| | `AnswerIsRead` | an answer of any address, type, number, status and value is parsed as such, over both transports | |
| | `RecordComesBack` | `DecodeUdam` of any encoded record is the record, null and 0 kept apart | |
| `WireProofs` | `RequestIsCarried` | the bike takes apart a request as it was built, over both transports | |
| | `LiveDataComesThrough` | `DecodeLiveData` of any message with strange fields around it is what was told | |
| | `ValueComesBack` | for every kind of data point, what the bike sends of a value is decoded to what it means | |
| | `NothingIsLostOnTheWay` | `Spec => []WireInv`, the inductive invariant | |
| | `WireTypeOK` | `Spec => []TypeOK` | `wire` |
| | `RequestsArrive` | `Spec => []RequestArrives` | `wire` |
| | `SavesChangeOneField` | `Spec => []SaveChangesOneField` | `wire` |
| | `FramesAreReadAsMeant` | `Spec => []ReadAsMeant` | `wire` |
| | `EntriesShowTheirPoints` | `Spec => []EntryShowsPoint` | `wire` |
| | `ModesStandInLine` | `Spec => []ModesLineUp` | `wire` |
| | `BikeRequestsAreAnswered` | `Spec => []BikeIsAnswered` | `wire` |
| | `LivePageShowsLastTold` | `Spec => []LiveIsLastTold` | `wire` |

Every property of the passing runs is stated by a theorem, except those of liveness.

The theorems of `FramesProofs` are about operators, for every sequence of bytes that fits a frame;
`wire` evaluates the same operators on the messages of its runs. Of the modules of proofs about a
state machine, each has one lemma per action (or group of actions with the same effect), under it
one step per conjunct of the invariant that the action can disturb, and lemmas for what several
actions share.

### The assumptions

The `ASSUME`s of the modules; TLC evaluates each on the runs. Most say that a bound is a number
and that a model value is not one of the values it stands beside. The others:

- `Exchange.AddrAssumption`: callers do not use the keep-alive's address. It holds for all that the
  page does by itself (the registry marks address 8454 as not readable, so no sweep reads it, and
  no RPC of the page names it). It does not hold for a user who picks that very address in the
  Write Lab: an answer to a keep-alive may then match a call.
- `Sweep.EntriesAssumption`: the priority addresses come first, as `runSweep` sorts them.
- `Sweep.RegistryAssumption`: between the end of the priority batch and the last address of all
  there is one that is always read (or is skipped only if the last one is skipped too). The real
  registry has many. Without it a transport that is lost during the very last read would leave the
  per-mode statistics unread although `sweepFullyLoaded` is set.
- `Page.PageAssumption`: `DIAGNOSTICS_COMPONENTS` has no component twice.
- In the guard of `Page.Picked` (`NoExchange`, no `ASSUME`): no scan and no experiment of a former
  session is under way when the picker is answered. `runSweep` has no such test. It rests on time:
  the transport is null from before the picker opens, an exchange asks the global for its next frame
  every few milliseconds and throws on null, and a user takes longer to pick a device. Without it, a
  scan could go on over the transport of the next session. Of a former sweep nothing of the kind is
  assumed, since opening a Bluetooth device takes longer than a picker.
- `Codec.WordAssumption`: the word has 16 to 32 bits. The code's has 32 (`|=` and `>>> 0`).
- `Codec.NoneAssumption`, `Frames.NotAFrameAssumption`, `Typed.CvcAssumption`: `null` is none of the
  values it is told apart from: a number, a text, a frame, an item of a certificate.
- `Registry.KindsAreKnown`, `OneRowPerAddress`, `BatteriesAgree` and their neighbours are facts about
  a table without parameters; TLC evaluates them on the table itself.
- `Wire.UdamRecordsAssumption`: fields 1 to 5 of the bike's record are set. The decoder returns null
  for a missing one too, but the five are what a bike has; 6 to 8 may be missing.
- `Wire.ConfigIdAssumption`: the id of an assist mode is a text of 1 to 16 bytes. A request with it
  then fits the length byte of a frame. The one id the code knows itself is "0", of off.
- `Wire.StatusesAssumption`: a status is a byte.

### The invariants

**Exchange**: `IInv == TypeOK /\ Provenance /\ AnswersOwnRequest`. `AnswersOwnRequest` alone is
not inductive: a step that accepts a frame knows only that the frame matches in type, address and
sequence number. `Provenance` says what these three tell of its origin: a request or answer of a
caller carries the count of `nextSeq()` calls modulo the period and an address callers use; those
of a keep-alive carry the keep-alive's address; a waiting caller's expected number is its own
count modulo the period. When `Accept` finds a match, the frame cannot be a keep-alive's (the
address differs), so two counts are equal modulo the period, and lemma `SameResidue` makes that
"equal or a period apart". For `subscribeOnce`, which does not compare the address, it is the type
instead: a keep-alive is an RPC, so its answer is never a `SUBSCRIBE_RESPONSE`.
`FlagIsReleased` needs that whoever leaves a non-idle state clears the flag, and that `Leave` into
the read-back sets it while the task is not idle; its converse needs that nobody else can clear it:
hence the hypothesis `\A c, d \in Callers : c = d` of `SingleCallerHoldsFlag`, without which it is
false. `NoSubscriptionLeft` follows the last subscriber of an address: all ways out of `await`,
`notify` and `unsub` lead through `Unsubscribe` or `UnsubscribeThrows`, which set `lastSub`.
For the refinement, every action is shown to be a `Call`, an `Answer` (with an acceptable reply,
by `AcceptsOwnReply`), a `Return` or a stutter of `Calls`, under `IInv`.

**Bridge**: `Inv` is typing, `Alone`, `OwnSize`, `OwnFrame`, `Whole` and `OwnHead`. `Alone`: while
a clean call runs, no other call of its direction does. From it, the registers are its own:
between its announcement and its bulk transfer the announced length is that of its frame
(`OwnSize`); while it awaits the acknowledgement, the frame the bridge is forwarding or has put on
the bus is its frame (`OwnFrame`); between its fetch and its confirmation the frame it holds is
still the head of the inbox (`OwnHead`). `OwnHead` is what makes a clean `Confirm` a `Take` of
`Channel`; all other steps of a read are stutters, `Miss`, `Throw` or, after a stall, `Taint`.

**UdamEdit**: `IInv` adds to the properties that when nothing is unsure and no re-read is
outstanding, the snapshot is the bike's record (`SnapshotFresh`); that then the merged record of a
save under way differs from the bike's in typed fields only (`MergedFresh`); and that the number of
re-reads and calls under way is bounded by the edits, which makes the counters typed.

**Sweep**: `Tally` (the statistics of a component count its results, every skip is justified at
the moment it was made by failures that came before it, at most one result is late) and `Progress`
(how many addresses have been read when the dashboard is up, at each `pc`; once all are read the
statistics are read exactly once, or the transport is lost). `Progress` is where
`RegistryAssumption` is needed.

**Page**: `AloneOnLine` (with a transport there, a sweep that is declared loaded, a scan or an
experiment means that every sweep has returned, or that one has ended before another) is inductive
by itself: `Picked` clears `sweepFullyLoaded`, and only `Finish` and `Loaded` set it. `SweepInv` is
`Tally` for the sweep that runs, the same for each one asleep (`Asleep`), and, when the device was
picked with no sweep under way, `Progress` and "at most one late result" (`Lone`). The last two are
not to be had of overlapping sweeps, as a former one can go on recording on the transport of the
next session. `Tally` is about the sweep's own variables, so it survives `Resume` and whatever else
becomes of the globals. `ScanInv`: a scan that the page has moved on from
finds no transport and an empty table (`OldScans`), so that the report it still writes is its last
(`OldReports`); the parts before the one at hand have their reports, with as many issues as
counted or a mark that an answer was lost (`Reported`). `LabelInv` says that unless excused, a
connected page has its transport and the label is the one `renderPhase` would draw now.

**BleSession**: `LiveInv`: with one live session at a time, a page that shows the dashboard has no
coroutine running and its listener attached, and a coroutine whose `via` is linked is the one
whose transport is the global. `HandleDisconnect` then always finds what it needs to find.

**Frames and codecs**: the decoders are loops over a buffer, and what a loop collects is proved by
induction: from the position at which it stands to the end of the buffer. The induction theorems of
the library take an operator as a parameter; `Induct` and `StrongInduct` state induction for a set
of numbers instead, from the least element of its complement (`Least`), and the instance is a set
of the positions at which the claim holds. `Yields(read, p, s, xs)` is the one notion all loops
share: wherever the bytes `s` stand in `p`, the loop finds `xs` there and goes on behind them. It
composes: what `s` and `t` yield, `s \o t` yields. So each message is proved field by field, a
message within a message as one field of it, and a decoder that takes the last of several
occurrences (`LastAt`) from what is found in the fields behind.

**Wire**: `WireInv` is `RowInv`, `BikeInv`, `RequestInv`, `FlightInv` and `SaidInv`. The properties
speak of the message just read, requested or told; none of them says anything of the messages still
on their way, so none is inductive. `FlightInv` does: the frames in `readQueue`, and behind them the
frames that the notifications in `fromBike` will be taken apart to (`Coming`), are as many as the
messages in `meant`, and the tool will read in the k-th of them what the k-th says (`Meet`, `Fits`).
It also keeps the requests of the bike's own in step with `asked`. A new notification is a `Join` of
bodies, so `SegmentsComeBack` makes it the same bodies in the same order at the other end,
`BluetoothReadsAsUsb` and `AnswerIsRead` give the frame, and one lemma per data point the value.
`RequestInv` is the same for the other direction: what the bike will take out of the request under
way is its address, number and argument, and for a save or a written value what was typed.

- `BikeIsAnswered` follows from the part of `FlightInv` about `asked`: a notification is taken whole,
  so its requests are the first of `asked`, and its replies are theirs.
- `SaveChangesOneField` needs that the argument decodes to the record it was made from with one field
  changed (`RecordComesBack`), a null field being left out and an explicit 0 sent.
- `ReadAsMeant` needs the head of `Meet`. `EntryShowsPoint` needs it too, with `ValueComesBack` for the
  value, and that what the page shows is a function of the value and of the row, so that loading a
  report gives the same (`ReformatKeeps`).
- `RequestArrives` needs `RequestInv`; for a written value also that the text typed in the Write Lab
  stands for one value only (`LabTyped`), so that the value the bike takes from it is that one.
- `ModesLineUp` needs `TableInv`: the names and colours are asked for only when there is a table,
  and no answer to them is on its way otherwise. An answer that is on its way when the list of modes
  is read again finds the new table, with or without the modes it names.
- `LiveIsLastTold` needs that a message with strange fields around it is read field by field, and
  that a field that is not in it stays as it is.

The lists of modes are the three or fewer that the model's bike answers with, and the values of the
rows are `Meanings` of their kinds; the theorems hold for every `Numbers`, `Word`, record, address
and bound, and whatever the order of the messages.

### Only model-checked

- Liveness (`EveryExchangeReturns`, `PendingSettles`, `CallsEnd`, `OpenEnds`, `ScanEnds`,
  `WriteSettles`, both `ConnectingEnds`): the prover does not handle fairness and `ENABLED`.
- What a decoder makes of bytes that no device sends: the theorems say what is read of every
  message a proto3 device makes, not of garbage.

## 5. Where the code and its documentation disagree

Each of these was met while writing the model and is kept as a run that TLC must find violated.

- **`exchange_stale`** (`web/app.js:502`). The comment on the pre-drain says that a late frame
  "can't be mistaken for this response". `readOne` accepts the first frame with the right address,
  of any type and sequence number: an answer to its own first attempt, or to the write before it,
  that arrives after the drain is taken for the answer to the new request. The other exchanges
  compare the sequence number.
- **`udam_stale`** (`web/app.js:898`). The comment on `setUdamValuesForMode` says a save "can
  never touch anything the user didn't explicitly set". It sends the last-read record with the typed
  fields replaced: after a write that was made but whose answer was lost, that record is old,
  and the next save writes the old value of a field the user did not type.
- **`sweep_stuck`** (`web/app.js:2460`). The warm-up reads are in no `try`: a transport error
  there rejects the sweep with the connecting screen still up, which the comment at 2611
  says the code avoids.
- **`ble_retry`** (`web/transport-webble-mcsp.js:171`). The disconnect that a failed attempt makes
  before its retry is heard by the listener that an earlier session left on the device, which puts the page back
  to the start screen while the retry goes on.

Others were met as well and have no run of their own. About what the user is told:

- The README says every setting is clamped to the mode's own limits (`README.md:82-83,101-102`);
  `web/app.js:2158` gives the number inputs `min` and `max`, which do not clamp what is typed.
- The README says "Nothing else is ever written" (`README.md:85`) than the settings, a reset and the
  start mode; the Write Lab writes too.
- The comment at `web/app.js:2542-2543` says that a decline proves a component present; the skip
  test counts values and failures only, so one that declines a read and times out on three is
  reported "not detected".
- `docs/diagnostics.md:3-7` describes a scan that lists all issues; a list that is broken off
  (`web/app.js:1673`) is shown without a mark, or as "No active issues." (1725).
- A Write Lab RPC whose exchange throws leaves "Sending…" until the page is reloaded.
- Read again closes the transport before its picker; when that is cancelled the page still says
  CONNECTED. So does a dashboard whose priority batch ends after the bike was lost. The comment at
  `web/app.js:241` says otherwise. Both are `excused` in `LabelIsTrue`.
- "Write-experiment buttons stay disabled the whole time" until every address has been read
  (`web/app.js:163-166`): not when two Bluetooth sweeps overlap, as the first to end sets
  `sweepFullyLoaded` (2629) while the other still reads. `ExperimentsWait` excepts it.
- `sweepFullyLoaded` is set after Cancel too, although the comment at `web/app.js:163-166` speaks
  of a complete read. `LoadedMeansRead` excepts it.
- With names for all modes but a declined list of modes, a bike with one mode could label "off"
  with the name of that mode.

About the transports: the Node transport has no `init`, although `README.md:23` calls the two
"identical implementations"; the comment at `web/transport-webusb.js:44-45` says the
responses to the handshake are drained "so they don't leak into later read matching", and the drain
stops after four frames; the length byte of a Write Lab frame wraps over 255.

About values: a normalisation factor or text that is 0 is shown as empty; loading a report decodes
points that were a guess when they were read by the type the registry has now; the enum key "-1"
never matches a 32-bit varint; a Write Lab number of 2^32 or more wraps silently (`>>> 0`);
Battery 2 has untyped points where Battery 1 has typed ones; an explicit 0 in `serviceDue` and
`unixTimestamp` is displayed differently after a report was loaded.

## 6. What is not modelled

- Dashboard, raw table, the stack of dialogs, units, wording, theme, disclaimer, the debug log: they
  render the modelled state and keep none that the protocol reads.
- The names of enum numbers and of diagnostic issues: JSON tables.
- The registry's generators: scripts that ran before the registry was committed. The registry
  itself is modelled row by row.
- The loop of the Node command line over its addresses: it keeps nothing but what it prints. Its
  reads, its keep-alive and its transport are callers of `Bridge`.
- `decodeAssistModeInformation`: nothing calls it.
- A reply to the bike that collides with another GATT write (`web/transport-webble-mcsp.js:304`;
  `Wire` takes the reply as sent): what happens is up to the browser, which documents an error only.
- Cancel during `connectBle` (`web/app.js:366`) and the wait for the handshake's acknowledgement
  (`web/transport-webble-mcsp.js:343`): time, not order.
- 64-bit time stamps after 2038 (`src/messageTypes.js:465`): beyond the word of the model.
- The loss or timing of bytes within a frame: `Exchange` has losses without bytes, `Wire` has bytes
  without losses.

## 7. Plan

In the order of what mattered most; all but the last are done.

1. `Exchange`, its runs and theorems, and its refinement of `Calls`.
2. `UdamEdit`: the operation that changes the bike's settings.
3. `Sweep` and the session globals.
4. `Codec`, `Frames`, `Wire`: both directions, three transports.
5. `BleSession`: sessions that outlive their screen.
6. `Bridge`: the bridge's registers, and its refinement of the `Channel` that `Exchange` uses.
7. `Page`: pickers, reports, status line, scan and experiments beside a running sweep.
8. `Registry`, `Typed`, `Proto3`: every typed data point, the tables of modes, the way through a
   report, the arguments of the Write Lab.
9. Proofs of the safety invariants of `Sweep`, `UdamEdit`, `Page`, `Bridge` and `BleSession`.
10. Theorems about `Frames`: both transports carry the same.
11. `PageTypeOK` as a theorem, from `ScanInv` and the typing of `SweepProofs`.
12. `Loops`, and theorems about the codecs and all invariants of `Wire`.
13. To do: `Exchange` over two overlapping readers of `Bridge`, i.e. with `Channel`'s crossed reads
    in place of the atomic `readNextFrame`.

## 8. Running it

In this directory, with TLC and TLAPS (and the TLA+ community modules on the library path):

```
tlc -workers 2 -config MCExchange.cfg MCExchange
tlapm ExchangeProofs.tla
```

The passing runs need from seconds to three minutes each; the proofs some minutes per module,
`FramesProofs` about ten and `WireProofs` about fifteen on four cores.
