# TEG firmware: a TLA+ verification project

Models, model-checking configurations and machine-checked proofs for the Teensy 4.1
firmware in `src/src/` (power electronics: a FlexPWM gate, its protections, its
configuration and waveform files, its update path, its HTTP interface). Paths below are
relative to the repository's source tree, so `pwm_utils.cpp` is `src/src/pwm_utils.cpp`.

## 1. The system

One Cortex-M7 without an operating system. `setup()` runs once, then `loop()` calls one
task after another for ever; every HTTP handler, every save, every apply runs to its
end inside one pass of `loop()`. Interrupts preempt it between any two instructions:
the two fault interrupts (GPIO pin, FlexPWM fault) with the highest priority, the
carrier interrupt below them. Files live on an SD card (FAT, no atomic replace), and
power may be lost at any time.

| Component | State it keeps | Operations | What is hard, and what must hold |
|---|---|---|---|
| Output gate (`pwm_utils.cpp`) | OUTEN, interlocks, `vFaultTripped`, `vOutputInhibited`, polarity mask, fault generation | `configurePwm`, `clearFaultTrip`, `releaseOutputInhibit`, `faultTripIsr`, OTA safe state | A fault interrupt between any two steps of a release. Power only with every interlock clear, polarity restored, protection watched; a demand to shut down is always answered |
| Comparator (`acmp.cpp`) | routing, fault latches of two modules, armed mode, interrupt enable, registers it shares | configure/park/route/arm, `acmpClearLatch`, re-arm, cycle-by-cycle tick | Latches and interrupt enable that disagree; half of a route moved; flags cleared by writing them. A latched overcurrent is always where its interrupt reads it, and a limit that says it is armed is |
| Thermal (`thermal.cpp`) | cached probes, pending conversion, valid external sample, derating | `thermalConfigure`, `thermalTask` | A bus that may only be used with outputs off; a sample that belongs to earlier settings. No power without a sample, derating for the hottest part |
| Inverter and timers (`pwm_utils.cpp`, `modulation.h`, `pwm_pair.h`, `pwm_timing.h`) | duties, pairs, prescalers, phase, ramp, sequence position | configure, the carrier interrupt | Nine schemes over four cells in scaled integers; registers that load at a reload or never. Pins carry the reference, no leg is unsafe, one failing timer stops all |
| MTP (`mtp_service.cpp`, `MTP_Storage.cpp`, `MTP_Teensy.cpp`) | filesystem timer, record index with its cache, open file, transmit buffer | begin, first loop, commands | A library timer that touches the card from interrupt context; files that change under an index; lengths announced before they are known. Handles keep their object, answers are framed |
| Configuration store (`config_json.cpp`) | live file, `.tmp`, `.bak`, `.bad`, generation | `saveConfiguration`, `loadConfiguration` | Power loss between any two card operations, operations that fail, a generation counter that wraps. What was saved is what boots |
| Configuration rules (`config_serde.h`, `config_compare.h`) | the running configuration | read, repair, pin ownership, compare and apply, write | Forty repairs that touch what others rely on. What is accepted can be run, survives a reboot, and every change takes hold |
| Write PIN and access (`write_pin.cpp`, `web_handlers.cpp`) | the PIN, the provisioning interlock, table of peers | generate, store, load, check | Power released while the PIN exists only in memory; a block that never ends or hits the wrong peer |
| Connections (`web_handlers.cpp`) | four slots with their times | accept, serve one, drop | Slots never given back, over the wrap of `millis()` |
| Waveform playback (`stream_ring.h`, `waveform.cpp`) | two buffers with their published words, file position | `next()` in the interrupt, refill in the loop, prefill, deactivate | Single-producer/single-consumer handover with a consumer that gives up buffers. Order, no loss, no repetition, no stall |
| Waveform and preset files (`waveform.cpp`, `presets.cpp`) | live, `.bak`, `.tmp` files, what is active in memory, credentials | upload, activate, save, load, import, delete | Partial failure of multi-step replacement; a body that arrives in pieces; names that fold. The previous one survives; no document gives a credential away |
| Firmware update (`ota.cpp`, `flash_ota.cpp`, `ota_ingest.h`) | staged image, verified/commit/abort flags, failure count | ingest, commit, abort, flash copy | Records in any order over dirty flash; a commit, an abort and a new upload in one pass of the loop; a copy that fails half-way |
| Capture (`capture.cpp`, `meter.cpp`) | sample ring, window, scope trigger, meter banks | tick in the interrupt, read, flip, arm, release | Cursors that lag the ring; a freeze in the middle of a read |
| Event log and clock (`event_log.h`, `utils.cpp`) | ring of entries, boot id, RTC, pending NTP request | append, read since, sync | Gaps after overwriting, cursors from an earlier boot, invented replies. Nothing is missed silently; only an answer to the question sets the clock |
| Control (`pll.cpp`, `mppt.cpp`, `pi_controller.h`) | estimates, search direction and step, ownership of the index | task, reset, enable | Several writers of one setpoint under one ceiling |
| MQTT (`mqtt.cpp`, `mqtt_discovery.h`) | connection, discovery progress, backoff, high-water mark | configure, task | A link that swallows what is sent. What the broker keeps is true of the device |
| Power monitor (`power_monitor.cpp`) | edges, readings, alert, energy time | task, pin interrupts | A chip that vanishes; edges between two reads. No alert is lost, no energy invented |
| Signal processing (`afdd_*.h`, `spectrum_*.h`, loop filters) | filter states | pure functions on floats | Out of reach of TLC |

Interactions: handlers change `config` and then call the configure functions of the
gate, comparator, thermal supervisor and playback (the path "apply"); a save that
succeeds lifts the provisioning interlock and asks the gate to release (the path
"save"); boot runs the same configure functions in the order of `setup()`; the fault
interrupts write what all of them read; the carrier interrupt consumes the stream ring
and feeds the capture ring; an update begins with the gate's safe state.

## 2. Modules

| Module | Models | Composed with |
|---|---|---|
| `PowerStage` | what the gate promises: power, what blocks it, a demand that is answered | |
| `OutputGate` | the gate, comparator, fault pin, thermal release condition, MTP timer, boot, apply, save, clear, OTA safe state, three interrupts, reset | implements `PowerStage` by the mapping at its end |
| `MCOutputGate`, `MCTripOwed` | constants and symmetry; a ghost that remembers unacknowledged trips | extend `OutputGate` |
| `OutputGateProofs` | the inductive invariant and the theorems | extends `OutputGate`, `TLAPS` |
| `DurableRegister` | what the settings file promises: a value that survives power loss and changes only to what is being saved | |
| `ConfigStore` | save, recovery and boot over the card's four names, with failures and power loss at every operation | implements `DurableRegister` |
| `StreamRing` | the double buffer, refill, prefill, replacement, trips | |
| `StreamRingProofs` | the inductive invariant and the theorems | extends `StreamRing`, `TLAPS` |
| `WaveformStore` | upload, staging, verification, swap and activation of the waveform file over a failing card | stops and restarts what `StreamRing` plays |
| `WaveformStoreProofs` | the inductive invariant and the theorems | extends `WaveformStore`, `TLAPS` |
| `Ota` | waiting requests, upload, verification, commit with retries, abort, reset | its safe state is `OtaBegin` in `OutputGate` |
| `OtaProofs` | the inductive invariant and the theorems | extends `Ota`, `TLAPS` |
| `Recorder` | the capture rings, trip and scope freezes, raw download, the reader of the PLL, the banks of the meter | its `Trip` and `ClearTrip` are those of `OutputGate`, reduced to `vFaultTripped` |
| `RecorderProofs` | the inductive invariant and the theorems | extends `Recorder`, `TLAPS` |
| `FaultRegisters` | the comparator's registers: selectors, shared filter and flags, arming, clearing, counting | below `OutputGate`, which sees armed or failed |
| `Inverter`, `InverterCases` | module 2 under every scheme, and the settings it and the other timers are checked with | |
| `PlainTimers` | the other five timers, reloads and asymmetric timing | its `Release` and `Trip` are `OutputGate`'s |
| `Thermal`, `Tracker` | probes and derating; the maximum power point search under the derated ceiling | share the ceiling |
| `ConfigFields`, `ConfigRules`, `ConfigDocuments` | the fields, the path of a document, the documents it is checked with | what is accepted is `ram` of `ConfigStore` |
| `PresetStore`, `PresetName` | presets on a card that fails, credentials, names | |
| `WriteAuth`, `ClientPool` | who may write, who is served | |
| `EventLog`, `NetTime` | the log and its readers; the clock and NTP | share the boot |
| `Mqtt`, `MqttDocuments` | the connection to the broker; what is published | |
| `PowerMonitor` | the auxiliary monitor and its edges | |
| `IndexCache`, `MtpIndex`, `MtpResponder` | the USB file service in three layers: blocks and cache, directories and files, commands and framing | each abstracts the one below |
| `Ingest`, `HexImage` | a waveform body, a firmware stream, on the way to the card and the flash | what follows is `WaveformStore`, `Ota` |
| `FileServices`, `Services` | what `loop()` runs beside the gate, composed | instantiate the modules above; `Services` extends `ConfigStore` |
| `ServicesProofs` | monitor, thermal supervisor, tracker and clock: an inductive invariant and a theorem each; the configuration store with its refinement | extends `Services`, `TLAPS` |
| `WebProofs` | log, connections, write PIN, presets and their names, the broker and its documents likewise | extends `ServicesProofs` |
| `OutputsProofs` | the registers of the current limit, the other timers and their edges, the inverter likewise | extends `ServicesProofs` |

Each module's header says what a step is. `PROJECT.json` maps every definition to the
lines it stands for. In short:

**OutputGate.** `pc` is the main thread's position in one handler and `path` the handler
(`boot`, `apply`, `save`, `operator`). The release path is split wherever a fault
interrupt can change what was tested before: the two tests of `clearFaultTrip`, its
latch clear and verification, the acknowledgement (`ClearAcknowledge`), the tests of
`releaseOutputInhibit` (`ReleaseGate`), one step per restored cell (`RestoreCell`), the
last test with interrupts off (`CommitConnect`, `CommitAbort`), and the check after it.
`FaultTripIsr` and `AcmpFaultIsr` are whole interrupts. `inh` is the set of interlocks
that hold; `latch` and `routed` are sets of FlexPWM modules, because the route is moved
one module at a time and only one of them owns the interrupt. Currents, DAC codes and
temperatures are absent: the comparator is high or low, a sample valid or not.

**ConfigStore.** The card is four names, each absent or holding a document with its
generation and its completeness; one step per card operation. Generations live in
`0..Generations-1` and wrap, `Newer` is the signed difference of the code; the model's
modulus is 16 where the code's is 2^32. `Faults` names the operations that may fail in a
run. Power is lost between any two operations, and a write may be left incomplete.

**StreamRing.** One step of the interrupt is one call of `next()`; the main thread's
steps are `beginRefill`, one read of the card, and `markFilled`. A sample is its
position in the file, so the order that comes out is checked, not only the protocol.

**WaveformStore.** A waveform is one upload of a kind (short, long, sequence); `Cut` is a
part of one. `segs` is the segment table that uploads and playback share.

**Ota.** Flash is two regions of sectors; a sector holds an image's bytes, nothing, or
bytes of no image. An operation may leave the last of these and reports nothing.
`pending` are the clients that wait; `enet` is the Ethernet interrupt, which a commit
switches off for good.

**Recorder.** A sample is the number the counter had when it was recorded, an entry from
before the last reconfiguration is `Old`; of its value only the side of the trigger level
matters, which `TickRecords` chooses. `captureTick` is one step; whatever the main thread
does in several accesses is several: arming in three (taken from the interrupt, set up,
given back), releasing in two, a meter reading in copy and reset, the header of a
download in mark and flags, a drain sample by sample. `pc` is the request being served
and `task` the control task, because `serviceControlTasks` runs tasks between two pieces
of a download. `crossed`, `lost`, `anchored` and `exact` are history variables: what the
trigger sample followed, whether a metered sample was cleared unread, whether the
counter is the one the cursor was read from, and whether every drained sample was the
one its phase was computed for. Modular lag is as in the code; the modulus is a multiple
of the ring, as 2^32 is.

**Services and FileServices.** `loop()` runs the services one after another and they share
no variable but the configuration they were given, so a behaviour of the firmware is an
interleaving of behaviours of each. The composition therefore lets one move (`focus`,
`part`) and keeps the others in an initial state: the reachable states are the sum of the
modules' and not their product, and every module is explored whole. Where two services do
share state it is inside one module: the index target with its ceiling in `Tracker`, the
card with its names in `PresetStore`, the flash in `Ota`. `input` tries a function on one
argument per initial state: names of presets, readings for the broker, asymmetric timings.

**FaultRegisters.** One step per register access that another party can come between: a
comparator edge, another fault's flag, a selector that stops obeying. Thresholds are in
millivolts and the DAC code is computed as in the code.

**Inverter.** One step is one carrier cycle, which writes every cell by the scheme; an
apply is one step, because the interrupt is off while it reprograms. Amplitudes are
integers of a small range with the shifts and divisions of the code; the tables are twelve
entries of a sine. **PlainTimers** keeps what is staged apart from what is loaded.

**ConfigRules.** A document is what it says differently from an export of the defaults. It
is narrowed to the C types, repaired in the order of `validateConfig()`, checked for pins,
compared, applied, and after a restart read back. `ConfigDocuments` enumerates documents
around each limit, one group of rules at a time.

**EventLog, Mqtt, NetTime** have an environment that loses, delays and repeats; **NetTime**
also one that invents. **WriteAuth, ClientPool, NetTime** count time modulo a small even
number with the signed comparisons of the code, so that the wrap happens.

**IndexCache, MtpIndex, MtpResponder.** A record is a unit or two of a block; a file is its
size and its age; a command is the lengths it announces and writes.

**Ingest, HexImage.** A unit of the body is what the code tells apart (a line by kind, the
fields of a container, half a record); a record of a firmware stream has an offset, a
length and its kind, and pages, sectors and the buffer are small.

## 3. Runs

| Run | Config | Result | Bounds, and why they are enough |
|---|---|---|---|
| `gate_safety` | `GateSafety.cfg` | pass | Two cells, so that an interrupt can fall between two restores; one latched limit; thermal on and off; MTP on |
| `gate_answers` | `GateAnswers.cfg` | pass | No cells (restoring is bounded work), both limit modes, OTA build; liveness needs no symmetry |
| `gate_trip_owed` | `GateTripOwed.cfg` | violation | The smallest gate, with the ghost of `MCTripOwed` |
| `gate_ota_dark` | `GateOtaDark.cfg` | violation | The smallest gate of an OTA build |
| `store_promote` | `StorePromote.cfg` | violation | One edit, the promotion at boot fails |
| `ring_playback` | `RingPlayback.cfg` | pass | Buffers of two samples and a file of seven (three buffers and one more): fills end before, at and after the end of the file in every alignment |
| `wave_uploads` | `WaveUploads.cfg` | pass | Two waveforms of every kind, every operation may fail, power fails anywhere |
| `wave_rejected` | `WaveRejected.cfg` | violation | Only uploads fail |
| `ota_update` | `OtaUpdate.cfg` | pass | Two sectors (a partial copy is different from none and from all), genuine and foreign images of both sizes, two waiting clients |
| `ota_abort` | `OtaAbort.cfg` | violation | The same |
| `recorder_readers` | `RecorderReaders.cfg` | pass | Rings of three and two samples and a counter modulo six: both rings turn and the counter wraps while readers lag. `Usages` lists what is used together (meter, scope and download; PLL and scope; PLL and download): the meter touches nothing the PLL reads. `PassTicks` bounds the carrier cycles that interrupt one pass of `pllTask`, which in the code is over long before the ring of 2^20 has turned |
| `services` | `Services.cfg` | pass | Every service of section 2 in turn, 502 thousand states; the bounds are in the table below |

The instances of `services` (the constants are in `Services.cfg`; what is the same in every
instance, `Services.tla` and `FileServices.tla` write out):

| Focus or part | Bounds, and why they are enough |
|---|---|
| `store` | 16 generations and four edits, started near the wrap; writes, keeps and swaps fail, power fails anywhere |
| `log` | Four entries, answers of two, seven written, two restarts: eviction, cut answers and old cursors all occur |
| `mqtt` | One topic, with and without discovery, two entities and the fault, failures in a row until the wait saturates |
| `time` | A clock modulo four, two requests with replies late by one, invented ones before and after |
| `presets`, `names` | One folded name with two spellings, two brokers, one password, two PINs; names of up to four characters, one more than allowed |
| `pool`, `auth` | Two slots; three peers for two entries, two failures to a block; clocks modulo eight and six |
| `monitor` | One pin of each kind: edges are independent |
| `heat`, `search` | Two probes, two buses, temperatures below and above; an index of twelve steps with three ceilings |
| `rules` | The documents of `ConfigDocuments`: every field absent or mistyped, every limit from both sides, and the combinations the rules name |
| `stage` | Every scheme, one to four cells, twelve table entries, a ramp of five cycles: every vector and each phase of a ramp occurs |
| `timers`, `edges` | Two settings that differ in every timer, reloads that fail; a table of periods, duties and shifts around the limits |
| `limit` | Four modes, three thresholds, a filter or a map set by others, a selector that sticks at any time |
| `readings` | Every subset of what the broker may be told |
| `cache`, `index`, `responder` | Six records, two to a block, for two slots of cache; three files in two folders and two stores; names of every class of bytes, transfers that end before, at and after a packet |
| `ingest`, `hex` | Two samples of staging, bodies of every kind and truncation; six lines around a page's end, three sectors |

What the passing runs show, property by property, is stated above each property in its
module. Every one of them is violated by the mutant that `PROJECT.json` names for it; the
properties of `services` join several promises of a module, and further definitions marked
`mutant` beside the code they change each break another of these.

### Observations

Three more configurations record what TLC refutes but no statement of the repository
contradicts strongly enough to be called a bug: `GateFlightRecord.cfg` (a second apply,
after a trip that was cleared only in part, can discard the frozen record of that trip,
`pwm_utils.cpp:637`), `WaveBackup.cfg` (after a power loss between the two renames of a
swap, the next upload removes the only copy of the previous waveform before it has another
one in place) and `PresetSwap.cfg` (the preset being replaced is removed before the rename of
its replacement, and the replacement too when that rename fails, `presets.cpp:142` against
the comment at 118).

These are stated in their modules as definitions in no run, because they do not hold:
`SavedMeansStored` and `SomeCopyRemains` of `ConfigStore` (`FILE_WRITE` appends: a `.tmp`
that could not be removed makes a save report success for a document it did not store; a
failed swap and a failed restore leave the only copy under a name the next save removes
first), `RestartToldOnce` of `EventLog` (`web/stats.html:349` keeps the boot id),
`ClockNeverJumpsBack` of `NetTime` (the event clock goes back when `millis()` wraps after
49.7 days without a sync), `BlockEnds` of `WriteAuth` (a block is compared by a signed
difference and not removed when it is over: 24.8 days later it is in force again,
`web_handlers.cpp:310`; one that would end when `millis()` is 0 is none), `SampleFollowsTheRun` of `Thermal` (a harvest may return a
conversion from before the outputs ran), `SearchFollowsTheOutput` and `HandsBack` of
`Tracker` (an apply that changes the target reseeds the search only for some sections,
`pwm_utils.cpp:659`; an apply that touches another loop first clears `stepping`, and
switching the tracker off then leaves the output where the search was, `mppt.cpp:36`), `MpptWaitsForTheRamp` of `ConfigRules` (the
interval is capped at 60 s, a ramp may be longer), `OutOfRangeIsRejected` of `ConfigRules` over
the documents `WidthDocs` (a threshold outside 16 bits is narrowed before the range test that
is to reject it, `config_serde.h:601`), `SentAsAnnounced` of `MtpIndex` and
`FramedAfterCancel` of `MtpResponder` (a file that changed is sent short or long; a cancel
leaves bytes in the buffer of the next answer), `CommentsAreSkipped` of `Ingest` (a comment
longer than the line buffer is refused). With a second value in `Topics`, `OnlineHasAWill`
of `Mqtt` fails: after a change of the topic an unnoticed dead link leaves the old topic
online (`mqtt.cpp:64`); `services` therefore keeps one topic.

From reading the code while modelling it, without a definition: a freeze between flip and
take leaves the sums of the idle bank for a later reading to mix in (`meter.cpp:15`;
nothing is lost); until the first sample after a reset `captureMeanRaw` answers 0
(`capture.cpp:216`); a missed conversion skips a sample without a gap in the count
(`capture.cpp:128`); a cell whose pair was refused because of its write-once COMPMODE is
held off (`pwm_utils.cpp:435`) but stays out of the mask of denied cells (`pwm_utils.cpp:915`),
so the carrier interrupt would modulate it again: `LegsAreSafe` would fail with such a cell in
`FixedCells`. The bit is 0 after a reset and nothing in the firmware sets it, so the run has no
such cell and the theorem says so in a hypothesis (`NoPairIsFixed`); a duty of 65535 on channel B is the
mark for "none" and is not programmed (`pwm_utils.cpp:480`); with a zero duty or an edge
that cannot be reached, asymmetric mode makes the whole PWM configuration invalid; the
rebuild at `web_handlers.cpp:506` cannot be reached because of 480; a deadline for a save
that already happened stays (`main.cpp:424`); Tm2's cell frequencies are not exported; four
silent clients keep others out for five seconds; a length of 4 GiB and more wraps in an MTP
header. In `StreamRing`, after a starvation with both buffers requested and the carrier
interrupt off during both refills, the two refilled buffers are played in exchanged order
once: `PlaysInOrder` promises the file's order until the first starvation,
`NothingSkippedOrRepeated` holds throughout.

## 4. Findings

1. `gate_trip_owed`: a trip between the last test of `vFaultTripped` in
   `clearFaultTrip(false)` and the store that clears it (`pwm_utils.cpp:600`) is
   forgotten, and power returns without an acknowledgement.
2. `gate_ota_dark`: the deferred save of `loop()` (`main.cpp:424`) can release the
   outputs after an update put the board in its safe state.
3. `store_promote`: when the boot promotion of a verified `.tmp` fails, the first save of
   that boot removes the only complete copy (`config_json.cpp:218`).
4. `wave_rejected`: a rejected sequence upload has already overwritten the segments of
   the sequence that stays stored (`waveform.cpp:384`).
5. `ota_abort`: an abort that waits behind a commit that fails resets the board into the
   damaged base image (`ota.cpp:172`).

## 5. Fairness

`OutputGate`: weak fairness of the running handler (the CPU keeps executing it) and of
each fault interrupt (a pending, enabled interrupt of the highest priority is taken).
No handler is assumed to be started, and nothing is assumed of the environment.
`StreamRing`: weak fairness of the main thread and of the carrier interrupt while it is
enabled, and strong fairness of a full read of the card: a card that is asked again and
again answers in full at last. Without the last the code promises nothing but a held
sample. `Ota`: weak fairness of the main thread (the copy kicks the watchdog itself).
`ConfigStore`, `WaveformStore`, `Recorder` and the modules composed in `Services` state safety
only.

## 6. Proofs

TLAPS checks every theorem from the definitions and the `ASSUME`s of the modules.

* `OutputGateProofs`: for any set of cells and any subset of the settings, `IInv` is
  inductive and implies the type invariant and six state invariants; `ConnectOnlyWhenQuiet`
  and `StepsOfPowerStage` (the safety half of the refinement) follow from it. `IInv` is needed because each property rests on
  the others at the moment of connecting: what `CommitConnect` does not test again
  (an interlock, the polarity of the cells already visited, the latch of the module
  whose interrupt is used) must be carried from the steps that tested it, and every
  interrupt in between must either leave it alone or mask. It has a conjunct per
  promise that is carried: what holds after each label of the release path, that a
  masked generation forbids the commit, that a latched fault has a place from which its
  interrupt will be enabled again.
* `StreamRingProofs`: for buffers and files of every size, `RingInv` (types; a prefill
  is unobserved; a buffer in work is marked and only it; until the first starvation the
  read-out positions continue one another, buffer after buffer, up to `next`) is
  inductive and implies `TypeOK`, `BufferHasOneOwner` and `PlaysInOrder`.
  `NothingSkippedOrRepeated` also holds after a starvation, when the order of the buffers
  may be exchanged: `SpanInv` says that what waits to be played is one span of the file
  that ends at the read position (`FreshInv`), in one buffer (`LoneInv`) or in two that
  continue each other either way round (`PairInv`). The proof asks for files of at least
  three buffers (`StoredAssumption`): a starved ring, with one buffer half played and
  both refilled, spans up to three of them, and a shorter file would overlap itself. TLC
  refutes the property for three samples to a buffer and seven in the file. The code
  streams only what exceeds the memory store, 128 buffers (`waveform.cpp:88`).
* `WaveformStoreProofs`: for any waveforms and any set of faults, `Inv` is inductive and
  implies the four invariants of the run and the types. Beside them it needs where the new waveform
  may be before the swap (`NewIsOnlyStaged`), that a verified staging file is whole
  (`StagedIsWhole`), that between the two renames the backup is what the upload found
  (`BetweenRenames`), and that nothing plays while the card is being changed
  (`NothingActive`).
* `OtaProofs`: for any images, any number of sectors and any flash that fails, `Inv` is
  inductive and implies `TypeOK`, `StagedIsVerified` and `BootableOutsideCommit`;
  `CommitResetsIntoNew` follows. It carries that a commit is pending only on the way
  to `otaLoopTask` (`PendingIsFresh`), that a copy runs with the network masked
  (`CopyIsMasked`), that an upload in progress has withdrawn the verdict on the one
  before (`UploadUnverified`), and that after the read-back the base region holds the
  image (`CopiedIsWhole`).

* `ServicesProofs`, configuration store: for any number of edits, a counter of any modulus above twice the
  edits that may be outstanding, and writes, renames that keep the old file and swaps that
  fail in any combination (`SafeFaults`), `StoreInv` is inductive and implies `TypeOK`,
  `EveryPowerLossRecovers`, `ProvisionedIsDurable` and `NoTiedGenerations`, and every step
  is a step of `DurableRegister` or a stutter (`ImplementsRegister`). Its core is `Chain`:
  the documents on the card follow one another, `.tmp` after the live file after `.bak`,
  each ahead of the next on the circle of generations by no more than what was saved in
  between and the value the wrap skips, so `generationNewer()` tells them apart
  (`ChainIsNewer`). `CardInv` has the chain, `BootInv` what a boot promotes, `RunInv` which
  name is the last acknowledged one (`Base`) at each point of a save, `FoundInv` what the
  next boot would find. `SafeFaults` is exact: with `Faults` equal to `{"remove"}`,
  `{"promote"}` or `{"swap", "restore"}` TLC violates `EveryPowerLossRecovers` (the run
  `store_promote` shows the second).
* `RecorderProofs`: for rings, pieces, backlogs and post-trigger lengths of every size and any
  counter that is a multiple of the ring, `RecInv` is inductive and implies `TypeOK`,
  `MeterLosesNothing`, `TriggerIsWhereReported`, `FrozenDownloadIsOneRecord` and
  `DrainMatchesMirror`; `TripKeepsRecord` follows from the actions. Each of its parts ties one
  reader to what the ring really holds: `HistoryInv` (the n newest samples are there in
  order, as far as anything was recorded since the last reconfiguration), `ScopeInv` (samples
  since the trigger and samples still to come make up the post-trigger length), `DownloadInv`
  (the pieces sent so far are a prefix of the window that was marked), `DrainInv` (the lag
  of the reader, in the middle of a pass, plus what may still arrive, is below the ring),
  `MeterInv` (the bank being copied is idle). The hard part is arithmetic modulo two moduli
  at once, the counter's and the ring's.
* `ServicesProofs`, `WebProofs` and `OutputsProofs`: a step of the composition moves one service, so an
  inductive invariant of that service, for every value of its constants that
  `ServicesAssumption` allows, carries over; `FocusStays` and a lemma `...Moves` per service
  say so.
  - Power monitor: events are in the hands of a pass only while one runs, and an energy
    mark is set only when nothing went unobserved since (`PassesInv`).
  - Thermal supervisor: the worst reading is found whatever the set of probes; the bus is
    silent while the outputs may run.
  - Tracker: the walk of the search over a flat stretch is bounded (`WanderIsBounded`), by
    an account of distance, direction and flat intervals since the last turn (`Walked`)
    that holds on both sides of where the walk began, for every range, step and plateau.
  - Clock: what waits at the socket with a request's token is what the server answered it
    (`InboxInv`), the tokens of requests not yet sent are unanswered (`AnswersInv`), and
    event times stay within the RTC's tolerance until `millis()` wraps (`SyncInv`).
  - Event log: each slot holds the newest entry of its number (`SlotsInv`), the viewer knows
    of everything up to its cursor (`ViewerInv`), and an answer under way continues it or
    says that it does not (`WireInv`), across evictions, cuts and restarts.
  - Write PIN: a blocked peer has an entry with the deadline its last failure set
    (`BlockInv`) and only peers that failed have one (`GuiltInv`).
  - Connections: a silent client has waited less than the timeout, one request and the time
    since the last pass (`WaitInv`), so the signed difference of `millis()` is never read past
    half its range (`TimeoutIsTold`). This needs three times `MaxServe` below half of the
    wrap, for two requests and the rest of `loop()` may come between two looks at a slot.
    With the weaker bound that timeout and one request fit, TLC finds a client that is kept
    (timeout 1, requests of 3, modulus 10); the code's half range is 24.8 days.
  - Presets: a save under way writes beside a preset of exactly its name or of none and what
    it wrote is whole and carries no credential (`JobInv`), so only the remove before the
    rename takes a stored preset away (`resaved`); with the types and the promises
    themselves this is inductive, for any names, hosts, passwords and PINs. `EveryNameIsItsFile`
    is about the function of `PresetName`, for names of any length over any characters.
  - Broker: the entities announced in this session are those below the index of the next
    (`SentInv`), no total that was told exceeds the high-water mark (`ToldInv`), what is online
    has a will (`SessionInv`), the wait follows the failures in a row (`BackoffInv`).
    `EntitiesAreServed` is about the function that renders a reading.
  - Current limit: what must be carried from register to register. Targets that were set
    up stay (`TargetsInv`), what is not ready is parked and dark (`DarkInv`), flags the tick
    has read are those it will clear (`CountInv`), and under a latched limit the flag of the
    module that owns the interrupt is the first to be set (`LatchInv`).
  - Other timers: what an apply is done with is staged and loaded (`LoadInv`), module after
    module, for any settings. `EdgesAlwaysReached` is arithmetic over the prescaler
    and the reload value for every frequency, duty and shift.
  - Inverter (`OutputsStayAsConfigured`): `StageInv` for any table, sequence, samples and settings. A leg that
    was to be a pair and is not one stays off (`LegsInv`); plan and polarity are the scheme's
    (`PlanInv`), so the duties of the last cycle add up to the reference it showed (`ShownInv`,
    and a lemma per disposition: `OpposedPins`, `StackedPins`, `ThreePhasePins`); the player is
    where its count of cycles says (`PlayInv`); the ramp is as far as its cycles have brought
    it (`RampInv`). Two hypotheses: that references fit the amplitude
    (`ReferencesFit`, an assumption TLC evaluates) and that no pair of a running scheme has its
    COMPMODE fixed (`NoPairIsFixed`, see the observations). `Before`, the cycles up to a
    segment, is a recursive function; what it computes is shown by a smallest
    counterexample instead of an induction.

  `Smallest` is a lemma of its own kind: that a nonempty set of numbers below a bound has a
  least element, which `CHOOSE` in the models relies on, is an induction. It is proved from
  the pigeonhole theorem of the library instead: without a least element, the step
  to the next number would map what lies above the set onto itself and not one to one.

Only model-checked: every liveness property (`CommitIsDecided` of `Ota` among them) and
the fairness half of `ImplementsPowerStage`, because the installed provers do not handle
fairness and `ENABLED`; and of `Services`, `SettingsAreSound`, `UsbShowsTheFiles` and
`UploadsAreExact`. The last two rest on recursive functions over data (directories, blocks,
lines of a body, containers) whose value for every input needs induction over data, and their
instances fix most constants; `SettingsAreSound` is a property of one function over a very
large record.

## 7. Not modelled, and the plan

Every component of the firmware with state of its own has a module. What could be proved next:

1. `SettingsAreSound`: every stage of the narrowing and repair keeps what the stages before it
   settled; with it, a document's path through export and import is the identity.
2. The layers under `UsbShowsTheFiles`: that `IndexCache` reads what was written.

Left out, and why:

* Floating-point arithmetic: the PLL's loop filter, the PI controller, arc-fault analysis
  (`afdd_macapd.h`, `afdd_warp.h`) and spectra. What they share with the rest (cursors,
  the index target) is modelled.
* Libraries: `miniz` (its inflate is external in `Ingest`), the Ethernet, USB and 1-Wire
  drivers, the MTP commands that write, which this build refuses.
* Wording and layout: pages, metrics, the display, logs, hex digits, JSON texts; parsing
  succeeds or fails, and what it yields is modelled.
* Calibrations and unit conversions of the meter, the monitor and the scope; downsampling
  of the scope's view.
* Power loss inside a directory update of the card: a rename or a removal happens or does
  not.
