------------------------------ MODULE Services ------------------------------
(***************************************************************************)
(* The services loop() of main.cpp runs one after another.  They share no  *)
(* state but the configuration each was given, so a step of one changes    *)
(* nothing of another and each is explored with the others at rest: focus  *)
(* is the one that moves.  The settings file of ConfigStore is the base,   *)
(* FileServices composes what serves files to a host, and the others are   *)
(* small instances of their modules.                                       *)
(***************************************************************************)
EXTENDS ConfigStore, FileServices, InverterCases

CONSTANTS
  Focus,   \* bound: the services explored
  \* EventLog, NetTime
  Capacity, MaxPerResponse, OledLogLines, MaxWritten, MaxBoots,
  Wrap, UpSince, Resync, Retry, ReplyTimeout, RtcTolerance, MaxWall, MaxRequests,
  \* ClientPool, WriteAuth
  MaxPendingClients, IdleClientTimeout, ClockWrap, MaxServe,
  PeerIps, PeerSlots, AuthWindow, AuthBlock, AuthFailures, AuthWrap, UpTime, MaxTime,
  \* Thermal, Tracker
  Buses, RequestTicks, HarvestTicks, RescanTicks,
  Configured, SchemeMost, Lowest, Highest, StepMost, StepLeast, FlatCap, Ceilings,
  \* Mqtt
  BaseTopic, SensorCount, Interval, MaxEnergy,
  \* PresetStore, PresetName
  Folded, Spellings, Bodies, Hosts, Passwords, Pins, NameMax, Alphabet,
  \* Inverter
  Modulations, Changes, Sine, Flat, Segments, Uploaded, Unit, One, Fraction, RampCycles, Advance,
  FixedCells,
  \* PlainTimers, FaultRegisters
  TimerSets, BusClock, MaxCounter, FullDuty, Second, FixedTimers,
  Modes, Thresholds, MaxTrips

VARIABLES
  focus,
  input,    \* what a pure function is tried with: focus "names", "readings", "edges"
  \* EventLog
  entries, written, logBoot, lines, cursor, bootId, wire, missed, logShown, logTold, retold,
  \* Mqtt
  mqttCfg, connected, mqNamed, pub, idx, sinceAttempt, backoff, sincePublish, dark, energy,
  highWater, link, will, retained, mqTold, sent, fails,
  \* NetTime
  wall, ntBoot, ntClock, rtc, awaiting, token, sentAt, lastAttempt, everAttempted, ntNamed,
  inbox, answers, sentWall, exact,
  \* PresetStore
  mainCfg, json, tmp, job, granted, opPin, stored, resaved,
  \* ClientPool, WriteAuth
  slot, poolClock, idle, held, killed,
  authPeers, time, blockedAt, guilty, leaked, wronged,
  \* PowerMonitor
  pmEnabled, online, chip, pins, pinEvents, events, passing, last, mark, owed, pmGap, added,
  \* Thermal, Tracker
  on, inhibited, scratch, thApplied, thActive, pending, sinceRequest, sinceRescan, cached,
  reading, valid, derate, ran, old,
  trEnabled, trActive, metered, ceiling, trTarget, index, dir, step, grow, flat, primed,
  stepping, entry,
  \* ConfigRules
  doc, route, config, previous, crApplied, reply,
  \* Inverter
  cfg, plan, scheme, cells, denied, indep, invGap, low, faultHigh, duty, phase, accum,
  invTarget, stepQ, seqIndex, seqRemaining, waveIndex, invShown, played, since,
  \* PlainTimers, FaultRegisters
  ptCfg, ptPc, staged, active, complementary, ldok, ptValid, ptTripped, outen,
  mode, wanted, frPc, stuck, foreign, sel, stretch, map, control, recovery, flag, other,
  frActive, threshold, frSource, armed, ready, irq, frTripped, trips, snap, uncounted, raised

logAll == <<entries, written, logBoot, lines, cursor, bootId, wire, missed, logShown, logTold,
            retold>>
mqttAll == <<mqttCfg, connected, mqNamed, pub, idx, sinceAttempt, backoff, sincePublish, dark,
             energy, highWater, link, will, retained, mqTold, sent, fails>>
timeAll == <<wall, ntBoot, ntClock, rtc, awaiting, token, sentAt, lastAttempt, everAttempted,
             ntNamed, inbox, answers, sentWall, exact>>
presetsAll == <<mainCfg, json, tmp, job, granted, opPin, stored, resaved>>
poolAll == <<slot, poolClock, idle, held, killed>>
authAll == <<authPeers, time, blockedAt, guilty, leaked, wronged>>
monitorAll == <<pmEnabled, online, chip, pins, pinEvents, events, passing, last, mark, owed,
                pmGap, added>>
heatAll == <<on, inhibited, scratch, thApplied, thActive, pending, sinceRequest, sinceRescan,
             cached, reading, valid, derate, ran, old>>
searchAll == <<trEnabled, trActive, metered, ceiling, trTarget, index, dir, step, grow, flat,
               primed, stepping, entry>>
rulesAll == <<doc, route, config, previous, crApplied, reply>>
stageAll == <<cfg, plan, scheme, cells, denied, indep, invGap, low, faultHigh, duty, phase, accum,
           invTarget, stepQ, seqIndex, seqRemaining, waveIndex, invShown, played, since>>
timersAll == <<ptCfg, ptPc, staged, active, complementary, ldok, ptValid, ptTripped, outen>>
limitAll == <<mode, wanted, frPc, stuck, foreign, sel, stretch, map, control, recovery, flag,
              other, frActive, threshold, frSource, armed, ready, irq, frTripped, trips, snap,
              uncounted, raised>>

Log == INSTANCE EventLog WITH
  boot <- logBoot, shown <- logShown, told <- logTold

Broker == INSTANCE Mqtt WITH
  Topics <- {BaseTopic}, Discovery <- BOOLEAN, named <- mqNamed, told <- mqTold

Time == INSTANCE NetTime WITH
  boot <- ntBoot, clock <- ntClock, named <- ntNamed

Presets == INSTANCE PresetStore

Pool == INSTANCE ClientPool WITH clock <- poolClock

Auth == INSTANCE WriteAuth

Monitor == INSTANCE PowerMonitor WITH enabled <- pmEnabled, gap <- pmGap

Heat == INSTANCE Thermal WITH
  applied <- thApplied, active <- thActive

Search == INSTANCE Tracker WITH
  enabled <- trEnabled, active <- trActive, target <- trTarget

Docs == INSTANCE ConfigDocuments
Rules == INSTANCE ConfigRules WITH Documents <- Docs!AllDocuments, applied <- crApplied

Stage == INSTANCE Inverter WITH
  Configs <- Modulations, Again <- Changes, Samples <- Uploaded, CompModeSet <- FixedCells,
  gap <- invGap, target <- invTarget, shown <- invShown

Timers == INSTANCE PlainTimers WITH Settings <- TimerSets, CompModeSet <- FixedTimers

Limit == INSTANCE FaultRegisters WITH
  pc <- frPc, active <- frActive, tripped <- frTripped, source <- frSource

Published == INSTANCE MqttDocuments
CardNames == INSTANCE PresetName

ASSUME ServicesAssumption ==
  /\ Log!ConstantsOK /\ Broker!ConstantsOK /\ Time!ConstantsOK /\ Presets!ConstantsOK
  /\ Pool!ConstantsOK /\ Auth!ConstantsOK /\ Heat!ConstantsOK /\ Search!ConstantsOK
  /\ Stage!ConstantsOK /\ Stage!ReferencesFit /\ Timers!ConstantsOK /\ Limit!ConstantsOK
  /\ CardNames!ConstantsOK
  /\ FilesConstantsOK
  /\ Focus \subseteq {"store", "log", "mqtt", "time", "presets", "pool", "auth", "monitor",
                      "heat", "search", "rules", "stage", "timers", "limit", "files",
                      "names", "readings", "edges"}
-----------------------------------------------------------------------------
\* What the pure functions are tried with.
Inputs(s) == CASE s = "names" -> CardNames!Names
               [] s = "readings" -> Published!Readings
               [] s = "edges" -> [f : {1, 3, 8, 70, 149, 150, 151, 301, 400, 600, 601, 2000},
                                  duty : 0..7, pre : {-3, -1, 0, 2, 5}, post : {-3, 0, 1, 5}]
               [] OTHER -> {"none"}

\* A service at rest starts in one of its initial states.
ServicesInit ==
  /\ focus \in Focus /\ input \in Inputs(focus)
  /\ Init /\ (focus = "store" \/ acked = {})
  /\ Log!Init
  /\ Broker!Init /\ (focus = "mqtt" \/ mqttCfg = [enabled |-> FALSE, topic |-> BaseTopic,
                                                  discovery |-> FALSE])
  /\ Time!Init /\ (focus = "time" \/ rtc = 0)
  /\ Presets!Init /\ (focus = "presets" \/ mainCfg = CHOOSE c \in Presets!Provisioned : TRUE)
  /\ Pool!Init /\ (focus = "pool" \/ poolClock = 0)
  /\ Auth!Init
  /\ Monitor!Init /\ (focus = "monitor" \/ ~pmEnabled)
  /\ Heat!Init
  /\ Search!Init /\ (focus = "search" \/ ~trActive)
  /\ \/ focus = "rules" /\ Rules!Init
     \/ /\ focus # "rules"
        /\ doc = "none" /\ route = "boot" /\ config = "none" /\ previous = "none"
        /\ crApplied = {} /\ reply = "none"
  /\ Stage!Init
  /\ Timers!Init /\ (focus = "timers" \/ ptCfg.Sm13.dutyB = 7)
  /\ Limit!Init /\ (focus = "limit" \/ (wanted = 100 /\ foreign = [filter |-> {}, map |-> FALSE]))
  /\ FilesInit(IF focus = "files" THEN Parts ELSE {"cache"})

\* Everything but the service that moves stays as it is.
Rest(s) ==
  /\ UNCHANGED <<focus, input>>
  /\ IF s = "store" THEN TRUE ELSE UNCHANGED vars
  /\ IF s = "log" THEN TRUE ELSE UNCHANGED logAll
  /\ IF s = "mqtt" THEN TRUE ELSE UNCHANGED mqttAll
  /\ IF s = "time" THEN TRUE ELSE UNCHANGED timeAll
  /\ IF s = "presets" THEN TRUE ELSE UNCHANGED presetsAll
  /\ IF s = "pool" THEN TRUE ELSE UNCHANGED poolAll
  /\ IF s = "auth" THEN TRUE ELSE UNCHANGED authAll
  /\ IF s = "monitor" THEN TRUE ELSE UNCHANGED monitorAll
  /\ IF s = "heat" THEN TRUE ELSE UNCHANGED heatAll
  /\ IF s = "search" THEN TRUE ELSE UNCHANGED searchAll
  /\ IF s = "rules" THEN TRUE ELSE UNCHANGED rulesAll
  /\ IF s = "stage" THEN TRUE ELSE UNCHANGED stageAll
  /\ IF s = "timers" THEN TRUE ELSE UNCHANGED timersAll
  /\ IF s = "limit" THEN TRUE ELSE UNCHANGED limitAll
  /\ IF s = "files" THEN TRUE ELSE UNCHANGED filesAll

ServicesNext ==
  \/ focus = "store" /\ Next /\ Rest("store")
  \/ focus = "log" /\ Log!Next /\ Rest("log")
  \/ focus = "mqtt" /\ Broker!Next /\ Rest("mqtt")
  \/ focus = "time" /\ Time!Next /\ Rest("time")
  \/ focus = "presets" /\ Presets!Next /\ Rest("presets")
  \/ focus = "pool" /\ Pool!Next /\ Rest("pool")
  \/ focus = "auth" /\ Auth!Next /\ Rest("auth")
  \/ focus = "monitor" /\ Monitor!Next /\ Rest("monitor")
  \/ focus = "heat" /\ Heat!Next /\ Rest("heat")
  \/ focus = "search" /\ Search!Next /\ Rest("search")
  \/ focus = "rules" /\ Rules!Next /\ Rest("rules")
  \/ focus = "stage" /\ Stage!Next /\ Rest("stage")
  \/ focus = "timers" /\ Timers!Next /\ Rest("timers")
  \/ focus = "limit" /\ Limit!Next /\ Rest("limit")
  \/ focus = "files" /\ FilesNext /\ Rest("files")

servicesVars == <<focus, input, vars, logAll, mqttAll, timeAll, presetsAll, poolAll, authAll,
                  monitorAll, heatAll, searchAll, rulesAll, stageAll, timersAll, limitAll,
                  filesAll>>

ServicesSpec == ServicesInit /\ [][ServicesNext]_servicesVars
-----------------------------------------------------------------------------
(* What the services promise, as their modules state it, of the one that moves; each with   *)
(* the types of its module.                                                                 *)

\* The event log reads on in order for its viewer and on the display (event_log.h).
LogReadsInOrder == focus = "log" => Log!TypeOK /\ Log!LogReadsInOrder

\* What the broker keeps is true of the device and renders every entity, and attempts to
\* reconnect back off by the failures in a row (mqtt.cpp).
BrokerIsServed ==
  /\ focus = "mqtt" => Broker!TypeOK /\ Broker!BrokerViewIsSound /\ Broker!BackoffFollowsFailures
  /\ focus = "readings" => Published!EntitiesAreServed(input)

\* Only the server's own answer to the pending request sets the clock (utils.cpp).
ClockIsDisciplined == focus = "time" => Time!TypeOK /\ Time!ClockIsDisciplined

\* A preset stays whole until it is deleted or removed for its replacement, gives no
\* credential away, and the name of its file gives its name back, which no other name shares
\* but one that differs in case (presets.cpp).
PresetsAreSafe ==
  /\ focus = "presets" => Presets!TypeOK /\ Presets!PresetsAreSafe
  /\ focus = "names" => CardNames!NameIsItsFile(input)

\* No alert is lost and no energy invented by the power monitor (power_monitor.cpp).
MonitorIsHonest == focus = "monitor" => Monitor!TypeOK /\ Monitor!MonitorIsHonest

\* The output is derated for the hottest probe, at once, and the search for the maximum
\* power point stays near it (thermal.cpp, mppt.cpp, pwm_utils.cpp).
DeratingIsObeyed ==
  /\ focus = "heat" => Heat!TypeOK /\ Heat!DerateCoversEveryProbe
  /\ focus = "search" => Search!TypeOK /\ Search!TrackerIsBounded

\* No connection keeps its slot for nothing and none is cut off early, and a wrong PIN blocks
\* the peer that gave it and nobody else (web_handlers.cpp).
AccessIsFair ==
  /\ focus = "pool" => Pool!TypeOK /\ Pool!PoolIsFair
  /\ focus = "auth" => Auth!TypeOK /\ Auth!AccessIsFair

\* What is accepted as a configuration can be run, and takes hold at once and for good
\* (config_serde.h, config_compare.h, pwm_utils.cpp); the file it is saved in is well-formed.
SettingsAreSound ==
  /\ focus = "rules" => Rules!TypeOK /\ Rules!AcceptedConfigIsSound /\ Rules!SettingsTakeHold
  /\ focus = "store" => TypeOK /\ NoTiedGenerations

\* Every leg of the inverter is safe, its pins carry the reference, and sequences, samples
\* and soft starts are on time; the other timers run the settings in force; and a current
\* limit that says it is armed is (modulation.h, pwm_utils.cpp, pwm_timing.h, acmp.cpp).
OutputsAreAsConfigured ==
  /\ focus = "stage" =>
       Stage!TypeOK /\ Stage!LegsAreSafe /\ Stage!PinsCarryTheReference
         /\ Stage!InverterPlaysInTime
  /\ focus = "timers" => Timers!TypeOK /\ Timers!TimersFollow
  /\ focus = "edges" => Timers!EdgesAreReached(input.f, input.duty, input.pre, input.post)
  /\ focus = "limit" => Limit!TypeOK /\ Limit!LimitIsArmed
=============================================================================
