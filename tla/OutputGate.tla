----------------------------- MODULE OutputGate -----------------------------
(***************************************************************************)
(* The output gate of the firmware: everything that may connect or         *)
(* disconnect the FlexPWM output drivers (OUTEN), and everything that may  *)
(* interrupt it while it does.                                             *)
(*                                                                         *)
(* One main thread runs setup() once and then one handler of loop() at a   *)
(* time; pc is its position inside the handler and splits it wherever a    *)
(* fault interrupt between two accesses can change the outcome.  The two   *)
(* fault interrupts (GPIO pin, comparator latch) have the highest priority *)
(* and run to completion between any two main-thread steps, however late   *)
(* they are taken.  The environment moves the fault pin and the            *)
(* comparator, and resets the board.                                       *)
(***************************************************************************)
EXTENDS Naturals

CONSTANTS Cells,       \* modulation cells whose polarity a scheme may invert
          LimitModes,  \* current-limit settings an operator may apply
          ThermalModes, \* settings of Thermal.Enabled an operator may apply
          MtpEnabled,  \* config.Mtp.Enabled
          LabOta       \* TEG_ENABLE_UNSAFE_LAB_OTA was defined at build time

ASSUME LimitModesAssumption ==
  LimitModes # {} /\ LimitModes \subseteq {"off", "latched", "cbc"}
ASSUME ThermalModesAssumption == ThermalModes # {} /\ ThermalModes \subseteq BOOLEAN
ASSUME MtpEnabledAssumption == MtpEnabled \in BOOLEAN
ASSUME LabOtaAssumption == LabOta \in BOOLEAN

VARIABLES
  pc, path,            \* main thread: position, and the handler it is in
  cfg, chg,            \* config sections the gate reads; those an apply changed
  inh, valid,          \* interlocks that hold; vPwmConfigurationValid
  tripped, masked,     \* vFaultTripped; vFaultGeneration moved since genAtEntry
  outen, inhibited,    \* OUTEN connected; vOutputInhibited
  invMask, inverted,   \* vInvertedCellMask; cells whose OCTRL is inverted now
  todo,                \* cells restoreCellPolarity() still has to visit
  pwmIrq, ring,        \* IRQ_FLEXPWM2_0 enabled; what the capture ring holds
  attached, gpioLevel, gpioPend,  \* fault pin: vector attached, level active, edge pending
  ocPin, latch, routed,  \* comparator output; modules with FFLAG0 set, and routed to it
  mode, faultIrq,      \* current-limit protection armed; IRQ_FLEXPWM2_FAULT enabled
  sample, thermApplied, \* haveValidExternalSample, thermalEnabledApplied
  mtp,                 \* "off", MTP.begin() armed its "timer", "looped"
  ota, saveNeeded, pinSet  \* OTA active; configSaveNeeded; WritePin non-empty

mainVars  == <<pc, path>>
cfgVars   == <<cfg, chg>>
lockVars  == <<inh, valid>>
driveVars == <<masked, outen, inhibited, inverted>>
modVars   == <<invMask, todo>>
irqVars   == <<pwmIrq, ring>>
gpioVars  == <<attached, gpioLevel, gpioPend>>
acmpVars  == <<ocPin, latch, routed, mode, faultIrq>>
thermVars == <<sample, thermApplied>>
taskVars  == <<ota, saveNeeded, pinSet>>
vars == <<mainVars, cfgVars, lockVars, tripped, driveVars, modVars, irqVars,
          gpioVars, acmpVars, thermVars, mtp, taskVars>>

Configs == [fault : BOOLEAN, limit : LimitModes, thermal : ThermalModes]
\* What config holds before setup() loads it, where nothing reads it.
CompiledDefaults == CHOOSE c \in Configs : TRUE
Sections   == {"pwm", "fault", "limit"}
Interlocks == {"restart", "hardware", "provisioning"}
Modules    == {"pwm1", "pwm2"}
Paths == {"idle", "boot", "apply", "save", "operator"}
PcSet == {"setup", "pwm", "fault", "capture", "captureReset", "thermal",
          "acmp", "acmpRoute1", "acmpRoute2", "acmpIrq", "settle",
          "clear", "clrTest", "clrLatch1", "clrLatch2", "clrVerify", "clrAck",
          "relGate", "restore", "commit", "postCheck", "clrFail",
          "clrCapture", "clrIrq", "clrRearm",
          "mtp", "applyIrq", "applyEnable", "loop"}

-----------------------------------------------------------------------------
(* What the release path reads, and what every shutdown does.              *)

Goto(label) == pc' = label /\ path' = path
Finish == pc' = "loop" /\ path' = "idle"

\* acmpFaultPinActive(): the comparator as either routed fault input sees it.
PinActive == routed # {} /\ ocPin
\* acmpFaultLatched(): either module holds FFLAG0 while latched mode is armed.
FaultLatched == mode = "latched" /\ latch # {}
ProtectionWithoutPin == mode = "unready" \/ PinActive \/ FaultLatched  \* mutant
ProtectionLiveOrLatched ==
  mode = "unready" \/ (cfg.fault /\ gpioLevel) \/ PinActive \/ FaultLatched
ThermalAllows == cfg.thermal => sample
MtpAllows == mtp # "timer"

\* Every interlock and latch that forbids a release; live levels are not in it.
Clear == ~tripped /\ valid /\ inh = {} /\ mode # "unready"
ReleaseAllowed ==
  Clear /\ ~ProtectionLiveOrLatched /\ ThermalAllows /\ MtpAllows

\* maskAllOutputsSafely(), if reason holds: OUTEN off, inverted cells high-true.
MaskAllOutputs(reason) ==
  /\ inhibited' = (inhibited \/ reason)
  /\ masked' = (masked \/ reason)
  /\ outen' = (outen /\ ~reason)
  /\ inverted' = IF reason THEN inverted \ invMask ELSE inverted

\* A trip also silences the carrier interrupt, so a rolling ring stops where it
\* is: its content becomes the flight record of the trip.
TripAndMask(reason) ==
  /\ tripped' = (tripped \/ reason)
  /\ pwmIrq' = (pwmIrq /\ ~reason)
  /\ ring' = IF reason /\ ring = "rolling" THEN "record" ELSE ring
  /\ MaskAllOutputs(reason)

(***************************************************************************)
(* Where a step of a configuration sequence goes next: setup() and         *)
(* applyPwmConfig() call the same functions in different orders.           *)
(***************************************************************************)
AfterConfigure(step) ==
  IF path = "boot"
    THEN CASE step = "pwm"     -> "fault"
           [] step = "fault"   -> "acmp"
           [] step = "acmp"    -> "captureReset"
           [] step = "capture" -> "thermal"
           [] step = "thermal" -> "clear"
    ELSE CASE step = "fault"   -> "capture"
           [] step = "capture" -> "thermal"
           [] step = "thermal" -> "pwm"
           [] step = "pwm"     -> "acmp"
           [] step = "acmp"    -> "settle"

\* Where clearFaultTrip() returns to.
Return == CASE path = "boot"  -> Goto("mtp")
            [] path = "apply" -> Goto("applyIrq")
            [] OTHER          -> Finish

-----------------------------------------------------------------------------
(* Configuration steps, shared by setup() and applyPwmConfig().            *)

\* applyPwmConfig() leaves alone what the new settings do not touch.
Wanted(step) ==
  \/ path = "boot"
  \/ step = "fault" /\ "fault" \in chg
  \/ step = "pwm" /\ "pwm" \in chg
  \/ step = "acmp" /\ ("limit" \in chg \/ "pwm" \in chg)

SkipUnchanged ==
  /\ pc \in {"fault", "pwm", "acmp"} /\ ~Wanted(pc)
  /\ Goto(AfterConfigure(pc))
  /\ UNCHANGED <<cfgVars, lockVars, tripped, driveVars, modVars, irqVars,
                 gpioVars, acmpVars, thermVars, mtp, taskVars>>

\* configurePwm(): modules 1-4; a missed LDOK or an impossible setting makes the
\* configuration invalid.  The new plan's inverted cells are committed to OCTRL
\* while OUTEN is off.
ConfigurePwm ==
  /\ pc = "pwm" /\ Wanted("pwm")
  /\ valid' \in BOOLEAN
  /\ invMask' \in SUBSET Cells
  /\ inverted' = invMask'
  /\ inhibited' = TRUE /\ masked' = TRUE /\ outen' = FALSE
  /\ Goto(AfterConfigure("pwm"))
  /\ UNCHANGED <<cfgVars, inh, tripped, todo, irqVars, gpioVars, acmpVars,
                 thermVars, mtp, taskVars>>

\* configureFaultProtection(): re-attach (which drops a stale edge), then sample
\* the level an edge interrupt would not report.
ConfigureFaultProtection ==
  /\ pc = "fault" /\ Wanted("fault")
  /\ attached' = cfg.fault
  /\ gpioPend' = FALSE
  /\ TripAndMask(cfg.fault /\ gpioLevel)
  /\ Goto(AfterConfigure("fault"))
  /\ UNCHANGED <<cfgVars, lockVars, modVars, gpioLevel, acmpVars, thermVars,
                 mtp, taskVars>>

\* applyPwmConfig(): captureConfigure() is skipped while a trip is latched.
CaptureUnlessTripped ==
  /\ pc = "capture"
  /\ Goto(IF tripped THEN AfterConfigure("capture") ELSE "captureReset")
  /\ UNCHANGED <<cfgVars, lockVars, tripped, driveVars, modVars, irqVars,
                 gpioVars, acmpVars, thermVars, mtp, taskVars>>

\* captureConfigure(): head, total and freeze reset.
CaptureReset ==
  /\ pc = "captureReset"
  /\ ring' = "empty"
  /\ Goto(AfterConfigure("capture"))
  /\ UNCHANGED <<cfgVars, lockVars, tripped, driveVars, modVars, pwmIrq,
                 gpioVars, acmpVars, thermVars, mtp, taskVars>>

\* Whether an apply that lost the sample must take the stage down first.
StageStays(keepSample) == FALSE                                   \* mutant
StageMustGoDown(keepSample) == cfg.thermal /\ ~keepSample /\ ~inhibited

\* thermalConfigure(): an apply that cannot keep the last external sample takes
\* a generating stage down before it touches the bus.
ThermalConfigure ==
  /\ pc = "thermal"
  /\ thermApplied' = cfg.thermal
  /\ \E pinChanged \in BOOLEAN :
       LET keepSample == thermApplied /\ ~pinChanged /\ sample
       IN  /\ sample' = (~cfg.thermal \/ keepSample)
           /\ TripAndMask(StageMustGoDown(keepSample))
  /\ Goto(AfterConfigure("thermal"))
  /\ UNCHANGED <<cfgVars, lockVars, modVars, gpioVars, acmpVars, mtp, taskVars>>

\* failCurrentLimitArm(), from any failed readback: not ready, parked, tripped, dark.
AcmpFail ==
  /\ pc \in {"acmp", "acmpRoute1", "acmpRoute2"}
  /\ pc = "acmp" => Wanted("acmp")
  /\ latch' = IF pc = "acmp" THEN {} ELSE latch
  /\ routed' = {} /\ mode' = "unready" /\ faultIrq' = FALSE
  /\ tripped' = TRUE
  /\ MaskAllOutputs(TRUE)
  /\ Goto(AfterConfigure("acmp"))
  /\ UNCHANGED <<cfgVars, lockVars, modVars, irqVars, gpioVars, ocPin, thermVars,
                 mtp, taskVars>>

\* acmpConfigure(), first part: tear down, park and clear stale flags.
AcmpPark ==
  /\ pc = "acmp" /\ Wanted("acmp")
  /\ latch' = {} /\ routed' = {} /\ faultIrq' = FALSE
  /\ mode' = IF cfg.limit = "off" THEN "off" ELSE "unready"
  /\ Goto(IF cfg.limit = "off" THEN AfterConfigure("acmp") ELSE "acmpRoute1")
  /\ UNCHANGED <<cfgVars, lockVars, tripped, driveVars, modVars, irqVars, gpioVars,
                 ocPin, thermVars, mtp, taskVars>>

\* The comparator runs and PWM1's fault input is routed to it; an input that is
\* already high is a transition and latches.
AcmpRoutePwm1 ==
  /\ pc = "acmpRoute1"
  /\ routed' = {"pwm1"}
  /\ latch' = IF ocPin THEN latch \cup {"pwm1"} ELSE latch
  /\ Goto("acmpRoute2")
  /\ UNCHANGED <<cfgVars, lockVars, tripped, driveVars, modVars, irqVars, gpioVars,
                 ocPin, mode, faultIrq, thermVars, mtp, taskVars>>

\* PWM2's input is routed; protection becomes ready in the configured mode.
AcmpRoutePwm2 ==
  /\ pc = "acmpRoute2"
  /\ routed' = Modules
  /\ latch' = IF ocPin THEN latch \cup {"pwm2"} ELSE latch
  /\ mode' = cfg.limit
  /\ Goto("acmpIrq")
  /\ UNCHANGED <<cfgVars, lockVars, tripped, driveVars, modVars, irqVars, gpioVars,
                 ocPin, faultIrq, thermVars, mtp, taskVars>>

\* A pulse that fell between the two routes is latched but has no interrupt: it
\* is surfaced as a trip; otherwise latched mode enables the vector.
AcmpEnableIrq ==
  /\ pc = "acmpIrq"
  /\ TripAndMask(FaultLatched)
  /\ faultIrq' = (faultIrq \/ (mode = "latched" /\ ~FaultLatched))
  /\ Goto(AfterConfigure("acmp"))
  /\ UNCHANGED <<cfgVars, lockVars, modVars, gpioVars, ocPin, latch, routed, mode,
                 thermVars, mtp, taskVars>>

\* The end of applyPwmConfig(): re-assert the mask under any inhibit, otherwise
\* try to release what the transaction masked.
Settle ==
  /\ pc = "settle"
  /\ LET inhibit == tripped \/ ~valid \/ inh # {}
     IN  /\ MaskAllOutputs(inhibit)
         /\ pwmIrq' = (pwmIrq /\ ~inhibit)
         /\ Goto(IF ~inhibit /\ chg # {} THEN "clear" ELSE "applyIrq")
  /\ chg' = {}                      \* the comparison with the old settings ends
  /\ UNCHANGED <<cfg, lockVars, tripped, modVars, ring, gpioVars, acmpVars,
                 thermVars, mtp, taskVars>>

-----------------------------------------------------------------------------
(* clearFaultTrip(operatorRequest) and releaseOutputInhibit().             *)

Operator == path = "operator"

\* The refusals that leave everything as it is.
ClearRefused ==
  \/ "provisioning" \in inh \/ "hardware" \in inh \/ ~valid
  \/ "restart" \in inh /\ ~Operator
  \/ tripped /\ ~Operator
  \/ mode = "latched" /\ PinActive

ClearGate ==
  /\ pc = "clear"
  /\ IF ClearRefused THEN Return ELSE Goto("clrTest")
  /\ UNCHANGED <<cfgVars, lockVars, tripped, driveVars, modVars, irqVars,
                 gpioVars, acmpVars, thermVars, mtp, taskVars>>

\* vFaultTripped is read a second time to decide whether the latches need clearing.
ClearTest ==
  /\ pc = "clrTest"
  /\ Goto(IF tripped THEN "clrLatch1" ELSE "clrAck")
  /\ UNCHANGED <<cfgVars, lockVars, tripped, driveVars, modVars, irqVars,
                 gpioVars, acmpVars, thermVars, mtp, taskVars>>

\* acmpClearLatch(): PWM1 first, the interrupt-owning PWM2 last.
ClearLatchPwm1 ==
  /\ pc = "clrLatch1"
  /\ latch' = IF mode = "latched" THEN latch \ {"pwm1"} ELSE latch
  /\ Goto("clrLatch2")
  /\ UNCHANGED <<cfgVars, lockVars, tripped, driveVars, modVars, irqVars, gpioVars,
                 ocPin, routed, mode, faultIrq, thermVars, mtp, taskVars>>

ClearLatchPwm2 ==
  /\ pc = "clrLatch2"
  /\ latch' = IF mode = "latched" THEN latch \ {"pwm2"} ELSE latch
  /\ Goto("clrVerify")
  /\ UNCHANGED <<cfgVars, lockVars, tripped, driveVars, modVars, irqVars, gpioVars,
                 ocPin, routed, mode, faultIrq, thermVars, mtp, taskVars>>

ClearVerify ==
  /\ pc = "clrVerify"
  /\ tripped' = (tripped \/ PinActive \/ FaultLatched)
  /\ IF PinActive \/ FaultLatched THEN Return ELSE Goto("clrAck")
  /\ UNCHANGED <<cfgVars, lockVars, driveVars, modVars, irqVars, gpioVars,
                 acmpVars, thermVars, mtp, taskVars>>

\* The acknowledgement itself.
ClearAcknowledge ==
  /\ pc = "clrAck"
  /\ inh' = IF Operator THEN inh \ {"restart"} ELSE inh
  /\ tripped' = FALSE
  /\ Goto("relGate")
  /\ UNCHANGED <<cfgVars, valid, driveVars, modVars, irqVars, gpioVars, acmpVars,
                 thermVars, mtp, taskVars>>

\* restoreCellPolarity() walks vInvertedCellMask.
NoCell == {}                                                      \* mutant
CellsToRestore == invMask

\* genAtEntry is read, then the first gate.  A refusal only disconnects OUTEN: it
\* touches neither vOutputInhibited nor the polarity.
ReleaseGate ==
  /\ pc = "relGate"
  /\ masked' = FALSE
  /\ outen' = (outen /\ ReleaseAllowed)
  /\ tripped' = (tripped \/ ProtectionLiveOrLatched)
  /\ todo' = IF ReleaseAllowed THEN CellsToRestore ELSE {}
  /\ Goto(IF ReleaseAllowed THEN "restore" ELSE "clrFail")
  /\ UNCHANGED <<cfgVars, lockVars, inhibited, inverted, invMask, irqVars, gpioVars,
                 acmpVars, thermVars, mtp, taskVars>>

\* restoreCellPolarity(): one OCTRL write per inverted cell, then the timers.
RestoreCell ==
  /\ pc = "restore"
  /\ \E k \in todo : inverted' = inverted \cup {k} /\ todo' = todo \ {k}
  /\ UNCHANGED <<mainVars, cfgVars, lockVars, tripped, masked, outen, inhibited,
                 invMask, irqVars, gpioVars, acmpVars, thermVars, mtp, taskVars>>

RestoreDone ==
  /\ pc = "restore" /\ todo = {}
  /\ Goto("commit")
  /\ UNCHANGED <<cfgVars, lockVars, tripped, driveVars, modVars, irqVars, gpioVars,
                 acmpVars, thermVars, mtp, taskVars>>

LevelsMoved == ProtectionLiveOrLatched \/ ~ThermalAllows \/ ~MtpAllows  \* mutant
LatchesMoved == tripped \/ masked \/ ~ThermalAllows \/ ~MtpAllows       \* mutant
CommitRefused == \/ tripped \/ masked \/ ProtectionLiveOrLatched
                 \/ ~ThermalAllows \/ ~MtpAllows

\* With interrupts off: re-check everything that can have moved, then connect.
CommitConnect ==
  /\ pc = "commit" /\ ~CommitRefused
  /\ outen' = TRUE /\ inhibited' = FALSE
  /\ Goto("postCheck")
  /\ UNCHANGED <<cfgVars, lockVars, tripped, masked, inverted, modVars, irqVars,
                 gpioVars, acmpVars, thermVars, mtp, taskVars>>

CommitAbort ==
  /\ pc = "commit" /\ CommitRefused
  /\ MaskAllOutputs(TRUE)
  /\ Goto("clrFail")
  /\ UNCHANGED <<cfgVars, lockVars, tripped, modVars, irqVars, gpioVars, acmpVars,
                 thermVars, mtp, taskVars>>

PostCheck ==
  /\ pc = "postCheck"
  /\ LET moved == tripped \/ masked \/ ProtectionLiveOrLatched
     IN  MaskAllOutputs(moved) /\ Goto(IF moved THEN "clrFail" ELSE "clrCapture")
  /\ UNCHANGED <<cfgVars, lockVars, tripped, modVars, irqVars, gpioVars, acmpVars,
                 thermVars, mtp, taskVars>>

\* A failed release is latched as a trip.
ClearFailed ==
  /\ pc = "clrFail"
  /\ tripped' = TRUE
  /\ Return
  /\ UNCHANGED <<cfgVars, lockVars, driveVars, modVars, irqVars, gpioVars, acmpVars,
                 thermVars, mtp, taskVars>>

\* Success: unfreeze the recorder, enable the carrier interrupt if anything needs
\* it, and last re-arm the comparator interrupt the trip silenced.
ClearUnfreeze ==
  /\ pc = "clrCapture"
  /\ ring' = "empty"
  /\ Goto("clrIrq")
  /\ UNCHANGED <<cfgVars, lockVars, tripped, driveVars, modVars, pwmIrq, gpioVars,
                 acmpVars, thermVars, mtp, taskVars>>

EnablePwmIrqIfRequired == pwmIrq' \in BOOLEAN /\ (pwmIrq \/ mode = "cbc" => pwmIrq')

ClearEnablePwmIrq ==
  /\ pc = "clrIrq"
  /\ EnablePwmIrqIfRequired
  /\ Goto("clrRearm")
  /\ UNCHANGED <<cfgVars, lockVars, tripped, driveVars, modVars, ring, gpioVars,
                 acmpVars, thermVars, mtp, taskVars>>

NoRearm == faultIrq                                               \* mutant
RearmFaultIrq == faultIrq \/ mode = "latched"

ClearRearm ==
  /\ pc = "clrRearm"
  /\ faultIrq' = RearmFaultIrq
  /\ Return
  /\ UNCHANGED <<cfgVars, lockVars, tripped, driveVars, modVars, irqVars, gpioVars,
                 ocPin, latch, routed, mode, thermVars, mtp, taskVars>>

-----------------------------------------------------------------------------
(* Handlers of setup() and loop() around the gate.  A request that changes *)
(* anything needs the access PIN to be set (writeAuthorized).              *)

\* setup() up to configurePwm(): the reset cause, the PSRAM test, the settings and
\* the access PIN decide the three interlocks.
SetupInterlocks ==
  /\ pc = "setup"
  /\ cfg' \in Configs
  /\ inh' \in SUBSET Interlocks
  /\ pinSet' \in BOOLEAN /\ ("provisioning" \notin inh' => pinSet')
  /\ saveNeeded' = (pinSet' /\ "provisioning" \in inh')
  /\ Goto("pwm")
  /\ UNCHANGED <<chg, valid, tripped, driveVars, modVars, irqVars, gpioVars,
                 acmpVars, thermVars, mtp, ota>>

\* mtpBegin() starts the service only while outputs are inhibited; the first
\* MTP.loop(), which retires the timer MTP.begin() arms, is withheld by an OTA.
MtpAnyTime == TRUE                                                \* mutant
MtpMayBegin == inhibited

MtpService ==
  /\ mtp = "timer" \/ (mtp = "off" /\ MtpEnabled /\ MtpMayBegin)
  /\ mtp' = IF inhibited /\ ~ota THEN "looped" ELSE "timer"

SetupMtp ==
  /\ pc = "mtp"
  /\ MtpService \/ UNCHANGED mtp
  /\ Finish
  /\ UNCHANGED <<cfgVars, lockVars, tripped, driveVars, modVars, irqVars,
                 gpioVars, acmpVars, thermVars, taskVars>>

MtpTask ==
  /\ pc = "loop"
  /\ MtpService
  /\ UNCHANGED <<mainVars, cfgVars, lockVars, tripped, driveVars, modVars, irqVars,
                 gpioVars, acmpVars, thermVars, taskVars>>

\* thermalTask(): the bus is sampled only while outputs are inhibited; a harvest
\* may find a probe or none.
ThermalTask ==
  /\ pc = "loop" /\ ~ota
  /\ cfg.thermal /\ inhibited
  /\ sample' \in BOOLEAN
  /\ UNCHANGED <<mainVars, cfgVars, lockVars, tripped, driveVars, modVars, irqVars,
                 gpioVars, acmpVars, thermApplied, mtp, taskVars>>

\* api_config_post() and configApplyDocument(): install the new configuration, and
\* mask at once when timing or protection changes.  A changed fault section may
\* name another pin or polarity, so the level it reads is any.
MaskForTiming(change) == "pwm" \in change                         \* mutant
MustMask(change) == change # {}

ApplyConfig ==
  /\ pc = "loop" /\ pinSet /\ ~ota
  /\ cfg' \in Configs
  /\ chg' \in SUBSET Sections
  /\ cfg'.fault # cfg.fault => "fault" \in chg'
  /\ cfg'.limit # cfg.limit => "limit" \in chg'
  /\ gpioLevel' \in BOOLEAN /\ ("fault" \notin chg' => gpioLevel' = gpioLevel)
  /\ MaskAllOutputs(MustMask(chg'))
  /\ pwmIrq' = FALSE
  /\ pc' = "fault" /\ path' = "apply"
  /\ UNCHANGED <<lockVars, tripped, modVars, ring, attached, gpioPend, acmpVars,
                 thermVars, mtp, taskVars>>

\* Back in the handler: the carrier interrupt is enabled after a test of
\* vFaultTripped, and loop() is asked to persist.
ApplyTestTrip ==
  /\ pc = "applyIrq"
  /\ IF tripped THEN Finish ELSE Goto("applyEnable")
  /\ saveNeeded' = (tripped \/ saveNeeded)
  /\ UNCHANGED <<cfgVars, lockVars, tripped, driveVars, modVars, irqVars, gpioVars,
                 acmpVars, thermVars, mtp, ota, pinSet>>

ApplyEnableIrq ==
  /\ pc = "applyEnable"
  /\ EnablePwmIrqIfRequired
  /\ saveNeeded' = TRUE
  /\ Finish
  /\ UNCHANGED <<cfgVars, lockVars, tripped, driveVars, modVars, ring, gpioVars,
                 acmpVars, thermVars, mtp, ota, pinSet>>

\* loop(): a verified save of a pending configuration lifts the provisioning
\* interlock last, and tries to release.  A failed save keeps the request.
SaveTask ==
  /\ pc = "loop" /\ saveNeeded
  /\ saveNeeded' = FALSE
  /\ LET lifts == pinSet /\ "provisioning" \in inh
     IN  /\ inh' = IF lifts THEN inh \ {"provisioning"} ELSE inh
         /\ pc' = IF lifts THEN "clear" ELSE "loop"
         /\ path' = IF lifts THEN "save" ELSE path
  /\ UNCHANGED <<cfgVars, valid, tripped, driveVars, modVars, irqVars, gpioVars,
                 acmpVars, thermVars, mtp, ota, pinSet>>

\* api_fault_clear().
FaultClear ==
  /\ pc = "loop" /\ pinSet /\ ~ota
  /\ pc' = "clear" /\ path' = "operator"
  /\ UNCHANGED <<cfgVars, lockVars, tripped, driveVars, modVars, irqVars, gpioVars,
                 acmpVars, thermVars, mtp, taskVars>>

\* otaIngestStream() entering the safe state; only a reset leaves it.
OtaBegin ==
  /\ LabOta
  /\ pc = "loop" /\ pinSet /\ ~ota
  /\ ota' = TRUE
  /\ MaskAllOutputs(TRUE)
  /\ pwmIrq' = FALSE
  /\ UNCHANGED <<mainVars, cfgVars, lockVars, tripped, modVars, ring, gpioVars,
                 acmpVars, thermVars, mtp, saveNeeded, pinSet>>

-----------------------------------------------------------------------------
(* Interrupts and environment.                                             *)

\* faultTripIsr().
FaultTripIsr ==
  /\ attached /\ gpioPend
  /\ gpioPend' = FALSE
  /\ TripAndMask(TRUE)
  /\ UNCHANGED <<mainVars, cfgVars, lockVars, modVars, attached, gpioLevel,
                 acmpVars, thermVars, mtp, taskVars>>

\* acmpFaultIsr(): both FFLAG0 stay latched, its own vector is disabled.
AcmpFaultIsr ==
  /\ faultIrq /\ "pwm2" \in latch
  /\ faultIrq' = FALSE
  /\ TripAndMask(TRUE)
  /\ UNCHANGED <<mainVars, cfgVars, lockVars, modVars, gpioVars, ocPin, latch,
                 routed, mode, thermVars, mtp, taskVars>>

\* IsrOverflowSm20(), as far as the gate is concerned: the ring rolls unless a trip
\* is latched, and cycle-by-cycle flags are counted and cleared.
CarrierIsr ==
  /\ pwmIrq
  /\ ring' = IF ring = "empty" /\ ~tripped THEN "rolling" ELSE ring
  /\ latch' = IF mode = "cbc" THEN {} ELSE latch
  /\ UNCHANGED <<mainVars, cfgVars, lockVars, tripped, driveVars, modVars, pwmIrq,
                 gpioVars, ocPin, routed, mode, faultIrq, thermVars, mtp, taskVars>>

\* The fault pin: only a transition while the vector is attached leaves an edge.
PinMoves ==
  /\ gpioLevel' = ~gpioLevel
  /\ gpioPend' = (gpioPend \/ (attached /\ ~gpioLevel))
  /\ UNCHANGED <<mainVars, cfgVars, lockVars, tripped, driveVars, modVars, irqVars,
                 attached, acmpVars, thermVars, mtp, taskVars>>

\* The comparator: a rising output latches FFLAG0 in every module routed to it.
ComparatorMoves ==
  /\ ocPin' = ~ocPin
  /\ latch' = IF ocPin THEN latch ELSE latch \cup routed
  /\ UNCHANGED <<mainVars, cfgVars, lockVars, tripped, driveVars, modVars, irqVars,
                 gpioVars, routed, mode, faultIrq, thermVars, mtp, taskVars>>

\* A reset: the firmware restarts, the pins keep the level the world gives them.
Reset ==
  /\ pc' = "setup" /\ path' = "boot"
  /\ cfg' = CompiledDefaults /\ chg' = {}
  /\ inh' = {"provisioning"} /\ valid' = TRUE
  /\ tripped' = FALSE /\ masked' = FALSE /\ outen' = FALSE /\ inhibited' = TRUE
  /\ invMask' = {} /\ inverted' = {} /\ todo' = {}
  /\ pwmIrq' = FALSE /\ ring' = "empty"
  /\ attached' = FALSE /\ gpioPend' = FALSE
  /\ latch' = {} /\ routed' = {} /\ mode' = "unready" /\ faultIrq' = FALSE
  /\ sample' = FALSE /\ thermApplied' = FALSE /\ mtp' = "off"
  /\ ota' = FALSE /\ saveNeeded' = FALSE /\ pinSet' = FALSE
  /\ UNCHANGED <<gpioLevel, ocPin>>

-----------------------------------------------------------------------------
(* The specification.                                                      *)

\* Static initialisers: dark, nothing verified yet, not provisioned.
Init ==
  /\ pc = "setup" /\ path = "boot"
  /\ cfg = CompiledDefaults /\ chg = {}
  /\ inh = {"provisioning"} /\ valid = TRUE
  /\ tripped = FALSE /\ masked = FALSE /\ outen = FALSE /\ inhibited = TRUE
  /\ invMask = {} /\ inverted = {} /\ todo = {}
  /\ pwmIrq = FALSE /\ ring = "empty"
  /\ attached = FALSE /\ gpioPend = FALSE
  /\ latch = {} /\ routed = {} /\ mode = "unready" /\ faultIrq = FALSE
  /\ sample = FALSE /\ thermApplied = FALSE /\ mtp = "off"
  /\ ota = FALSE /\ saveNeeded = FALSE /\ pinSet = FALSE
  /\ gpioLevel \in BOOLEAN /\ ocPin \in BOOLEAN

ConfigStep ==
  \/ SkipUnchanged \/ ConfigurePwm \/ ConfigureFaultProtection
  \/ CaptureUnlessTripped \/ CaptureReset \/ ThermalConfigure
  \/ AcmpFail \/ AcmpPark \/ AcmpRoutePwm1 \/ AcmpRoutePwm2 \/ AcmpEnableIrq
  \/ Settle
ClearStep ==
  \/ ClearGate \/ ClearTest \/ ClearLatchPwm1 \/ ClearLatchPwm2 \/ ClearVerify
  \/ ClearAcknowledge \/ ReleaseGate \/ RestoreCell \/ RestoreDone
  \/ CommitConnect \/ CommitAbort \/ PostCheck
  \/ ClearFailed \/ ClearUnfreeze \/ ClearEnablePwmIrq \/ ClearRearm
\* Steps of a handler that has begun: the main thread has nothing to wait for.
Running == \/ SetupInterlocks \/ ConfigStep \/ ClearStep \/ SetupMtp
           \/ ApplyTestTrip \/ ApplyEnableIrq
\* Handlers that loop() may begin, and the work it may find to do.
LoopTask == \/ MtpTask \/ ThermalTask \/ ApplyConfig \/ SaveTask \/ FaultClear
            \/ OtaBegin
Interrupt == FaultTripIsr \/ AcmpFaultIsr \/ CarrierIsr
Environment == PinMoves \/ ComparatorMoves \/ Reset

Next == Running \/ LoopTask \/ Interrupt \/ Environment

\* The CPU keeps executing, and a pending enabled interrupt preempts it.
Fairness == /\ WF_vars(Running)
            /\ WF_vars(FaultTripIsr)
            /\ WF_vars(AcmpFaultIsr)

Spec == Init /\ [][Next]_vars /\ Fairness

-----------------------------------------------------------------------------
(* Properties.                                                             *)

\* Every variable keeps the type of the code's flag, register or local it stands
\* for, and only cells of the running plan are ever inverted (pwm_utils.cpp).
TypeOK ==
  /\ pc \in PcSet /\ path \in Paths
  /\ cfg \in Configs /\ chg \subseteq Sections
  /\ inh \subseteq Interlocks /\ valid \in BOOLEAN
  /\ tripped \in BOOLEAN /\ masked \in BOOLEAN
  /\ outen \in BOOLEAN /\ inhibited \in BOOLEAN
  /\ invMask \subseteq Cells /\ inverted \subseteq invMask /\ todo \subseteq invMask
  /\ pwmIrq \in BOOLEAN /\ ring \in {"empty", "rolling", "record"}
  /\ attached \in BOOLEAN /\ gpioLevel \in BOOLEAN /\ gpioPend \in BOOLEAN
  /\ ocPin \in BOOLEAN /\ latch \subseteq Modules /\ routed \subseteq Modules
  /\ mode \in {"unready", "off", "latched", "cbc"} /\ faultIrq \in BOOLEAN
  /\ sample \in BOOLEAN /\ thermApplied \in BOOLEAN
  /\ mtp \in {"off", "timer", "looped"}
  /\ ota \in BOOLEAN /\ saveNeeded \in BOOLEAN /\ pinSet \in BOOLEAN

\* The drivers are connected only while no trip is latched, no interlock holds, the
\* timers took their configuration, the current-limit path is verified and
\* vOutputInhibited tells the rest of the firmware so: whatever interrupts, whatever
\* step, through every restart (releaseOutputInhibit, clearFaultTrip).
LiveOnlyWithAllClear == outen => Clear /\ ~inhibited

\* Power is never on the pads with the carrier geometry a shutdown removed:
\* whenever OUTEN is connected every inverted cell has its polarity back
\* (restoreCellPolarity against an interrupt's maskAllOutputsSafely).
PolarityWhenLive == outen => inverted = invMask

\* With power on the pads an active fault pin always has its interrupt on the way:
\* no order of attach, edge, level sample and release leaves an active level that
\* nobody will report (configureFaultProtection, protectionLiveOrLatched).
LevelFaultIsPending == outen /\ cfg.fault /\ gpioLevel => attached /\ gpioPend

\* With power on the pads, an overcurrent latched in either module has also latched
\* in the module whose interrupt mirrors it, and that interrupt is enabled or the
\* release that will enable it is still running (acmpConfigure, acmpRearmFaultIrq).
LatchReachesTheIsr ==
  outen /\ FaultLatched
    => /\ "pwm2" \in latch
       /\ faultIrq \/ pc \in {"postCheck", "clrCapture", "clrIrq", "clrRearm"}

\* Once the thermal section of an apply is done, power is on the pads only with a
\* valid external sample behind the derating (thermalConfigure, thermalTask).
ThermalBeforePower ==
  /\ outen /\ cfg.thermal
  /\ path = "apply" => pc \notin {"fault", "capture", "captureReset", "thermal"}
  => sample

\* The filesystem timer that MTP.begin() arms never runs under power: it is retired
\* by a first MTP.loop() before any release (mtpTask, mtpAllowsPwmRelease).
MtpTimerNeverLive == outen => mtp # "timer"

\* Power comes on in one place, and at that instant every protection input is quiet,
\* unlatched and watched and nothing forbids it (the noInterrupts() section).
ConnectOnlyWhenQuiet ==
  [][~outen /\ outen' => ReleaseAllowed /\ inverted = invMask]_vars

\* A demand to shut down that reaches an armed path while power is on is answered:
\* OUTEN goes off (faultTripIsr, acmpFaultIsr, and acmpRearmFaultIrq for a latch that
\* closes while the interrupt is still silenced).
Demand == gpioPend \/ FaultLatched
DemandIsAnswered == (outen /\ Demand) ~> ~outen

\* The gate is a power stage: it connects only when nothing blocks it, a blocking
\* reason disconnects it in the same step, and a demand to shut down is neither
\* withdrawn while power is on nor left unanswered (see PowerStage).
PS == INSTANCE PowerStage WITH live <- outen, blocked <- ~Clear, demand <- Demand
ImplementsPowerStage == PS!Spec
StepsOfPowerStage == PS!Safety

\* What comments of the code say and a run refutes (see README, findings).

\* "Skipped while a trip is still latched: the frozen ring is the trip's flight
\* record, keep the evidence."
FlightRecordKept ==
  [][tripped /\ ring = "record" => ring' = "record" \/ pc' = "setup"]_vars

\* "OTA: safe state entered; outputs disabled until reboot".
OtaStaysDark == ota => ~outen

\* vOutputInhibited is "asserted for every ... fault and OTA operation".
TripIsInhibited == pc = "loop" /\ tripped => inhibited

=============================================================================
