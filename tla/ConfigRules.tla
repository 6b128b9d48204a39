---------------------------- MODULE ConfigRules ----------------------------
(***************************************************************************)
(* What becomes of a configuration document: its shape is checked, its     *)
(* numbers are narrowed to the fields' C types, the rules of               *)
(* validateConfig() repair what they can, the pins must have one owner     *)
(* each, and what is accepted is applied and later read back from the      *)
(* device's own file.                                                      *)
(***************************************************************************)
EXTENDS ConfigFields, FiniteSets

CONSTANT Documents   \* the documents that arrive: [version, says, missing, mistyped],
                     \* told by how they differ from an export of the defaults

VARIABLES
  doc,       \* the document being handled
  route,     \* "api" (settings, preset, import) or "boot"
  config,    \* the running configuration
  previous,  \* the one it replaced
  applied,   \* the reconfigurations the last apply made
  reply      \* "none", "accepted", "incomplete", "range", "pins", "restarted"

crVars == <<doc, route, config, previous, applied, reply>>

\* The assignment of a JSON integer to a field of its C type: most take its low bits, a dead
\* time that does not fit is replaced by the default.  (A negative number in a field of 32
\* unsigned bits becomes one above every limit.)
Narrowed(f, v) ==
  CASE f \in Bytes -> v % 256
    [] f \in Words -> v % 65536
    [] f = "PllPhaseOffset" -> ((v + 32768) % 65536) - 32768
    [] f = "DpwmClampAngleDeg" -> ((v + 128) % 256) - 128
    [] f = "Pair" -> [s \in Submodules |-> v[s] % 256]
    [] f = "DeadTime" ->
         [s \in Submodules |-> IF v[s] \in 0..65535 THEN v[s] ELSE Defaults.DeadTime[s]]
    [] f \in {"SpwmCarrierFrequency", "SpwmModulationFrequency", "MpptRestartDelta"} ->
         IF v < 0 THEN 2147483647 ELSE v
    [] OTHER -> v

\* configFromJson()
FromJson(values) ==
  [f \in Fields |-> IF f \in DOMAIN values THEN Narrowed(f, values[f]) ELSE Defaults[f]]

\* The values a document holds.
Values(d) ==
  [f \in Fields \ d.missing |-> IF f \in DOMAIN d.says THEN d.says[f] ELSE Defaults[f]]

\* configToJson(): the cells' frequencies fall back to the default when read.
ToJson(c) ==
  [ version |-> 1, missing |-> Unwritten, mistyped |-> {},
    says |-> [c EXCEPT !.PwmFrequency =
                [s \in Submodules |-> IF s \in Tm2Cells THEN Defaults.PwmFrequency[s] ELSE @[s]]] ]

\* configDocComplete(): the shape of the firmware's own export; version 0 stands for none.
DocComplete(d) ==
  /\ d.version \in {0, 1}
  /\ d.missing \union d.mistyped \subseteq Unwritten
-----------------------------------------------------------------------------
(* validateConfig(): each rule repairs its fields; their order matters.    *)

MaxModulationCells == 4
MaxDeadTimeCycles == 2047
MaxDeadTimeNs == 13646   \* pairMaxDeadTimeNs(): 2047 cycles of 150 MHz, rounded down

AllowsComplementary(s) == s \notin {"Sm21", "Sm40", "Sm41", "Sm42"}

PairSanitised(mode, s) ==
  IF mode > Differential \/ (mode # Independent /\ ~AllowsComplementary(s))
  THEN Independent ELSE mode

\* Pair modes and dead times; the frequencies outside Tm2.
SubmoduleRules(c) ==
  [c EXCEPT
    !.Pair = [s \in Submodules |-> PairSanitised(@[s], s)],
    !.DeadTime = [s \in Submodules |-> IF @[s] > MaxDeadTimeNs THEN MaxDeadTimeNs ELSE @[s]],
    !.PwmFrequency = [s \in Submodules |-> IF s \notin Tm2Cells /\ @[s] \notin 18..1000000
                                           THEN 1000 ELSE @[s]]]

InterruptRequired(c) ==
  \/ c.UseSpwm = 1 /\ c.ModulationScheme # Fixed
  \/ c.CaptureEnabled = 1 \/ c.MeterEnabled = 1 \/ c.PllEnabled = 1
  \/ c.LimitEnabled = 1 /\ c.LimitCycleByCycle = 1

CarrierCeiling(c) ==
  IF ~InterruptRequired(c) THEN 1000000 ELSE IF c.ThermalEnabled = 1 THEN 10000 ELSE 200000

CarrierInvalid(c) == c.SpwmCarrierFrequency \notin 18..CarrierCeiling(c)

\* mutant: the ceiling of a plain interrupt also when OneWire masks interrupts
CarrierRulesUncapped(c) ==
  LET carrier == IF c.SpwmCarrierFrequency \in 18..200000 THEN c.SpwmCarrierFrequency ELSE 20000
  IN [c EXCEPT !.SpwmCarrierFrequency = carrier,
               !.PwmFrequency = [s \in Submodules |-> IF s \in Tm2Cells THEN carrier ELSE @[s]],
               !.SyncPwm = 0]

\* One carrier within the ceiling for every cell of Tm2.
CarrierRules(c) ==
  LET ceiling == CarrierCeiling(c)
      carrier == IF ~CarrierInvalid(c) THEN c.SpwmCarrierFrequency
                 ELSE IF ceiling < 20000 THEN ceiling ELSE 20000
  IN [c EXCEPT !.SpwmCarrierFrequency = carrier,
               !.PwmFrequency = [s \in Submodules |-> IF s \in Tm2Cells THEN carrier ELSE @[s]],
               !.SyncPwm = 0]

Stepped(c) == c.ReferenceWaveform = Sequence
              \/ (c.ReferenceWaveform = Custom /\ c.WaveformSampleStep = 1)

\* A reference sampled at the carrier stays at or below Nyquist; the cell count.
ModulationRules(c) ==
  LET aliases == /\ c.UseSpwm = 1 /\ c.ModulationScheme # Fixed /\ ~Stepped(c)
                 /\ c.SpwmModulationFrequency \notin 1..(c.SpwmCarrierFrequency \div 2)
  IN [c EXCEPT !.UseSpwm = IF aliases THEN 0 ELSE @,
               !.ModulationCells = IF @ < 1 THEN 1
                                   ELSE IF @ > MaxModulationCells THEN MaxModulationCells ELSE @]

\* acmpRouteForPin(): the pads a comparator reaches.
AcmpPins == {0, 1, 14, 15, 16, 17, 18, 19, 20, 21, 25, 26, 38, 39, 40, 41}

LimitRules(c) ==
  [c EXCEPT !.LimitPin = IF @ \in AcmpPins THEN @ ELSE 40,
            !.LimitThreshold = IF @ \in 100..3300 THEN @ ELSE 2475,
            !.LimitFilterCount = 0, !.LimitFilterPeriod = 0]

PllRanges(c) ==
  LET window == c.PllMinHz >= 1 /\ c.PllMaxHz <= 400 /\ c.PllMinHz < c.PllMaxHz
  IN [c EXCEPT !.PllMinHz = IF window THEN @ ELSE 45, !.PllMaxHz = IF window THEN @ ELSE 55,
               !.PllPhaseOffset = IF @ \in -18000..18000 THEN @ ELSE 0,
               !.PllBandwidth = IF @ \in 10..500 THEN @ ELSE 200,
               !.PllZero = IF @ > 3300 THEN 1650 ELSE @,
               !.PllMinLevel = IF @ \in 20..3300 THEN @ ELSE 100]

\* The features the PLL cannot run beside; it yields to all but dither.
PllExclusions(c, carrierWasInvalid) ==
  LET off == \/ c.FeedbackEnabled = 1 \/ carrierWasInvalid \/ Stepped(c)
             \/ c.SpwmModulationFrequency \notin c.PllMinHz..c.PllMaxHz
             \/ c.SpwmCarrierFrequency < 1000
             \/ c.SpwmCarrierFrequency \div 18 < c.SpwmModulationFrequency
      pll == IF off THEN 0 ELSE c.PllEnabled
  IN [c EXCEPT !.PllEnabled = pll, !.DeadTimeCompensation = 0,
               !.CarrierDitherMode = IF pll = 1 THEN 0 ELSE @]

MpptFloor(c) == IF 2100 + c.SoftStartMs > 60000 THEN 60000 ELSE 2100 + c.SoftStartMs

MpptRules(c) ==
  LET deltas == c.MpptRestartDelta >= 100 /\ c.MpptDeadband < c.MpptRestartDelta
      window == c.MpptMinIndex < c.MpptMaxIndex /\ c.MpptMaxIndex <= 1155
      steps == c.MpptMinStep >= 1 /\ c.MpptMinStep <= c.MpptStep /\ c.MpptStep <= 200
  IN [c EXCEPT
        !.MpptIntervalMs = IF @ < 2100 + c.SoftStartMs THEN MpptFloor(c) ELSE @,
        !.MpptDeadband = IF deltas THEN @ ELSE 10,
        !.MpptRestartDelta = IF deltas THEN @ ELSE 1000,
        !.MpptMinIndex = IF window THEN @ ELSE 50, !.MpptMaxIndex = IF window THEN @ ELSE 1000,
        !.MpptStep = IF steps THEN @ ELSE 20, !.MpptMinStep = IF steps THEN @ ELSE 5,
        !.MpptEnabled = IF c.FeedbackEnabled = 1 THEN 0 ELSE @]

TelemetryRules(c) ==
  [c EXCEPT !.MqttPort = IF @ = 0 THEN 1883 ELSE @,
            !.MqttIntervalSeconds = IF @ \in 1..3600 THEN @ ELSE 10,
            !.MeterCalibration = 1,
            !.PowerMonAddress = IF @ \in 64..79 THEN @ ELSE 64,
            !.PowerMonCalibration = 1,
            !.PowerMonIntervalMs = IF @ < 250 THEN 250 ELSE @]

Validated(c) ==
  TelemetryRules(MpptRules(PllExclusions(PllRanges(LimitRules(
    ModulationRules(CarrierRules(SubmoduleRules(c))))), CarrierInvalid(c))))
-----------------------------------------------------------------------------
(* validatePinOwnership(): the claims, in the order they are made.         *)

PwmPins == {2, 3, 4, 5, 6, 7, 8, 9, 22, 23, 28, 29, 33, 36, 37}
FixedPins == PwmPins \union {13, 18, 19}
AnalogPins == 14..27 \union 38..41
CurrentSense == {"meter current", "current limit"}

\* A claim: what uses the pin, the pin, whether it must be analogue.
Claim(on, role, pin, analog) == IF on THEN {[role |-> role, pin |-> pin, analog |-> analog]}
                                      ELSE {}

Claims(c) ==
  LET monitor == c.PowerMonEnabled = 1
  IN Claim(c.FeedbackEnabled = 1 \/ c.CaptureEnabled = 1 \/ c.PllEnabled = 1,
           "feedback", c.FeedbackPin, TRUE)
     \union Claim(c.MeterEnabled = 1, "meter current", c.MeterPin, TRUE)
     \union Claim(c.LimitEnabled = 1, "current limit", c.LimitPin, TRUE)
     \union Claim(c.FaultEnabled = 1, "fault", c.FaultPin, FALSE)
     \union Claim(c.ThermalEnabled = 1, "OneWire", c.OneWirePin, FALSE)
     \union Claim(monitor, "SCL2", 24, FALSE) \union Claim(monitor, "SDA2", 25, FALSE)
     \union Claim(monitor /\ c.PgEfusePin # 255, "eFuse good", c.PgEfusePin, FALSE)
     \union Claim(monitor /\ c.PgBuckPin # 255, "buck good", c.PgBuckPin, FALSE)
     \union Claim(monitor /\ c.AlertPin # 255, "alert", c.AlertPin, FALSE)
     \union Claim(monitor /\ c.ImonPin # 255, "IMON", c.ImonPin, TRUE)

\* mutant: any two claims of analogue inputs may share a pin
CompatibleAnalog(a, b) == {a.role, b.role} \subseteq CurrentSense \/ (a.analog /\ b.analog)

Compatible(a, b) == {a.role, b.role} \subseteq CurrentSense

PinsValid(c) ==
  \A a \in Claims(c) :
    /\ a.pin <= 41 /\ (a.analog => a.pin \in AnalogPins)
    /\ a.pin \notin FixedPins
    /\ \A b \in Claims(c) : a # b /\ a.pin = b.pin => Compatible(a, b)
-----------------------------------------------------------------------------
(* applyPwmConfig(): what a changed section makes it do.                   *)

Tm2Fields == { "UseSpwm", "SpwmCarrierFrequency", "SpwmModulationFrequency", "ModulationScheme",
               "ModulationIndexMilli", "ModulationCells", "DeadTimeCompensation", "SoftStartMs",
               "ReferenceWaveform", "DpwmClampAngleDeg", "CarrierDitherMode",
               "WaveformSampleStep" }
ByModule == {"Pair", "DeadTime", "PwmFrequency"}

\* The fields configValuesEqual() compares, by section; Tm2 has its cells besides.
Compared ==
  [ Tm2 |-> Tm2Fields, Pwm |-> Tm2Fields \union ByModule \union {"SyncPwm", "Verbose"},
    Induction |-> {"InductionEnabled", "PreShiftNanos"},
    Fault |-> {"FaultEnabled", "FaultPin", "FaultActiveHigh"},
    Limit |-> { "LimitEnabled", "LimitPin", "LimitThreshold", "LimitCycleByCycle",
                "LimitFilterCount", "LimitFilterPeriod" },
    Feedback |-> {"FeedbackEnabled", "FeedbackPin", "KpMilli"},
    Mppt |-> { "MpptEnabled", "MpptIntervalMs", "MpptStep", "MpptMinStep", "MpptMinIndex",
               "MpptMaxIndex", "MpptDeadband", "MpptRestartDelta" },
    Mqtt |-> {"MqttEnabled", "MqttPort", "MqttIntervalSeconds"},
    PowerMon |-> { "PowerMonEnabled", "PowerMonAddress", "PowerMonCalibration",
                   "PowerMonIntervalMs", "PgEfusePin", "PgBuckPin", "AlertPin", "ImonPin" } ]

\* mutant: the cells of Tm2 are left out of the comparison
DiffersSansCells(section, a, b) == \E f \in Compared[section] \ ByModule : a[f] # b[f]

Differs(section, a, b) ==
  \/ \E f \in Compared[section] : a[f] # b[f]
  \/ section = "Tm2" /\ \E f \in ByModule, s \in Tm2Cells : a[f][s] # b[f][s]

Applied(old, new) ==
  LET pwm == Differs("Pwm", old, new) \/ Differs("Induction", old, new)
      limit == Differs("Limit", old, new)
      fault == Differs("Fault", old, new)
      only(on, what) == IF on THEN {what} ELSE {}
  IN {"capture", "thermal", "pll"}
     \union only(pwm \/ limit \/ fault, "outputs masked") \union only(fault, "fault pin")
     \union only(pwm, "pwm") \union only(limit \/ pwm, "comparator")
     \union only(\E s \in {"Mppt", "Feedback", "Tm2"} : Differs(s, old, new), "mppt")
     \union only(Differs("Mqtt", old, new), "mqtt")
     \union only(Differs("PowerMon", old, new), "power monitor")
-----------------------------------------------------------------------------
Arrives(d, way) ==
  /\ doc = d /\ route = way
  /\ config = Validated(Defaults) /\ previous = Validated(Defaults)
  /\ applied = {} /\ reply = "none"

Init == \E d \in Documents, way \in {"api", "boot"} : Arrives(d, way)

\* configApiRejectReason()
RejectReason(c) == c.LimitThreshold \notin 100..3300

Answer(d, r) ==
  LET candidate == FromJson(Values(d))
  IN IF ~DocComplete(d) THEN "incomplete"
     ELSE IF r # "boot" /\ RejectReason(candidate) THEN "range"
     ELSE IF ~PinsValid(Validated(candidate)) THEN "pins" ELSE "accepted"

\* api_config_post(), configApplyDocument(), loadConfiguration()
Handle ==
  /\ reply = "none"
  /\ reply' = Answer(doc, route)
  /\ IF reply' = "accepted"
     THEN /\ config' = Validated(FromJson(Values(doc))) /\ previous' = config
          /\ applied' = IF route = "boot" THEN applied ELSE Applied(config, config')
     ELSE UNCHANGED <<config, previous, applied>>
  /\ UNCHANGED <<doc, route>>

\* What was accepted has been saved; the device starts from its file.
Restart ==
  /\ reply = "accepted"
  /\ reply' = "restarted" /\ previous' = config
  /\ config' = IF Answer(ToJson(config), "boot") = "accepted"
               THEN Validated(FromJson(Values(ToJson(config)))) ELSE Defaults
  /\ UNCHANGED <<doc, route, applied>>

Next == Handle \/ Restart

Spec == Init /\ [][Next]_crVars
-----------------------------------------------------------------------------
\* The configuration has every field, within its type's range.
TypeOK ==
  /\ DOMAIN config = Fields
  /\ \A f \in Bytes \union Words : config[f] \in 0..65535
  /\ reply \in {"none", "accepted", "incomplete", "range", "pins", "restarted"}

\* No carrier the interrupt cannot follow, no cell beside the carrier.
CarrierIsServed(c) ==
  /\ InterruptRequired(c) => c.SpwmCarrierFrequency <= 200000
  /\ InterruptRequired(c) /\ c.ThermalEnabled = 1 => c.SpwmCarrierFrequency <= 10000
  /\ \A s \in Tm2Cells : c.PwmFrequency[s] = c.SpwmCarrierFrequency
  /\ \A s \in Submodules : c.PwmFrequency[s] \in 18..1000000
  /\ c.UseSpwm = 1 /\ c.ModulationScheme # Fixed /\ ~Stepped(c) =>
       c.SpwmModulationFrequency > 0 /\ 2 * c.SpwmModulationFrequency <= c.SpwmCarrierFrequency

\* Nothing else drives what the PLL steers, and the PLL and MPPT stay within their windows.
LoopsDoNotFight(c) ==
  /\ c.PllEnabled = 1 =>
       /\ c.FeedbackEnabled = 0 /\ c.CarrierDitherMode = 0 /\ ~Stepped(c)
       /\ c.PllMinHz <= c.SpwmModulationFrequency /\ c.SpwmModulationFrequency <= c.PllMaxHz
       /\ c.SpwmCarrierFrequency >= 18 * c.SpwmModulationFrequency
  /\ ~(c.MpptEnabled = 1 /\ c.FeedbackEnabled = 1)
  /\ c.MpptDeadband < c.MpptRestartDelta /\ c.MpptMinStep \in 1..c.MpptStep
  /\ c.MpptMinIndex < c.MpptMaxIndex

\* A dead time fits its register, a pair its submodule.
PairsAreSound(c) ==
  \A s \in Submodules :
    /\ (c.DeadTime[s] * 3) \div 20 <= MaxDeadTimeCycles
    /\ c.Pair[s] # Independent => c.Pair[s] \in {HalfBridge, Differential} /\ AllowsComplementary(s)

\* Every pin that is used has one owner; the current sensor's pad alone has two.
PinsHaveOneOwner(c) ==
  LET users(pin) == {a.role : a \in {b \in Claims(c) : b.pin = pin}}
      wired == {a.pin : a \in Claims(c)}
  IN \A pin \in wired : /\ pin \in 0..41 \ FixedPins
                         /\ (Cardinality(users(pin)) = 1 \/ users(pin) = CurrentSense)

\* What is accepted can be run: whatever was posted, imported or read from the card, the
\* rules hold together after all repairs (config_serde.h 275-600, pin_ownership.h).
AcceptedConfigIsSound ==
  reply \in {"accepted", "restarted"} =>
    /\ CarrierIsServed(config) /\ LoopsDoNotFight(config) /\ PairsAreSound(config)
    /\ PinsHaveOneOwner(config)
    /\ config.LimitThreshold \in 100..3300 /\ config.LimitPin \in AcmpPins

\* A restart runs the very configuration that was accepted: what is not written to the
\* file is derived again, and no repair finds anything left to repair.
RestartKeepsSettings == reply = "restarted" => config = previous

\* A change reaches every part that holds a copy of what was changed, and the outputs are
\* masked whenever timing or protection changed (pwm_utils.cpp applyPwmConfig()).
ChangesAreApplied ==
  reply = "accepted" /\ route # "boot" /\ config # previous =>
    /\ "outputs masked" \in applied \/ \A f \in Tm2Fields \union ByModule : config[f] = previous[f]
    /\ "comparator" \in applied \/ config.LimitThreshold = previous.LimitThreshold
    /\ "mppt" \in applied \/ \A f \in Tm2Fields : config[f] = previous[f]

\* What was accepted takes hold, at once and for good.
SettingsTakeHold == RestartKeepsSettings /\ ChangesAreApplied

\* The interface rejects a threshold outside 100..3300 instead of rewriting it
\* (config_serde.h:601-608).
OutOfRangeIsRejected ==
  reply = "accepted" /\ route # "boot" => Values(doc).LimitThreshold \in 100..3300

\* The evaluation interval covers the soft-start ramp and a meter window (config_json.h:211).
MpptWaitsForTheRamp ==
  reply = "accepted" => config.MpptIntervalMs >= config.SoftStartMs + 2100
=============================================================================
