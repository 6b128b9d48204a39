---------------------------- MODULE ConfigFields ----------------------------
(***************************************************************************)
(* The fields of the configuration (config_json.h), the widths of their C  *)
(* types and the values that stand for a field that is absent.  Booleans   *)
(* are 0 and 1; texts are left out (their secrets are in PresetStore); of  *)
(* the numbers no rule looks at, one or two stand for all.  A calibration  *)
(* is 1 when its worst reading fits the public types and 0 otherwise.      *)
(***************************************************************************)
EXTENDS Integers, TLC

Tm2Cells == {"Sm20", "Sm21", "Sm22", "Sm23"}
Submodules == Tm2Cells \union {"Sm13", "Sm31", "Sm40", "Sm41", "Sm42"}
-----------------------------------------------------------------------------
(* The fields.                                                             *)

Fixed == 0           \* ModSchemeFixed
Custom == 3          \* RefWaveCustom
Sequence == 4        \* RefWaveSequence

Independent == 0     \* PwmPairMode
HalfBridge == 1
Differential == 2

\* The fallbacks of configFromJson(), which are the compiled defaults: the submodules,
\* the modulation and Tm2, the protection, the links, the loops and the monitors.
SubmoduleDefaults ==
  [ Pair |-> [s \in Submodules |-> Independent], DeadTime |-> [s \in Submodules |-> 150],
    PwmFrequency |-> [s \in Submodules |-> IF s \in Tm2Cells THEN 20000 ELSE 1000] ]

ModulationDefaults ==
  [ UseSpwm |-> 0, SpwmCarrierFrequency |-> 20000, SpwmModulationFrequency |-> 50,
    ModulationScheme |-> 1, ModulationIndexMilli |-> 1000, ModulationCells |-> 2,
    DeadTimeCompensation |-> 0, SoftStartMs |-> 0, ReferenceWaveform |-> 0,
    DpwmClampAngleDeg |-> 0, CarrierDitherMode |-> 0, WaveformSampleStep |-> 0,
    SyncPwm |-> 0, Verbose |-> 0, InductionEnabled |-> 0, PreShiftNanos |-> 250 ]

ProtectionDefaults ==
  [ FaultEnabled |-> 0, FaultPin |-> 32, FaultActiveHigh |-> 1,
    LimitEnabled |-> 0, LimitPin |-> 40, LimitThreshold |-> 2475, LimitCycleByCycle |-> 0,
    LimitFilterCount |-> 0, LimitFilterPeriod |-> 0 ]

LinkDefaults == [ MqttEnabled |-> 0, MqttPort |-> 1883, MqttIntervalSeconds |-> 10 ]

LoopDefaults ==
  [ FeedbackEnabled |-> 0, FeedbackPin |-> 41, KpMilli |-> 200,
    PllEnabled |-> 0, PllPhaseOffset |-> 0, PllMinHz |-> 45, PllMaxHz |-> 55,
    PllBandwidth |-> 200, PllZero |-> 1650, PllMinLevel |-> 100,
    MpptEnabled |-> 0, MpptIntervalMs |-> 3000, MpptStep |-> 20, MpptMinStep |-> 5,
    MpptMinIndex |-> 50, MpptMaxIndex |-> 1000, MpptDeadband |-> 10, MpptRestartDelta |-> 1000 ]

MonitorDefaults ==
  [ CaptureEnabled |-> 0, MeterEnabled |-> 0, MeterPin |-> 40, MeterCalibration |-> 1,
    ThermalEnabled |-> 0, OneWirePin |-> 21,
    PowerMonEnabled |-> 0, PowerMonAddress |-> 64, PowerMonCalibration |-> 1,
    PowerMonIntervalMs |-> 250, PgEfusePin |-> 14, PgBuckPin |-> 15, AlertPin |-> 20,
    ImonPin |-> 255 ]

Defaults == SubmoduleDefaults @@ ModulationDefaults @@ ProtectionDefaults @@ LinkDefaults
            @@ LoopDefaults @@ MonitorDefaults

Fields == DOMAIN Defaults
Bytes == { "ModulationScheme", "ModulationCells", "ReferenceWaveform", "CarrierDitherMode",
           "FeedbackPin", "FaultPin", "LimitPin", "LimitFilterCount", "LimitFilterPeriod",
           "MeterPin", "OneWirePin", "PowerMonAddress", "PgEfusePin", "PgBuckPin", "AlertPin",
           "ImonPin" }
Words == { "ModulationIndexMilli", "SoftStartMs", "KpMilli", "LimitThreshold", "MqttPort",
           "MqttIntervalSeconds", "PllMinHz", "PllMaxHz", "PllBandwidth", "PllZero",
           "PllMinLevel", "MpptIntervalMs", "MpptStep", "MpptMinStep", "MpptMinIndex",
           "MpptMaxIndex", "MpptDeadband", "PowerMonIntervalMs" }

\* Not written by configToJson(): legacy fields and the cells' mirrors of the carrier.
Unwritten == {"SyncPwm", "DeadTimeCompensation", "LimitFilterCount", "LimitFilterPeriod"}
=============================================================================
