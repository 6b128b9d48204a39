SPECIFICATION Spec
CONSTANTS
  Cells = {c1, c2}
  LimitModes = {"latched"}
  ThermalModes = {FALSE, TRUE}
  MtpEnabled = TRUE
  LabOta = FALSE
INVARIANTS
  LiveOnlyWithAllClear
  PolarityWhenLive
  LevelFaultIsPending
  LatchReachesTheIsr
  ThermalBeforePower
  MtpTimerNeverLive
PROPERTIES
  ConnectOnlyWhenQuiet
SYMMETRY CellSymmetry
