SPECIFICATION SpecOwed
CONSTANTS
  Cells = {}
  LimitModes = {"off"}
  ThermalModes = {FALSE}
  MtpEnabled = FALSE
  LabOta = FALSE
INVARIANTS
  PowerNeedsAcknowledgement
