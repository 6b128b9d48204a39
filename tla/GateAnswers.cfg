SPECIFICATION Spec
CONSTANTS
  Cells = {}
  LimitModes = {"latched", "cbc"}
  ThermalModes = {FALSE}
  MtpEnabled = FALSE
  LabOta = TRUE
PROPERTIES
  DemandIsAnswered
  ImplementsPowerStage
