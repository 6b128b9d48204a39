SPECIFICATION Spec
CONSTANTS
  Cells = {}
  LimitModes = {"off"}
  ThermalModes = {FALSE}
  MtpEnabled = FALSE
  LabOta = TRUE
INVARIANTS
  OtaStaysDark
