SPECIFICATION Spec
CONSTANTS
  Generations = 16
  MaxEdits = 1
  Faults = {"promote"}
INVARIANTS
  TempRemainsAvailable
