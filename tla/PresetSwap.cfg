SPECIFICATION Spec
CONSTANTS
  Folded = {"a"}
  Spellings = {1, 2}
  Bodies = {1}
  Hosts = {"h1", "h2"}
  Passwords = {"p"}
  Pins = {"x", "y"}
INVARIANTS
  ReplacedPresetSurvives
