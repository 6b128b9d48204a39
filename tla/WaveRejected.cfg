SPECIFICATION Spec
CONSTANTS
  Short = {s1, s2}
  Long = {l1, l2}
  Sequences = {q1, q2}
  None = None
  Cut = Cut
  Faults = {"upload"}
INVARIANT PreviousRemainsUsable
