SPECIFICATION Spec
CONSTANTS
  Ring = 3
  CurrentRing = 2
  Modulus = 6
  Chunk = 2
  Margin = 1
  DrainChunk = 1
  Backlog = 1
  MaxDrain = 2
  PassTicks = 1
  Posts = {0, 2}
  Usages = {{"meter", "scope", "download"}, {"pll", "scope"}, {"pll", "download"}}
INVARIANTS TriggerIsWhereReported FrozenDownloadIsOneRecord DrainMatchesMirror MeterLosesNothing
PROPERTIES TripKeepsRecord
