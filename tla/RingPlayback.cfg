SPECIFICATION Spec
CONSTANTS
  BufSamples = 2
  Stored = 7
  SdMayFail = TRUE
INVARIANTS BufferHasOneOwner NothingSkippedOrRepeated
PROPERTIES PlaysInOrder PlaybackNeverStalls
