SPECIFICATION ServicesSpec
CONSTANTS
  Generations = 16
  MaxEdits = 4
  Faults = {"write", "keep", "swap"}
  Focus = {"store", "log", "mqtt", "time", "presets", "pool", "auth", "monitor", "heat",
           "search", "rules", "stage", "timers", "limit", "files",
           "names", "readings", "edges"}
  Capacity = 4
  MaxPerResponse = 2
  OledLogLines = 2
  MaxWritten = 7
  MaxBoots = 2
  Wrap = 4
  UpSince = 2
  Resync = 2
  Retry = 2
  ReplyTimeout = 1
  RtcTolerance = 1
  MaxWall = 4
  MaxRequests = 2
  MaxPendingClients = 2
  IdleClientTimeout = 2
  ClockWrap = 8
  MaxServe = 1
  PeerIps = {"p1", "p2", "p3"}
  PeerSlots = 2
  AuthWindow = 2
  AuthBlock = 2
  AuthFailures = 2
  AuthWrap = 6
  UpTime = 3
  MaxTime = 4
  Buses = {"p20", "p21"}
  RequestTicks = 2
  HarvestTicks = 1
  RescanTicks = 2
  Configured = 9
  SchemeMost = 12
  Lowest = 2
  Highest = 10
  StepMost = 2
  StepLeast = 1
  FlatCap = 2
  Ceilings = {1, 6, 12}
  BaseTopic = "t1"
  SensorCount = 2
  Interval = 2
  MaxEnergy = 1
  Folded = {"a"}
  Spellings = {1, 2}
  Bodies = {1}
  Hosts = {"h1", "h2"}
  Passwords = {"p"}
  Pins = {"x", "y"}
  NameMax = 3
  Alphabet = {"a", "A", " ", ".", "_", "/"}
  Modulations <- FirstSettings
  Changes <- LaterSettings
  Sine <- SineTable
  Flat <- FlatTable
  Segments <- StepSequence
  Uploaded <- StepSamples
  Unit = 8
  One = 8
  Fraction = 2
  RampCycles = 5
  Advance = 1
  FixedCells = {}
  TimerSets <- TimerCases
  BusClock = 1200
  MaxCounter = 7
  FullDuty = 8
  Second = 1200
  FixedTimers = {"Sm31"}
  Modes = {"off", "latched", "cycle", "incapable"}
  Thresholds = {100, 1650, 3300}
  MaxTrips = 2
INVARIANTS
  EveryPowerLossRecovers
  ProvisionedIsDurable
  LogReadsInOrder
  BrokerIsServed
  ClockIsDisciplined
  PresetsAreSafe
  AccessIsFair
  MonitorIsHonest
  DeratingIsObeyed
  SettingsAreSound
  OutputsAreAsConfigured
  UsbShowsTheFiles
  UploadsAreExact
PROPERTIES
  ImplementsRegister
CHECK_DEADLOCK FALSE
