SPECIFICATION MCSpec
CONSTANTS
  Half = 4
  MaxAttempts = 3
  Torn = Torn
  CrashModulus = 3
  FlashFaults = FALSE
  SlotSize = 5
  PayloadOffset = 1
  WordSize = 2
  QueueCapacity = 4
  Budget = 2
  Period = 3
  OneShots = {"job"}
  Arrivals = 1
  MaxLag = 2
  BusCapacity = 2
  Services = {"status", "files", "radio"}
  Asked = {"storage.read", "network.probe", "gpio.drive", "system.shutdown"}
  MaxAddress = 7
  SectorSize = 2
  MaxBlocks = 2
  IdleAttempts = 2
  InitAttempts = 2
  EmptySlot = EmptySlot
  Cards = {a, b}
  NoCard = none
  MediaGenerations = 4
  MaxChunks = 3
  MaxRecords = 2
  Rates = 3
  GoodRates = {2}
  KeyCodes = {1, 2}
  Navigation = {2}
  MaxReading = 1
  ReadyTries = 2
  HealthTurns = 2
  PressWait = 2
  HoldWait = 1
INVARIANTS
  ControllerTold
  Lineage
  EntersWhatIsHashed
  HeartbeatKept
  ReadsWhatAsked
  OneCard
  CopyAgrees
  NothingOfRemovedCard
  RootIsCurrent
PROPERTIES
  ControllerFollowed
  KeepsACopy
  CrashesAreStalls
  ImplementsPolicy
  HeartbeatGoesOn
  EvidenceEnds
