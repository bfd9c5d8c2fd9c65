SPECIFICATION MCSpec
CONSTANTS
  Paths <- Files
  Absent = Absent
  Partial = Partial
  Values = {0, 1}
  Pins = {p}
  ShortPin = ShortPin
  Passwords = {w}
  NoPassword = NoPassword
  Foreign = Foreign
  Newer = Newer
  MaxFailures = 2
  LockTime = 2
  Networks = {n1, n2}
  ApCapacity = 3
  WaitTime = 2
  Columns = 5
  Rows = 3
  Letters = {"s", "c", "x", ">"}
  OtherScreen = "other"
  CommandSize = 3
  Limit = 1
  Commands <- Lines
  Outputs <- Texts
  Welcome <- Top
  HostAddresses = {"a", "b", "c"}
  LongNames = {"long"}
  Cut <- CutNames
  HostCapacity = 2
  PortCapacity = 1
  Ports = {80, 443}
  DigitValue <- Worth
  Octets = 2
  OctetBits = 2
  OctetDigits = 2
  MaxOctet = 3
  WordSize = 60
  TargetSize = 7
  PathSize = 7
  PathDepth = 2
  FileSize = 8
  ChunkSize = 3
  StringMin = 2
  StringSize = 4
  PreviewSize = 7
INVARIANTS FewWrongPins OkIsKept PowerWorks GlassIsTerminal LineShown HostsTold TakenAsWritten
PROPERTIES ReplacedWhole RestartKeeps CyclesTogether WaitsEnd PowerOffAsked
