SPECIFICATION FairSpec
CONSTANTS
  a1 = a1
  a2 = a2
  host1 = host1
  Addresses = {a1, a2}
  Names = {host1}
  Networks <- OneBlock
  NoAddress = NoAddress
  Kinds = {"icmp", "stream"}
  TcpPcbs = {p1, p2}
  RawPcbs = {r1}
  NoPcb = NoPcb
  Timeout = 1
  Rate = 1
  Capacity = 2
  Durations = {1}
  MaxOps = 2
  Horizon = 3
INVARIANTS
  HistoryInOrder
  ReportedOnce
  InScope
PROPERTIES
  LeaksOnlyByOthers
  OperationEnds
