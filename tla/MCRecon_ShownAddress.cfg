SPECIFICATION FairSpec
CONSTANTS
  a1 = a1
  a2 = a2
  host1 = host1
  Addresses = {a1, a2}
  Names = {host1}
  Networks <- NoBlock
  NoAddress = NoAddress
  Kinds = {"tcp"}
  TcpPcbs = {p1, p2}
  RawPcbs = {r1}
  NoPcb = NoPcb
  Timeout = 1
  Rate = 1
  Capacity = 2
  Durations = {}
  MaxOps = 3
  Horizon = 3
INVARIANT ShownAddress
