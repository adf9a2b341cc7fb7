SPECIFICATION FairSpecAny
CONSTANTS
  TcpMax = 1
  UdpMax = 2
  Offset = 4
  Depth = 2
  Length = 2
  Apps = {a}
  Peers = {h1, h2, h3}
  h1 = h1
  h2 = h2
  h3 = h3
  Null = Null
  WriteResults = {1, 2}
  Usage = {"reopen"}
INVARIANTS
  PacketsAreConserved
  TablesAreRight
PROPERTIES
  NothingIsTakenAway
  DeepBuffersAreServed
