SPECIFICATION FairSpec
CONSTANTS
  a = a  b = b  p = p  q = q
  Node = {a, b}
  Watcher = {a}
  Peers <- MCPeers
  Held <- MCHeld
  Admits <- MCAdmits
  Packet = {p, q}
  Contradictions <- MCContradictions
  Beating = Beating
  Replicating = Replicating
  Unknown = Unknown
  StableChecks = 1
  MaxRounds = 1
  MaxFaults = 1
INVARIANTS
  TypeOK
  RecordOnDisk
PROPERTY
  ForkRecorded
