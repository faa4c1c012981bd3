SPECIFICATION Spec
CHECK_DEADLOCK FALSE
CONSTANTS
  c = c  b = b  claim = claim  counter = counter  finding = finding
  verdict = verdict  h1 = h1  h2 = h2
  Node = {c, b}
  Packet = {claim, counter, finding}
  Resolution = {verdict}
  Peers <- MCPeers
  Admits <- MCAdmits
  Contradicts <- MCContradicts
  Findings <- MCFindings
  Reconciler = {c}
  Handler = {h1, h2}
  Handlers <- MCHandlers
  Replicator = replicator
  NoPacket = NoPacket
  NoResolution = NoResolution
  MaxRequests = 2
  MaxRounds = 1
  MaxCrashes = 1
INVARIANTS
  OnlyResolutionsBreakTheChain
  CommittedCanBeServed
  MissedConflictExplained
  UnpublishedExplained
  SeenIsHeld
