SPECIFICATION FairSpec
CONSTANTS
  Writers = {w1, w2}
  Packets = {p1, p2}
  Receipts = {r1, r2}
  Stamps = {s1}
  NoFile = NoFile
  Torn = Torn
  NoJob = NoJob
  MaxCrashes = 1
CHECK_DEADLOCK FALSE
INVARIANTS
  BlocksExtendPrefixes
  CommittedHaveFiles
  UncommittedAccounted
  
PROPERTY
  CreatedThenCommitted
