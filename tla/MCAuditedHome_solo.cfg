SPECIFICATION AuditSpec
CONSTANTS
  Writers = {w1}
  Packets = {p1, p2}
  Receipts = {r1, r2}
  Stamps = {s1, s2}
  NoFile = NoFile
  Torn = Torn
  NoJob = NoJob
  MaxCrashes = 2
CHECK_DEADLOCK FALSE
INVARIANTS
  ChainHolds
  QuietVerdictExact
  ValidIsSound
PROPERTY
  AdmitsAsPromised
