SPECIFICATION Spec
CONSTANTS
  p1 = p1
  p2 = p2
  s1 = s1
  s2 = s2
  s3 = s3
  k1 = k1
  m1 = m1
  m2 = m2
  m3 = m3
  Publishers = {u1, u2}
  Packets = {p1, p2}
  Snapshots = {s1, s2, s3}
  PacketsOf <- SnapshotPackets
  Keys = {k1}
  Manifests = {m1, m2, m3}
  KeyOf <- OneKey
  ManifestOf <- WellFormedManifests
  Malformed = {m3}
  NoManifest = NoManifest
  NoFile = NoFile
  Torn = Torn
  Quota = 2
  GivenLimit = 2
  DefaultLimit = 1
CHECK_DEADLOCK FALSE
INVARIANTS
  SafeRestart
