SPECIFICATION Spec
CHECK_DEADLOCK FALSE
CONSTANTS
  old = old  other = other  new = new  v1 = v1  v2 = v2
  topic = topic  runtime = runtime  packet = packet
  Manifest = {old, other, new}
  Path <- MCPath
  Rank <- MCRank
  Topic = {topic}
  Runtime = {runtime}
  Covers <- MCCovers
  Compatible <- MCCompatible
  Guided = {old, new}
  Packet = {packet}
  About <- MCAbout
  Meets <- MCMeets
  Bundles <- MCBundles
  InitWith = {old, new}
  Worker = {w1, w2}
  Identity = {i1, i2}
  IdentityFile = IdentityFile
  ActiveFile = ActiveFile
  None = None
  Torn = Torn
  MaxCommands = 3
  MaxCrashes = 1
INVARIANTS
  TypeOK
  
  TornExplained
  BundleStopsExplained
  InitKept
  
