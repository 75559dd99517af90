CONSTANTS
  h1 = h1
  h2 = h2
  Uploaders = {u1}
  Workers = {w1}
  Viewers = {v1}
  Admins = {}
  Hashes = {h1, h2}
  Types = {"jpeg", "heic"}
  Heic = {"heic"}
  Contents <- TwoPhotos
  Broken = {h1}
  QueueCap = 1
  Faults = {"crash", "timeout"}
  Dirs = {}
  Kinds = {}
  Above <- Shard
  SyncsPath = FALSE
  NoType = NoType
  NoKey = NoKey
SPECIFICATION FairSpec
INVARIANT NoneForgotten
PROPERTIES SelfHeals
