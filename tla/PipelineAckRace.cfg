CONSTANTS
  h1 = h1
  h2 = h2
  Uploaders = {u1, u2}
  Workers = {}
  Viewers = {}
  Admins = {a1}
  Hashes = {h1}
  Types = {"jpeg"}
  Heic = {}
  Contents <- OneJpeg
  Broken = {}
  QueueCap = 1
  Faults = {}
  Dirs = {}
  Kinds = {}
  Above <- Shard
  SyncsPath = FALSE
  NoType = NoType
  NoKey = NoKey
SPECIFICATION Spec
INVARIANT AckedKept
