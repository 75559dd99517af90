CONSTANTS
  h1 = h1
  h2 = h2
  Uploaders = {u1, u2}
  Workers = {}
  Viewers = {}
  Admins = {a1}
  Hashes = {h1}
  Types = {heic, heif}
  Heic = {heic, heif}
  Contents <- Ambiguous
  Broken = {}
  QueueCap = 1
  Faults = {"power", "io", "db"}
  Dirs = {ab}
  Kinds = {}
  Above <- Shard
  SyncsPath = FALSE
  NoType = NoType
  NoKey = NoKey
SPECIFICATION Spec
SYMMETRY Symmetry
INVARIANT OriginalKept
