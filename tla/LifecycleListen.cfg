CONSTANTS
  Handlers = {g1}
  Main = Main
  Workers = {w1}
  Hashes = {x1, x2}
  QueueCap = 1
  NoHash = NoHash
  Releases <- MCReleases
  Faults = {"listen"}
SPECIFICATION FairSpec
PROPERTY FailureEnds
CHECK_DEADLOCK FALSE
