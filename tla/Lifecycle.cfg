CONSTANTS
  Handlers = {g1, g2}
  Main = Main
  Workers = {w1}
  Hashes = {x1, x2}
  QueueCap = 1
  NoHash = NoHash
  Releases <- MCReleases
  Faults = {"crash", "listen", "open"}
SPECIFICATION FairSpec
INVARIANTS CleanExit ClosedLast AppliedOnce SchemaComplete
PROPERTIES ImplementsQueue SignalEnds ComesBack
CHECK_DEADLOCK FALSE
