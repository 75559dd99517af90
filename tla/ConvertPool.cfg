CONSTANTS
  Callers = {c1, c2}
  Workers = {w1, w2}
  Hashes = {h1, h2, h3}
  QueueCap = 2
  NoHash = NoHash
SPECIFICATION FairSpec
INVARIANTS MarkHeld OneHolder IInv
PROPERTIES ImplementsQueue QueuedIsTaken MarkCleared StopReturns
CHECK_DEADLOCK FALSE
