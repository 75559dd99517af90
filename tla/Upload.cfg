CONSTANTS
  photo = photo
  full = full
  small = small
  plain = plain
  huge = huge
  Blobs <- MCBlobs
  Images <- MCImages
  Size <- MCSize
  MaxBody <- MCMaxBody
  FormBodies <- MCFormBodies
  Files = {photo}
  Sends <- MCSends
  Items = {i1, i2, s1}
  Shots = {s1}
  Requests = {r1, r2, p1}
  Forms = {p1}
  MaxConcurrent = 1
  MaxRetries = 1
  Faults = {"gate", "session", "db", "net"}
  None = None
SPECIFICATION FairSpec
INVARIANTS AnswerTrue LimitKept DoneIsStored SlotsUsed
PROPERTIES ImplementsPromise Settles
