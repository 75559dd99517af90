CONSTANTS
  Hashes = {a, b}
  MaxId = 4
  PageSize = 1
  Fetches = {f1, f2}
  Routes = {"thumb", "photo"}
  NoHash = NoHash
SPECIFICATION FairSpec
INVARIANTS NoTileTwice NothingSkipped OnlyThumbShowsHidden
PROPERTY EndReached
