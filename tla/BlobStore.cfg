CONSTANTS
  Procs = {p1, p2, p3}
  Originals = {o1}
  Renditions = {r1}
  NoKey = NoKey
  Dirs = {"originals", "originals/ab", "thumbs/ab"}
  Kinds = {"originals"}
  Above <- Paths
  SyncsPath = FALSE
SPECIFICATION Spec
SYMMETRY Symmetry
INVARIANTS NoTornBlob AckedDurable
PROPERTIES ImplementsShelf OnlyRemoved
