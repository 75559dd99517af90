CONSTANTS
  Procs = {p1}
  Originals = {o1}
  Renditions = {}
  NoKey = NoKey
  Dirs = {"originals/ab"}
  Kinds = {}
  Above <- Paths
  SyncsPath = FALSE
SPECIFICATION Spec
INVARIANT AckSurvives
