CONSTANTS
  Requests = {r1, r2}
  Sessions = {s1, s2}
  Photos = {a, b}
  Nobody = Nobody
  NoAnswer = NoAnswer
SPECIFICATION Spec
SYMMETRY Symmetry
INVARIANTS CountIsLikers IInv
PROPERTY ImplementsBoard
