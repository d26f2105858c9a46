SPECIFICATION EitherSpec
CONSTANTS
  Phi = {p1, p2}
  Switch = {s1}
  Binary = {b1}
  Value = {v1, v2}
  Clonable = {p1, p2}
  MaxOperands = 3
  MaxUsers = 2
  Sizes <- UpTo70
  None = None
INVARIANTS ListsExact LeadsHome
PROPERTY OperandsKept
CHECK_DEADLOCK FALSE
SYMMETRY Symmetry
