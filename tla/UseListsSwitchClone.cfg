SPECIFICATION EitherSpec
CONSTANTS
  Phi = {}
  Switch = {s1, s2}
  Binary = {}
  Value = {v1}
  Clonable = {s1, s2}
  MaxOperands = 3
  MaxUsers = 2
  Sizes = {1}
  None = None
INVARIANT WithinArray
CHECK_DEADLOCK FALSE
