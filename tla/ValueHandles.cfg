SPECIFICATION Spec
CONSTANTS
  Handles = {h1, h2, h3}
  Values = {v1, v2}
  Kinds = {"Assert", "Weak", "Callback"}
  MaxDepth = 2
  Nil = Nil
SYMMETRY Symmetry
INVARIANTS ListExact  
