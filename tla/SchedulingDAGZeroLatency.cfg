SPECIFICATION EitherSpec
CONSTANTS
  a = a  b = b  c = c
  data = data  order = order
  Nodes = {a, b, c}
  Deps <- ZeroLatencyDeps
  Raises = {}
  Lengths = {0, 1, 2}
  InitNodes = 1
  MaxNodes = 2
  Kinds = {data}
SYMMETRY Symmetry
INVARIANT DepthIsMaximumPath
