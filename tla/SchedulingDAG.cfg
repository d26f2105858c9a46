SPECIFICATION EitherSpec
CONSTANTS
  a = a  b = b  c = c
  data = data  order = order
  Nodes = {a, b, c}
  Deps <- NonZeroDeps
  Raises = {2, 4}
  Lengths = {0, 1, 2, 3, 4, 5, 6, 7, 8}
  InitNodes = 3
  MaxNodes = 4
  Kinds = {data, order}
SYMMETRY Symmetry
INVARIANTS CountersExact LengthsExact TopologicalOrder ReachableExact
PROPERTY StaysAcyclic
