SPECIFICATION RoundSpec
CONSTANTS
  SUnits = {1, 2, 3, 4, 5, 6, 7, 8, 9, 10}
  Size = 5
  Ways = {"clone", "copy", "unfold"}
  MaxEdges = 5
INVARIANTS FlagsIntact OrderKept
PROPERTY RoundsEnd
