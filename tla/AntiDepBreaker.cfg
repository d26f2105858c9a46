SPECIFICATION BlockSpec
CONSTANTS
  a = a  b = b  c = c   al = al  bl = bl
  v = v  w = w  Anywhere = Anywhere
  Regs = {a, b, c, al, bl}
  Units <- MCUnits
  Objects = {v, w}
  AllocationOrder <- MCOrder
  Allocatable = {a, b, c, al, bl}
  LiveOut = {c}
  InstrSets <- MCInstrSets
  Length = 5
INVARIANTS DataflowKept MapsConsistent
