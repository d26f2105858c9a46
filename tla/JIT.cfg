SPECIFICATION EitherSpec
CONSTANTS
  Threads = {t1, t2}
  NoThread = NoThread
  Functions = {"f", "g", "h"}
  Calls <- Program
  MaxAttempts = 2
  Function = {f1, f2}
  Sizes = {0, 7, 16}
  Used = {2, 5}
  Tables = TRUE
  Spaces <- SmallSpace
  MaxSpaces = 1
  SlabSize = 16
  MaxWords = 34
  NoBody = NoBody
INVARIANTS  CompiledOnce NothingDangles  CodeKept
PROPERTIES  EnoughSpace
CHECK_DEADLOCK FALSE
