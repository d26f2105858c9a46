SPECIFICATION Spec
CONSTANTS
  Registered <- Analyses
  Clients <- Some
CHECK_DEADLOCK FALSE
INVARIANTS   Released
