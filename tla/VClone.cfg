SPECIFICATION Spec
CONSTANTS
  p1 = p1
  p2 = p2
  p3 = p3
  NoPid = NoPid
  Pids <- PidSet3
  Scenarios <- Cloning
INVARIANTS AssertsHold
