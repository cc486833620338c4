SPECIFICATION FairSpec
CONSTANTS
  p1 = p1
  p2 = p2
  p3 = p3
  NoPid = NoPid
  Pids <- PidSet3
  Scenarios <- ThreeThreads
INVARIANTS TypeOK Accounting AssertsHold QueueSound StepExclusive
PROPERTIES Resumed ExitReported
