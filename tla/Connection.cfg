SPECIFICATION Spec
CONSTANTS
  c1 = c1
  c2 = c2
  NULL = NULL
  Clients <- TwoClients
  Modes = {"listen", "wait", "pair"}
  MaxCommands = 1
INVARIANTS TypeOK NoLostWakeup Balanced TracedForClient
PROPERTIES HandOverSpec
CHECK_DEADLOCK FALSE
