SPECIFICATION Spec
CONSTANTS
  c1 = c1
  c2 = c2
  NULL = NULL
  Clients <- TwoClients
  Modes = {"listen"}
  MaxCommands = 0

PROPERTIES Served
CHECK_DEADLOCK FALSE
